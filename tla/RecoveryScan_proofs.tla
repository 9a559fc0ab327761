-------------------------- MODULE RecoveryScan_proofs --------------------------
(***************************************************************************)
(* What a recovery's identity indexes promise, for any WAL and ledger, any *)
(* allowance and numbers of files, any fan-in and buffers, and any number  *)
(* of recoveries, failures, kills and power losses: the verdict is exact,  *)
(* the scratch files stay within the allowance, no leftover is ever in the *)
(* way, a successful scan leaves none, and the one after a repair of the   *)
(* tail is refused nothing the one before it was granted.                  *)
(*                                                                         *)
(* ScanSound is inductive; what is known of the ledger comes from          *)
(* MaintenanceSound.  SecondSound adds what the two passes share.          *)
(***************************************************************************)
EXTENDS Maintenance_proofs

-------------------------------------------------------------------------------
(* Sums *)

Size(sizes, n) == IF n \in DOMAIN sizes THEN sizes[n] ELSE 0
UpTo(f, sizes, n) == Size(sizes, n) + (IF n = 0 THEN 0 ELSE f[n - 1])

LEMMA UpToExists ==
    ASSUME NEW sizes, NEW last \in Nat
    PROVE  \E f : f = [n \in 0..last |-> UpTo(f, sizes, n)]
<1> DEFINE good(m) == \E f : DOMAIN f = 0..m /\ f = [n \in 0..m |-> UpTo(f, sizes, n)]
           T == {m \in Nat : good(m)}
<1>1. 0 \in T
  <2>1. [n \in 0..0 |-> Size(sizes, n) + 0] = [n \in 0..0 |-> UpTo([k \in 0..0 |-> Size(sizes, k) + 0], sizes, n)]
        BY DEF UpTo
  <2> QED BY <2>1
<1>2. ASSUME NEW m \in T PROVE m + 1 \in T
  <2>1. PICK f : DOMAIN f = 0..m /\ f = [n \in 0..m |-> UpTo(f, sizes, n)]
        OBVIOUS
  <2> DEFINE g == [n \in 0..(m + 1) |-> IF n = m + 1 THEN UpTo(f, sizes, n) ELSE f[n]]
  <2>2. \A n \in 0..(m + 1) : UpTo(g, sizes, n) = UpTo(f, sizes, n)
        BY DEF UpTo
  <2>3. \A n \in 0..(m + 1) : g[n] = UpTo(f, sizes, n)
    <3>1. \A n \in 0..m : f[n] = UpTo(f, sizes, n)
          BY <2>1
    <3>2. \A n \in 0..(m + 1) : n = m + 1 \/ n \in 0..m
          OBVIOUS
    <3> QED BY <3>1, <3>2
  <2>4. g = [n \in 0..(m + 1) |-> g[n]] /\ DOMAIN g = 0..(m + 1)
        OBVIOUS
  <2> HIDE DEF g
  <2>5. g = [n \in 0..(m + 1) |-> UpTo(g, sizes, n)]
        BY <2>2, <2>3, <2>4
  <2> QED BY <2>4, <2>5
<1>3. T = Nat
      BY <1>1, <1>2, Induction
<1> QED BY <1>3

\* The sum, one number at a time, beginning with the first.
LEMMA SizesIs ==
    ASSUME NEW sizes, NEW last \in Nat
    PROVE  \E f : /\ Sizes(sizes, last) = f[last]
                  /\ f[0] = Size(sizes, 0) + 0
                  /\ \A n \in 1..last : f[n] = Size(sizes, n) + f[n - 1]
<1> DEFINE f == CHOOSE f : f = [n \in 0..last |-> UpTo(f, sizes, n)]
<1>1. Sizes(sizes, last) = f[last]
      BY DEF Sizes, UpTo, Size
<1>2. f = [n \in 0..last |-> UpTo(f, sizes, n)]
      BY UpToExists
<1> HIDE DEF f
<1>3. \A n \in 0..last : f[n] = UpTo(f, sizes, n)
      BY <1>2
<1>4. f[0] = Size(sizes, 0) + 0
      BY <1>3 DEF UpTo
<1>5. \A n \in 1..last : f[n] = Size(sizes, n) + f[n - 1]
      BY <1>3 DEF UpTo
<1> QED BY <1>1, <1>4, <1>5

\* So it is unfolded from the end.
LEMMA SizesUnfold ==
    ASSUME NEW sizes
    PROVE  /\ Sizes(sizes, 0) = Size(sizes, 0) + 0
           /\ \A last \in Nat : Sizes(sizes, last + 1) = Size(sizes, last + 1) + Sizes(sizes, last)
<1>1. Sizes(sizes, 0) = Size(sizes, 0) + 0
      BY SizesIs
<1>2. ASSUME NEW last \in Nat
      PROVE  Sizes(sizes, last + 1) = Size(sizes, last + 1) + Sizes(sizes, last)
  <2>1. PICK f : /\ Sizes(sizes, last + 1) = f[last + 1]
                 /\ f[0] = Size(sizes, 0) + 0
                 /\ \A n \in 1..(last + 1) : f[n] = Size(sizes, n) + f[n - 1]
        BY SizesIs
  <2>2. PICK g : /\ Sizes(sizes, last) = g[last]
                 /\ g[0] = Size(sizes, 0) + 0
                 /\ \A n \in 1..last : g[n] = Size(sizes, n) + g[n - 1]
        BY SizesIs
  <2> DEFINE T == {n \in Nat : n =< last => f[n] = g[n]}
  <2>3. 0 \in T
        BY <2>1, <2>2
  <2>4. ASSUME NEW n \in T PROVE n + 1 \in T
    <3> SUFFICES ASSUME n + 1 =< last PROVE f[n + 1] = g[n + 1]
        OBVIOUS
    <3>1. f[n] = g[n] /\ n + 1 \in 1..last /\ n + 1 \in 1..(last + 1) /\ (n + 1) - 1 = n
          OBVIOUS
    <3> QED BY <3>1, <2>1, <2>2
  <2> HIDE DEF T
  <2>5. T \in SUBSET Nat
        BY DEF T
  <2>6. last \in T
        BY <2>3, <2>4, <2>5, Induction
  <2>7. f[last] = g[last]
        BY <2>6 DEF T
  <2>8. f[last + 1] = Size(sizes, last + 1) + f[last]
        BY <2>1
  <2> QED BY <2>1, <2>2, <2>7, <2>8
<1> QED BY <1>1, <1>2

Natural(sizes) == \A n \in DOMAIN sizes : sizes[n] \in Nat

LEMMA SizesAreNatural ==
    ASSUME NEW sizes, Natural(sizes), NEW last \in Nat
    PROVE  Sizes(sizes, last) \in Nat
<1> DEFINE T == {n \in Nat : Sizes(sizes, n) \in Nat}
<1>0. \A n : Size(sizes, n) \in Nat
      BY DEF Size, Natural
<1>1. 0 \in T
      BY <1>0, SizesUnfold
<1>2. ASSUME NEW n \in T PROVE n + 1 \in T
  <2>1. Sizes(sizes, n + 1) = Size(sizes, n + 1) + Sizes(sizes, n)
        BY SizesUnfold
  <2> QED BY <1>0, <2>1
<1>3. T \in SUBSET Nat
      OBVIOUS
<1> HIDE DEF T
<1>4. last \in T
      BY <1>1, <1>2, <1>3, Induction
<1> QED BY <1>4 DEF T

\* No size is greater than another's of the same number, and the sums are not.
LEMMA SizesMonotone ==
    ASSUME NEW sizes, NEW others, Natural(sizes), Natural(others), NEW last \in Nat,
           \A n \in 0..last : Size(sizes, n) =< Size(others, n)
    PROVE  Sizes(sizes, last) =< Sizes(others, last)
<1> DEFINE T == {n \in Nat : n =< last => Sizes(sizes, n) =< Sizes(others, n)}
<1>0. \A n : Size(sizes, n) \in Nat /\ Size(others, n) \in Nat
      BY DEF Size, Natural
<1>1. 0 \in T
      BY <1>0, SizesUnfold
<1>2. ASSUME NEW n \in T PROVE n + 1 \in T
  <2> SUFFICES ASSUME n + 1 =< last PROVE Sizes(sizes, n + 1) =< Sizes(others, n + 1)
      OBVIOUS
  <2>1. Sizes(sizes, n) =< Sizes(others, n) /\ n + 1 \in 0..last
        OBVIOUS
  <2>2. Sizes(sizes, n) \in Nat /\ Sizes(others, n) \in Nat
        BY SizesAreNatural
  <2>3. Size(sizes, n + 1) =< Size(others, n + 1)
        BY <2>1
  <2> QED BY <1>0, <2>1, <2>2, <2>3, SizesUnfold
<1>3. T \in SUBSET Nat
      OBVIOUS
<1> HIDE DEF T
<1>4. last \in T
      BY <1>1, <1>2, <1>3, Induction
<1> QED BY <1>4 DEF T

LEMMA SizesSame ==
    ASSUME NEW sizes, NEW others, Natural(sizes), Natural(others), NEW last \in Nat,
           \A n \in 0..last : Size(sizes, n) = Size(others, n)
    PROVE  Sizes(sizes, last) = Sizes(others, last)
<1>1. \A n : Size(sizes, n) \in Nat /\ Size(others, n) \in Nat
      BY DEF Size, Natural
<1>2. Sizes(sizes, last) =< Sizes(others, last) /\ Sizes(others, last) =< Sizes(sizes, last)
      BY <1>1, SizesMonotone
<1> QED BY <1>2, SizesAreNatural

LEMMA NothingSized == \A last \in Nat : Sizes(NoFiles, last) = 0
<1> DEFINE T == {n \in Nat : Sizes(NoFiles, n) = 0}
<1>0. \A n : Size(NoFiles, n) = 0
      BY DEF Size, NoFiles
<1>1. 0 \in T
      BY <1>0, SizesUnfold
<1>2. ASSUME NEW n \in T PROVE n + 1 \in T
      BY <1>0, SizesUnfold
<1>3. T = Nat
      BY <1>1, <1>2, Induction
<1> QED BY <1>3

\* One of the numbers counts for more, by as much as is said.
LEMMA SizesPlus ==
    ASSUME NEW sizes, NEW others, Natural(sizes), Natural(others), NEW last \in Nat,
           NEW here \in 0..last, NEW more \in Nat,
           Size(others, here) = Size(sizes, here) + more,
           \A n \in 0..last : n # here => Size(sizes, n) = Size(others, n)
    PROVE  Sizes(others, last) = Sizes(sizes, last) + more
<1> DEFINE T == {n \in Nat : n =< last =>
                    Sizes(others, n) = Sizes(sizes, n) + (IF n < here THEN 0 ELSE more)}
<1>0. \A n : Size(sizes, n) \in Nat /\ Size(others, n) \in Nat
      BY DEF Size, Natural
<1>a. \A n \in Nat : Sizes(sizes, n) \in Nat /\ Sizes(others, n) \in Nat
      BY SizesAreNatural
<1>1. 0 \in T
  <2>1. Size(others, 0) = Size(sizes, 0) + (IF 0 < here THEN 0 ELSE more)
        BY <1>0
  <2> QED BY <1>0, <2>1, SizesUnfold
<1>2. ASSUME NEW n \in T PROVE n + 1 \in T
  <2> SUFFICES ASSUME n + 1 =< last
               PROVE  Sizes(others, n + 1) = Sizes(sizes, n + 1) + (IF n + 1 < here THEN 0 ELSE more)
      OBVIOUS
  <2>1. Sizes(others, n) = Sizes(sizes, n) + (IF n < here THEN 0 ELSE more)
        OBVIOUS
  <2>2. /\ Sizes(others, n + 1) = Size(others, n + 1) + Sizes(others, n)
        /\ Sizes(sizes, n + 1) = Size(sizes, n + 1) + Sizes(sizes, n)
        BY SizesUnfold
  <2>3. CASE n + 1 = here
    <3>1. Size(others, n + 1) = Size(sizes, n + 1) + more
          BY <2>3
    <3> QED BY <1>0, <1>a, <2>1, <2>2, <2>3, <3>1
  <2>4. CASE n + 1 # here
    <3>1. Size(others, n + 1) = Size(sizes, n + 1)
          BY <2>4
    <3> QED BY <1>0, <1>a, <2>1, <2>2, <2>4, <3>1
  <2> QED BY <2>3, <2>4
<1>3. T \in SUBSET Nat
      OBVIOUS
<1> HIDE DEF T
<1>4. last \in T
      BY <1>1, <1>2, <1>3, Induction
<1> QED BY <1>4 DEF T

-------------------------------------------------------------------------------
(* Numbered files *)

\* What the files numbered below n may hold.
Named(n, S) == UNION {[names -> S] : names \in SUBSET (0..(n - 1))}

LEMMA NamedIs ==
    ASSUME NEW n, NEW S, NEW f
    PROVE  f \in Named(n, S) <=> /\ f = [k \in DOMAIN f |-> f[k]]
                                 /\ DOMAIN f \subseteq 0..(n - 1)
                                 /\ \A k \in DOMAIN f : f[k] \in S
<1>1. ASSUME f \in Named(n, S)
      PROVE  /\ f = [k \in DOMAIN f |-> f[k]]
             /\ DOMAIN f \subseteq 0..(n - 1)
             /\ \A k \in DOMAIN f : f[k] \in S
  <2>1. PICK names \in SUBSET (0..(n - 1)) : f \in [names -> S]
        BY <1>1 DEF Named
  <2> QED BY <2>1
<1>2. ASSUME f = [k \in DOMAIN f |-> f[k]], DOMAIN f \subseteq 0..(n - 1), \A k \in DOMAIN f : f[k] \in S
      PROVE  f \in Named(n, S)
  <2>1. f \in [DOMAIN f -> S]
        BY <1>2
  <2>2. [DOMAIN f -> S] \in {[names -> S] : names \in SUBSET (0..(n - 1))}
        BY <1>2
  <2> QED BY <2>1, <2>2 DEF Named
<1> QED BY <1>1, <1>2

LEMMA NoFilesNamed == \A n, S : NoFiles \in Named(n, S) /\ DOMAIN NoFiles = {}
  BY NamedIs DEF NoFiles

LEMMA NothingNamed ==
    ASSUME NEW n, NEW S, NEW f \in Named(n, S), DOMAIN f = {}
    PROVE  f = NoFiles
<1>1. f = [k \in DOMAIN f |-> f[k]]
      BY NamedIs
<1> QED BY <1>1 DEF NoFiles

LEMMA WithIs ==
    ASSUME NEW f, NEW name, NEW value
    PROVE  /\ DOMAIN With(f, name, value) = DOMAIN f \cup {name}
           /\ With(f, name, value)[name] = value
           /\ \A k \in DOMAIN f : k # name => With(f, name, value)[k] = f[k]
           /\ With(f, name, value) = [k \in DOMAIN With(f, name, value) |-> With(f, name, value)[k]]
  BY DEF With

LEMMA WithoutIs ==
    ASSUME NEW f, NEW names
    PROVE  /\ DOMAIN Without(f, names) = DOMAIN f \ names
           /\ \A k \in DOMAIN f : k \notin names => Without(f, names)[k] = f[k]
           /\ Without(f, names) = [k \in DOMAIN Without(f, names) |-> Without(f, names)[k]]
  BY DEF Without

LEMMA NamedWith ==
    ASSUME NEW n, NEW S, NEW f \in Named(n, S), NEW name \in 0..(n - 1), NEW value \in S
    PROVE  With(f, name, value) \in Named(n, S)
<1>1. DOMAIN f \subseteq 0..(n - 1) /\ \A k \in DOMAIN f : f[k] \in S
      BY NamedIs
<1> DEFINE g == With(f, name, value)
<1>2. /\ DOMAIN g = DOMAIN f \cup {name} /\ g[name] = value
      /\ \A k \in DOMAIN f : k # name => g[k] = f[k]
      /\ g = [k \in DOMAIN g |-> g[k]]
      BY DEF With
<1> HIDE DEF g
<1>3. g \in Named(n, S)
      BY <1>1, <1>2, NamedIs
<1> QED BY <1>3 DEF g

LEMMA NamedWithout ==
    ASSUME NEW n, NEW S, NEW f \in Named(n, S), NEW names
    PROVE  Without(f, names) \in Named(n, S)
<1>1. DOMAIN f \subseteq 0..(n - 1) /\ \A k \in DOMAIN f : f[k] \in S
      BY NamedIs
<1> DEFINE g == Without(f, names)
<1>2. /\ DOMAIN g = DOMAIN f \ names
      /\ \A k \in DOMAIN f : k \notin names => g[k] = f[k]
      /\ g = [k \in DOMAIN g |-> g[k]]
      BY WithoutIs
<1> HIDE DEF g
<1>3. g \in Named(n, S)
      BY <1>1, <1>2, NamedIs
<1> QED BY <1>3 DEF g

LEMMA NamedNatural ==
    ASSUME NEW n, NEW f \in Named(n, Nat)
    PROVE  Natural(f)
  BY NamedIs DEF Natural

\* One more file.
LEMMA SizesWith ==
    ASSUME NEW n \in Nat, NEW f \in Named(n, Nat), NEW name \in 0..(n - 1), name \notin DOMAIN f, NEW more \in Nat
    PROVE  Sizes(With(f, name, more), n) = Sizes(f, n) + more
<1> DEFINE g == With(f, name, more)
<1>1. /\ DOMAIN g = DOMAIN f \cup {name} /\ g[name] = more
      /\ \A k \in DOMAIN f : k # name => g[k] = f[k]
      BY DEF With
<1>2. g \in Named(n, Nat)
      BY NamedWith
<1> HIDE DEF g
<1>3. Size(g, name) = Size(f, name) + more
      BY <1>1 DEF Size
<1>4. \A k \in 0..n : k # name => Size(f, k) = Size(g, k)
      BY <1>1 DEF Size
<1>5. name \in 0..n
      OBVIOUS
<1>6. Sizes(g, n) = Sizes(f, n) + more
      BY <1>2, <1>3, <1>4, <1>5, NamedNatural, SizesPlus
<1> QED BY <1>6 DEF g

LEMMA SizesWithout ==
    ASSUME NEW n \in Nat, NEW f \in Named(n, Nat), NEW names
    PROVE  Sizes(Without(f, names), n) =< Sizes(f, n)
<1> DEFINE g == Without(f, names)
<1>1. /\ DOMAIN g = DOMAIN f \ names
      /\ \A k \in DOMAIN f : k \notin names => g[k] = f[k]
      BY WithoutIs
<1>2. g \in Named(n, Nat)
      BY NamedWithout
<1> HIDE DEF g
<1>3. Natural(f) /\ Natural(g)
      BY <1>2, NamedNatural
<1>4. \A k \in 0..n : Size(g, k) =< Size(f, k)
  <2> SUFFICES ASSUME NEW k \in 0..n PROVE Size(g, k) =< Size(f, k)
      OBVIOUS
  <2>1. Size(f, k) \in Nat
        BY <1>3 DEF Size, Natural
  <2>2. Size(g, k) = Size(f, k) \/ Size(g, k) = 0
        BY <1>1, Zenon DEF Size
  <2> QED BY <2>1, <2>2
<1>5. Sizes(g, n) =< Sizes(f, n)
      BY <1>3, <1>4, SizesMonotone
<1> QED BY <1>5 DEF g

\* Beyond the numbers there are, nothing is added.
LEMMA SizesBeyond ==
    ASSUME NEW sizes, Natural(sizes), NEW few \in Nat, DOMAIN sizes \subseteq 0..few, NEW many \in Nat, few =< many
    PROVE  Sizes(sizes, many) = Sizes(sizes, few)
<1> DEFINE T == {n \in Nat : few =< n => Sizes(sizes, n) = Sizes(sizes, few)}
<1>a. \A n \in Nat : Sizes(sizes, n) \in Nat
      BY SizesAreNatural
<1>1. 0 \in T
      OBVIOUS
<1>2. ASSUME NEW n \in T PROVE n + 1 \in T
  <2> SUFFICES ASSUME few =< n + 1 PROVE Sizes(sizes, n + 1) = Sizes(sizes, few)
      OBVIOUS
  <2>1. CASE few = n + 1
        BY <2>1, Zenon
  <2>2. CASE few =< n
    <3>1. Size(sizes, n + 1) = 0
          BY <2>2 DEF Size
    <3>2. Sizes(sizes, n + 1) = Size(sizes, n + 1) + Sizes(sizes, n)
          BY SizesUnfold
    <3>3. Sizes(sizes, n) = Sizes(sizes, few)
          BY <2>2
    <3>4. Sizes(sizes, few) \in Nat
          BY <1>a
    <3> QED BY <3>1, <3>2, <3>3, <3>4
  <2> QED BY <2>1, <2>2
<1>3. T \in SUBSET Nat
      OBVIOUS
<1> HIDE DEF T
<1>4. many \in T
      BY <1>1, <1>2, <1>3, Induction
<1> QED BY <1>4 DEF T

-------------------------------------------------------------------------------
(* The merge *)

Recs == Nat \X Nat

Ascending(order, s) == \A a, b \in DOMAIN s : a < b => ~Before(order, s[b], s[a])

\* No record is in two runs, or twice in one.
Apart(all) ==
    \A i, j \in DOMAIN all : \A p \in DOMAIN all[i], q \in DOMAIN all[j] :
        all[i][p] = all[j][q] => i = j /\ p = q

LEMMA BeforeOrders ==
    ASSUME NEW order, NEW r \in Recs, NEW s \in Recs, NEW t \in Recs
    PROVE  /\ ~Before(order, r, r)
           /\ Before(order, r, s) => ~Before(order, s, r)
           /\ ~Before(order, s, r) /\ ~Before(order, t, s) => ~Before(order, t, r)
  BY DEF Before, Recs

LEMMA BeforeByKeys ==
    ASSUME NEW order, NEW r \in Recs, NEW s \in Recs
    PROVE  /\ r[1] < s[1] => Before(order, r, s)
           /\ r[1] = s[1] /\ order = "line" /\ r[2] < s[2] => Before(order, r, s)
           /\ r[1] = s[1] /\ order # "line" => ~Before(order, s, r)
           /\ r[1] = s[1] /\ r[2] = s[2] => ~Before(order, s, r)
  BY DEF Before, Recs

Positions(all) == [DOMAIN all -> Nat \ {0}]

\* Of the open inputs one leads.
LEMMA LeadExists ==
    ASSUME NEW order, NEW all \in Seq(Seq(Recs)), NEW at \in Positions(all), Unread(all, at) # {}
    PROVE  \E i \in Unread(all, at) : Leads(order, all, at, i)
<1> DEFINE U == Unread(all, at)
           head(i) == all[i][at[i]]
           keys == {head(i)[1] : i \in U}
<1>1. \A i \in U : head(i) \in Recs /\ i \in Nat
  <2> SUFFICES ASSUME NEW i \in U PROVE head(i) \in Recs /\ i \in Nat
      OBVIOUS
  <2>1. i \in DOMAIN all /\ at[i] =< Len(all[i]) /\ at[i] \in Nat \ {0} /\ all[i] \in Seq(Recs)
        BY DEF Unread, Positions
  <2> QED BY <2>1
<1>2. \A i \in U : head(i)[1] \in Nat /\ head(i)[2] \in Nat
      BY <1>1 DEF Recs
<1>3. keys \in SUBSET Nat /\ keys # {}
      BY <1>2
<1>4. PICK k \in keys : \A m \in keys : k =< m
      BY <1>3, Least
<1> DEFINE first == {i \in U : head(i)[1] = k}
           seconds == {head(i)[2] : i \in first}
<1>5. first # {} /\ seconds # {} /\ seconds \in SUBSET Nat
      BY <1>2, <1>4
<1>6. PICK l \in seconds : \A m \in seconds : l =< m
      BY <1>5, Least
<1> DEFINE least == {i \in first : order = "line" => head(i)[2] = l}
<1>7. least # {} /\ least \in SUBSET Nat
      BY <1>1, <1>5, <1>6
<1>8. PICK i \in least : \A m \in least : i =< m
      BY <1>7, Least
<1>9. i \in U /\ i \in Nat /\ head(i)[1] = k /\ (order = "line" => head(i)[2] = l)
      BY <1>1, <1>8
<1>10. ASSUME NEW j \in U \ {i}
       PROVE  Before(order, head(i), head(j)) \/ (i < j /\ ~Before(order, head(j), head(i)))
  <2>1. PICK r \in Recs : r = head(i)
        BY <1>1, <1>9
  <2>2. PICK s \in Recs : s = head(j)
        BY <1>1
  <2>3. /\ r[1] = k /\ (order = "line" => r[2] = l) /\ r[1] =< s[1]
        /\ r[1] \in Nat /\ s[1] \in Nat /\ r[2] \in Nat /\ s[2] \in Nat /\ i \in Nat /\ j \in Nat
        BY <1>1, <1>2, <1>4, <1>9, <2>1, <2>2
  <2>4. r[1] = s[1] => j \in first /\ l =< s[2]
        BY <1>6, <2>2, <2>3
  <2>5. r[1] = s[1] /\ (order = "line" => s[2] = l) => j \in least /\ i =< j
        BY <1>8, <2>2, <2>4
  <2> HIDE DEF least, first, seconds, keys, U, head
  <2>6. CASE r[1] < s[1]
        BY <2>1, <2>2, <2>6, BeforeByKeys
  <2>7. CASE r[1] = s[1] /\ order = "line" /\ l # s[2]
    <3>1. r[2] < s[2]
          BY <2>3, <2>4, <2>7
    <3> QED BY <2>1, <2>2, <2>7, <3>1, BeforeByKeys
  <2>8. CASE r[1] = s[1] /\ (order = "line" => s[2] = l)
    <3>1. i < j
          BY <2>3, <2>5, <2>8
    <3>2. ~Before(order, s, r)
          BY <2>3, <2>8, BeforeByKeys
    <3> QED BY <2>1, <2>2, <3>1, <3>2
  <2> QED BY <2>3, <2>6, <2>7, <2>8
<1> QED BY <1>9, <1>10 DEF Leads

StepOf(f, order, all, n) ==
    IF n = 0 THEN [pos |-> [i \in DOMAIN all |-> 1], out |-> << >>]
    ELSE Written(order, all, f[n - 1])

LEMMA StepsExist ==
    ASSUME NEW order, NEW all, NEW last \in Nat
    PROVE  \E f : f = [n \in 0..last |-> StepOf(f, order, all, n)]
<1> DEFINE good(m) == \E f : DOMAIN f = 0..m /\ f = [n \in 0..m |-> StepOf(f, order, all, n)]
           T == {m \in Nat : good(m)}
<1>1. 0 \in T
  <2> DEFINE g == [n \in 0..0 |-> [pos |-> [i \in DOMAIN all |-> 1], out |-> << >>]]
  <2>1. g = [n \in 0..0 |-> StepOf(g, order, all, n)]
        BY DEF StepOf
  <2> QED BY <2>1
<1>2. ASSUME NEW m \in T PROVE m + 1 \in T
  <2>1. PICK f : DOMAIN f = 0..m /\ f = [n \in 0..m |-> StepOf(f, order, all, n)]
        OBVIOUS
  <2> DEFINE g == [n \in 0..(m + 1) |-> IF n = m + 1 THEN StepOf(f, order, all, n) ELSE f[n]]
  <2>2. \A n \in 0..(m + 1) : StepOf(g, order, all, n) = StepOf(f, order, all, n)
        BY DEF StepOf
  <2>3. \A n \in 0..(m + 1) : g[n] = StepOf(f, order, all, n)
    <3>1. \A n \in 0..m : f[n] = StepOf(f, order, all, n)
          BY <2>1
    <3>2. \A n \in 0..(m + 1) : n = m + 1 \/ n \in 0..m
          OBVIOUS
    <3> QED BY <3>1, <3>2
  <2>4. g = [n \in 0..(m + 1) |-> g[n]] /\ DOMAIN g = 0..(m + 1)
        OBVIOUS
  <2> HIDE DEF g
  <2>5. g = [n \in 0..(m + 1) |-> StepOf(g, order, all, n)]
        BY <2>2, <2>3, <2>4
  <2> QED BY <2>4, <2>5
<1>3. T = Nat
      BY <1>1, <1>2, Induction
<1> QED BY <1>3

LEMMA MergedIs ==
    ASSUME NEW order, NEW all, SizeOf(all) \in Nat
    PROVE  \E f : /\ Merged(order, all) = f[SizeOf(all)].out
                  /\ f[0] = [pos |-> [i \in DOMAIN all |-> 1], out |-> << >>]
                  /\ \A n \in 1..SizeOf(all) : f[n] = Written(order, all, f[n - 1])
<1> DEFINE f == CHOOSE f : f = [n \in 0..SizeOf(all) |-> StepOf(f, order, all, n)]
<1>1. Merged(order, all) = f[SizeOf(all)].out
      BY DEF Merged, StepOf
<1>2. f = [n \in 0..SizeOf(all) |-> StepOf(f, order, all, n)]
      BY StepsExist
<1> HIDE DEF f
<1>3. \A n \in 0..SizeOf(all) : f[n] = StepOf(f, order, all, n)
      BY <1>2
<1>4. f[0] = [pos |-> [i \in DOMAIN all |-> 1], out |-> << >>]
      BY <1>3 DEF StepOf
<1>5. \A n \in 1..SizeOf(all) : f[n] = Written(order, all, f[n - 1])
      BY <1>3 DEF StepOf
<1> QED BY <1>1, <1>4, <1>5

\* How far each input has been read.
Progress(at) == [i \in DOMAIN at |-> at[i] - 1]

\* After n steps: what was read is in the output, and nothing else is.
MergeStands(all, at, out, n) ==
    /\ at \in Positions(all) /\ out \in Seq(Recs)
    /\ Len(out) = n /\ Sizes(Progress(at), Len(all)) = n
    /\ \A i \in DOMAIN all : at[i] =< Len(all[i]) + 1
    /\ \A q \in 1..n : \E i \in DOMAIN all : \E p \in 1..(at[i] - 1) : out[q] = all[i][p]
    /\ \A i \in DOMAIN all : \A p \in 1..(at[i] - 1) : \E q \in 1..n : out[q] = all[i][p]

\* It is in order, and not beyond anything still to be read.
MergeOrdered(order, all, at, out) ==
    /\ Ascending(order, out)
    /\ \A q \in DOMAIN out : \A i \in Unread(all, at) : ~Before(order, all[i][at[i]], out[q])

LEMMA MergeBegins ==
    ASSUME NEW order, NEW all \in Seq(Seq(Recs)), NEW at, at = [i \in DOMAIN all |-> 1]
    PROVE  MergeStands(all, at, << >>, 0) /\ MergeOrdered(order, all, at, << >>) /\ Injective(<< >>)
<1>1. at \in Positions(all) /\ << >> \in Seq(Recs) /\ Len(<< >>) = 0 /\ DOMAIN << >> = {}
      BY DEF Positions
<1>2. Sizes(Progress(at), Len(all)) = 0
  <2>1. \A i \in DOMAIN all : at[i] = 1
        OBVIOUS
  <2>2. DOMAIN at = DOMAIN all
        OBVIOUS
  <2>3. \A n : Size(Progress(at), n) = Size(NoFiles, n)
        BY <2>1, <2>2 DEF Size, NoFiles, Progress
  <2>4. Natural(Progress(at)) /\ Natural(NoFiles)
        BY <2>1, <2>2 DEF Natural, NoFiles, Progress
  <2> QED BY <2>3, <2>4, SizesSame, NothingSized
<1>3. \A i \in DOMAIN all : at[i] = 1 /\ all[i] \in Seq(Recs)
      OBVIOUS
<1>4. MergeStands(all, at, << >>, 0)
      BY <1>1, <1>2, <1>3 DEF MergeStands
<1>5. MergeOrdered(order, all, at, << >>) /\ Injective(<< >>)
      BY <1>1 DEF MergeOrdered, Ascending, Injective
<1> QED BY <1>4, <1>5

LEMMA SizeOfIsNat ==
    ASSUME NEW all \in Seq(Seq(Recs))
    PROVE  SizeOf(all) \in Nat
<1>1. Natural([i \in DOMAIN all |-> Len(all[i])])
      BY DEF Natural
<1> QED BY <1>1, SizesAreNatural DEF SizeOf

\* Before the last step something is left to read, and at the end nothing is.
LEMMA SomeUnread ==
    ASSUME NEW all \in Seq(Seq(Recs)), NEW n \in Nat, NEW at, NEW out, MergeStands(all, at, out, n)
    PROVE  n < SizeOf(all) => Unread(all, at) # {}
<1> SUFFICES ASSUME Unread(all, at) = {}, n < SizeOf(all) PROVE FALSE
    OBVIOUS
<1>2. \A i \in DOMAIN all : at[i] = Len(all[i]) + 1
  <2> SUFFICES ASSUME NEW i \in DOMAIN all PROVE at[i] = Len(all[i]) + 1
      OBVIOUS
  <2>1. at[i] \in Nat /\ Len(all[i]) \in Nat /\ at[i] =< Len(all[i]) + 1
        BY DEF MergeStands, Positions
  <2>2. ~(at[i] =< Len(all[i]))
        BY DEF Unread
  <2> QED BY <2>1, <2>2
<1>3. DOMAIN at = DOMAIN all /\ \A i \in DOMAIN all : Len(all[i]) \in Nat
      BY DEF Positions, MergeStands
<1> DEFINE lens == [i \in DOMAIN all |-> Len(all[i])]
<1>4. \A i : Size(Progress(at), i) = Size(lens, i)
      BY <1>2, <1>3 DEF Size, Progress
<1>5. Natural(Progress(at)) /\ Natural(lens)
      BY <1>2, <1>3 DEF Natural, Progress
<1>6. Sizes(Progress(at), Len(all)) = Sizes(lens, Len(all))
      BY <1>4, <1>5, SizesSame
<1>7. Sizes(lens, Len(all)) = SizeOf(all) /\ Sizes(Progress(at), Len(all)) = n
      BY DEF SizeOf, MergeStands
<1> QED BY <1>6, <1>7, SizeOfIsNat

Advanced(order, all, at, out, n, lead, ahead, longer) ==
    /\ ahead = [at EXCEPT ![lead] = @ + 1] /\ longer = Append(out, all[lead][at[lead]])
    /\ MergeStands(all, ahead, longer, n + 1)
    /\ (\A i \in DOMAIN all : Ascending(order, all[i])) /\ MergeOrdered(order, all, at, out)
         => MergeOrdered(order, all, ahead, longer)
    /\ Apart(all) /\ Injective(out) => Injective(longer)

LEMMA MergeAdvances ==
    ASSUME NEW order, NEW all \in Seq(Seq(Recs)), NEW n \in Nat,
           NEW at \in Positions(all), NEW out \in Seq(Recs), MergeStands(all, at, out, n),
           NEW lead \in Unread(all, at), Leads(order, all, at, lead)
    PROVE  \E ahead, longer : Advanced(order, all, at, out, n, lead, ahead, longer)
<1>4. /\ Len(out) = n /\ Sizes(Progress(at), Len(all)) = n
      /\ \A i \in DOMAIN all : at[i] \in Nat \ {0} /\ at[i] =< Len(all[i]) + 1
      /\ \A q \in 1..n : \E i \in DOMAIN all : \E p \in 1..(at[i] - 1) : out[q] = all[i][p]
      /\ \A i \in DOMAIN all : \A p \in 1..(at[i] - 1) : \E q \in 1..n : out[q] = all[i][p]
      BY DEF MergeStands, Positions
<1>5. /\ lead \in DOMAIN all /\ at[lead] =< Len(all[lead])
      /\ \A i \in DOMAIN all : all[i] \in Seq(Recs) /\ Len(all[i]) \in Nat /\ DOMAIN all[i] = 1..Len(all[i])
      /\ lead \in 0..Len(all)
      /\ DOMAIN at = DOMAIN all
  <2>1. lead \in DOMAIN all /\ at[lead] =< Len(all[lead])
        BY Zenon DEF Unread
  <2>2. DOMAIN at = DOMAIN all
        BY DEF Positions
  <2>3. \A i \in DOMAIN all : all[i] \in Seq(Recs)
        OBVIOUS
  <2>4. lead \in 0..Len(all)
    <3>1. DOMAIN all = 1..Len(all) /\ Len(all) \in Nat
          OBVIOUS
    <3>2. lead \in 1..Len(all)
          BY <2>1, <3>1
    <3> QED BY <3>1, <3>2
  <2>5. \A s \in Seq(Recs) : Len(s) \in Nat /\ DOMAIN s = 1..Len(s)
        OBVIOUS
  <2> QED BY <2>1, <2>2, <2>3, <2>4, <2>5, Zenon
<1>6. PICK r \in Recs : r = all[lead][at[lead]]
  <2>1. at[lead] \in 1..Len(all[lead])
        BY <1>4, <1>5
  <2> QED BY <1>5, <2>1
<1>a. PICK ahead : ahead = [at EXCEPT ![lead] = @ + 1]
      OBVIOUS
<1>7. /\ ahead \in Positions(all) /\ ahead[lead] = at[lead] + 1
      /\ \A i \in DOMAIN all : i # lead => ahead[i] = at[i]
  <2>1. ahead \in Positions(all)
        BY <1>4, <1>5, <1>a DEF Positions
  <2> QED BY <1>5, <1>a, <2>1
<1>b. PICK longer : longer = Append(out, all[lead][at[lead]])
      OBVIOUS
<1>8. /\ longer \in Seq(Recs) /\ Len(longer) = n + 1 /\ longer[n + 1] = r
      /\ \A q \in 1..n : longer[q] = out[q]
  <2>1. longer = Append(out, r)
        BY <1>6, <1>b
  <2> QED BY <1>4, <2>1
<1>9. Sizes(Progress(ahead), Len(all)) = n + 1
  <2>1. DOMAIN Progress(ahead) = DOMAIN all /\ DOMAIN Progress(at) = DOMAIN all
        BY <1>7 DEF Progress, Positions
  <2>2. \A i \in DOMAIN all : Progress(ahead)[i] = ahead[i] - 1 /\ Progress(at)[i] = at[i] - 1
        BY <1>7 DEF Progress, Positions
  <2>3. \A i \in DOMAIN all : ahead[i] \in Nat \ {0}
        BY <1>7 DEF Positions
  <2>4. Natural(Progress(ahead)) /\ Natural(Progress(at))
    <3>1. ASSUME NEW i \in DOMAIN all PROVE ahead[i] - 1 \in Nat /\ at[i] - 1 \in Nat
      <4>1. ahead[i] \in Nat \ {0} /\ at[i] \in Nat \ {0}
            BY <1>4, <2>3
      <4> QED BY <4>1
    <3> QED BY <2>1, <2>2, <3>1, Zenon DEF Natural
  <2>5. Size(Progress(ahead), lead) = Size(Progress(at), lead) + 1
        BY <1>4, <1>5, <1>7, <2>1, <2>2 DEF Size
  <2>6. \A i \in 0..Len(all) : i # lead => Size(Progress(at), i) = Size(Progress(ahead), i)
        BY <1>7, <2>1, <2>2 DEF Size
  <2>7. Len(all) \in Nat
        OBVIOUS
  <2>8. Sizes(Progress(ahead), Len(all)) = Sizes(Progress(at), Len(all)) + 1
    <3> DEFINE before == Progress(at)
               after == Progress(ahead)
               last == Len(all)
    <3>1. /\ Natural(before) /\ Natural(after) /\ last \in Nat /\ lead \in 0..last /\ 1 \in Nat
          /\ Size(after, lead) = Size(before, lead) + 1
          /\ \A i \in 0..last : i # lead => Size(before, i) = Size(after, i)
          BY <1>5, <2>4, <2>5, <2>6, <2>7, Zenon
    <3> HIDE DEF before, after, last
    <3>2. Sizes(after, last) = Sizes(before, last) + 1
          BY <3>1, SizesPlus
    <3> QED BY <3>2 DEF before, after, last
  <2> QED BY <1>4, <2>8
<1>10. MergeStands(all, ahead, longer, n + 1)
  <2>1. ASSUME NEW i \in DOMAIN all PROVE ahead[i] =< Len(all[i]) + 1
    <3>1. CASE i = lead
      <4>1. at[lead] \in Nat /\ Len(all[lead]) \in Nat /\ at[lead] =< Len(all[lead])
            BY <1>4, <1>5
      <4> QED BY <1>7, <3>1, <4>1
    <3>2. CASE i # lead
          BY <1>4, <1>7, <3>2
    <3> QED BY <3>1, <3>2
  <2>2. ASSUME NEW q \in 1..(n + 1)
        PROVE  \E i \in DOMAIN all : \E p \in 1..(ahead[i] - 1) : longer[q] = all[i][p]
    <3>1. CASE q = n + 1
      <4>1. at[lead] \in 1..(ahead[lead] - 1)
            BY <1>4, <1>5, <1>7
      <4> QED BY <1>5, <1>6, <1>8, <3>1, <4>1
    <3>2. CASE q \in 1..n
      <4>1. PICK i \in DOMAIN all : \E p \in 1..(at[i] - 1) : out[q] = all[i][p]
            BY <1>4, <3>2
      <4>2. PICK p \in 1..(at[i] - 1) : out[q] = all[i][p]
            BY <4>1
      <4>3. p \in 1..(ahead[i] - 1)
        <5>1. at[i] \in Nat
              BY <1>4
        <5>2. ahead[i] = at[i] \/ ahead[i] = at[i] + 1
              BY <1>7
        <5> QED BY <5>1, <5>2
      <4> QED BY <1>8, <3>2, <4>2, <4>3
    <3> QED BY <3>1, <3>2
  <2>3. ASSUME NEW i \in DOMAIN all, NEW p \in 1..(ahead[i] - 1)
        PROVE  \E q \in 1..(n + 1) : longer[q] = all[i][p]
    <3>1. CASE i = lead /\ p = at[lead]
      <4>1. n + 1 \in 1..(n + 1) /\ longer[n + 1] = all[i][p]
            BY <1>6, <1>8, <3>1
      <4> QED BY <4>1
    <3>2. CASE ~(i = lead /\ p = at[lead])
      <4>1. p \in 1..(at[i] - 1)
            BY <1>4, <1>5, <1>7, <3>2
      <4>2. PICK q \in 1..n : out[q] = all[i][p]
            BY <1>4, <4>1
      <4>3. q \in 1..(n + 1)
            OBVIOUS
      <4> QED BY <1>8, <4>2, <4>3
    <3> QED BY <3>1, <3>2
  <2> QED BY <1>7, <1>8, <1>9, <2>1, <2>2, <2>3 DEF MergeStands
<1>11. ASSUME \A i \in DOMAIN all : Ascending(order, all[i]), MergeOrdered(order, all, at, out)
       PROVE  MergeOrdered(order, all, ahead, longer)
  <2>0. DOMAIN out = 1..n
        BY <1>4
  <2>1. /\ \A a, b \in 1..n : a < b => ~Before(order, out[b], out[a])
        /\ \A q \in 1..n : \A i \in Unread(all, at) : ~Before(order, all[i][at[i]], out[q])
        BY <1>11, <2>0, Zenon DEF MergeOrdered, Ascending
  <2>2. \A q \in 1..n : ~Before(order, r, out[q])
        BY <1>6, <2>1
  <2>3. \A q \in 1..n : out[q] \in Recs
        BY <1>4
  <2>6. DOMAIN longer = 1..(n + 1)
        BY <1>8
  <2>4. Ascending(order, longer)
    <3> SUFFICES ASSUME NEW a \in 1..(n + 1), NEW b \in 1..(n + 1), a < b
                 PROVE  ~Before(order, longer[b], longer[a])
        BY <2>6, Zenon DEF Ascending
    <3>1. a \in 1..n /\ (b = n + 1 \/ b \in 1..n)
          OBVIOUS
    <3> QED BY <1>8, <2>1, <2>2, <3>1
  <2>5. ASSUME NEW q \in 1..(n + 1), NEW i \in Unread(all, ahead)
        PROVE  ~Before(order, all[i][ahead[i]], longer[q])
    <3>1. i \in DOMAIN all /\ ahead[i] =< Len(all[i]) /\ ahead[i] \in Nat \ {0}
          BY <1>7 DEF Unread, Positions
    <3>2. PICK s \in Recs : s = all[i][ahead[i]]
      <4>1. ahead[i] \in 1..Len(all[i])
            BY <1>5, <3>1
      <4> QED BY <1>5, <3>1, <4>1
    <3>3. ~Before(order, s, r)
      <4>1. CASE i = lead
        <5>1. at[lead] \in DOMAIN all[lead] /\ ahead[lead] \in DOMAIN all[lead] /\ at[lead] < ahead[lead]
              BY <1>4, <1>5, <1>7, <3>1, <4>1
        <5> QED BY <1>5, <1>6, <1>11, <3>2, <4>1, <5>1 DEF Ascending
      <4>2. CASE i # lead
        <5>1. ahead[i] = at[i] /\ i \in Unread(all, at)
              BY <1>7, <3>1, <4>2 DEF Unread
        <5>2. Before(order, r, s) \/ ~Before(order, s, r)
              BY <1>6, <3>2, <4>2, <5>1 DEF Leads
        <5> QED BY <5>2, BeforeOrders
      <4> QED BY <4>1, <4>2
    <3>4. CASE q = n + 1
          BY <1>8, <3>2, <3>3, <3>4
    <3>5. CASE q \in 1..n
          BY <1>8, <2>2, <2>3, <3>2, <3>3, <3>5, BeforeOrders
    <3> QED BY <3>4, <3>5
  <2> QED BY <2>4, <2>5, <2>6, Zenon DEF MergeOrdered
<1>12. ASSUME Apart(all), Injective(out) PROVE Injective(longer)
  <2>1. ASSUME NEW q \in 1..n PROVE out[q] # r
    <3>1. PICK i \in DOMAIN all : \E p \in 1..(at[i] - 1) : out[q] = all[i][p]
          BY <1>4
    <3>2. PICK p \in 1..(at[i] - 1) : out[q] = all[i][p]
          BY <3>1
    <3>3. p \in DOMAIN all[i] /\ at[lead] \in DOMAIN all[lead] /\ p < at[i]
      <4>1. at[i] \in Nat \ {0} /\ at[i] =< Len(all[i]) + 1 /\ Len(all[i]) \in Nat
            BY <1>4, <1>5
      <4>2. p \in 1..Len(all[i]) /\ p < at[i]
            BY <4>1
      <4>3. at[lead] \in 1..Len(all[lead])
        <5>1. at[lead] \in Nat \ {0} /\ at[lead] =< Len(all[lead]) /\ Len(all[lead]) \in Nat
              BY <1>4, <1>5
        <5> QED BY <5>1
      <4> QED BY <1>5, <4>2, <4>3
    <3>4. out[q] = r => i = lead /\ p = at[lead]
      <4>1. lead \in DOMAIN all
            BY <1>5
      <4>2. all[i][p] = all[lead][at[lead]] => i = lead /\ p = at[lead]
            BY <1>12, <3>3, <4>1 DEF Apart
      <4> QED BY <1>6, <3>2, <4>2, Zenon
    <3>5. ~(i = lead /\ p = at[lead])
      <4>1. at[i] \in Nat /\ p \in Nat /\ p < at[i]
            BY <1>4, <3>3
      <4> QED BY <4>1
    <3> QED BY <3>4, <3>5
  <2>0. DOMAIN out = 1..n
        BY <1>4
  <2>2. \A a, b \in 1..n : out[a] = out[b] => a = b
        BY <1>12, <2>0 DEF Injective
  <2>3. DOMAIN longer = 1..(n + 1)
        BY <1>8
  <2>4. ASSUME NEW a \in 1..(n + 1), NEW b \in 1..(n + 1), longer[a] = longer[b] PROVE a = b
    <3>1. (a = n + 1 \/ a \in 1..n) /\ (b = n + 1 \/ b \in 1..n)
          OBVIOUS
    <3> QED BY <1>8, <2>1, <2>2, <2>4, <3>1
  <2> QED BY <2>3, <2>4, Zenon DEF Injective
<1> QED BY <1>a, <1>b, <1>10, <1>11, <1>12 DEF Advanced

\* No more is read than there is.
LEMMA MergeBounded ==
    ASSUME NEW all \in Seq(Seq(Recs)), NEW n \in Nat, NEW at, NEW out, MergeStands(all, at, out, n)
    PROVE  n =< SizeOf(all)
<1> DEFINE lens == [i \in DOMAIN all |-> Len(all[i])]
<1>1. \A i \in DOMAIN all : at[i] \in Nat \ {0} /\ at[i] - 1 =< Len(all[i]) /\ Len(all[i]) \in Nat
  <2> SUFFICES ASSUME NEW i \in DOMAIN all
               PROVE  at[i] \in Nat \ {0} /\ at[i] - 1 =< Len(all[i]) /\ Len(all[i]) \in Nat
      OBVIOUS
  <2>1. at[i] \in Nat \ {0} /\ Len(all[i]) \in Nat /\ at[i] =< Len(all[i]) + 1
        BY DEF MergeStands, Positions
  <2> QED BY <2>1
<1>2. DOMAIN at = DOMAIN all
      BY DEF MergeStands, Positions
<1>3. DOMAIN Progress(at) = DOMAIN all /\ \A i \in DOMAIN all : Progress(at)[i] = at[i] - 1
      BY <1>2 DEF Progress
<1>4. DOMAIN lens = DOMAIN all /\ \A i \in DOMAIN all : lens[i] = Len(all[i])
      OBVIOUS
<1> HIDE DEF lens
<1>a. \A i \in DOMAIN all : at[i] - 1 \in Nat
      BY <1>1
<1>5. Natural(Progress(at)) /\ Natural(lens)
      BY <1>1, <1>3, <1>4, <1>a, Zenon DEF Natural
<1>6. \A i \in 0..Len(all) : Size(Progress(at), i) =< Size(lens, i)
  <2> SUFFICES ASSUME NEW i \in 0..Len(all) PROVE Size(Progress(at), i) =< Size(lens, i)
      OBVIOUS
  <2>1. CASE i \in DOMAIN all
    <3>1. Size(Progress(at), i) = at[i] - 1 /\ Size(lens, i) = Len(all[i])
          BY <1>3, <1>4, <2>1, Zenon DEF Size
    <3> QED BY <1>1, <2>1, <3>1
  <2>2. CASE i \notin DOMAIN all
    <3>1. Size(Progress(at), i) = 0 /\ Size(lens, i) = 0
          BY <1>3, <1>4, <2>2, Zenon DEF Size
    <3> QED BY <3>1
  <2> QED BY <2>1, <2>2
<1>7. Len(all) \in Nat
      OBVIOUS
<1>8. Sizes(Progress(at), Len(all)) =< Sizes(lens, Len(all))
      BY <1>5, <1>6, <1>7, SizesMonotone
<1> QED BY <1>8 DEF lens, MergeStands, SizeOf

\* At the end everything was read.
LEMMA MergeEnds ==
    ASSUME NEW all \in Seq(Seq(Recs)), NEW at, NEW out, MergeStands(all, at, out, SizeOf(all))
    PROVE  \A i \in DOMAIN all : at[i] = Len(all[i]) + 1
<1> DEFINE n == SizeOf(all)
<1>1. n \in Nat /\ at \in Positions(all) /\ out \in Seq(Recs)
      BY SizeOfIsNat DEF MergeStands
<1>2. Unread(all, at) = {}
  <2> SUFFICES ASSUME Unread(all, at) # {} PROVE FALSE
      OBVIOUS
  <2>1. PICK lead \in Unread(all, at) : Leads("line", all, at, lead)
        BY <1>1, LeadExists
  <2>2. PICK front, whole : Advanced("line", all, at, out, n, lead, front, whole)
    <3> HIDE DEF n
    <3>1. MergeStands(all, at, out, n)
          BY DEF n
    <3> QED BY <1>1, <2>1, <3>1, MergeAdvances
  <2>3. n + 1 =< SizeOf(all)
    <3> HIDE DEF n
    <3>1. n + 1 \in Nat
          BY <1>1
    <3>2. MergeStands(all, front, whole, n + 1)
          BY <2>2 DEF Advanced
    <3> QED BY <3>1, <3>2, MergeBounded
  <2> QED BY <1>1, <2>3
<1> SUFFICES ASSUME NEW i \in DOMAIN all PROVE at[i] = Len(all[i]) + 1
    OBVIOUS
<1>3. at[i] \in Nat /\ Len(all[i]) \in Nat /\ at[i] =< Len(all[i]) + 1
      BY DEF MergeStands, Positions
<1>4. ~(at[i] =< Len(all[i]))
      BY <1>2 DEF Unread
<1> QED BY <1>3, <1>4

\* A merge writes every record of its inputs and no other, as often as it is
\* there; of sorted inputs, in order.
LEMMA MergedFacts ==
    ASSUME NEW order, NEW all \in Seq(Seq(Recs))
    PROVE  /\ Merged(order, all) \in Seq(Recs) /\ Len(Merged(order, all)) = SizeOf(all)
           /\ \A r : r \in Entries(Merged(order, all)) <=> \E i \in DOMAIN all : r \in Entries(all[i])
           /\ (\A i \in DOMAIN all : Ascending(order, all[i])) => Ascending(order, Merged(order, all))
           /\ Apart(all) => Injective(Merged(order, all))
<1> DEFINE total == SizeOf(all)
           sorted == \A i \in DOMAIN all : Ascending(order, all[i])
           good(s, n) == \E at, out :
               /\ s = [pos |-> at, out |-> out] /\ MergeStands(all, at, out, n)
               /\ sorted => MergeOrdered(order, all, at, out)
               /\ Apart(all) => Injective(out)
<1>1. total \in Nat
      BY SizeOfIsNat
<1>2. PICK f : /\ Merged(order, all) = f[total].out
               /\ f[0] = [pos |-> [i \in DOMAIN all |-> 1], out |-> << >>]
               /\ \A n \in 1..total : f[n] = Written(order, all, f[n - 1])
      BY <1>1, MergedIs
<1> DEFINE T == {n \in Nat : n =< total => good(f[n], n)}
<1>3. 0 \in T
  <2>1. good(f[0], 0)
        BY <1>2, MergeBegins
  <2> HIDE DEF good
  <2> QED BY <2>1
<1> HIDE DEF good, total, sorted
<1>4. ASSUME NEW n \in T PROVE n + 1 \in T
  <2> SUFFICES ASSUME n + 1 =< total PROVE good(f[n + 1], n + 1)
      BY DEF T
  <2>0. n \in Nat /\ n < total /\ n + 1 \in 1..total /\ (n + 1) - 1 = n
        BY <1>1
  <2>1. good(f[n], n)
    <3>1. n =< total => good(f[n], n)
          BY Zenon DEF T
    <3> QED BY <1>1, <2>0, <3>1
  <2>2. PICK at, out : /\ f[n] = [pos |-> at, out |-> out] /\ MergeStands(all, at, out, n)
                       /\ sorted => MergeOrdered(order, all, at, out)
                       /\ Apart(all) => Injective(out)
        BY <2>1 DEF good
  <2>3. f[n + 1] = Written(order, all, f[n])
        BY <1>2, <2>0
  <2>4. at \in Positions(all) /\ out \in Seq(Recs)
        BY <2>2 DEF MergeStands
  <2>5. Unread(all, at) # {}
        BY <2>0, <2>2, SomeUnread DEF total
  <2> DEFINE lead == CHOOSE i \in Unread(all, at) : Leads(order, all, at, i)
  <2>6. lead \in Unread(all, at) /\ Leads(order, all, at, lead)
        BY <2>4, <2>5, LeadExists
  <2>7. f[n + 1] = [pos |-> [at EXCEPT ![lead] = @ + 1], out |-> Append(out, all[lead][at[lead]])]
        BY <2>2, <2>3 DEF Written
  <2> HIDE DEF lead
  <2>8. PICK ahead, longer : Advanced(order, all, at, out, n, lead, ahead, longer)
    <3>1. n \in Nat /\ MergeStands(all, at, out, n)
          BY <2>0, <2>2
    <3> QED BY <2>4, <2>6, <3>1, MergeAdvances
  <2>9. f[n + 1] = [pos |-> ahead, out |-> longer]
        BY <2>7, <2>8 DEF Advanced
  <2> QED BY <2>2, <2>8, <2>9 DEF good, sorted, Advanced
<1>5. T \in SUBSET Nat
      OBVIOUS
<1> HIDE DEF T
<1>6. total \in T
      BY <1>1, <1>3, <1>4, <1>5, Induction
<1>7. good(f[total], total)
      BY <1>1, <1>6 DEF T
<1>8. PICK at, out : /\ f[total] = [pos |-> at, out |-> out] /\ MergeStands(all, at, out, total)
                     /\ sorted => MergeOrdered(order, all, at, out)
                     /\ Apart(all) => Injective(out)
      BY <1>7 DEF good
<1>9. Merged(order, all) = out
      BY <1>2, <1>8
<1>10. out \in Seq(Recs) /\ Len(out) = total /\ DOMAIN out = 1..total
       BY <1>8 DEF MergeStands
<1>11. \A i \in DOMAIN all : at[i] = Len(all[i]) + 1 /\ DOMAIN all[i] = 1..(at[i] - 1)
  <2> SUFFICES ASSUME NEW i \in DOMAIN all PROVE at[i] = Len(all[i]) + 1 /\ DOMAIN all[i] = 1..(at[i] - 1)
      OBVIOUS
  <2>1. at[i] = Len(all[i]) + 1
        BY <1>8, MergeEnds DEF total
  <2>2. Len(all[i]) \in Nat /\ DOMAIN all[i] = 1..Len(all[i])
        OBVIOUS
  <2> QED BY <2>1, <2>2
<1>12. \A r : r \in Entries(out) <=> \E i \in DOMAIN all : r \in Entries(all[i])
  <2>1. ASSUME NEW r \in Entries(out) PROVE \E i \in DOMAIN all : r \in Entries(all[i])
    <3>1. PICK q \in 1..total : r = out[q]
          BY <1>10 DEF Entries
    <3>2. PICK i \in DOMAIN all : \E p \in 1..(at[i] - 1) : out[q] = all[i][p]
          BY <1>8 DEF MergeStands
    <3> QED BY <1>11, <3>1, <3>2 DEF Entries
  <2>2. ASSUME NEW i \in DOMAIN all, NEW r \in Entries(all[i]) PROVE r \in Entries(out)
    <3>1. PICK p \in 1..(at[i] - 1) : r = all[i][p]
          BY <1>11 DEF Entries
    <3>2. \E q \in 1..total : out[q] = all[i][p]
          BY <1>8 DEF MergeStands
    <3> QED BY <1>10, <3>1, <3>2 DEF Entries
  <2> QED BY <2>1, <2>2
<1>13. sorted => Ascending(order, out)
       BY <1>8 DEF MergeOrdered
<1> QED BY <1>8, <1>9, <1>10, <1>12, <1>13 DEF total, sorted

\* Sorting gives the records in order, each as often as it was there.
LEMMA SortedRecordsFacts ==
    ASSUME NEW order, NEW records \in Seq(Recs)
    PROVE  /\ SortedRecords(order, records) \in Seq(Recs)
           /\ Len(SortedRecords(order, records)) = Len(records)
           /\ Entries(SortedRecords(order, records)) = Entries(records)
           /\ Ascending(order, SortedRecords(order, records))
           /\ Injective(records) => Injective(SortedRecords(order, records))
<1> DEFINE all == [i \in DOMAIN records |-> <<records[i]>>]
<1>1. all \in Seq(Seq(Recs)) /\ DOMAIN all = DOMAIN records /\ Len(all) = Len(records)
  <2>1. \A r \in Recs : <<r>> \in Seq(Recs)
        OBVIOUS
  <2>2. \A i \in 1..Len(records) : <<records[i]>> \in Seq(Recs)
        BY <2>1
  <2>3. all \in [1..Len(records) -> Seq(Recs)] /\ Len(records) \in Nat /\ DOMAIN records = 1..Len(records)
        BY <2>2
  <2> HIDE DEF all
  <2> QED BY <2>3
<1>2. \A i \in DOMAIN all : /\ DOMAIN all[i] = {1} /\ all[i][1] = records[i] /\ Len(all[i]) = 1
                            /\ records[i] \in Recs
      OBVIOUS
<1>3. SortedRecords(order, records) = Merged(order, all)
      BY DEF SortedRecords
<1> HIDE DEF all
<1>4. SizeOf(all) = Len(records)
  <2> DEFINE ones == [i \in DOMAIN all |-> Len(all[i])]
             T == {n \in Nat : n =< Len(records) => Sizes(ones, n) = n}
  <2>0. DOMAIN ones = 1..Len(records) /\ \A i \in 1..Len(records) : ones[i] = 1
        BY <1>1, <1>2
  <2>1. SizeOf(all) = Sizes(ones, Len(records))
        BY <1>1 DEF SizeOf
  <2> HIDE DEF ones
  <2>2. 0 \in T
    <3>1. Size(ones, 0) = 0
          BY <2>0 DEF Size
    <3> QED BY <3>1, SizesUnfold
  <2>3. ASSUME NEW n \in T PROVE n + 1 \in T
    <3> SUFFICES ASSUME n + 1 =< Len(records) PROVE Sizes(ones, n + 1) = n + 1
        OBVIOUS
    <3>0. Len(records) \in Nat
          OBVIOUS
    <3>1. n + 1 \in 1..Len(records)
          BY <3>0
    <3>2. Size(ones, n + 1) = 1
          BY <2>0, <3>1 DEF Size
    <3>3. Sizes(ones, n) = n
          BY <3>0
    <3>4. Sizes(ones, n + 1) = Size(ones, n + 1) + Sizes(ones, n)
          BY SizesUnfold
    <3> QED BY <3>2, <3>3, <3>4
  <2>4. T \in SUBSET Nat /\ Len(records) \in Nat
        OBVIOUS
  <2> HIDE DEF T
  <2>5. Len(records) \in T
        BY <2>2, <2>3, <2>4, Induction
  <2> QED BY <2>1, <2>4, <2>5 DEF T
<1>5. \A i \in DOMAIN all : Ascending(order, all[i])
  <2> SUFFICES ASSUME NEW i \in DOMAIN all PROVE Ascending(order, all[i])
      OBVIOUS
  <2> QED BY <1>2 DEF Ascending
<1>6. Injective(records) => Apart(all)
      BY <1>1, <1>2 DEF Injective, Apart
<1>7. \A r : r \in Entries(records) <=> \E i \in DOMAIN all : r \in Entries(all[i])
  <2>1. \A i \in DOMAIN all : Entries(all[i]) = {records[i]}
        BY <1>2 DEF Entries
  <2> QED BY <1>1, <2>1 DEF Entries
<1>8. /\ Merged(order, all) \in Seq(Recs) /\ Len(Merged(order, all)) = SizeOf(all)
      /\ \A r : r \in Entries(Merged(order, all)) <=> \E i \in DOMAIN all : r \in Entries(all[i])
      /\ (\A i \in DOMAIN all : Ascending(order, all[i])) => Ascending(order, Merged(order, all))
      /\ Apart(all) => Injective(Merged(order, all))
      BY <1>1, MergedFacts
<1> QED BY <1>3, <1>4, <1>5, <1>6, <1>7, <1>8

-------------------------------------------------------------------------------
(* What a recovery keeps true *)

Names(p) == Entries(p.outputs) \cup Entries(p.todo)
NamesApart(p) == Injective(p.outputs) /\ Injective(p.todo) /\ Entries(p.outputs) \cap Entries(p.todo) = {}
Passes == [todo : Seq(Nat), outputs : Seq(Nat)]

WalRecords == {Record(i) : i \in DOMAIN wal}

\* Neither ended nor refused: an error that was returned leads to an abort only.
Live == Scanning /\ (At("returned") => call.answer = "ok")

Stages(op) ==
    CASE op = "index record" -> {"index record", "index flush", "returned"}
      [] op = "history record" -> {"history record", "history flush", "returned"}
      [] op = "index verify" ->
            {"index verify", "index flush", "index merge", "index merging", "index unlink", "returned"}
      [] op = "history verify" ->
            {"history verify", "history flush", "history merge", "history merging", "history cleanup", "returned"}
      [] OTHER -> {op}
Ops == {"index record", "history record", "index verify", "history verify"}
Recording == call.op \in {"index record", "history record"}

CallFormed ==
    /\ call = [op |-> call.op, at |-> call.at, record |-> call.record, answer |-> call.answer]
    /\ call.answer \in {"none", "ok", "corrupt", "resource-limit", "failed"}
    /\ Scanning => /\ call.op \in Ops /\ call.at \in Stages(call.op)
                   /\ At("returned") => call.answer # "none"
                   /\ Recording => \E i \in DOMAIN wal : call.record = Record(i)
    /\ ~Scanning => call = NoCall

InputSound ==
    /\ allowance \in Nat /\ wal \in Seq(Nat) /\ receipts \in Seq(Nat) /\ Increasing(receipts)
    /\ kind \in {"file", "missing"} /\ (kind = "missing" => wal = << >>)

IndexStates ==
    [opened : {"no", "swept", "yes"}, buffer : Seq(Recs), runs : Seq(Nat), next : Nat,
     watermark : 0..(IndexNames - 1), owned : Named(IndexNames, Nat), pass : Passes]

IndexOpen ==
    /\ call.at \in {"index flush", "index merge", "index merging", "index unlink"} => index.opened = "yes"
    /\ index.opened # "yes" => index.owned = NoFiles /\ index.buffer = << >> /\ index.runs = << >> /\ index.next = 0
    /\ index.opened = "swept" => manifest = << >> /\ indexRuns = NoFiles

\* A file never holds more than it is accounted for.
IndexAccounted ==
    index.opened = "yes" =>
        /\ Sizes(index.owned, IndexNames) + 1 =< allowance
        /\ \A f \in DOMAIN indexRuns : Len(indexRuns[f]) =< Size(index.owned, f)

\* Which files there are, and that they hold records of the WAL.
IndexFiles ==
    Live /\ index.opened = "yes" =>
        /\ DOMAIN index.owned \subseteq DOMAIN indexRuns /\ DOMAIN indexRuns \subseteq 0..(index.next - 1)
        /\ Entries(index.buffer) \subseteq WalRecords
        /\ \A f \in DOMAIN indexRuns : Entries(indexRuns[f]) \subseteq WalRecords
        /\ Recording \/ call.at \in {"index verify", "index flush"} =>
              Injective(index.runs) /\ Entries(index.runs) \subseteq DOMAIN index.owned

\* The runs of a pass are files of their own, and while a group is unlinked
\* the others and its output still are there.
IndexPass ==
    /\ call.at \in {"index merge", "index merging"} =>
          NamesApart(index.pass) /\ Names(index.pass) \subseteq DOMAIN index.owned
    /\ call.at = "index merging" =>
          /\ index.runs # << >> /\ MergeOutput \in DOMAIN indexRuns \ DOMAIN index.owned
          /\ Fits(GroupBytes)
    /\ call.at = "index unlink" =>
          /\ NamesApart(index.pass) /\ index.runs # << >> /\ MergeOutput \in DOMAIN index.owned \ Names(index.pass)
          /\ Names(index.pass) \ Entries(Group(index.pass)) \subseteq DOMAIN index.owned

IndexSound ==
    /\ index \in IndexStates /\ indexRuns \in Named(IndexNames, Seq(Recs))
    /\ ~Scanning => index = IndexClosed
    /\ IndexOpen /\ IndexAccounted /\ IndexFiles /\ IndexPass

HistoryStates ==
    [swept : BOOLEAN, buffer : Seq(Recs), runs : Seq(Nat), next : Nat, owned : Named(HistoryNames, Nat),
     pass : Passes, outcome : {"ok", "corrupt", "resource-limit"}]

HistorySwept ==
    /\ call.at \in {"history flush", "history merge", "history merging", "history cleanup"} => history.swept
    /\ ~history.swept => history.owned = NoFiles /\ history.buffer = << >> /\ history.runs = << >> /\ history.next = 0

HistoryAccounted ==
    history.swept =>
        /\ Sizes(history.owned, HistoryNames) =< allowance
        /\ \A f \in DOMAIN historyRuns : Len(historyRuns[f]) =< Size(history.owned, f)

HistoryFiles ==
    Live /\ history.swept =>
        DOMAIN historyRuns \subseteq DOMAIN history.owned /\ DOMAIN history.owned \subseteq 0..(history.next - 1)

\* How many records the history has been given.
Delivered ==
    IF call.op = "index record" \/ call.at = "history record" THEN call.record[2] - 1
    ELSE IF call.op = "history record" THEN call.record[2] ELSE Len(wal)

\* Each of them is in the buffer or in one of the runs, once, and the runs are sorted.
HistoryHolds(names) ==
    /\ \A f \in names : /\ f \in DOMAIN history.owned /\ f \in DOMAIN historyRuns
                        /\ history.owned[f] = Len(historyRuns[f])
                        /\ Ascending("identity", historyRuns[f]) /\ Injective(historyRuns[f])
                        /\ Entries(history.buffer) \cap Entries(historyRuns[f]) = {}
    /\ \A f, g \in names : f # g => Entries(historyRuns[f]) \cap Entries(historyRuns[g]) = {}
    /\ Injective(history.buffer)
    /\ \A r : r \in {Record(i) : i \in 1..Delivered} <=>
                 r \in Entries(history.buffer) \/ \E f \in names : r \in Entries(historyRuns[f])

HistoryRecords ==
    /\ Live /\ (call.op # "history verify" \/ call.at \in {"history verify", "history flush"}) =>
          HistoryHolds(Entries(history.runs)) /\ Injective(history.runs)
    /\ call.at \in {"history merge", "history merging"} =>
          /\ history.buffer = << >>
          /\ HistoryHolds(Names(history.pass)) /\ NamesApart(history.pass)
    /\ call.at = "history merging" =>
          /\ history.next # 0 /\ history.next - 1 \in DOMAIN historyRuns \ Names(history.pass)
          /\ history.owned[history.next - 1] = GroupReserved

\* What a verification found, and that its success leaves nothing, if there was
\* a file to scan.
HistoryFound ==
    /\ call.at = "history cleanup" => /\ history.outcome = "ok" => CommitsOnce
                                      /\ history.outcome = "corrupt" => ~CommitsOnce
    /\ Returned("history verify", "ok") =>
          CommitsOnce /\ history.owned = NoFiles /\ (kind = "file" => historyRuns = NoFiles)

HistorySound ==
    /\ history \in HistoryStates /\ historyRuns \in Named(HistoryNames, Seq(Recs))
    /\ ~Scanning => history = HistoryFresh
    /\ HistorySwept /\ HistoryAccounted /\ HistoryFiles /\ HistoryRecords /\ HistoryFound

VerdictSound ==
    /\ call.answer = "corrupt" => ~CommitsOnce
    /\ verdict = "published" => CommitsOnce /\ (kind = "file" => historyRuns = NoFiles)
    /\ verdict = "corrupt" => ~CommitsOnce
    /\ verdict # "in the way"

ScanSound == InputSound /\ CallFormed /\ IndexSound /\ HistorySound /\ VerdictSound

-------------------------------------------------------------------------------
(* Generations *)

LEMMA GroupFacts ==
    ASSUME NEW p \in Passes
    PROVE  /\ Group(p) \in Seq(Nat) /\ Len(Group(p)) \in Nat /\ Len(Group(p)) =< FanIn
           /\ Len(Group(p)) =< Len(p.todo) /\ DOMAIN Group(p) = 1..Len(Group(p))
           /\ \A i \in DOMAIN Group(p) : i \in DOMAIN p.todo /\ Group(p)[i] = p.todo[i]
           /\ Entries(Group(p)) \subseteq Entries(p.todo)
<1>1. PICK todo \in Seq(Nat) : todo = p.todo
      BY DEF Passes
<1>2. PICK m : m = IF Len(todo) < FanIn THEN Len(todo) ELSE FanIn
      OBVIOUS
<1>3. m \in Nat /\ m =< FanIn /\ m =< Len(todo)
      BY <1>2, FanInOK
<1>4. PICK g : g = SubSeq(todo, 1, m)
      OBVIOUS
<1>5. g = Group(p)
      BY <1>1, <1>2, <1>4 DEF Group
<1>6. DOMAIN todo = 1..Len(todo) /\ Len(todo) \in Nat
      OBVIOUS
<1>7. g \in Seq(Nat) /\ Len(g) = m /\ DOMAIN g = 1..m /\ \A i \in 1..m : g[i] = todo[i]
      BY <1>3, <1>4
<1>8. \A i \in 1..m : i \in DOMAIN todo
      BY <1>3, <1>6
<1>9. Entries(g) \subseteq Entries(todo)
      BY <1>7, <1>8 DEF Entries
<1> QED BY <1>1, <1>3, <1>5, <1>7, <1>8, <1>9

\* The runs behind a group.
Rest(p) == SubSeq(p.todo, Len(Group(p)) + 1, Len(p.todo))

LEMMA RestFacts ==
    ASSUME NEW p \in Passes, NamesApart(p)
    PROVE  /\ Rest(p) \in Seq(Nat) /\ Injective(Rest(p))
           /\ Entries(Rest(p)) = Entries(p.todo) \ Entries(Group(p))
<1>1. PICK todo \in Seq(Nat) : todo = p.todo
      BY DEF Passes
<1>2. PICK m \in Nat : m = Len(Group(p)) /\ m =< Len(todo) /\ DOMAIN Group(p) = 1..m
      BY <1>1, GroupFacts
<1>3. PICK rest : rest = SubSeq(todo, m + 1, Len(todo))
      OBVIOUS
<1>4. rest = Rest(p)
      BY <1>1, <1>2, <1>3 DEF Rest
<1>5. DOMAIN todo = 1..Len(todo) /\ Len(todo) \in Nat
      OBVIOUS
<1>6. /\ rest \in Seq(Nat) /\ DOMAIN rest = 1..(Len(todo) - m)
      /\ \A j \in 1..(Len(todo) - m) : rest[j] = todo[m + j]
  <2>1. \A i \in (m + 1)..Len(todo) : i \in 1..Len(todo) /\ todo[i] \in Nat
        BY <1>2, <1>5
  <2>2. rest = [i \in 1..((Len(todo) - (m + 1)) + 1) |-> todo[(i + (m + 1)) - 1]]
        BY <1>2, <1>3, <1>5
  <2>3. (Len(todo) - (m + 1)) + 1 = Len(todo) - m /\ Len(todo) - m \in Nat
        BY <1>2, <1>5
  <2>4. \A i \in 1..(Len(todo) - m) : (i + (m + 1)) - 1 = m + i /\ m + i \in (m + 1)..Len(todo)
        BY <1>2, <1>5
  <2>5. rest = [i \in 1..(Len(todo) - m) |-> todo[m + i]]
        BY <2>2, <2>3, <2>4
  <2>6. rest \in [1..(Len(todo) - m) -> Nat]
        BY <2>1, <2>4, <2>5
  <2> QED BY <2>3, <2>5, <2>6
<1>7. \A i, j \in DOMAIN todo : todo[i] = todo[j] => i = j
      BY <1>1 DEF NamesApart, Injective
<1>8. Injective(rest)
  <2> SUFFICES ASSUME NEW i \in 1..(Len(todo) - m), NEW j \in 1..(Len(todo) - m), rest[i] = rest[j]
               PROVE  i = j
      BY <1>6, Zenon DEF Injective
  <2>1. m + i \in DOMAIN todo /\ m + j \in DOMAIN todo
        BY <1>2, <1>5
  <2>2. m + i = m + j
        BY <1>6, <1>7, <2>1
  <2> QED BY <1>2, <2>2
<1>9. Entries(rest) \subseteq Entries(todo) \ Entries(Group(p))
  <2> SUFFICES ASSUME NEW j \in 1..(Len(todo) - m) PROVE rest[j] \in Entries(todo) \ Entries(Group(p))
      BY <1>6 DEF Entries
  <2>1. m + j \in DOMAIN todo /\ m + j \in Nat
        BY <1>2, <1>5
  <2>2. rest[j] = todo[m + j] /\ rest[j] \in Entries(todo)
        BY <1>6, <2>1 DEF Entries
  <2>3. ASSUME NEW i \in 1..m, rest[j] = Group(p)[i] PROVE FALSE
    <3>1. i \in DOMAIN todo /\ Group(p)[i] = todo[i]
          BY <1>1, <1>2, GroupFacts
    <3>2. i = m + j
          BY <1>7, <2>1, <2>2, <2>3, <3>1
    <3> QED BY <1>2, <3>2
  <2> QED BY <1>2, <2>2, <2>3 DEF Entries
<1>10. ASSUME NEW x \in Entries(todo), x \notin Entries(Group(p)) PROVE x \in Entries(rest)
  <2>1. PICK i \in 1..Len(todo) : x = todo[i]
        BY <1>5 DEF Entries
  <2>2. i \notin 1..m
    <3> SUFFICES ASSUME i \in 1..m PROVE FALSE
        OBVIOUS
    <3>1. Group(p)[i] = todo[i]
          BY <1>1, <1>2, GroupFacts
    <3> QED BY <1>2, <1>10, <2>1, <3>1 DEF Entries
  <2>3. i - m \in 1..(Len(todo) - m) /\ m + (i - m) = i
        BY <1>2, <1>5, <2>2
  <2>4. rest[i - m] = todo[i]
        BY <1>6, <2>3
  <2> QED BY <1>6, <2>1, <2>3, <2>4 DEF Entries
<1> QED BY <1>1, <1>4, <1>6, <1>8, <1>9, <1>10

LEMMA ConcatFacts ==
    ASSUME NEW S, NEW s \in Seq(S), NEW t \in Seq(S)
    PROVE  /\ s \o t \in Seq(S) /\ Entries(s \o t) = Entries(s) \cup Entries(t)
           /\ Injective(s) /\ Injective(t) /\ Entries(s) \cap Entries(t) = {} => Injective(s \o t)
<1>1. PICK u : u = s \o t
      OBVIOUS
<1>2. /\ Len(s) \in Nat /\ Len(t) \in Nat /\ DOMAIN s = 1..Len(s) /\ DOMAIN t = 1..Len(t)
      OBVIOUS
<1>3. /\ u \in Seq(S) /\ DOMAIN u = 1..(Len(s) + Len(t))
      /\ \A i \in 1..(Len(s) + Len(t)) : u[i] = IF i =< Len(s) THEN s[i] ELSE t[i - Len(s)]
      BY <1>1, <1>2
<1>4. \A i \in 1..Len(s) : i \in DOMAIN u /\ u[i] = s[i]
      BY <1>2, <1>3
<1>5. \A i \in 1..Len(t) : Len(s) + i \in DOMAIN u /\ u[Len(s) + i] = t[i]
  <2> SUFFICES ASSUME NEW i \in 1..Len(t) PROVE Len(s) + i \in DOMAIN u /\ u[Len(s) + i] = t[i]
      OBVIOUS
  <2>1. Len(s) + i \in 1..(Len(s) + Len(t)) /\ ~(Len(s) + i =< Len(s)) /\ (Len(s) + i) - Len(s) = i
        BY <1>2
  <2> QED BY <1>3, <2>1
<1>6. \A i \in DOMAIN u : \/ i \in 1..Len(s) /\ u[i] = s[i]
                          \/ i - Len(s) \in 1..Len(t) /\ u[i] = t[i - Len(s)]
  <2> SUFFICES ASSUME NEW i \in 1..(Len(s) + Len(t))
               PROVE  \/ i \in 1..Len(s) /\ u[i] = s[i]
                      \/ i - Len(s) \in 1..Len(t) /\ u[i] = t[i - Len(s)]
      BY <1>3
  <2>1. CASE i =< Len(s)
        BY <1>2, <1>3, <2>1
  <2>2. CASE ~(i =< Len(s))
    <3>1. i - Len(s) \in 1..Len(t)
          BY <1>2, <2>2
    <3> QED BY <1>3, <2>2, <3>1
  <2> QED BY <2>1, <2>2
<1>7. Entries(u) \subseteq Entries(s) \cup Entries(t)
      BY <1>2, <1>6 DEF Entries
<1>8. Entries(s) \subseteq Entries(u) /\ Entries(t) \subseteq Entries(u)
      BY <1>2, <1>4, <1>5 DEF Entries
<1>9. ASSUME Injective(s), Injective(t), Entries(s) \cap Entries(t) = {} PROVE Injective(u)
  <2> SUFFICES ASSUME NEW i \in DOMAIN u, NEW j \in DOMAIN u, u[i] = u[j] PROVE i = j
      BY Zenon DEF Injective
  <2>1. i \in Nat /\ j \in Nat
        BY <1>3
  <2>2. CASE i \in 1..Len(s) /\ j \in 1..Len(s)
        BY <1>2, <1>4, <1>9, <2>2 DEF Injective
  <2>3. CASE i - Len(s) \in 1..Len(t) /\ j - Len(s) \in 1..Len(t) /\ u[i] = t[i - Len(s)] /\ u[j] = t[j - Len(s)]
    <3>1. i - Len(s) = j - Len(s)
          BY <1>2, <1>9, <2>3 DEF Injective
    <3> QED BY <1>2, <2>1, <3>1
  <2>4. CASE i \in 1..Len(s) /\ j - Len(s) \in 1..Len(t) /\ u[j] = t[j - Len(s)]
    <3>1. u[i] \in Entries(s) /\ u[j] \in Entries(t)
          BY <1>2, <1>4, <2>4 DEF Entries
    <3> QED BY <1>9, <3>1
  <2>5. CASE j \in 1..Len(s) /\ i - Len(s) \in 1..Len(t) /\ u[i] = t[i - Len(s)]
    <3>1. u[j] \in Entries(s) /\ u[i] \in Entries(t)
          BY <1>2, <1>4, <2>5 DEF Entries
    <3> QED BY <1>9, <3>1
  <2> QED BY <1>6, <2>2, <2>3, <2>4, <2>5
<1> QED BY <1>1, <1>3, <1>7, <1>8, <1>9

LEMMA AppendFacts ==
    ASSUME NEW S, NEW s \in Seq(S), NEW o \in S
    PROVE  /\ Append(s, o) \in Seq(S) /\ Entries(Append(s, o)) = Entries(s) \cup {o}
           /\ Injective(s) /\ o \notin Entries(s) => Injective(Append(s, o))
<1>1. PICK one : one = <<o>>
      OBVIOUS
<1>2. one \in Seq(S) /\ DOMAIN one = {1} /\ one[1] = o
      BY <1>1
<1>3. Append(s, o) = s \o one
  <2>1. Append(s, o) = s \o <<o>>
        OBVIOUS
  <2> QED BY <1>1, <2>1, Zenon
<1>4. Entries(one) = {o}
      BY <1>2 DEF Entries
<1>5. \A i, j \in DOMAIN one : i = j
      BY <1>2
<1>6. Injective(one)
      BY <1>5, Zenon DEF Injective
<1>7. /\ s \o one \in Seq(S) /\ Entries(s \o one) = Entries(s) \cup {o}
      /\ Injective(s) /\ Entries(s) \cap {o} = {} => Injective(s \o one)
      BY <1>2, <1>4, <1>6, ConcatFacts
<1>8. o \notin Entries(s) => Entries(s) \cap {o} = {}
      OBVIOUS
<1> QED BY <1>3, <1>7, <1>8, Zenon

\* A group has become one run: the others are as they were.
LEMMA GroupDoneFacts ==
    ASSUME NEW p \in Passes, NamesApart(p), NEW o \in Nat, o \notin Names(p)
    PROVE  /\ GroupDone(p, o) \in Passes /\ NamesApart(GroupDone(p, o))
           /\ Names(GroupDone(p, o)) = (Names(p) \ Entries(Group(p))) \cup {o}
<1>a. p.outputs \in Seq(Nat)
      BY DEF Passes
<1>0. Append(p.outputs, o) \in Seq(Nat)
      BY <1>a
<1>1. PICK outputs \in Seq(Nat) : outputs = Append(p.outputs, o)
      BY <1>0
<1>2. /\ p.outputs \in Seq(Nat) /\ p.todo \in Seq(Nat)
      /\ Injective(p.outputs) /\ Entries(p.outputs) \cap Entries(p.todo) = {}
      /\ o \notin Entries(p.outputs) /\ o \notin Entries(p.todo)
      BY DEF Passes, NamesApart, Names
<1>3. Entries(outputs) = Entries(p.outputs) \cup {o} /\ Injective(outputs)
      BY <1>1, <1>2, AppendFacts
<1>4. PICK rest \in Seq(Nat) : /\ rest = Rest(p) /\ Injective(rest)
                               /\ Entries(rest) = Entries(p.todo) \ Entries(Group(p))
      BY RestFacts
<1>5. Entries(outputs) \cap Entries(rest) = {} /\ Entries(Group(p)) \subseteq Entries(p.todo)
      BY <1>2, <1>3, <1>4, GroupFacts
<1>6. PICK done : done = GroupDone(p, o)
      OBVIOUS
<1>7. done = IF Len(rest) =< 1 THEN FirstPass(outputs \o rest) ELSE [todo |-> rest, outputs |-> outputs]
      BY <1>1, <1>4, <1>6 DEF GroupDone, Rest
<1>8. CASE Len(rest) =< 1
  <2>0. outputs \o rest \in Seq(Nat)
        OBVIOUS
  <2>a. Entries(outputs) \cap Entries(rest) = {} /\ Injective(outputs) /\ Injective(rest)
        BY <1>3, <1>4, <1>5
  <2>b. Injective(outputs \o rest) /\ Entries(outputs \o rest) = Entries(outputs) \cup Entries(rest)
        BY <2>a, ConcatFacts
  <2>1. PICK both \in Seq(Nat) : /\ both = outputs \o rest /\ Injective(both)
                                 /\ Entries(both) = Entries(outputs) \cup Entries(rest)
        BY <2>0, <2>b
  <2>2. done = [todo |-> both, outputs |-> << >>]
        BY <1>7, <1>8, <2>1 DEF FirstPass
  <2>3. << >> \in Seq(Nat) /\ Entries(<< >>) = {} /\ Injective(<< >>)
        BY DEF Entries, Injective
  <2>4. done \in Passes /\ done.todo = both /\ done.outputs = << >>
        BY <2>1, <2>2, <2>3 DEF Passes
  <2>5. NamesApart(done)
        BY <2>1, <2>3, <2>4 DEF NamesApart
  <2>6. Names(done) = (Names(p) \ Entries(Group(p))) \cup {o}
        BY <1>2, <1>3, <1>4, <1>5, <2>1, <2>3, <2>4 DEF Names
  <2> QED BY <1>6, <2>4, <2>5, <2>6
<1>9. CASE ~(Len(rest) =< 1)
  <2>1. done = [todo |-> rest, outputs |-> outputs]
        BY <1>7, <1>9
  <2>2. done \in Passes /\ done.todo = rest /\ done.outputs = outputs
        BY <2>1 DEF Passes
  <2>3. NamesApart(done)
        BY <1>3, <1>4, <1>5, <2>2 DEF NamesApart
  <2>4. Names(done) = (Names(p) \ Entries(Group(p))) \cup {o}
        BY <1>2, <1>3, <1>4, <1>5, <2>2 DEF Names
  <2> QED BY <1>6, <2>2, <2>3, <2>4
<1> QED BY <1>8, <1>9

LEMMA FirstPassFacts ==
    ASSUME NEW s \in Seq(Nat)
    PROVE  /\ FirstPass(s) \in Passes /\ Names(FirstPass(s)) = Entries(s)
           /\ FirstPass(s).todo = s /\ FirstPass(s).outputs = << >>
           /\ Injective(s) => NamesApart(FirstPass(s))
<1>1. << >> \in Seq(Nat) /\ Entries(<< >>) = {} /\ Injective(<< >>)
      BY DEF Entries, Injective
<1>2. FirstPass(s) \in Passes /\ FirstPass(s).todo = s /\ FirstPass(s).outputs = << >>
      BY <1>1 DEF FirstPass, Passes
<1> QED BY <1>1, <1>2 DEF Names, NamesApart

\* The runs of some files.
Contents(files, runsOf) == [i \in DOMAIN files |-> runsOf[files[i]]]

LEMMA ContentsFacts ==
    ASSUME NEW files \in Seq(Nat), NEW n, NEW runsOf \in Named(n, Seq(Recs)), Entries(files) \subseteq DOMAIN runsOf
    PROVE  /\ Contents(files, runsOf) \in Seq(Seq(Recs)) /\ Len(Contents(files, runsOf)) = Len(files)
           /\ DOMAIN Contents(files, runsOf) = DOMAIN files
           /\ \A i \in DOMAIN files : Contents(files, runsOf)[i] = runsOf[files[i]]
<1>1. DOMAIN files = 1..Len(files) /\ Len(files) \in Nat
      OBVIOUS
<1>2. \A k \in DOMAIN runsOf : runsOf[k] \in Seq(Recs)
      BY NamedIs
<1>3. \A i \in 1..Len(files) : runsOf[files[i]] \in Seq(Recs)
      BY <1>1, <1>2 DEF Entries
<1>4. PICK c : c = Contents(files, runsOf)
      OBVIOUS
<1>5. c \in [1..Len(files) -> Seq(Recs)] /\ \A i \in DOMAIN files : c[i] = runsOf[files[i]]
      BY <1>1, <1>3, <1>4 DEF Contents
<1>6. c \in Seq(Seq(Recs)) /\ Len(c) = Len(files) /\ DOMAIN c = DOMAIN files
      BY <1>1, <1>5
<1> QED BY <1>4, <1>5, <1>6

\* What is accounted for a group is at least what its merge holds, and just
\* that where its files are as long as they are accounted for.
LEMMA GroupSizes ==
    ASSUME NEW p \in Passes, NEW n, NEW runsOf \in Named(n, Seq(Recs)), NEW owned \in Named(n, Nat),
           Entries(Group(p)) \subseteq DOMAIN runsOf, Entries(Group(p)) \subseteq DOMAIN owned
    PROVE  /\ GroupSize(p, owned) \in Nat
           /\ (\A f \in Entries(Group(p)) : Len(runsOf[f]) =< owned[f]) =>
                 SizeOf(Contents(Group(p), runsOf)) =< GroupSize(p, owned)
           /\ (\A f \in Entries(Group(p)) : owned[f] = Len(runsOf[f])) =>
                 SizeOf(Contents(Group(p), runsOf)) = GroupSize(p, owned)
<1>1. PICK g \in Seq(Nat) : g = Group(p) /\ Len(g) \in Nat /\ Len(g) =< FanIn /\ DOMAIN g = 1..Len(g)
      BY GroupFacts
<1>2. PICK c \in Seq(Seq(Recs)) : /\ c = Contents(g, runsOf) /\ Len(c) = Len(g) /\ DOMAIN c = DOMAIN g
                                  /\ \A i \in DOMAIN g : c[i] = runsOf[g[i]]
      BY <1>1, ContentsFacts
<1>3. \A k \in DOMAIN owned : owned[k] \in Nat
      BY NamedIs
<1>4. \A i \in DOMAIN g : g[i] \in Entries(g)
      BY DEF Entries
<1>5. PICK lens : lens = [i \in DOMAIN c |-> Len(c[i])]
      OBVIOUS
<1>6. PICK held : held = [i \in DOMAIN g |-> owned[g[i]]]
      OBVIOUS
<1>7. \A i \in DOMAIN c : Len(c[i]) \in Nat
      OBVIOUS
<1>8. Natural(lens) /\ DOMAIN lens = DOMAIN g /\ \A i \in DOMAIN g : lens[i] = Len(c[i])
      BY <1>2, <1>5, <1>7 DEF Natural
<1>9. Natural(held) /\ DOMAIN held = DOMAIN g /\ \A i \in DOMAIN g : held[i] = owned[g[i]]
      BY <1>1, <1>3, <1>4, <1>6 DEF Natural
<1>10. FanIn \in Nat
       BY FanInOK
<1>11. GroupSize(p, owned) = Sizes(held, FanIn)
       BY <1>1, <1>6 DEF GroupSize
<1>12. SizeOf(c) = Sizes(lens, FanIn)
  <2>1. SizeOf(c) = Sizes(lens, Len(g))
        BY <1>2, <1>5 DEF SizeOf
  <2>2. DOMAIN lens \subseteq 0..Len(g)
        BY <1>1, <1>8
  <2>3. Sizes(lens, FanIn) = Sizes(lens, Len(g))
        BY <1>1, <1>8, <1>10, <2>2, SizesBeyond
  <2> QED BY <2>1, <2>3
<1>13. GroupSize(p, owned) \in Nat
       BY <1>9, <1>10, <1>11, SizesAreNatural
<1>14. ASSUME \A f \in Entries(g) : Len(runsOf[f]) =< owned[f] PROVE Sizes(lens, FanIn) =< Sizes(held, FanIn)
  <2>1. \A i \in DOMAIN g : lens[i] =< held[i]
    <3> TAKE i \in DOMAIN g
    <3>1. lens[i] = Len(c[i]) /\ c[i] = runsOf[g[i]] /\ held[i] = owned[g[i]] /\ g[i] \in Entries(g)
          BY <1>2, <1>4, <1>8, <1>9, Zenon
    <3> QED BY <1>14, <3>1, Zenon
  <2>2. \A i \in 0..FanIn : Size(lens, i) =< Size(held, i)
        BY <1>8, <1>9, <2>1 DEF Size
  <2> QED BY <1>8, <1>9, <1>10, <2>2, SizesMonotone
<1>15. ASSUME \A f \in Entries(g) : owned[f] = Len(runsOf[f]) PROVE Sizes(lens, FanIn) = Sizes(held, FanIn)
  <2>1. \A i \in DOMAIN g : lens[i] = held[i]
    <3> TAKE i \in DOMAIN g
    <3>1. lens[i] = Len(c[i]) /\ c[i] = runsOf[g[i]] /\ held[i] = owned[g[i]] /\ g[i] \in Entries(g)
          BY <1>2, <1>4, <1>8, <1>9, Zenon
    <3> QED BY <1>15, <3>1, Zenon
  <2>2. \A i \in 0..FanIn : Size(lens, i) = Size(held, i)
        BY <1>8, <1>9, <2>1 DEF Size
  <2> QED BY <1>8, <1>9, <1>10, <2>2, SizesSame
<1> QED BY <1>1, <1>2, <1>11, <1>12, <1>13, <1>14, <1>15

-------------------------------------------------------------------------------
(* What a verification decides *)

\* In a sorted run an identity that comes again comes next.
LEMMA NotRepeated ==
    ASSUME NEW run \in Seq(Recs), Ascending("identity", run), ~Repeated(run)
    PROVE  \A a, b \in DOMAIN run : a < b => run[a][1] < run[b][1]
<1> SUFFICES ASSUME NEW a \in DOMAIN run, NEW b \in DOMAIN run, a < b PROVE run[a][1] < run[b][1]
    OBVIOUS
<1>1. DOMAIN run = 1..Len(run) /\ Len(run) \in Nat
      OBVIOUS
<1>2. \A i \in DOMAIN run : run[i][1] \in Nat
  <2>1. \A i \in DOMAIN run : run[i] \in Recs
        BY <1>1
  <2>2. \A r \in Recs : r[1] \in Nat
        BY DEF Recs
  <2> QED BY <2>1, <2>2
<1>3. a \in 1..(Len(run) - 1) /\ a + 1 \in DOMAIN run
      BY <1>1
<1>4. run[a][1] < run[a + 1][1]
  <2>1. ~(run[a + 1][1] =< run[a][1])
        BY <1>3, Zenon DEF Repeated
  <2>2. run[a][1] \in Nat /\ run[a + 1][1] \in Nat
        BY <1>2, <1>3, Zenon
  <2> QED BY <2>1, <2>2
<1>5. run[a + 1][1] =< run[b][1]
  <2>1. CASE b = a + 1
        BY <1>2, <1>3, <2>1
  <2>2. CASE b # a + 1
    <3>1. a + 1 < b
          BY <1>1, <2>2
    <3>2. ~Before("identity", run[b], run[a + 1])
          BY <1>3, <3>1 DEF Ascending
    <3>3. ~(run[b][1] < run[a + 1][1])
          BY <3>2 DEF Before
    <3> QED BY <1>2, <1>3, <3>3
  <2> QED BY <2>1, <2>2
<1> QED BY <1>2, <1>3, <1>4, <1>5

LEMMA RepeatedMeans ==
    ASSUME NEW run \in Seq(Recs), Ascending("identity", run), Injective(run), Repeated(run)
    PROVE  \E r, s \in Entries(run) : r # s /\ r[1] = s[1]
<1>1. DOMAIN run = 1..Len(run) /\ Len(run) \in Nat
      OBVIOUS
<1>2. PICK i \in 1..(Len(run) - 1) : run[i + 1][1] =< run[i][1]
      BY DEF Repeated
<1>3. i \in DOMAIN run /\ i + 1 \in DOMAIN run /\ i < i + 1 /\ i # i + 1
      BY <1>1
<1>4. PICK r \in Recs : r = run[i]
      BY <1>1, <1>3
<1>5. PICK s \in Recs : s = run[i + 1]
      BY <1>1, <1>3
<1>6. ~Before("identity", s, r)
      BY <1>3, <1>4, <1>5 DEF Ascending
<1>7. r[1] \in Nat /\ s[1] \in Nat /\ s[1] =< r[1] /\ ~(s[1] < r[1])
      BY <1>2, <1>4, <1>5, <1>6 DEF Recs, Before
<1>8. r # s
      BY <1>3, <1>4, <1>5 DEF Injective
<1>9. r \in Entries(run) /\ s \in Entries(run)
      BY <1>3, <1>4, <1>5 DEF Entries
<1> QED BY <1>7, <1>8, <1>9

\* How far the ledger is read before a record: from there on to the first
\* receipt that is not smaller.
Stops(from, key, k) ==
    /\ k > Len(receipts) \/ receipts[k] >= key
    /\ \A m \in from..(k - 1) : receipts[m] < key
Onward(from, key) == CHOOSE k \in from..(Len(receipts) + 1) : Stops(from, key, k)
AheadOf(f, run, i) == IF i = 0 THEN 1 ELSE Onward(f[i - 1], run[i][1])

LEMMA AheadExists ==
    ASSUME NEW run, NEW last \in Nat
    PROVE  \E f : f = [i \in 0..last |-> AheadOf(f, run, i)]
<1> DEFINE good(m) == \E f : DOMAIN f = 0..m /\ f = [i \in 0..m |-> AheadOf(f, run, i)]
           T == {m \in Nat : good(m)}
<1>1. 0 \in T
  <2> DEFINE g == [i \in 0..0 |-> 1]
  <2>1. g = [i \in 0..0 |-> AheadOf(g, run, i)]
        BY DEF AheadOf
  <2> QED BY <2>1
<1>2. ASSUME NEW m \in T PROVE m + 1 \in T
  <2>1. PICK f : DOMAIN f = 0..m /\ f = [i \in 0..m |-> AheadOf(f, run, i)]
        OBVIOUS
  <2> DEFINE g == [i \in 0..(m + 1) |-> IF i = m + 1 THEN AheadOf(f, run, i) ELSE f[i]]
  <2>2. \A i \in 0..(m + 1) : AheadOf(g, run, i) = AheadOf(f, run, i)
    <3>1. \A i \in 0..(m + 1) : i # 0 => g[i - 1] = f[i - 1]
          OBVIOUS
    <3> HIDE DEF g
    <3> QED BY <3>1 DEF AheadOf
  <2>3. \A i \in 0..(m + 1) : g[i] = AheadOf(f, run, i)
    <3>1. \A i \in 0..m : f[i] = AheadOf(f, run, i)
          BY <2>1
    <3>2. \A i \in 0..(m + 1) : i = m + 1 \/ i \in 0..m
          OBVIOUS
    <3> QED BY <3>1, <3>2
  <2>4. g = [i \in 0..(m + 1) |-> g[i]] /\ DOMAIN g = 0..(m + 1)
        OBVIOUS
  <2> HIDE DEF g
  <2>5. g = [i \in 0..(m + 1) |-> AheadOf(g, run, i)]
        BY <2>2, <2>3, <2>4
  <2> QED BY <2>4, <2>5
<1>3. T = Nat
      BY <1>1, <1>2, Induction
<1> QED BY <1>3

LEMMA OverlapsIs ==
    ASSUME NEW run \in Seq(Recs)
    PROVE  \E f : /\ Overlaps(run) = (\E i \in DOMAIN run : f[i] =< Len(receipts) /\ receipts[f[i]] = run[i][1])
                  /\ f[0] = 1
                  /\ \A i \in DOMAIN run :
                        f[i] = Onward(f[i - 1], run[i][1])
<1> DEFINE f == CHOOSE f : f = [i \in 0..Len(run) |-> AheadOf(f, run, i)]
<1>1. Overlaps(run) = (\E i \in DOMAIN run : f[i] =< Len(receipts) /\ receipts[f[i]] = run[i][1])
      BY DEF Overlaps, AheadOf, Onward, Stops
<1>2. DOMAIN run = 1..Len(run) /\ Len(run) \in Nat
      OBVIOUS
<1>3. f = [i \in 0..Len(run) |-> AheadOf(f, run, i)]
      BY <1>2, AheadExists
<1> HIDE DEF f
<1>4. \A i \in 0..Len(run) : f[i] = AheadOf(f, run, i)
      BY <1>3
<1>5. f[0] = 1
      BY <1>2, <1>4 DEF AheadOf
<1>6. \A i \in DOMAIN run : f[i] = Onward(f[i - 1], run[i][1])
      BY <1>2, <1>4 DEF AheadOf
<1> QED BY <1>1, <1>5, <1>6

\* One pass over a run and the ledger, both in order, misses no common identity.
LEMMA OverlapsMeans ==
    ASSUME InputSound, NEW run \in Seq(Recs), \A a, b \in DOMAIN run : a < b => run[a][1] < run[b][1]
    PROVE  Overlaps(run) <=> \E i \in DOMAIN run, k \in DOMAIN receipts : run[i][1] = receipts[k]
<1>1. PICK f : /\ Overlaps(run) = (\E i \in DOMAIN run : f[i] =< Len(receipts) /\ receipts[f[i]] = run[i][1])
               /\ f[0] = 1
               /\ \A i \in DOMAIN run :
                     f[i] = Onward(f[i - 1], run[i][1])
      BY OverlapsIs
<1>2. /\ DOMAIN run = 1..Len(run) /\ Len(run) \in Nat
      /\ receipts \in Seq(Nat) /\ DOMAIN receipts = 1..Len(receipts) /\ Len(receipts) \in Nat
      /\ \A k \in DOMAIN receipts : receipts[k] \in Nat
      /\ \A k, l \in DOMAIN receipts : k < l => receipts[k] < receipts[l]
  <2>1. receipts \in Seq(Nat) /\ Increasing(receipts)
        BY DEF InputSound
  <2> QED BY <2>1 DEF Increasing
<1>3. \A i \in DOMAIN run : run[i][1] \in Nat
  <2>1. \A i \in DOMAIN run : run[i] \in Recs
        BY <1>2
  <2>2. \A r \in Recs : r[1] \in Nat
        BY DEF Recs
  <2> QED BY <2>1, <2>2
<1> DEFINE end == Len(receipts) + 1
           found(i) == /\ f[i] \in 1..end
                       /\ i # 0 => /\ f[i] = end \/ receipts[f[i]] >= run[i][1]
                                   /\ \A m \in 1..(f[i] - 1) : receipts[m] < run[i][1]
           T == {i \in Nat : i =< Len(run) => found(i)}
<1>4. 0 \in T
      BY <1>1, <1>2
<1>5. ASSUME NEW i \in T PROVE i + 1 \in T
  <2> SUFFICES ASSUME i + 1 =< Len(run) PROVE found(i + 1)
      BY DEF T
  <2>0. i \in Nat /\ i + 1 \in DOMAIN run /\ (i + 1) - 1 = i /\ i + 1 # 0 /\ found(i)
        BY <1>2
  <2>1. PICK before \in 1..end : before = f[i]
        BY <2>0
  <2>2. PICK key \in Nat : key = run[i + 1][1]
        BY <1>3, <2>0
  <2> DEFINE K == {k \in before..end : k = end \/ receipts[k] >= key}
  <2>3. K # {} /\ K \in SUBSET Nat
        BY <1>2
  <2>4. PICK k \in K : \A l \in K : k =< l
        BY <2>3, Least
  <2>5. \A m \in before..(k - 1) : receipts[m] < key
    <3> SUFFICES ASSUME NEW m \in before..(k - 1) PROVE receipts[m] < key
        OBVIOUS
    <3>1. m \in before..end /\ m # end /\ m \in DOMAIN receipts /\ ~(k =< m)
          BY <1>2, <2>1, <2>4
    <3>2. m \notin K
          BY <2>4, <3>1
    <3>3. ~(receipts[m] >= key)
          BY <3>1, <3>2
    <3> QED BY <1>2, <3>1, <3>3
  <2>6. Stops(before, key, k)
    <3>1. k > Len(receipts) \/ receipts[k] >= key
          BY <1>2, <2>4
    <3> QED BY <2>5, <3>1 DEF Stops
  <2>7. f[i + 1] = Onward(before, key)
        BY <1>1, <2>0, <2>1, <2>2
  <2>8. PICK now \in before..end : now = f[i + 1] /\ Stops(before, key, now)
    <3>1. k \in before..(Len(receipts) + 1)
          BY <2>4
    <3>2. Onward(before, key) \in before..(Len(receipts) + 1) /\ Stops(before, key, Onward(before, key))
          BY <2>6, <3>1, Zenon DEF Onward
    <3> QED BY <2>7, <3>2
  <2>9. /\ now = end \/ receipts[now] >= key
        /\ \A m \in before..(now - 1) : receipts[m] < key
        BY <1>2, <2>1, <2>8 DEF Stops
  <2>10. \A m \in 1..(before - 1) : receipts[m] < key
    <3> SUFFICES ASSUME NEW m \in 1..(before - 1) PROVE receipts[m] < key
        OBVIOUS
    <3>1. i # 0
          BY <1>1, <2>1
    <3>2. receipts[m] < run[i][1]
          BY <2>0, <2>1, <3>1
    <3>3. i \in DOMAIN run /\ m \in DOMAIN receipts /\ i < i + 1
          BY <1>2, <2>0, <2>1, <3>1
    <3>4. run[i][1] < run[i + 1][1]
          BY <2>0, <3>3
    <3>5. receipts[m] \in Nat /\ run[i][1] \in Nat /\ run[i + 1][1] \in Nat /\ key = run[i + 1][1]
          BY <1>2, <1>3, <2>0, <2>2, <3>3
    <3> HIDE DEF T
    <3> QED BY <3>2, <3>4, <3>5
  <2>11. \A m \in 1..(now - 1) : receipts[m] < key
    <3> SUFFICES ASSUME NEW m \in 1..(now - 1) PROVE receipts[m] < key
        OBVIOUS
    <3>1. m \in 1..(before - 1) \/ m \in before..(now - 1)
          BY <1>2, <2>1, <2>8
    <3> QED BY <2>9, <2>10, <3>1
  <2>12. now \in 1..end
         BY <1>2, <2>1, <2>8
  <2> QED BY <2>2, <2>8, <2>9, <2>11, <2>12
<1>6. T \in SUBSET Nat
      OBVIOUS
<1> HIDE DEF T
<1>7. T = Nat
      BY <1>4, <1>5, <1>6, Induction
<1>8. \A i \in DOMAIN run : found(i) /\ i # 0
      BY <1>2, <1>7 DEF T
<1>9. ASSUME NEW i \in DOMAIN run, f[i] =< Len(receipts), receipts[f[i]] = run[i][1]
      PROVE  f[i] \in DOMAIN receipts
      BY <1>2, <1>8, <1>9
<1>10. ASSUME NEW i \in DOMAIN run, NEW k \in DOMAIN receipts, run[i][1] = receipts[k]
       PROVE  f[i] =< Len(receipts) /\ receipts[f[i]] = run[i][1]
  <2>1. PICK at \in 1..end : at = f[i]
        BY <1>8
  <2>2. /\ at = end \/ receipts[at] >= receipts[k]
        /\ \A m \in 1..(at - 1) : receipts[m] < receipts[k]
        BY <1>8, <1>10, <2>1
  <2>3. k \in Nat /\ k =< Len(receipts) /\ receipts[k] \in Nat /\ k \in 1..Len(receipts)
        BY <1>2
  <2>4. ~(k < at)
    <3> SUFFICES ASSUME k < at PROVE FALSE
        OBVIOUS
    <3>1. k \in 1..(at - 1)
          BY <1>2, <2>3
    <3>2. receipts[k] < receipts[k]
          BY <2>2, <3>1
    <3> QED BY <2>3, <3>2
  <2>5. at \in DOMAIN receipts /\ at =< k
        BY <1>2, <2>3, <2>4
  <2>6. receipts[at] >= receipts[k] /\ receipts[at] \in Nat
        BY <1>2, <2>2, <2>5
  <2>7. ~(at < k)
        BY <1>2, <2>3, <2>5, <2>6
  <2>8. at = k
        BY <1>2, <2>3, <2>4, <2>7
  <2> QED BY <1>10, <2>1, <2>3, <2>8
<1> QED BY <1>1, <1>9, <1>10

LEMMA WalRecordsAre ==
    ASSUME InputSound
    PROVE  /\ \A i \in DOMAIN wal : Record(i) \in Recs /\ Record(i)[1] = wal[i] /\ Record(i)[2] = i
           /\ WalRecords \subseteq Recs
<1>1. wal \in Seq(Nat) /\ DOMAIN wal \subseteq Nat
      BY DEF InputSound
<1>2. \A i \in DOMAIN wal : wal[i] \in Nat /\ i \in Nat
      BY <1>1
<1>3. \A i \in DOMAIN wal : Record(i) \in Recs /\ Record(i)[1] = wal[i] /\ Record(i)[2] = i
      BY <1>2 DEF Record, Recs
<1> QED BY <1>3 DEF WalRecords

LEMMA SameIdentityTwice ==
    ASSUME InputSound, NEW r \in WalRecords, NEW s \in WalRecords, r # s, r[1] = s[1]
    PROVE  ~CommitsOnce
<1>1. PICK i \in DOMAIN wal : r = Record(i)
      BY DEF WalRecords
<1>2. PICK j \in DOMAIN wal : s = Record(j)
      BY DEF WalRecords
<1>3. wal[i] = wal[j] /\ i # j
      BY <1>1, <1>2, WalRecordsAre
<1> QED BY <1>3 DEF CommitsOnce

\* The verification of the one run that holds all records is exact.
LEMMA VerifiedExactly ==
    ASSUME InputSound, NEW run \in Seq(Recs), Ascending("identity", run), Injective(run),
           \A r : r \in WalRecords <=> r \in Entries(run)
    PROVE  Repeated(run) \/ Overlaps(run) <=> ~CommitsOnce
<1>1. DOMAIN run = 1..Len(run) /\ Len(run) \in Nat
      OBVIOUS
<1>2. ASSUME Repeated(run) PROVE ~CommitsOnce
  <2>1. PICK r, s \in Entries(run) : r # s /\ r[1] = s[1]
        BY <1>2, RepeatedMeans
  <2> QED BY <2>1, SameIdentityTwice
<1>3. ASSUME ~Repeated(run) PROVE Overlaps(run) <=> ~CommitsOnce
  <2>1. \A a, b \in DOMAIN run : a < b => run[a][1] < run[b][1]
        BY <1>3, NotRepeated
  <2>2. Overlaps(run) <=> \E i \in DOMAIN run, k \in DOMAIN receipts : run[i][1] = receipts[k]
        BY <2>1, OverlapsMeans
  <2>3. ASSUME NEW i \in DOMAIN run, NEW k \in DOMAIN receipts, run[i][1] = receipts[k] PROVE ~CommitsOnce
    <3>1. run[i] \in WalRecords
          BY DEF Entries
    <3>2. PICK j \in DOMAIN wal : run[i] = Record(j)
          BY <3>1 DEF WalRecords
    <3>3. wal[j] = receipts[k]
          BY <2>3, <3>2, WalRecordsAre
    <3> QED BY <3>3 DEF CommitsOnce
  <2>4. ASSUME \A i \in DOMAIN run, k \in DOMAIN receipts : run[i][1] # receipts[k] PROVE CommitsOnce
    <3>1. \A i \in DOMAIN wal : \E a \in DOMAIN run : run[a] = Record(i)
          BY DEF WalRecords, Entries
    <3>2. ASSUME NEW i \in DOMAIN wal, NEW j \in DOMAIN wal, wal[i] = wal[j] PROVE i = j
      <4>1. PICK a \in DOMAIN run : run[a] = Record(i)
            BY <3>1
      <4>2. PICK b \in DOMAIN run : run[b] = Record(j)
            BY <3>1
      <4>3. run[a][1] = wal[i] /\ run[b][1] = wal[j] /\ wal[i] \in Nat
            BY <4>1, <4>2, WalRecordsAre DEF InputSound
      <4>4. a \in Nat /\ b \in Nat /\ ~(a < b) /\ ~(b < a)
            BY <1>1, <2>1, <3>2, <4>3
      <4>5. a = b
            BY <4>4
      <4> QED BY <4>1, <4>2, <4>5, WalRecordsAre
    <3>3. ASSUME NEW i \in DOMAIN wal, NEW k \in DOMAIN receipts PROVE wal[i] # receipts[k]
      <4>1. PICK a \in DOMAIN run : run[a] = Record(i)
            BY <3>1
      <4>2. run[a][1] = wal[i]
            BY <4>1, WalRecordsAre
      <4> QED BY <2>4, <4>2
    <3> QED BY <3>2, <3>3 DEF CommitsOnce
  <2> QED BY <2>2, <2>3, <2>4
<1> QED BY <1>2, <1>3

-------------------------------------------------------------------------------
(* Steps of the call in progress *)

Kept == UNCHANGED <<kind, wal, receipts, allowance, verdict>>

LEMMA KeptInput ==
    ASSUME InputSound, Kept
    PROVE  InputSound' /\ CommitsOnce' = CommitsOnce /\ Scanning' = Scanning /\ WalRecords' = WalRecords
  BY DEF Kept, InputSound, CommitsOnce, Scanning, WalRecords, Record

\* What an operation may come to.
Moved(stage) ==
    /\ call'.op = call.op /\ call'.record = call.record /\ call'.answer = call.answer /\ call'.at = stage
Answered(answer) ==
    /\ call'.op = call.op /\ call'.record = call.record /\ call'.answer = answer /\ call'.at = "returned"

LEMMA Goes ==
    ASSUME CallFormed, Scanning, Kept, NEW stage, Go(stage), stage \in Stages(call.op), stage # "returned"
    PROVE  CallFormed' /\ Moved(stage) /\ Live'
<1>1. PICK op, at, record, answer : call = [op |-> op, at |-> at, record |-> record, answer |-> answer]
      BY DEF CallFormed
<1>2. call' = [op |-> op, at |-> stage, record |-> record, answer |-> answer]
      BY <1>1 DEF Go
<1>3. /\ call.op = op /\ call.at = at /\ call.record = record /\ call.answer = answer
      /\ call'.op = op /\ call'.at = stage /\ call'.record = record /\ call'.answer = answer
      BY <1>1, <1>2
<1>4. wal' = wal /\ verdict' = verdict
      BY DEF Kept
<1>5. Moved(stage)
      BY <1>3 DEF Moved
<1>6. Live'
      BY <1>3, <1>4 DEF Live, At, Scanning
<1>7. CallFormed'
  <2>1. call' = [op |-> call'.op, at |-> call'.at, record |-> call'.record, answer |-> call'.answer]
        BY <1>2, <1>3
  <2>2. answer \in {"none", "ok", "corrupt", "resource-limit", "failed"} /\ op \in Ops
        BY <1>3 DEF CallFormed
  <2>3. Recording' => \E i \in DOMAIN wal' : call'.record = Record(i)'
    <3>1. op \in {"index record", "history record"} => \E i \in DOMAIN wal : record = <<wal[i], i>>
          BY <1>3 DEF CallFormed, Recording, Record
    <3> QED BY <1>3, <1>4, <3>1 DEF Recording, Record
  <2>4. call'.at \in Stages(call'.op)
        BY <1>3
  <2> QED BY <1>3, <1>4, <2>1, <2>2, <2>3, <2>4 DEF CallFormed, Scanning, At
<1> QED BY <1>5, <1>6, <1>7

LEMMA Answers ==
    ASSUME CallFormed, Scanning, Kept, NEW answer \in {"ok", "corrupt", "resource-limit", "failed"}, Return(answer)
    PROVE  CallFormed' /\ Answered(answer) /\ (Live' => answer = "ok")
<1>1. PICK op, at, record, old : call = [op |-> op, at |-> at, record |-> record, answer |-> old]
      BY DEF CallFormed
<1>2. call' = [op |-> op, at |-> "returned", record |-> record, answer |-> answer]
      BY <1>1 DEF Return
<1>3. /\ call.op = op /\ call.at = at /\ call.record = record /\ call.answer = old
      /\ call'.op = op /\ call'.at = "returned" /\ call'.record = record /\ call'.answer = answer
      BY <1>1, <1>2
<1>4. wal' = wal /\ verdict' = verdict
      BY DEF Kept
<1>5. Answered(answer)
      BY <1>3 DEF Answered
<1>6. Live' => answer = "ok"
      BY <1>3 DEF Live, At
<1>7. CallFormed'
  <2>1. call' = [op |-> call'.op, at |-> call'.at, record |-> call'.record, answer |-> call'.answer]
        BY <1>2, <1>3
  <2>2. op \in Ops
        BY <1>3 DEF CallFormed
  <2>3. Recording' => \E i \in DOMAIN wal' : call'.record = Record(i)'
    <3>1. op \in {"index record", "history record"} => \E i \in DOMAIN wal : record = <<wal[i], i>>
          BY <1>3 DEF CallFormed, Recording, Record
    <3> QED BY <1>3, <1>4, <3>1 DEF Recording, Record
  <2>4. call'.at \in Stages(call'.op)
        BY <1>3, <2>2 DEF Stages, Ops
  <2> QED BY <1>3, <1>4, <2>1, <2>2, <2>3, <2>4 DEF CallFormed, Scanning, At
<1> QED BY <1>5, <1>6, <1>7

\* Which operation is at which stage.
LEMMA StageOps ==
    ASSUME CallFormed, Scanning
    PROVE  /\ At("index record") => call.op = "index record"
           /\ At("index flush") => call.op \in {"index record", "index verify"}
           /\ At("index verify") \/ At("index merge") \/ At("index merging") \/ At("index unlink") =>
                 call.op = "index verify"
           /\ At("history record") => call.op = "history record"
           /\ At("history flush") => call.op \in {"history record", "history verify"}
           /\ At("history verify") \/ At("history merge") \/ At("history merging") \/ At("history cleanup") =>
                 call.op = "history verify"
<1>1. call.op \in Ops /\ call.at \in Stages(call.op)
      BY DEF CallFormed
<1>2. CASE call.op = "index record"
      BY <1>1, <1>2 DEF Stages, At
<1>3. CASE call.op = "history record"
      BY <1>1, <1>3 DEF Stages, At
<1>4. CASE call.op = "index verify"
      BY <1>1, <1>4 DEF Stages, At
<1>5. CASE call.op = "history verify"
      BY <1>1, <1>5 DEF Stages, At
<1> QED BY <1>1, <1>2, <1>3, <1>4, <1>5 DEF Ops

LEMMA CallStays ==
    ASSUME CallFormed, Scanning, Kept, call' = call
    PROVE  CallFormed' /\ Live' = Live /\ Recording' = Recording
<1>1. wal' = wal /\ verdict' = verdict
      BY DEF Kept
<1>2. Live' = Live
      BY <1>1 DEF Live, At, Scanning
<1>3. Recording' = Recording
      BY DEF Recording
<1>4. CallFormed'
      BY <1>1 DEF CallFormed, Scanning, At, Recording, NoCall, Calling, Record
<1> QED BY <1>2, <1>3, <1>4

-------------------------------------------------------------------------------
(* The index *)

IndexReady == InputSound /\ CallFormed /\ IndexSound /\ Scanning /\ Kept
IndexGoal ==
    /\ CallFormed' /\ IndexSound' /\ call'.op = call.op /\ call'.record = call.record
    /\ call'.answer = "corrupt" => call.answer = "corrupt" \/ ~CommitsOnce

LEMMA IndexFields ==
    ASSUME NEW i \in IndexStates
    PROVE  /\ i.opened \in {"no", "swept", "yes"} /\ i.buffer \in Seq(Recs) /\ i.runs \in Seq(Nat) /\ i.next \in Nat
           /\ i.watermark \in Nat /\ i.watermark < IndexNames /\ i.owned \in Named(IndexNames, Nat)
           /\ i.pass \in Passes /\ IndexNames \in Nat
<1>1. IndexNames \in Nat \ {0}
      BY IndexConstantsOK
<1>2. i.watermark \in 0..(IndexNames - 1)
      BY DEF IndexStates
<1>3. i.watermark \in Nat /\ i.watermark < IndexNames /\ IndexNames \in Nat
      BY <1>1, <1>2
<1>4. /\ i.opened \in {"no", "swept", "yes"} /\ i.buffer \in Seq(Recs) /\ i.runs \in Seq(Nat) /\ i.next \in Nat
      /\ i.owned \in Named(IndexNames, Nat) /\ i.pass \in Passes
      BY DEF IndexStates
<1> QED BY <1>3, <1>4

LEMMA IndexRefused ==
    ASSUME IndexReady, NEW answer \in {"ok", "corrupt", "resource-limit", "failed"}, Return(answer), UNCHANGED indexVars,
           answer = "ok" => At("index merge"), answer = "corrupt" => ~CommitsOnce
    PROVE  IndexGoal
<1>1. CallFormed' /\ Answered(answer) /\ (Live' => answer = "ok")
      BY Answers DEF IndexReady
<1>2. index' = index /\ indexRuns' = indexRuns /\ manifest' = manifest
      BY DEF indexVars
<1>3. call'.at = "returned" /\ call'.op = call.op
      BY <1>1 DEF Answered
<1>4. allowance' = allowance /\ Scanning' /\ Scanning /\ WalRecords' = WalRecords
      BY KeptInput DEF IndexReady, Kept
<1>5. IndexOpen' /\ IndexAccounted' /\ IndexPass'
      BY <1>2, <1>3, <1>4 DEF IndexReady, IndexSound, IndexOpen, IndexAccounted, IndexPass
<1>6. IndexFiles'
  <2> SUFFICES ASSUME Live' PROVE IndexFiles'
      BY DEF IndexFiles
  <2>1. At("index merge") /\ Live
        BY <1>1, <1>4 DEF Live, At
  <2>2. ~Recording' /\ call'.at \notin {"index verify", "index flush"}
        BY <1>3, <2>1, StageOps DEF IndexReady, Recording
  <2>3. IndexFiles
        BY DEF IndexReady, IndexSound
  <2> QED BY <1>2, <1>4, <2>1, <2>2, <2>3 DEF IndexFiles
<1>7. IndexSound'
      BY <1>2, <1>4, <1>5, <1>6 DEF IndexReady, IndexSound
<1> QED BY <1>1, <1>7 DEF Answered, IndexGoal

LEMMA SweepIndexSound == ASSUME IndexReady, SweepIndex PROVE IndexGoal
<1>1. call' = call /\ call.at \in {"index record", "index verify"} /\ index.opened = "no"
      BY DEF SweepIndex, At
<1>2. CallFormed' /\ Live' = Live
      BY <1>1, CallStays DEF IndexReady
<1>3. Scanning' /\ index \in IndexStates /\ indexRuns \in Named(IndexNames, Seq(Recs))
      BY KeptInput DEF IndexReady, IndexSound
<1>4. /\ index' = [index EXCEPT !.opened = "swept"] /\ manifest' = << >>
      /\ indexRuns' = Without(indexRuns, 0..(IndexNames - 1))
      BY DEF SweepIndex
<1>5. index' \in IndexStates
      BY <1>3, <1>4 DEF IndexStates
<1>6. /\ index'.opened = "swept" /\ index'.owned = index.owned /\ index'.buffer = index.buffer
      /\ index'.runs = index.runs /\ index'.next = index.next
      BY <1>3, <1>4 DEF IndexStates
<1>7. indexRuns' = NoFiles
  <2>1. Without(indexRuns, 0..(IndexNames - 1)) \in Named(IndexNames, Seq(Recs))
        BY <1>3, NamedWithout
  <2>2. DOMAIN Without(indexRuns, 0..(IndexNames - 1)) = {}
    <3>1. DOMAIN indexRuns \subseteq 0..(IndexNames - 1)
          BY <1>3, NamedIs
    <3>2. DOMAIN Without(indexRuns, 0..(IndexNames - 1)) = DOMAIN indexRuns \ 0..(IndexNames - 1)
          BY WithoutIs
    <3> QED BY <3>1, <3>2
  <2> QED BY <1>4, <2>1, <2>2, NothingNamed
<1>8. indexRuns' \in Named(IndexNames, Seq(Recs))
      BY <1>7, NoFilesNamed
<1>9. index.owned = NoFiles /\ index.buffer = << >> /\ index.runs = << >> /\ index.next = 0
      BY <1>1 DEF IndexReady, IndexSound, IndexOpen
<1>10. IndexOpen' /\ IndexAccounted' /\ IndexFiles' /\ IndexPass'
       BY <1>1, <1>4, <1>6, <1>7, <1>9 DEF IndexOpen, IndexAccounted, IndexFiles, IndexPass
<1>11. IndexSound'
       BY <1>3, <1>5, <1>8, <1>10 DEF IndexSound
<1> QED BY <1>1, <1>2, <1>11 DEF IndexGoal

LEMMA CreateManifestSound == ASSUME IndexReady, CreateManifest PROVE IndexGoal
<1>1. call.at \in {"index record", "index verify"} /\ index.opened = "swept" /\ indexRuns' = indexRuns
      BY DEF CreateManifest, At
<1>2. manifest = << >> /\ indexRuns = NoFiles
      BY <1>1 DEF IndexReady, IndexSound, IndexOpen
<1>3. CASE ~Fits(1)
  <2>1. Return("resource-limit") /\ UNCHANGED indexVars
        BY <1>1, <1>3 DEF CreateManifest, indexVars
  <2> QED BY <2>1, IndexRefused
<1>4. CASE Fits(1)
  <2>1. index' = [index EXCEPT !.opened = "yes", !.watermark = 0] /\ call' = call
        BY <1>2, <1>4 DEF CreateManifest
  <2>2. CallFormed' /\ Live' = Live
        BY <2>1, CallStays DEF IndexReady
  <2>3. Scanning' /\ index \in IndexStates /\ indexRuns \in Named(IndexNames, Seq(Recs)) /\ allowance' = allowance
        BY KeptInput DEF IndexReady, IndexSound, Kept
  <2>4. 0 \in 0..(IndexNames - 1)
        BY IndexConstantsOK
  <2>5. index' \in IndexStates
        BY <2>1, <2>3, <2>4 DEF IndexStates
  <2>6. /\ index'.opened = "yes" /\ index'.owned = index.owned /\ index'.buffer = index.buffer
        /\ index'.runs = index.runs /\ index'.next = index.next
        BY <2>1, <2>3 DEF IndexStates
  <2>7. index.owned = NoFiles /\ index.buffer = << >> /\ index.runs = << >> /\ index.next = 0
        BY <1>1 DEF IndexReady, IndexSound, IndexOpen
  <2>8. DOMAIN NoFiles = {}
        BY NoFilesNamed
  <2>9. IndexAccounted'
    <3>1. Sizes(NoFiles, IndexNames) = 0
          BY IndexConstantsOK, NothingSized
    <3>2. Sizes(NoFiles, IndexNames) + 1 =< allowance
      <4>1. index.opened # "yes" /\ Sizes(index.owned, IndexNames) = 0
            BY <1>1, <2>7, <3>1
      <4>2. IndexBytes = 0
            BY <4>1 DEF IndexBytes
      <4> QED BY <1>4, <3>1, <4>2 DEF Fits
    <3> QED BY <1>1, <1>2, <2>3, <2>6, <2>7, <2>8, <3>2 DEF IndexAccounted
  <2>10. IndexFiles'
    <3>1. Entries(<< >>) = {} /\ Injective(<< >>)
          BY DEF Entries, Injective
    <3> QED BY <1>1, <1>2, <2>6, <2>7, <2>8, <3>1 DEF IndexFiles
  <2>11. IndexOpen' /\ IndexPass'
         BY <1>1, <2>1, <2>6 DEF IndexOpen, IndexPass
  <2>12. IndexSound'
         BY <1>1, <2>3, <2>5, <2>9, <2>10, <2>11 DEF IndexSound
  <2> QED BY <2>1, <2>2, <2>12 DEF IndexGoal
<1> QED BY <1>3, <1>4

LEMMA IndexBasics ==
    ASSUME IndexReady
    PROVE  /\ Scanning /\ Scanning' /\ allowance' = allowance /\ allowance \in Nat
           /\ WalRecords' = WalRecords /\ WalRecords \subseteq Recs
           /\ index \in IndexStates /\ indexRuns \in Named(IndexNames, Seq(Recs))
           /\ IndexOpen /\ IndexAccounted /\ IndexFiles /\ IndexPass
<1>1. InputSound /\ Kept /\ Scanning /\ IndexSound
      BY DEF IndexReady
<1>2. Scanning' /\ WalRecords' = WalRecords /\ WalRecords \subseteq Recs
      BY <1>1, KeptInput, WalRecordsAre
<1> QED BY <1>1, <1>2 DEF Kept, InputSound, IndexSound

LEMMA RecordInIndexSound == ASSUME IndexReady, RecordInIndex PROVE IndexGoal
<1>1. /\ call.at = "index record" /\ index.opened = "yes" /\ indexRuns' = indexRuns /\ call.op = "index record"
      /\ manifest' = manifest
      BY StageOps DEF RecordInIndex, At, IndexReady
<1>2. PICK r : r = call.record /\ r \in WalRecords
      BY <1>1 DEF IndexReady, CallFormed, Recording, WalRecords
<1>3. index' = [index EXCEPT !.buffer = Append(@, r)]
      BY <1>2 DEF RecordInIndex
<1>4. Go("index flush") \/ Return("ok")
      BY DEF RecordInIndex
<1>5. /\ CallFormed' /\ call'.op = call.op /\ call'.record = call.record
      /\ call'.at \in {"index flush", "returned"} /\ (call'.answer = "ok" \/ call'.answer = call.answer)
  <2>1. CASE Go("index flush")
    <3>1. "index flush" \in Stages(call.op)
          BY <1>1 DEF Stages
    <3> QED BY <2>1, <3>1, Goes DEF IndexReady, Moved
  <2>2. CASE Return("ok")
        BY <2>2, Answers DEF IndexReady, Answered
  <2> QED BY <1>4, <2>1, <2>2
<1>6. /\ Scanning /\ Scanning' /\ allowance' = allowance /\ WalRecords' = WalRecords /\ WalRecords \subseteq Recs
      /\ index \in IndexStates /\ indexRuns \in Named(IndexNames, Seq(Recs))
      /\ IndexOpen /\ IndexAccounted /\ IndexFiles /\ IndexPass
      BY IndexBasics
<1>7. PICK held \in Seq(Recs) : held = index.buffer
      BY <1>6, IndexFields
<1>a. r \in Recs
      BY <1>2, <1>6
<1>b. Append(held, r) \in Seq(Recs)
      BY <1>a
<1>8. PICK longer \in Seq(Recs) : longer = Append(held, r)
      BY <1>b
<1>9. Entries(longer) = Entries(held) \cup {r}
      BY <1>2, <1>6, <1>8, AppendFacts
<1>10. index' = [index EXCEPT !.buffer = longer]
       BY <1>3, <1>7, <1>8
<1>11. index' \in IndexStates
       BY <1>6, <1>10 DEF IndexStates
<1>12. /\ index'.opened = "yes" /\ index'.owned = index.owned /\ index'.buffer = longer
       /\ index'.runs = index.runs /\ index'.next = index.next /\ index'.pass = index.pass
       BY <1>1, <1>6, <1>10 DEF IndexStates
<1>13. Live /\ Recording /\ Recording'
       BY <1>1, <1>5, <1>6 DEF Live, At, Recording
<1>14. IndexFiles'
  <2>1. Entries(longer) \subseteq WalRecords
        BY <1>1, <1>2, <1>6, <1>7, <1>9, <1>13 DEF IndexFiles
  <2> QED BY <1>1, <1>6, <1>12, <1>13, <2>1 DEF IndexFiles
<1>15. IndexOpen' /\ IndexPass' /\ IndexAccounted'
       BY <1>1, <1>5, <1>6, <1>12 DEF IndexOpen, IndexPass, IndexAccounted
<1>16. IndexSound'
       BY <1>1, <1>6, <1>11, <1>14, <1>15 DEF IndexSound
<1> QED BY <1>5, <1>16 DEF IndexGoal

LEMMA VerifyIndexSound == ASSUME IndexReady, VerifyIndex PROVE IndexGoal
<1>1. /\ call.at = "index verify" /\ index.opened = "yes" /\ indexRuns' = indexRuns /\ call.op = "index verify"
      /\ manifest' = manifest
      BY StageOps DEF VerifyIndex, At, IndexReady
<1>2. /\ Scanning /\ Scanning' /\ allowance' = allowance /\ WalRecords' = WalRecords
      /\ index \in IndexStates /\ indexRuns \in Named(IndexNames, Seq(Recs))
      /\ IndexOpen /\ IndexAccounted /\ IndexFiles /\ IndexPass
      BY IndexBasics
<1>3. Live /\ ~Recording
      BY <1>1, <1>2 DEF Live, At, Recording
<1>4. /\ DOMAIN index.owned \subseteq DOMAIN indexRuns /\ DOMAIN indexRuns \subseteq 0..(index.next - 1)
      /\ Entries(index.buffer) \subseteq WalRecords
      /\ \A f \in DOMAIN indexRuns : Entries(indexRuns[f]) \subseteq WalRecords
      /\ Injective(index.runs) /\ Entries(index.runs) \subseteq DOMAIN index.owned
      BY <1>1, <1>2, <1>3 DEF IndexFiles
<1>5. "index flush" \in Stages(call.op) /\ "index merge" \in Stages(call.op)
      BY <1>1 DEF Stages
<1>6. CASE index.buffer # << >>
  <2>1. Go("index flush") /\ index' = index
        BY <1>6 DEF VerifyIndex
  <2>2. CallFormed' /\ Moved("index flush")
        BY <1>5, <2>1, Goes DEF IndexReady
  <2>3. call'.at = "index flush" /\ call'.op = call.op /\ call'.record = call.record /\ call'.answer = call.answer
        BY <2>2 DEF Moved
  <2>4. IndexOpen' /\ IndexAccounted' /\ IndexFiles' /\ IndexPass'
        BY <1>1, <1>2, <1>4, <2>1, <2>3 DEF IndexOpen, IndexAccounted, IndexFiles, IndexPass
  <2>5. IndexSound'
        BY <1>1, <1>2, <2>1, <2>4 DEF IndexSound
  <2> QED BY <2>2, <2>3, <2>5 DEF IndexGoal
<1>7. CASE ~(index.buffer # << >>)
  <2>1. Go("index merge") /\ index' = [index EXCEPT !.pass = FirstPass(index.runs)]
        BY <1>7 DEF VerifyIndex
  <2>2. CallFormed' /\ Moved("index merge")
        BY <1>5, <2>1, Goes DEF IndexReady
  <2>3. call'.at = "index merge" /\ call'.op = call.op /\ call'.record = call.record /\ call'.answer = call.answer
        BY <2>2 DEF Moved
  <2>4. PICK first \in Passes : first = FirstPass(index.runs) /\ Names(first) = Entries(index.runs) /\ NamesApart(first)
    <3>1. index.runs \in Seq(Nat)
          BY <1>2, IndexFields
    <3> QED BY <1>4, <3>1, FirstPassFacts
  <2>5. index' = [index EXCEPT !.pass = first]
        BY <2>1, <2>4
  <2>6. index' \in IndexStates
        BY <1>2, <2>5 DEF IndexStates
  <2>7. /\ index'.opened = "yes" /\ index'.owned = index.owned /\ index'.buffer = index.buffer
        /\ index'.runs = index.runs /\ index'.next = index.next /\ index'.pass = first
        BY <1>1, <1>2, <2>5 DEF IndexStates
  <2>8. ~Recording'
        BY <1>1, <2>3 DEF Recording
  <2>9. IndexPass'
        BY <1>4, <2>3, <2>4, <2>7 DEF IndexPass
  <2>10. IndexOpen' /\ IndexAccounted' /\ IndexFiles'
         BY <1>1, <1>2, <1>4, <2>3, <2>7, <2>8 DEF IndexOpen, IndexAccounted, IndexFiles
  <2>11. IndexSound'
         BY <1>1, <1>2, <2>6, <2>9, <2>10 DEF IndexSound
  <2> QED BY <2>2, <2>3, <2>11 DEF IndexGoal
<1> QED BY <1>6, <1>7

LEMMA NumbersExhaustedSound == ASSUME IndexReady, NumbersExhausted \/ MergeTooLarge PROVE IndexGoal
<1>1. Return("resource-limit") /\ UNCHANGED indexVars
      BY DEF NumbersExhausted, MergeTooLarge
<1> QED BY <1>1, IndexRefused

LEMMA ReserveSound == ASSUME IndexReady, Reserve PROVE IndexGoal
<1>1. /\ call' = call /\ indexRuns' = indexRuns /\ index.next < IndexNames
      /\ index' = [index EXCEPT !.watermark = index.next]
      BY DEF Reserve
<1>2. /\ Scanning' /\ allowance' = allowance /\ WalRecords' = WalRecords /\ Scanning
      /\ index \in IndexStates /\ indexRuns \in Named(IndexNames, Seq(Recs))
      /\ IndexOpen /\ IndexAccounted /\ IndexFiles /\ IndexPass
      BY IndexBasics
<1>3. CallFormed' /\ Live' = Live /\ Recording' = Recording
      BY <1>1, CallStays DEF IndexReady
<1>4. index.next \in 0..(IndexNames - 1)
      BY <1>1, <1>2, IndexFields
<1>5. index' \in IndexStates
      BY <1>1, <1>2, <1>4 DEF IndexStates
<1>6. /\ index'.opened = index.opened /\ index'.owned = index.owned /\ index'.buffer = index.buffer
      /\ index'.runs = index.runs /\ index'.next = index.next /\ index'.pass = index.pass
      BY <1>1, <1>2 DEF IndexStates
<1>7. MergeOutput' = MergeOutput /\ GroupBytes' = GroupBytes /\ Fits(GroupBytes)' = Fits(GroupBytes)
      BY <1>2, <1>6 DEF MergeOutput, GroupBytes, Fits, IndexBytes
<1>8. call.at \in {"index flush", "index merge"} /\ index.opened = "yes"
  <2>1. At("index flush") \/ At("index merge")
        BY DEF Reserve, IndexCreates, IndexMergeNeeded
  <2> QED BY <1>2, <2>1 DEF At, IndexOpen
<1>9. IndexOpen' /\ IndexAccounted' /\ IndexFiles'
      BY <1>1, <1>2, <1>3, <1>6, <1>8 DEF IndexOpen, IndexAccounted, IndexFiles
<1>10. IndexPass'
       BY <1>1, <1>2, <1>6, <1>8 DEF IndexPass
<1>11. IndexSound'
       BY <1>1, <1>2, <1>5, <1>9, <1>10 DEF IndexSound
<1> QED BY <1>1, <1>3, <1>11 DEF IndexGoal

LEMMA FlushIndexSound == ASSUME IndexReady, FlushIndex PROVE IndexGoal
<1>1. /\ call.at = "index flush" /\ call.op \in {"index record", "index verify"} /\ index.next < IndexNames
      /\ manifest' = manifest
      BY StageOps DEF FlushIndex, At, IndexReady
<1>2. /\ Scanning /\ Scanning' /\ allowance' = allowance /\ allowance \in Nat /\ WalRecords' = WalRecords
      /\ index \in IndexStates /\ indexRuns \in Named(IndexNames, Seq(Recs))
      /\ IndexOpen /\ IndexAccounted /\ IndexFiles /\ IndexPass
      BY IndexBasics
<1>3. Live /\ index.opened = "yes"
      BY <1>1, <1>2 DEF Live, At, IndexOpen
<1>4. /\ DOMAIN index.owned \subseteq DOMAIN indexRuns /\ DOMAIN indexRuns \subseteq 0..(index.next - 1)
      /\ Entries(index.buffer) \subseteq WalRecords
      /\ \A f \in DOMAIN indexRuns : Entries(indexRuns[f]) \subseteq WalRecords
      /\ Injective(index.runs) /\ Entries(index.runs) \subseteq DOMAIN index.owned
      BY <1>1, <1>2, <1>3 DEF IndexFiles
<1>5. PICK run \in Seq(Recs) : /\ run = SortedRecords("line", index.buffer)
                               /\ Entries(run) \subseteq WalRecords
      BY <1>2, <1>4, IndexFields, SortedRecordsFacts
<1>a. index.next \in Nat /\ IndexNames \in Nat
      BY <1>2, IndexFields
<1>b. index.next \in 0..(IndexNames - 1)
  <2>1. index.next < IndexNames
        BY <1>1
  <2> QED BY <1>a, <2>1
<1>6. PICK number \in Nat : number = index.next /\ number \in 0..(IndexNames - 1)
      BY <1>a, <1>b
<1>7. PICK size \in Nat : size = Len(run)
      OBVIOUS
<1>8. number \notin DOMAIN indexRuns /\ number \notin DOMAIN index.owned
      BY <1>4, <1>6
<1>9. CASE ~Fits(size)
  <2>1. /\ index' = [index EXCEPT !.next = @ + 1] /\ Return("resource-limit") /\ indexRuns' = indexRuns
        BY <1>5, <1>7, <1>9 DEF FlushIndex
  <2>2. CallFormed' /\ Answered("resource-limit") /\ ~Live'
        BY <2>1, Answers DEF IndexReady
  <2>3. /\ call'.at = "returned" /\ call'.op = call.op /\ call'.record = call.record
        /\ call'.answer = "resource-limit"
        BY <2>2 DEF Answered
  <2>4. index'= [index EXCEPT !.next = number + 1] /\ number + 1 \in Nat
        BY <1>6, <2>1
  <2>5. index' \in IndexStates /\ index'.opened = "yes" /\ index'.owned = index.owned
        BY <1>2, <1>3, <2>4 DEF IndexStates
  <2>6. IndexOpen' /\ IndexAccounted' /\ IndexFiles' /\ IndexPass'
        BY <1>2, <1>3, <2>1, <2>2, <2>3, <2>5 DEF IndexOpen, IndexAccounted, IndexFiles, IndexPass
  <2>7. IndexSound'
        BY <1>2, <2>1, <2>5, <2>6 DEF IndexSound
  <2> QED BY <2>2, <2>3, <2>7 DEF IndexGoal
<1>10. CASE Fits(size)
  <2>1. /\ indexRuns' = With(indexRuns, number, run)
        /\ index' = [index EXCEPT !.next = number + 1, !.owned = With(@, number, size),
                                  !.runs = Append(@, number), !.buffer = << >>]
        /\ IF call.op = "index record" THEN Return("ok") ELSE Go("index verify")
        BY <1>5, <1>6, <1>7, <1>8, <1>10 DEF FlushIndex
  <2>2. /\ CallFormed' /\ call'.at \in {"returned", "index verify"} /\ call'.op = call.op
        /\ call'.record = call.record /\ (call'.answer = call.answer \/ call'.answer = "ok")
    <3>1. CASE call.op = "index record"
          BY <2>1, <3>1, Answers DEF IndexReady, Answered
    <3>2. CASE call.op = "index verify"
      <4>1. "index verify" \in Stages(call.op) /\ Go("index verify")
            BY <2>1, <3>2 DEF Stages
      <4> QED BY <4>1, Goes DEF IndexReady, Moved
    <3> QED BY <1>1, <3>1, <3>2
  <2>b. PICK owned : owned = With(index.owned, number, size)
        OBVIOUS
  <2>3. /\ owned \in Named(IndexNames, Nat) /\ DOMAIN owned = DOMAIN index.owned \cup {number}
        /\ owned[number] = size /\ \A f \in DOMAIN index.owned : f # number => owned[f] = index.owned[f]
        /\ Sizes(owned, IndexNames) = Sizes(index.owned, IndexNames) + size
    <3>1. index.owned \in Named(IndexNames, Nat) /\ IndexNames \in Nat
          BY <1>2, IndexFields
    <3>2. owned \in Named(IndexNames, Nat)
          BY <1>6, <2>b, <3>1, NamedWith
    <3>3. Sizes(owned, IndexNames) = Sizes(index.owned, IndexNames) + size
          BY <1>6, <1>8, <2>b, <3>1, SizesWith
    <3> QED BY <2>b, <3>2, <3>3 DEF With
  <2>a. PICK files : files = With(indexRuns, number, run)
        OBVIOUS
  <2>4. /\ files \in Named(IndexNames, Seq(Recs)) /\ DOMAIN files = DOMAIN indexRuns \cup {number}
        /\ files[number] = run /\ \A f \in DOMAIN indexRuns : f # number => files[f] = indexRuns[f]
    <3>1. files \in Named(IndexNames, Seq(Recs))
          BY <1>2, <1>6, <2>a, NamedWith
    <3> QED BY <2>a, <3>1 DEF With
  <2>5. PICK numbers \in Seq(Nat) : numbers = Append(index.runs, number) /\ Injective(numbers)
                                 /\ Entries(numbers) = Entries(index.runs) \cup {number}
    <3>1. index.runs \in Seq(Nat)
          BY <1>2, IndexFields
    <3>2. Append(index.runs, number) \in Seq(Nat)
          BY <3>1
    <3>3. number \notin Entries(index.runs)
          BY <1>4, <1>8
    <3>4. Injective(Append(index.runs, number)) /\ Entries(Append(index.runs, number)) = Entries(index.runs) \cup {number}
          BY <1>4, <3>1, <3>3, AppendFacts
    <3> QED BY <3>2, <3>4
  <2>6. index' = [index EXCEPT !.next = number + 1, !.owned = owned, !.runs = numbers, !.buffer = << >>]
        BY <2>1, <2>b, <2>5
  <2>7. << >> \in Seq(Recs) /\ Entries(<< >>) = {} /\ number + 1 \in Nat
        BY <1>6 DEF Entries
  <2>8. index' \in IndexStates
        BY <1>2, <2>3, <2>5, <2>6, <2>7 DEF IndexStates
  <2>9. /\ index'.opened = "yes" /\ index'.owned = owned /\ index'.buffer = << >>
        /\ index'.runs = numbers /\ index'.next = number + 1
        BY <1>2, <1>3, <2>6 DEF IndexStates
  <2>10. indexRuns' = files
         BY <2>1, <2>a
  <2>11. IndexAccounted'
    <3>1. Sizes(index.owned, IndexNames) \in Nat
          BY <1>2, IndexFields, NamedNatural, SizesAreNatural
    <3>2. (Sizes(index.owned, IndexNames) + 1) + size =< allowance
          BY <1>3, <1>10 DEF Fits, IndexBytes
    <3>3. Sizes(owned, IndexNames) + 1 =< allowance
          BY <1>2, <2>3, <3>1, <3>2
    <3>4. ASSUME NEW f \in DOMAIN files PROVE Len(files[f]) =< Size(owned, f)
      <4>1. CASE f = number
            BY <1>7, <2>3, <2>4, <4>1 DEF Size
      <4>2. CASE f # number
        <5>1. f \in DOMAIN indexRuns /\ files[f] = indexRuns[f]
              BY <2>4, <4>2
        <5>2. Size(owned, f) = Size(index.owned, f)
              BY <2>3, <4>2 DEF Size
        <5> QED BY <1>2, <1>3, <5>1, <5>2 DEF IndexAccounted
      <4> QED BY <4>1, <4>2
    <3> QED BY <1>2, <2>9, <2>10, <3>3, <3>4 DEF IndexAccounted
  <2>12. IndexFiles'
    <3>1. DOMAIN owned \subseteq DOMAIN files
          BY <1>4, <2>3, <2>4
    <3>2. DOMAIN files \subseteq 0..((number + 1) - 1)
          BY <1>4, <1>6, <2>4
    <3>3. \A f \in DOMAIN files : Entries(files[f]) \subseteq WalRecords
          BY <1>4, <1>5, <2>4
    <3>4. Entries(numbers) \subseteq DOMAIN owned
          BY <1>4, <2>3, <2>5
    <3> QED BY <1>2, <2>5, <2>7, <2>9, <2>10, <3>1, <3>2, <3>3, <3>4 DEF IndexFiles
  <2>13. IndexOpen' /\ IndexPass'
         BY <2>2, <2>9 DEF IndexOpen, IndexPass
  <2>14. IndexSound'
         BY <1>2, <2>4, <2>8, <2>10, <2>11, <2>12, <2>13 DEF IndexSound
  <2> QED BY <2>2, <2>14 DEF IndexGoal
<1> QED BY <1>9, <1>10

LEMMA StartIndexMergeSound == ASSUME IndexReady, StartIndexMerge PROVE IndexGoal
<1>1. /\ call.at = "index merge" /\ call.op = "index verify" /\ index.next < IndexNames
      /\ manifest' = manifest /\ Fits(GroupBytes) /\ MergeNeeded(index.pass, FanIn)
      BY StageOps DEF StartIndexMerge, At, IndexReady, IndexMergeNeeded
<1>2. /\ Scanning /\ Scanning' /\ allowance' = allowance /\ allowance \in Nat /\ WalRecords' = WalRecords
      /\ index \in IndexStates /\ indexRuns \in Named(IndexNames, Seq(Recs))
      /\ IndexOpen /\ IndexAccounted /\ IndexFiles /\ IndexPass
      BY IndexBasics
<1>3. Live /\ index.opened = "yes"
      BY <1>1, <1>2 DEF Live, At, IndexOpen
<1>4. /\ DOMAIN index.owned \subseteq DOMAIN indexRuns /\ DOMAIN indexRuns \subseteq 0..(index.next - 1)
      /\ Entries(index.buffer) \subseteq WalRecords
      /\ \A f \in DOMAIN indexRuns : Entries(indexRuns[f]) \subseteq WalRecords
      BY <1>2, <1>3 DEF IndexFiles
<1>5. NamesApart(index.pass) /\ Names(index.pass) \subseteq DOMAIN index.owned
      BY <1>1, <1>2 DEF IndexPass
<1>a. index.next \in Nat /\ IndexNames \in Nat
      BY <1>2, IndexFields
<1>b. index.next \in 0..(IndexNames - 1)
  <2>1. index.next < IndexNames
        BY <1>1
  <2> QED BY <1>a, <2>1
<1>6. PICK number \in Nat : number = index.next /\ number \in 0..(IndexNames - 1)
      BY <1>a, <1>b
<1>7. number \notin DOMAIN indexRuns /\ number \notin DOMAIN index.owned
      BY <1>4, <1>6
<1>8. /\ index' = [index EXCEPT !.next = number + 1, !.runs = Append(@, number)]
      /\ Go("index merging") /\ indexRuns' = With(indexRuns, number, << >>)
      BY <1>6, <1>7 DEF StartIndexMerge
<1>9. CallFormed' /\ Moved("index merging") /\ Live'
  <2>1. "index merging" \in Stages(call.op)
        BY <1>1 DEF Stages
  <2> QED BY <1>8, <2>1, Goes DEF IndexReady
<1>10. call'.at = "index merging" /\ call'.op = call.op /\ call'.record = call.record /\ call'.answer = call.answer
       BY <1>9 DEF Moved
<1>11. << >> \in Seq(Recs) /\ Len(<< >>) = 0 /\ Entries(<< >>) = {}
       BY DEF Entries
<1>c. PICK files : files = With(indexRuns, number, << >>)
      OBVIOUS
<1>12. /\ files \in Named(IndexNames, Seq(Recs)) /\ DOMAIN files = DOMAIN indexRuns \cup {number}
       /\ files[number] = << >> /\ \A f \in DOMAIN indexRuns : f # number => files[f] = indexRuns[f]
  <2>1. files \in Named(IndexNames, Seq(Recs))
        BY <1>2, <1>6, <1>11, <1>c, NamedWith
  <2> QED BY <1>c, <2>1 DEF With
<1>13. PICK numbers \in Seq(Nat) : numbers = Append(index.runs, number) /\ numbers # << >> /\ numbers[Len(numbers)] = number
  <2>1. index.runs \in Seq(Nat)
        BY <1>2, IndexFields
  <2>2. /\ Append(index.runs, number) \in Seq(Nat) /\ Append(index.runs, number) # << >>
        /\ Append(index.runs, number)[Len(Append(index.runs, number))] = number
        BY <2>1
  <2> QED BY <2>2
<1>14. index' = [index EXCEPT !.next = number + 1, !.runs = numbers] /\ number + 1 \in Nat
  <2>1. index' = [index EXCEPT !.next = number + 1, !.runs = numbers]
        BY <1>8, <1>13
  <2> QED BY <1>6, <2>1
<1>15. index' \in IndexStates
       BY <1>2, <1>14 DEF IndexStates
<1>16. /\ index'.opened = "yes" /\ index'.owned = index.owned /\ index'.buffer = index.buffer
       /\ index'.runs = numbers /\ index'.next = number + 1 /\ index'.pass = index.pass
       BY <1>2, <1>3, <1>14 DEF IndexStates
<1>17. indexRuns' = files
       BY <1>8, <1>c
<1>18. IndexAccounted'
  <2>1. ASSUME NEW f \in DOMAIN files PROVE Len(files[f]) =< Size(index.owned, f)
    <3>1. CASE f = number
          BY <1>7, <1>11, <1>12, <3>1 DEF Size
    <3>2. CASE f # number
          BY <1>2, <1>3, <1>12, <3>2 DEF IndexAccounted
    <3> QED BY <3>1, <3>2
  <2> QED BY <1>2, <1>3, <1>16, <1>17, <2>1 DEF IndexAccounted
<1>19. IndexFiles'
  <2>1. DOMAIN files \subseteq 0..((number + 1) - 1) /\ DOMAIN index.owned \subseteq DOMAIN files
        BY <1>4, <1>6, <1>12
  <2>2. \A f \in DOMAIN files : Entries(files[f]) \subseteq WalRecords
        BY <1>4, <1>11, <1>12
  <2>3. ~Recording'
        BY <1>1, <1>10 DEF Recording
  <2> QED BY <1>2, <1>4, <1>10, <1>16, <1>17, <2>1, <2>2, <2>3 DEF IndexFiles
<1>20. Fits(GroupBytes)'
  <2>1. GroupBytes' = GroupBytes /\ IndexBytes' = IndexBytes
        BY <1>3, <1>16 DEF GroupBytes, IndexBytes
  <2> QED BY <1>1, <1>2, <2>1 DEF Fits
<1>21. IndexPass'
  <2>1. MergeOutput' = number
        BY <1>13, <1>16 DEF MergeOutput
  <2> QED BY <1>5, <1>7, <1>10, <1>12, <1>13, <1>16, <1>17, <1>20, <2>1 DEF IndexPass
<1>22. IndexOpen'
       BY <1>10, <1>16 DEF IndexOpen
<1>23. IndexSound'
       BY <1>2, <1>12, <1>15, <1>17, <1>18, <1>19, <1>21, <1>22 DEF IndexSound
<1> QED BY <1>9, <1>10, <1>23 DEF IndexGoal

\* The merge of some of the index's files.
LEMMA IndexMergedFacts ==
    ASSUME IndexReady, Live, index.opened = "yes", NEW files \in Seq(Nat), Entries(files) \subseteq DOMAIN index.owned
    PROVE  /\ IndexMerged(files) \in Seq(Recs) /\ Entries(IndexMerged(files)) \subseteq WalRecords
           /\ Len(IndexMerged(files)) = SizeOf(Contents(files, indexRuns))
<1>1. indexRuns \in Named(IndexNames, Seq(Recs)) /\ IndexFiles
      BY IndexBasics
<1>2. Entries(files) \subseteq DOMAIN indexRuns /\ \A f \in DOMAIN indexRuns : Entries(indexRuns[f]) \subseteq WalRecords
      BY <1>1 DEF IndexFiles
<1>3. PICK all : all = Contents(files, indexRuns)
      OBVIOUS
<1>4. all \in Seq(Seq(Recs)) /\ DOMAIN all = DOMAIN files /\ \A i \in DOMAIN files : all[i] = indexRuns[files[i]]
      BY <1>1, <1>2, <1>3, ContentsFacts
<1>5. \A i \in DOMAIN all : Entries(all[i]) \subseteq WalRecords
  <2>1. \A i \in DOMAIN files : files[i] \in Entries(files)
        BY DEF Entries
  <2> QED BY <1>2, <1>4, <2>1
<1>6. IndexMerged(files) = Merged("line", all)
      BY <1>3 DEF IndexMerged, Contents
<1>7. /\ Merged("line", all) \in Seq(Recs) /\ Len(Merged("line", all)) = SizeOf(all)
      /\ \A r : r \in Entries(Merged("line", all)) <=> \E i \in DOMAIN all : r \in Entries(all[i])
      BY <1>4, MergedFacts
<1> QED BY <1>3, <1>5, <1>6, <1>7

LEMMA FinishIndexMergeSound == ASSUME IndexReady, FinishIndexMerge PROVE IndexGoal
<1>1. call.at = "index merging" /\ call.op = "index verify" /\ manifest' = manifest
      BY StageOps DEF FinishIndexMerge, At, IndexReady
<1>2. /\ Scanning /\ Scanning' /\ allowance' = allowance /\ allowance \in Nat /\ WalRecords' = WalRecords
      /\ index \in IndexStates /\ indexRuns \in Named(IndexNames, Seq(Recs))
      /\ IndexOpen /\ IndexAccounted /\ IndexFiles /\ IndexPass
      BY IndexBasics
<1>3. Live /\ index.opened = "yes"
      BY <1>1, <1>2 DEF Live, At, IndexOpen
<1>4. /\ DOMAIN index.owned \subseteq DOMAIN indexRuns /\ DOMAIN indexRuns \subseteq 0..(index.next - 1)
      /\ Entries(index.buffer) \subseteq WalRecords
      /\ \A f \in DOMAIN indexRuns : Entries(indexRuns[f]) \subseteq WalRecords
      BY <1>2, <1>3 DEF IndexFiles
<1>5. /\ NamesApart(index.pass) /\ Names(index.pass) \subseteq DOMAIN index.owned /\ index.runs # << >>
      /\ MergeOutput \in DOMAIN indexRuns \ DOMAIN index.owned /\ Fits(GroupBytes)
      BY <1>1, <1>2 DEF IndexPass
<1>6. PICK output : output = MergeOutput
      OBVIOUS
<1>7. output \in DOMAIN indexRuns /\ output \notin DOMAIN index.owned /\ output \in 0..(IndexNames - 1)
      BY <1>2, <1>5, <1>6, NamedIs
<1>8. /\ index.owned \in Named(IndexNames, Nat) /\ index.pass \in Passes /\ IndexNames \in Nat
      BY <1>2, IndexFields
<1>9. PICK group \in Seq(Nat) : group = Group(index.pass) /\ Entries(group) \subseteq DOMAIN index.owned
      BY <1>5, <1>8, GroupFacts DEF Names
<1>10. PICK run \in Seq(Recs) : run = IndexMerged(group) /\ Entries(run) \subseteq WalRecords
                                /\ Len(run) = SizeOf(Contents(group, indexRuns))
       BY <1>3, <1>9, IndexMergedFacts
<1>11. PICK size \in Nat : size = Len(run)
       OBVIOUS
<1>12. /\ indexRuns' = With(indexRuns, output, run) /\ Go("index unlink")
       /\ index' = [index EXCEPT !.owned = With(@, output, size)]
       BY <1>6, <1>9, <1>10, <1>11 DEF FinishIndexMerge
<1>13. CallFormed' /\ Moved("index unlink")
  <2>1. "index unlink" \in Stages(call.op)
        BY <1>1 DEF Stages
  <2> QED BY <1>12, <2>1, Goes DEF IndexReady
<1>14. call'.at = "index unlink" /\ call'.op = call.op /\ call'.record = call.record /\ call'.answer = call.answer
       BY <1>13 DEF Moved
<1>15. PICK files : files = With(indexRuns, output, run)
       OBVIOUS
<1>16. /\ files \in Named(IndexNames, Seq(Recs)) /\ DOMAIN files = DOMAIN indexRuns
       /\ files[output] = run /\ \A f \in DOMAIN indexRuns : f # output => files[f] = indexRuns[f]
  <2>1. files \in Named(IndexNames, Seq(Recs))
        BY <1>2, <1>7, <1>15, NamedWith
  <2> QED BY <1>7, <1>15, <2>1 DEF With
<1>17. PICK owned : owned = With(index.owned, output, size)
       OBVIOUS
<1>18. /\ owned \in Named(IndexNames, Nat) /\ DOMAIN owned = DOMAIN index.owned \cup {output}
       /\ owned[output] = size /\ \A f \in DOMAIN index.owned : f # output => owned[f] = index.owned[f]
       /\ Sizes(owned, IndexNames) = Sizes(index.owned, IndexNames) + size
  <2>1. owned \in Named(IndexNames, Nat)
        BY <1>7, <1>8, <1>11, <1>17, NamedWith
  <2>2. Sizes(owned, IndexNames) = Sizes(index.owned, IndexNames) + size
        BY <1>7, <1>8, <1>11, <1>17, SizesWith
  <2> QED BY <1>17, <2>1, <2>2 DEF With
<1>19. index' = [index EXCEPT !.owned = owned] /\ indexRuns' = files
       BY <1>12, <1>15, <1>17
<1>20. index' \in IndexStates
       BY <1>2, <1>18, <1>19 DEF IndexStates
<1>21. /\ index'.opened = "yes" /\ index'.owned = owned /\ index'.buffer = index.buffer
       /\ index'.runs = index.runs /\ index'.next = index.next /\ index'.pass = index.pass
       BY <1>2, <1>3, <1>19 DEF IndexStates
<1>22. IndexAccounted'
  <2>1. Sizes(index.owned, IndexNames) \in Nat
        BY <1>8, NamedNatural, SizesAreNatural
  <2>2. \A f \in Entries(group) : Len(indexRuns[f]) =< index.owned[f]
    <3>1. \A f \in Entries(group) : f \in DOMAIN indexRuns /\ Size(index.owned, f) = index.owned[f]
          BY <1>4, <1>9 DEF Size
    <3> QED BY <1>2, <1>3, <3>1 DEF IndexAccounted
  <2>3. size =< GroupBytes /\ GroupBytes \in Nat
    <3>1. Entries(group) \subseteq DOMAIN indexRuns
          BY <1>4, <1>9
    <3>2. SizeOf(Contents(group, indexRuns)) =< GroupSize(index.pass, index.owned) /\ GroupSize(index.pass, index.owned) \in Nat
          BY <1>2, <1>8, <1>9, <2>2, <3>1, GroupSizes
    <3> QED BY <1>10, <1>11, <3>2 DEF GroupBytes
  <2>4. (Sizes(index.owned, IndexNames) + 1) + GroupBytes =< allowance
        BY <1>3, <1>5 DEF Fits, IndexBytes
  <2>5. Sizes(owned, IndexNames) + 1 =< allowance
        BY <1>2, <1>11, <1>18, <2>1, <2>3, <2>4
  <2>6. ASSUME NEW f \in DOMAIN files PROVE Len(files[f]) =< Size(owned, f)
    <3>1. CASE f = output
          BY <1>11, <1>16, <1>18, <3>1 DEF Size
    <3>2. CASE f # output
      <4>1. f \in DOMAIN indexRuns /\ files[f] = indexRuns[f]
            BY <1>16, <3>2
      <4>2. Size(owned, f) = Size(index.owned, f)
            BY <1>18, <3>2 DEF Size
      <4> QED BY <1>2, <1>3, <4>1, <4>2 DEF IndexAccounted
    <3> QED BY <3>1, <3>2
  <2> QED BY <1>2, <1>19, <1>21, <2>5, <2>6 DEF IndexAccounted
<1>23. IndexFiles'
  <2>1. DOMAIN owned \subseteq DOMAIN files /\ DOMAIN files \subseteq 0..(index.next - 1)
        BY <1>4, <1>7, <1>16, <1>18
  <2>2. \A f \in DOMAIN files : Entries(files[f]) \subseteq WalRecords
        BY <1>4, <1>10, <1>16
  <2>3. ~Recording'
        BY <1>1, <1>14 DEF Recording
  <2> QED BY <1>2, <1>4, <1>14, <1>19, <1>21, <2>1, <2>2, <2>3 DEF IndexFiles
<1>24. IndexPass'
  <2>1. MergeOutput' = output
        BY <1>6, <1>21 DEF MergeOutput
  <2>2. output \in DOMAIN owned \ Names(index.pass)
        BY <1>5, <1>7, <1>18
  <2>3. Names(index.pass) \ Entries(group) \subseteq DOMAIN owned
        BY <1>5, <1>18
  <2> QED BY <1>5, <1>9, <1>14, <1>21, <2>1, <2>2, <2>3 DEF IndexPass
<1>25. IndexOpen'
       BY <1>14, <1>21 DEF IndexOpen
<1>26. IndexSound'
       BY <1>2, <1>16, <1>19, <1>20, <1>22, <1>23, <1>24, <1>25 DEF IndexSound
<1> QED BY <1>13, <1>14, <1>26 DEF IndexGoal

LEMMA UnlinkInputSound == ASSUME IndexReady, UnlinkInput PROVE IndexGoal
<1>1. call.at = "index unlink" /\ call.op = "index verify" /\ manifest' = manifest
      BY StageOps DEF UnlinkInput, At, IndexReady
<1>2. /\ Scanning /\ Scanning' /\ allowance' = allowance /\ allowance \in Nat /\ WalRecords' = WalRecords
      /\ index \in IndexStates /\ indexRuns \in Named(IndexNames, Seq(Recs))
      /\ IndexOpen /\ IndexAccounted /\ IndexFiles /\ IndexPass
      BY IndexBasics
<1>3. Live /\ index.opened = "yes"
      BY <1>1, <1>2 DEF Live, At, IndexOpen
<1>4. /\ DOMAIN index.owned \subseteq DOMAIN indexRuns /\ DOMAIN indexRuns \subseteq 0..(index.next - 1)
      /\ Entries(index.buffer) \subseteq WalRecords
      /\ \A f \in DOMAIN indexRuns : Entries(indexRuns[f]) \subseteq WalRecords
      BY <1>2, <1>3 DEF IndexFiles
<1>5. /\ NamesApart(index.pass) /\ index.runs # << >> /\ MergeOutput \in DOMAIN index.owned \ Names(index.pass)
      /\ Names(index.pass) \ Entries(Group(index.pass)) \subseteq DOMAIN index.owned
      BY <1>1, <1>2 DEF IndexPass
<1>6. /\ index.owned \in Named(IndexNames, Nat) /\ index.pass \in Passes /\ IndexNames \in Nat
      BY <1>2, IndexFields
<1>a. PICK i \in InputsLeft :
          /\ indexRuns' = Without(indexRuns, {Group(index.pass)[i]})
          /\ LET unlinked == [index EXCEPT !.owned = Without(@, {Group(index.pass)[i]})]
             IN  \/ index' = unlinked /\ call' = call
                 \/ index' = [unlinked EXCEPT !.pass = GroupDone(@, MergeOutput)] /\ Go("index merge")
      BY DEF UnlinkInput
<1>b. PICK file : file = Group(index.pass)[i]
      OBVIOUS
<1>c. file \in Entries(Group(index.pass))
      BY <1>b DEF InputsLeft, Entries
<1>d. PICK done : done = index'.pass
      OBVIOUS
<1>7. /\ file \in Entries(Group(index.pass)) /\ indexRuns' = Without(indexRuns, {file}) /\ done \in Passes
      /\ index' = [index EXCEPT !.owned = Without(@, {file}), !.pass = done]
      /\ \/ call' = call /\ done = index.pass
         \/ /\ Go("index merge") /\ NamesApart(done)
            /\ Names(done) = (Names(index.pass) \ Entries(Group(index.pass))) \cup {MergeOutput}
  <2>4. CASE index' = [index EXCEPT !.owned = Without(@, {file})] /\ call' = call
    <3>1. index' = [index EXCEPT !.owned = Without(@, {file}), !.pass = index.pass]
          BY <1>2, <2>4 DEF IndexStates
    <3>2. done = index.pass
          BY <1>2, <1>d, <3>1 DEF IndexStates
    <3> QED BY <1>6, <1>a, <1>b, <1>c, <2>4, <3>1, <3>2
  <2>5. CASE /\ index' = [[index EXCEPT !.owned = Without(@, {file})] EXCEPT !.pass = GroupDone(@, MergeOutput)]
             /\ Go("index merge")
    <3>1. index' = [index EXCEPT !.owned = Without(@, {file}), !.pass = GroupDone(index.pass, MergeOutput)]
          BY <1>2, <2>5 DEF IndexStates
    <3>2. MergeOutput \in Nat
      <4>1. DOMAIN index.owned \subseteq 0..(IndexNames - 1)
            BY <1>6, NamedIs
      <4> QED BY <1>5, <1>6, <4>1
    <3>3. done = GroupDone(index.pass, MergeOutput)
          BY <1>2, <1>d, <3>1 DEF IndexStates
    <3>4. MergeOutput \notin Names(index.pass) /\ NamesApart(index.pass)
          BY <1>5
    <3>5. /\ done \in Passes /\ NamesApart(done)
          /\ Names(done) = (Names(index.pass) \ Entries(Group(index.pass))) \cup {MergeOutput}
          BY <1>6, <3>2, <3>3, <3>4, GroupDoneFacts
    <3> QED BY <1>a, <1>b, <1>c, <2>5, <3>1, <3>3, <3>5
  <2> QED BY <1>a, <1>b, <2>4, <2>5
<1>8. /\ CallFormed' /\ call'.op = call.op /\ call'.record = call.record /\ call'.answer = call.answer /\ ~Recording'
      /\ call'.at = "index unlink" \/ call'.at = "index merge"
  <2>1. CASE call' = call
        BY <1>1, <2>1, CallStays DEF IndexReady, Recording
  <2>2. CASE Go("index merge")
    <3>1. "index merge" \in Stages(call.op)
          BY <1>1 DEF Stages
    <3>2. CallFormed' /\ Moved("index merge")
          BY <2>2, <3>1, Goes DEF IndexReady
    <3> QED BY <1>1, <3>2 DEF Moved, Recording
  <2> QED BY <1>7, <2>1, <2>2
<1>9. PICK owned : owned = Without(index.owned, {file})
      OBVIOUS
<1>10. PICK files : files = Without(indexRuns, {file})
       OBVIOUS
<1>11. /\ owned \in Named(IndexNames, Nat) /\ DOMAIN owned = DOMAIN index.owned \ {file}
       /\ \A f \in DOMAIN index.owned : f # file => owned[f] = index.owned[f]
       /\ Sizes(owned, IndexNames) =< Sizes(index.owned, IndexNames)
       /\ Sizes(owned, IndexNames) \in Nat /\ Sizes(index.owned, IndexNames) \in Nat
  <2>1. owned \in Named(IndexNames, Nat)
        BY <1>6, <1>9, NamedWithout
  <2>2. Sizes(owned, IndexNames) =< Sizes(index.owned, IndexNames)
        BY <1>6, <1>9, SizesWithout
  <2>3. Sizes(owned, IndexNames) \in Nat /\ Sizes(index.owned, IndexNames) \in Nat
        BY <1>6, <2>1, NamedNatural, SizesAreNatural
  <2> QED BY <1>9, <2>1, <2>2, <2>3 DEF Without
<1>12. /\ files \in Named(IndexNames, Seq(Recs)) /\ DOMAIN files = DOMAIN indexRuns \ {file}
       /\ \A f \in DOMAIN indexRuns : f # file => files[f] = indexRuns[f]
  <2>1. files \in Named(IndexNames, Seq(Recs))
        BY <1>2, <1>10, NamedWithout
  <2> QED BY <1>10, <2>1 DEF Without
<1>13. index' = [index EXCEPT !.owned = owned, !.pass = done] /\ indexRuns' = files
       BY <1>7, <1>9, <1>10
<1>14. index' \in IndexStates
       BY <1>2, <1>7, <1>11, <1>13 DEF IndexStates
<1>15. /\ index'.opened = "yes" /\ index'.owned = owned /\ index'.buffer = index.buffer
       /\ index'.runs = index.runs /\ index'.next = index.next /\ index'.pass = done
       BY <1>2, <1>3, <1>13 DEF IndexStates
<1>16. IndexAccounted'
  <2>1. ASSUME NEW f \in DOMAIN files PROVE Len(files[f]) =< Size(owned, f)
    <3>1. f \in DOMAIN indexRuns /\ f # file /\ files[f] = indexRuns[f]
          BY <1>12
    <3>2. Size(owned, f) = Size(index.owned, f)
          BY <1>11, <3>1 DEF Size
    <3> QED BY <1>2, <1>3, <3>1, <3>2 DEF IndexAccounted
  <2>2. Sizes(owned, IndexNames) + 1 =< allowance
    <3>1. Sizes(index.owned, IndexNames) + 1 =< allowance
          BY <1>2, <1>3 DEF IndexAccounted
    <3> QED BY <1>2, <1>11, <3>1
  <2> QED BY <1>2, <1>13, <1>15, <2>1, <2>2 DEF IndexAccounted
<1>17. IndexFiles'
  <2>1. DOMAIN owned \subseteq DOMAIN files /\ DOMAIN files \subseteq 0..(index.next - 1)
        BY <1>4, <1>11, <1>12
  <2>2. \A f \in DOMAIN files : Entries(files[f]) \subseteq WalRecords
        BY <1>4, <1>12
  <2> QED BY <1>2, <1>4, <1>8, <1>13, <1>15, <2>1, <2>2 DEF IndexFiles
<1>18. IndexPass'
  <2>1. MergeOutput' = MergeOutput
        BY <1>15 DEF MergeOutput
  <2>2. file \in Names(index.pass)
        BY <1>6, <1>7, GroupFacts DEF Names
  <2>3. MergeOutput \in DOMAIN owned /\ MergeOutput \notin Names(index.pass)
        BY <1>5, <1>11, <2>2
  <2>4. Names(index.pass) \ Entries(Group(index.pass)) \subseteq DOMAIN owned
        BY <1>5, <1>7, <1>11
  <2>5. CASE call' = call /\ done = index.pass
        BY <1>1, <1>5, <1>15, <2>1, <2>3, <2>4, <2>5 DEF IndexPass
  <2>6. CASE /\ Go("index merge") /\ NamesApart(done)
             /\ Names(done) = (Names(index.pass) \ Entries(Group(index.pass))) \cup {MergeOutput}
    <3>1. "index merge" \in Stages(call.op)
          BY <1>1 DEF Stages
    <3>2. call'.at = "index merge"
          BY <2>6, <3>1, Goes DEF IndexReady, Moved
    <3>3. Names(done) \subseteq DOMAIN owned
          BY <2>3, <2>4, <2>6
    <3> QED BY <1>15, <2>6, <3>2, <3>3 DEF IndexPass
  <2> QED BY <1>7, <2>5, <2>6
<1>19. IndexOpen'
       BY <1>15 DEF IndexOpen
<1>20. IndexSound'
       BY <1>2, <1>12, <1>13, <1>14, <1>16, <1>17, <1>18, <1>19 DEF IndexSound
<1> QED BY <1>8, <1>20 DEF IndexGoal

LEMMA ScanGroupSound == ASSUME IndexReady, ScanGroup PROVE IndexGoal
<1>1. /\ At("index merge") /\ call.at = "index merge" /\ UNCHANGED indexVars
      BY DEF ScanGroup, At
<1>2. Scanning /\ index \in IndexStates /\ IndexOpen /\ IndexFiles /\ IndexPass
      BY IndexBasics
<1>3. Live /\ index.opened = "yes"
      BY <1>1, <1>2 DEF Live, At, IndexOpen
<1>4. Names(index.pass) \subseteq DOMAIN index.owned /\ index.pass \in Passes
      BY <1>1, <1>2, IndexFields DEF IndexPass
<1>5. PICK todo \in Seq(Nat) : todo = index.pass.todo /\ Entries(todo) \subseteq DOMAIN index.owned
      BY <1>4 DEF Names, Passes
<1>6. PICK all \in Seq(Recs) : all = IndexMerged(todo) /\ Entries(all) \subseteq WalRecords
      BY <1>3, <1>5, IndexMergedFacts
<1>7. CASE \E i \in 1..(Len(all) - 1) : all[i][1] = all[i + 1][1] /\ all[i] # all[i + 1]
  <2>1. PICK i \in 1..(Len(all) - 1) : all[i][1] = all[i + 1][1] /\ all[i] # all[i + 1]
        BY <1>7
  <2>2. DOMAIN all = 1..Len(all) /\ Len(all) \in Nat
        OBVIOUS
  <2>3. i \in DOMAIN all /\ i + 1 \in DOMAIN all
        BY <2>1, <2>2
  <2>4. all[i] \in WalRecords /\ all[i + 1] \in WalRecords
        BY <1>6, <2>3 DEF Entries
  <2>5. ~CommitsOnce
        BY <2>1, <2>4, SameIdentityTwice DEF IndexReady
  <2>6. Return("corrupt")
        BY <1>5, <1>6, <1>7 DEF ScanGroup
  <2> QED BY <1>1, <2>5, <2>6, IndexRefused
<1>8. CASE ~\E i \in 1..(Len(all) - 1) : all[i][1] = all[i + 1][1] /\ all[i] # all[i + 1]
  <2>1. Return("ok")
        BY <1>5, <1>6, <1>8 DEF ScanGroup
  <2> QED BY <1>1, <2>1, IndexRefused
<1> QED BY <1>7, <1>8


LEMMA IndexStepSound == ASSUME IndexReady, IndexStep PROVE IndexGoal
  BY SweepIndexSound, CreateManifestSound, RecordInIndexSound, VerifyIndexSound, NumbersExhaustedSound, ReserveSound,
     FlushIndexSound, StartIndexMergeSound, FinishIndexMergeSound, UnlinkInputSound, ScanGroupSound, Zenon DEF IndexStep

-------------------------------------------------------------------------------
(* What one index does is nothing to the other *)

LEMMA HistoryFrame ==
    ASSUME HistorySound, Scanning, Kept, Live, history' = history, historyRuns' = historyRuns,
           Delivered' = Delivered, call.op # "history verify",
           call'.at \notin {"history flush", "history merge", "history merging", "history cleanup"},
           ~(call'.at = "returned" /\ call'.op = "history verify")
    PROVE  HistorySound'
<1>1. wal' = wal /\ receipts' = receipts /\ allowance' = allowance /\ verdict' = verdict
      BY DEF Kept
<1>2. /\ history \in HistoryStates /\ historyRuns \in Named(HistoryNames, Seq(Recs))
      /\ HistorySwept /\ HistoryAccounted /\ HistoryFiles /\ HistoryRecords
      BY DEF HistorySound
<1>3. HistorySwept'
      BY <1>2 DEF HistorySwept
<1>4. HistoryAccounted'
      BY <1>1, <1>2 DEF HistoryAccounted
<1>5. HistoryFiles'
      BY <1>2 DEF HistoryFiles
<1>6. HistoryFound'
      BY DEF HistoryFound, Returned, At
<1>7. HistoryRecords'
  <2>1. HistoryHolds(Entries(history.runs)) /\ Injective(history.runs)
        BY <1>2 DEF HistoryRecords
  <2>2. HistoryHolds(Entries(history.runs))'
    <3>1. {Record(i)' : i \in 1..Delivered'} = {Record(i) : i \in 1..Delivered}
          BY <1>1 DEF Record
    <3>2. PICK names : names = Entries(history.runs)
          OBVIOUS
    <3>3. HistoryHolds(names)
          BY <2>1, <3>2
    <3>4. HistoryHolds(names)'
          BY <3>1, <3>3 DEF HistoryHolds
    <3>5. names' = names
          OBVIOUS
    <3> QED BY <3>2, <3>4
  <2> QED BY <2>1, <2>2 DEF HistoryRecords
<1>8. Scanning'
      BY <1>1 DEF Scanning
<1> QED BY <1>2, <1>3, <1>4, <1>5, <1>6, <1>7, <1>8 DEF HistorySound

LEMMA IndexFrame ==
    ASSUME IndexSound, InputSound, Scanning, Kept, Live, UNCHANGED indexVars,
           call'.at \notin {"index flush", "index merge", "index merging", "index unlink"},
           Recording' \/ call'.at = "index verify" => Recording
    PROVE  IndexSound'
<1>1. allowance' = allowance /\ Scanning' /\ WalRecords' = WalRecords
      BY KeptInput DEF Kept
<1>2. index' = index /\ indexRuns' = indexRuns /\ manifest' = manifest
      BY DEF indexVars
<1>3. /\ index \in IndexStates /\ indexRuns \in Named(IndexNames, Seq(Recs))
      /\ IndexOpen /\ IndexAccounted /\ IndexFiles
      BY DEF IndexSound
<1>4. IndexOpen' /\ IndexPass'
      BY <1>2, <1>3 DEF IndexOpen, IndexPass
<1>5. IndexAccounted'
      BY <1>1, <1>2, <1>3 DEF IndexAccounted
<1>6. IndexFiles'
      BY <1>1, <1>2, <1>3 DEF IndexFiles
<1> QED BY <1>1, <1>2, <1>3, <1>4, <1>5, <1>6 DEF IndexSound

LEMMA CallFields ==
    ASSUME NEW op, NEW record, call' = Calling(op, record)
    PROVE  call'.op = op /\ call'.at = op /\ call'.record = record /\ call'.answer = "none"
<1>1. call' = [op |-> op, at |-> op, record |-> record, answer |-> "none"]
      BY DEF Calling
<1> QED BY <1>1

LEMMA Second == \A a, b : <<a, b>>[2] = b
  OBVIOUS

\* A call begins.
LEMMA CallBegins ==
    ASSUME NEW op \in Ops, NEW record, call' = Calling(op, record), Scanning',
           op \in {"index record", "history record"} => \E i \in DOMAIN wal' : record = <<wal'[i], i>>
    PROVE  /\ CallFormed' /\ Live'
           /\ call'.op = op /\ call'.at = op /\ call'.record = record /\ call'.answer = "none"
<1>1. call' = [op |-> op, at |-> op, record |-> record, answer |-> "none"]
      BY DEF Calling
<1>2. call'.op = op /\ call'.at = op /\ call'.record = record /\ call'.answer = "none"
      BY CallFields, Zenon
<1>3. op # "returned" /\ op \in Stages(op)
      BY DEF Ops, Stages
<1>4. Live'
      BY <1>2, <1>3 DEF Live, At
<1>5. CallFormed'
      BY <1>1, <1>2, <1>3 DEF CallFormed, At, Recording, Record
<1> QED BY <1>2, <1>4, <1>5

LEMMA ProceedSound == ASSUME ScanSound, Proceed PROVE ScanSound'
<1>1. /\ InputSound /\ CallFormed /\ IndexSound /\ HistorySound /\ VerdictSound /\ Scanning /\ Kept
      /\ UNCHANGED indexVars /\ history' = history /\ historyRuns' = historyRuns
      BY DEF ScanSound, Proceed, scanInput, historyVars, Kept
<1>2. InputSound' /\ CommitsOnce' = CommitsOnce /\ Scanning'
      BY <1>1, KeptInput
<1>3. wal' = wal /\ receipts' = receipts /\ verdict' = verdict
      BY <1>1 DEF Kept
<1>4. wal \in Seq(Nat) /\ DOMAIN wal = 1..Len(wal) /\ Len(wal) \in Nat
      BY <1>1 DEF InputSound
<1>5. call.at = "returned" /\ Live
      BY <1>1 DEF Proceed, Returned, At, Live
<1>6. /\ CallFormed' /\ call'.answer = "none" /\ Delivered' = Delivered /\ call.op # "history verify"
      /\ call'.at \in Ops /\ call'.op = call'.at
      /\ Recording' \/ call'.at = "index verify" => Recording
  <2>1. CASE call.op = "index record" /\ call' = Calling("history record", call.record)
    <3>1. \E i \in DOMAIN wal' : call.record = <<wal'[i], i>>
          BY <1>1, <1>3, <2>1 DEF CallFormed, Recording, Record
    <3>2. /\ CallFormed' /\ call'.op = "history record" /\ call'.at = "history record"
          /\ call'.record = call.record /\ call'.answer = "none"
          BY <1>2, <2>1, <3>1, CallBegins DEF Ops
    <3>3. Delivered' = call.record[2] - 1 /\ Delivered = call.record[2] - 1
          BY <2>1, <3>2 DEF Delivered
    <3> QED BY <2>1, <3>2, <3>3 DEF Recording, Ops
  <2>2. CASE call.op = "history record" /\ call.record[2] < Len(wal)
                /\ call' = Calling("index record", Record(call.record[2] + 1))
    <3>1. PICK i \in DOMAIN wal : call.record = Record(i)
          BY <1>1, <2>2 DEF CallFormed, Recording
    <3>2. PICK j \in Nat : j = call.record[2] /\ j + 1 \in DOMAIN wal
      <4>1. call.record[2] = i
            BY <3>1, Second, Zenon DEF Record
      <4>2. i < Len(wal)
            BY <2>2, <4>1
      <4>3. i \in Nat /\ i + 1 \in DOMAIN wal
            BY <1>4, <4>2
      <4> QED BY <4>1, <4>3
    <3>3. call' = Calling("index record", <<wal[j + 1], j + 1>>)
          BY <2>2, <3>2 DEF Record
    <3>4. /\ CallFormed' /\ call'.op = "index record" /\ call'.at = "index record"
          /\ call'.record = <<wal[j + 1], j + 1>> /\ call'.answer = "none"
          BY <1>2, <1>3, <3>2, <3>3, CallBegins DEF Ops
    <3>a. call'.record[2] = j + 1
      <4>1. PICK a, b : a = wal[j + 1] /\ b = j + 1
            OBVIOUS
      <4>2. call'.record = <<a, b>>
            BY <3>4, <4>1
      <4>3. call'.record[2] = b
            BY <4>2
      <4> QED BY <4>1, <4>3
    <3>5. Delivered' = (j + 1) - 1 /\ Delivered = j
          BY <1>5, <2>2, <3>2, <3>4, <3>a DEF Delivered
    <3>6. (j + 1) - 1 = j
          BY <3>2
    <3> QED BY <2>2, <3>4, <3>5, <3>6 DEF Recording, Ops
  <2>3. CASE call.op = "history record" /\ ~(call.record[2] < Len(wal)) /\ call' = Calling("index verify", << >>)
    <3>1. PICK i \in DOMAIN wal : call.record = Record(i)
          BY <1>1, <2>3 DEF CallFormed, Recording
    <3>2. call.record[2] = Len(wal)
      <4>1. call.record[2] = i
            BY <3>1, Second, Zenon DEF Record
      <4>2. ~(i < Len(wal))
            BY <2>3, <4>1
      <4>3. i = Len(wal)
            BY <1>4, <4>2
      <4> QED BY <4>1, <4>3
    <3>3. CallFormed' /\ call'.op = "index verify" /\ call'.at = "index verify" /\ call'.answer = "none"
          BY <1>2, <2>3, CallBegins DEF Ops
    <3>4. Delivered' = Len(wal) /\ Delivered = Len(wal)
          BY <1>3, <1>5, <2>3, <3>2, <3>3 DEF Delivered
    <3> QED BY <2>3, <3>3, <3>4 DEF Recording, Ops
  <2>4. CASE call.op = "index verify" /\ call' = Calling("history verify", << >>)
    <3>1. CallFormed' /\ call'.op = "history verify" /\ call'.at = "history verify" /\ call'.answer = "none"
          BY <1>2, <2>4, CallBegins DEF Ops
    <3>2. Delivered' = Len(wal) /\ Delivered = Len(wal)
          BY <1>3, <1>5, <2>4, <3>1 DEF Delivered
    <3> QED BY <2>4, <3>1, <3>2 DEF Recording, Ops
  <2> QED BY <2>1, <2>2, <2>3, <2>4 DEF Proceed, Returned
<1>7. HistorySound'
      BY <1>1, <1>5, <1>6, HistoryFrame DEF Ops
<1>8. IndexSound'
      BY <1>1, <1>5, <1>6, IndexFrame DEF Ops
<1>9. VerdictSound'
  <2>1. verdict # "published"
        BY <1>1 DEF Scanning
  <2> QED BY <1>1, <1>2, <1>3, <1>6, <2>1 DEF VerdictSound
<1> QED BY <1>2, <1>6, <1>7, <1>8, <1>9 DEF ScanSound

LEMMA IndexStepKeeps ==
    ASSUME ScanSound, Scanning, IndexStep, UNCHANGED <<scanInput, historyVars, torn, pass, scans, verdict>>
    PROVE  ScanSound'
<1>1. /\ InputSound /\ CallFormed /\ IndexSound /\ HistorySound /\ VerdictSound /\ Kept
      /\ history' = history /\ historyRuns' = historyRuns
      BY DEF ScanSound, scanInput, historyVars, Kept
<1>2. InputSound' /\ CommitsOnce' = CommitsOnce /\ Scanning'
      BY <1>1, KeptInput
<1>3. wal' = wal /\ receipts' = receipts /\ verdict' = verdict
      BY <1>1 DEF Kept
<1>4. /\ CallFormed' /\ IndexSound' /\ call'.op = call.op /\ call'.record = call.record
      /\ call'.answer = "corrupt" => call.answer = "corrupt" \/ ~CommitsOnce
      BY <1>1, IndexStepSound DEF IndexReady, IndexGoal
<1>5. call.at \in {"index record", "index verify", "index flush", "index merge", "index merging", "index unlink"}
      BY DEF IndexStep, SweepIndex, CreateManifest, RecordInIndex, VerifyIndex, NumbersExhausted, Reserve, FlushIndex,
             MergeTooLarge, StartIndexMerge, FinishIndexMerge, UnlinkInput, ScanGroup, IndexCreates, IndexMergeNeeded, At
<1>6. Live /\ call.op \in {"index record", "index verify"}
      BY <1>1, <1>5, StageOps DEF Live, At
<1>7. call'.at \in Stages(call.op)
      BY <1>2, <1>4 DEF CallFormed
<1>8. call'.at \notin {"history flush", "history merge", "history merging", "history cleanup", "history record"}
      BY <1>6, <1>7 DEF Stages
<1>9. Delivered' = Delivered
      BY <1>3, <1>4, <1>5, <1>6, <1>8 DEF Delivered
<1>10. HistorySound'
       BY <1>1, <1>4, <1>6, <1>8, <1>9, HistoryFrame
<1>11. VerdictSound'
  <2>1. verdict # "published"
        BY DEF Scanning
  <2> QED BY <1>1, <1>2, <1>3, <1>4, <2>1 DEF VerdictSound
<1> QED BY <1>2, <1>4, <1>10, <1>11 DEF ScanSound

-------------------------------------------------------------------------------
(* The history *)

HistoryReady == InputSound /\ CallFormed /\ HistorySound /\ Scanning /\ Kept
HistoryGoal ==
    /\ CallFormed' /\ HistorySound' /\ call'.op = call.op /\ call'.record = call.record
    /\ call'.answer = "corrupt" => call.answer = "corrupt" \/ ~CommitsOnce

LEMMA HistoryFields ==
    ASSUME NEW h \in HistoryStates
    PROVE  /\ h.swept \in BOOLEAN /\ h.buffer \in Seq(Recs) /\ h.runs \in Seq(Nat) /\ h.next \in Nat
           /\ h.owned \in Named(HistoryNames, Nat) /\ h.pass \in Passes
           /\ h.outcome \in {"ok", "corrupt", "resource-limit"}
  BY DEF HistoryStates

LEMMA HistoryBasics ==
    ASSUME HistoryReady
    PROVE  /\ Scanning /\ Scanning' /\ allowance' = allowance /\ allowance \in Nat /\ HistoryNames \in Nat
           /\ wal' = wal /\ WalRecords \subseteq Recs /\ CommitsOnce' = CommitsOnce
           /\ history \in HistoryStates /\ historyRuns \in Named(HistoryNames, Seq(Recs))
           /\ HistorySwept /\ HistoryAccounted /\ HistoryFiles /\ HistoryRecords /\ HistoryFound
<1>1. InputSound /\ Kept /\ Scanning /\ HistorySound
      BY DEF HistoryReady
<1>2. Scanning' /\ CommitsOnce' = CommitsOnce /\ WalRecords \subseteq Recs
      BY <1>1, KeptInput, WalRecordsAre
<1>3. HistoryNames \in Nat
      BY HistoryConstantsOK
<1> QED BY <1>1, <1>2, <1>3 DEF Kept, InputSound, HistorySound

\* What was delivered are records of the WAL, and a verification was given all.
LEMMA DeliveredRecords ==
    ASSUME InputSound, CallFormed, Scanning
    PROVE  /\ {Record(i) : i \in 1..Delivered} \subseteq WalRecords
           /\ call.op = "history verify" => {Record(i) : i \in 1..Delivered} = WalRecords
<1>1. DOMAIN wal = 1..Len(wal) /\ Len(wal) \in Nat
      BY DEF InputSound
<1>2. call.op = "history verify" => Delivered = Len(wal)
  <2>1. call.op = "history verify" => call.at # "history record"
        BY DEF CallFormed, Stages
  <2> QED BY <2>1 DEF Delivered
<1>3. Delivered \in Int /\ Delivered =< Len(wal)
  <2>1. CASE Recording
    <3>1. PICK i \in DOMAIN wal : call.record = Record(i)
          BY <2>1 DEF CallFormed
    <3>2. call.record[2] = i
          BY <3>1, Second, Zenon DEF Record
    <3>3. Delivered = i \/ Delivered = i - 1 \/ Delivered = Len(wal)
          BY <3>2 DEF Delivered
    <3> QED BY <1>1, <3>1, <3>3
  <2>2. CASE ~Recording
    <3>1. call.op # "history record" /\ call.op # "index record"
          BY <2>2 DEF Recording
    <3>2. call.at # "history record"
          BY <3>1, StageOps DEF At
    <3>3. Delivered = Len(wal)
          BY <3>1, <3>2 DEF Delivered
    <3> QED BY <1>1, <3>3
  <2> QED BY <2>1, <2>2
<1>4. 1..Delivered \subseteq DOMAIN wal
      BY <1>1, <1>3
<1>5. {Record(i) : i \in 1..Delivered} \subseteq WalRecords
      BY <1>4 DEF WalRecords
<1>6. Delivered = Len(wal) => {Record(i) : i \in 1..Delivered} = WalRecords
      BY <1>1 DEF WalRecords
<1> QED BY <1>2, <1>5, <1>6

\* Holding depends on nothing else.
LEMMA StillHeld ==
    ASSUME NEW names, HistoryHolds(names), Kept, Delivered' = Delivered, history'.buffer = history.buffer,
           \A f \in names : /\ f \in DOMAIN history'.owned /\ f \in DOMAIN historyRuns'
                            /\ history'.owned[f] = history.owned[f] /\ historyRuns'[f] = historyRuns[f]
    PROVE  HistoryHolds(names)'
<1>1. {Record(i)' : i \in 1..Delivered'} = {Record(i) : i \in 1..Delivered}
      BY DEF Record, Kept
<1> QED BY <1>1 DEF HistoryHolds

LEMMA SweepHistorySound == ASSUME HistoryReady, SweepHistory PROVE HistoryGoal
<1>1. /\ call' = call /\ call.at \in {"history record", "history verify"} /\ ~history.swept
      /\ historyRuns' = Without(historyRuns, 0..(HistoryNames - 1)) /\ history' = [history EXCEPT !.swept = TRUE]
      BY DEF SweepHistory, At
<1>2. /\ Scanning /\ Scanning' /\ allowance' = allowance /\ allowance \in Nat /\ HistoryNames \in Nat /\ wal' = wal
      /\ history \in HistoryStates /\ historyRuns \in Named(HistoryNames, Seq(Recs))
      /\ HistorySwept /\ HistoryRecords
      BY HistoryBasics
<1>3. CallFormed' /\ Live' = Live
      BY <1>1, CallStays DEF HistoryReady
<1>4. history' \in HistoryStates
      BY <1>1, <1>2 DEF HistoryStates
<1>5. /\ history'.swept = TRUE /\ history'.owned = history.owned /\ history'.buffer = history.buffer
      /\ history'.runs = history.runs /\ history'.next = history.next
      BY <1>1, <1>2 DEF HistoryStates
<1>6. historyRuns' = NoFiles /\ DOMAIN NoFiles = {}
  <2>1. Without(historyRuns, 0..(HistoryNames - 1)) \in Named(HistoryNames, Seq(Recs))
        BY <1>2, NamedWithout
  <2>2. DOMAIN Without(historyRuns, 0..(HistoryNames - 1)) = {}
    <3>1. DOMAIN historyRuns \subseteq 0..(HistoryNames - 1)
          BY <1>2, NamedIs
    <3>2. DOMAIN Without(historyRuns, 0..(HistoryNames - 1)) = DOMAIN historyRuns \ 0..(HistoryNames - 1)
          BY WithoutIs
    <3> QED BY <3>1, <3>2
  <2> QED BY <1>1, <2>1, <2>2, NothingNamed, NoFilesNamed
<1>7. historyRuns' \in Named(HistoryNames, Seq(Recs))
      BY <1>6, NoFilesNamed
<1>8. history.owned = NoFiles /\ history.buffer = << >> /\ history.runs = << >> /\ history.next = 0
      BY <1>1, <1>2 DEF HistorySwept
<1>9. HistoryAccounted'
  <2>1. Sizes(NoFiles, HistoryNames) = 0
        BY <1>2, NothingSized
  <2> QED BY <1>2, <1>5, <1>6, <1>8, <2>1 DEF HistoryAccounted
<1>10. Live
       BY <1>1, <1>2 DEF Live, At
<1>11. HistoryRecords'
  <2>1. HistoryHolds({})
    <3>1. Entries(history.runs) = {}
          BY <1>8 DEF Entries
    <3>2. HistoryHolds(Entries(history.runs))
          BY <1>1, <1>2, <1>10, StageOps DEF HistoryRecords, HistoryReady, At
    <3> QED BY <3>1, <3>2
  <2>2. Delivered' = Delivered
        BY <1>1, <1>2 DEF Delivered
  <2>3. HistoryHolds({})'
        BY <1>5, <2>1, <2>2, StillHeld DEF HistoryReady
  <2>4. Entries(history'.runs) = {} /\ Injective(history'.runs)
        BY <1>5, <1>8 DEF Entries, Injective
  <2> QED BY <1>1, <2>3, <2>4 DEF HistoryRecords
<1>12. HistorySwept' /\ HistoryFiles' /\ HistoryFound'
       BY <1>1, <1>5, <1>6, <1>8 DEF HistorySwept, HistoryFiles, HistoryFound, Returned, At
<1>13. HistorySound'
       BY <1>2, <1>4, <1>7, <1>9, <1>11, <1>12 DEF HistorySound
<1> QED BY <1>1, <1>3, <1>13 DEF HistoryGoal

LEMMA RecordInHistorySound == ASSUME HistoryReady, RecordInHistory PROVE HistoryGoal
<1>1. /\ call.at = "history record" /\ history.swept /\ historyRuns' = historyRuns /\ call.op = "history record"
      /\ Go("history flush") \/ Return("ok")
      BY StageOps DEF RecordInHistory, At, HistoryReady
<1>2. /\ Scanning /\ Scanning' /\ allowance' = allowance /\ wal' = wal /\ WalRecords \subseteq Recs
      /\ history \in HistoryStates /\ historyRuns \in Named(HistoryNames, Seq(Recs))
      /\ HistorySwept /\ HistoryAccounted /\ HistoryFiles /\ HistoryRecords
      BY HistoryBasics
<1>3. PICK k \in DOMAIN wal : call.record = Record(k)
      BY <1>1 DEF HistoryReady, CallFormed, Recording
<1>4. PICK r : r = Record(k) /\ r \in Recs /\ r[2] = k
      BY <1>3, WalRecordsAre DEF HistoryReady
<1>5. /\ CallFormed' /\ call'.op = "history record" /\ call'.record = call.record
      /\ call'.at \in {"history flush", "returned"} /\ (call'.answer = "ok" \/ call'.answer = call.answer)
  <2>1. CASE Go("history flush")
    <3>1. "history flush" \in Stages(call.op)
          BY <1>1 DEF Stages
    <3> QED BY <1>1, <2>1, <3>1, Goes DEF HistoryReady, Moved
  <2>2. CASE Return("ok")
        BY <1>1, <2>2, Answers DEF HistoryReady, Answered
  <2> QED BY <1>1, <2>1, <2>2
<1>6. Live
      BY <1>1, <1>2 DEF Live, At
<1>7. HistoryHolds(Entries(history.runs)) /\ Injective(history.runs)
      BY <1>1, <1>2, <1>6 DEF HistoryRecords
<1>8. PICK names : names = Entries(history.runs)
      OBVIOUS
<1>9. Delivered = k - 1 /\ Delivered' = k /\ k \in Nat /\ 1 =< k
  <2>1. call.record[2] = k
        BY <1>3, <1>4
  <2>2. Delivered = call.record[2] - 1 /\ Delivered' = call.record[2]
        BY <1>1, <1>5 DEF Delivered
  <2>3. k \in Nat /\ 1 =< k
        BY <1>3 DEF HistoryReady, InputSound
  <2> QED BY <2>1, <2>2, <2>3
<1>10. PICK given : given = {Record(i) : i \in 1..Delivered}
       OBVIOUS
<1>11. r \notin given /\ {Record(i)' : i \in 1..Delivered'} = given \cup {r}
  <2>1. {Record(i)' : i \in 1..k} = {Record(i) : i \in 1..k}
        BY <1>2 DEF Record
  <2>2. {Record(i) : i \in 1..k} = {Record(i) : i \in 1..(k - 1)} \cup {Record(k)}
    <3>1. 1..k = (1..(k - 1)) \cup {k}
          BY <1>9
    <3> QED BY <3>1
  <2>3. \A i \in 1..(k - 1) : Record(i) # r
    <3> SUFFICES ASSUME NEW i \in 1..(k - 1), Record(i) = r PROVE FALSE
        OBVIOUS
    <3>1. i = k
      <4>1. Record(i)[2] = i
            BY Second, Zenon DEF Record
      <4> QED BY <1>4, <4>1
    <3> QED BY <1>9, <3>1
  <2> QED BY <1>4, <1>9, <1>10, <2>1, <2>2, <2>3
<1>12. PICK held \in Seq(Recs) : held = history.buffer
       BY <1>2, HistoryFields
<1>13. PICK longer : longer = Append(held, r)
       OBVIOUS
<1>14. longer \in Seq(Recs)
       BY <1>4, <1>13
<1>15. /\ \A s : s \in given <=> s \in Entries(held) \/ \E f \in names : s \in Entries(historyRuns[f])
       /\ Injective(held) /\ \A f \in names : Entries(held) \cap Entries(historyRuns[f]) = {}
       BY <1>7, <1>8, <1>10, <1>12 DEF HistoryHolds
<1>16. Entries(longer) = Entries(held) \cup {r} /\ Injective(longer)
       BY <1>4, <1>11, <1>13, <1>15, AppendFacts
<1>17. history' = [history EXCEPT !.buffer = longer]
       BY <1>3, <1>4, <1>12, <1>13 DEF RecordInHistory
<1>18. history' \in HistoryStates
       BY <1>2, <1>14, <1>17 DEF HistoryStates
<1>19. /\ history'.swept = history.swept /\ history'.owned = history.owned /\ history'.buffer = longer
       /\ history'.runs = history.runs /\ history'.next = history.next
       BY <1>2, <1>17 DEF HistoryStates
<1>20. HistoryHolds(names)'
  <2>1. \A f \in names : /\ f \in DOMAIN history'.owned /\ f \in DOMAIN historyRuns'
                         /\ history'.owned[f] = Len(historyRuns'[f])
                         /\ Ascending("identity", historyRuns'[f]) /\ Injective(historyRuns'[f])
                         /\ Entries(longer) \cap Entries(historyRuns'[f]) = {}
    <3>1. \A f \in names : /\ f \in DOMAIN history.owned /\ f \in DOMAIN historyRuns
                           /\ history.owned[f] = Len(historyRuns[f])
                           /\ Ascending("identity", historyRuns[f]) /\ Injective(historyRuns[f])
          BY <1>7, <1>8 DEF HistoryHolds
    <3>2. \A f \in names : Entries(longer) \cap Entries(historyRuns[f]) = {}
          BY <1>11, <1>15, <1>16
    <3> QED BY <1>1, <1>19, <3>1, <3>2
  <2>2. \A f, g \in names : f # g => Entries(historyRuns'[f]) \cap Entries(historyRuns'[g]) = {}
        BY <1>1, <1>7, <1>8 DEF HistoryHolds
  <2>3. \A s : s \in {Record(i)' : i \in 1..Delivered'} <=>
                  s \in Entries(longer) \/ \E f \in names : s \in Entries(historyRuns'[f])
        BY <1>1, <1>11, <1>15, <1>16
  <2> QED BY <1>16, <1>19, <2>1, <2>2, <2>3 DEF HistoryHolds
<1>21. HistoryRecords'
       BY <1>5, <1>7, <1>8, <1>19, <1>20 DEF HistoryRecords
<1>22. HistorySwept' /\ HistoryFound'
       BY <1>1, <1>5, <1>19 DEF HistorySwept, HistoryFound, Returned, At
<1>23. HistoryAccounted' /\ HistoryFiles'
       BY <1>1, <1>2, <1>6, <1>19 DEF HistoryAccounted, HistoryFiles
<1>24. HistorySound'
       BY <1>1, <1>2, <1>18, <1>21, <1>22, <1>23 DEF HistorySound
<1> QED BY <1>1, <1>5, <1>24 DEF HistoryGoal

LEMMA VerifyHistorySound == ASSUME HistoryReady, VerifyHistory PROVE HistoryGoal
<1>1. call.at = "history verify" /\ history.swept /\ historyRuns' = historyRuns /\ call.op = "history verify"
      BY StageOps DEF VerifyHistory, At, HistoryReady
<1>2. /\ Scanning /\ Scanning' /\ allowance' = allowance /\ wal' = wal
      /\ history \in HistoryStates /\ historyRuns \in Named(HistoryNames, Seq(Recs))
      /\ HistorySwept /\ HistoryAccounted /\ HistoryFiles /\ HistoryRecords
      BY HistoryBasics
<1>3. Live
      BY <1>1, <1>2 DEF Live, At
<1>4. HistoryHolds(Entries(history.runs)) /\ Injective(history.runs)
      BY <1>1, <1>2, <1>3 DEF HistoryRecords
<1>5. "history flush" \in Stages(call.op) /\ "history merge" \in Stages(call.op)
      BY <1>1 DEF Stages
<1>6. PICK names : names = Entries(history.runs) /\ HistoryHolds(names)
      BY <1>4
<1>a. Kept /\ \A f \in names : f \in DOMAIN history.owned /\ f \in DOMAIN historyRuns
      BY <1>6 DEF HistoryReady, HistoryHolds
<1>7. CASE history.buffer # << >>
  <2>1. Go("history flush") /\ history' = history
        BY <1>7 DEF VerifyHistory
  <2>2. CallFormed' /\ Moved("history flush")
        BY <1>5, <2>1, Goes DEF HistoryReady
  <2>3. call'.at = "history flush" /\ call'.op = call.op /\ call'.record = call.record /\ call'.answer = call.answer
        BY <2>2 DEF Moved
  <2>4. Delivered' = Delivered
        BY <1>1, <1>2, <2>3 DEF Delivered
  <2>5. HistoryHolds(names)'
    <3>1. \A f \in names : /\ f \in DOMAIN history'.owned /\ f \in DOMAIN historyRuns'
                           /\ history'.owned[f] = history.owned[f] /\ historyRuns'[f] = historyRuns[f]
          BY <1>1, <1>a, <2>1
    <3>2. history'.buffer = history.buffer
          BY <2>1
    <3> QED BY <1>6, <1>a, <2>4, <3>1, <3>2, StillHeld
  <2>6. HistoryRecords'
        BY <1>4, <1>6, <2>1, <2>3, <2>5 DEF HistoryRecords
  <2>7. HistorySwept' /\ HistoryAccounted' /\ HistoryFiles' /\ HistoryFound'
        BY <1>1, <1>2, <1>3, <2>1, <2>3 DEF HistorySwept, HistoryAccounted, HistoryFiles, HistoryFound, Returned, At
  <2>8. HistorySound'
        BY <1>1, <1>2, <2>1, <2>6, <2>7 DEF HistorySound
  <2> QED BY <2>2, <2>3, <2>8 DEF HistoryGoal
<1>8. CASE ~(history.buffer # << >>)
  <2>1. Go("history merge") /\ history' = [history EXCEPT !.pass = FirstPass(history.runs)]
        BY <1>8 DEF VerifyHistory
  <2>2. CallFormed' /\ Moved("history merge")
        BY <1>5, <2>1, Goes DEF HistoryReady
  <2>3. call'.at = "history merge" /\ call'.op = call.op /\ call'.record = call.record /\ call'.answer = call.answer
        BY <2>2 DEF Moved
  <2>4. PICK first \in Passes : first = FirstPass(history.runs) /\ Names(first) = names /\ NamesApart(first)
    <3>1. history.runs \in Seq(Nat)
          BY <1>2, HistoryFields
    <3> QED BY <1>4, <1>6, <3>1, FirstPassFacts
  <2>5. history' = [history EXCEPT !.pass = first]
        BY <2>1, <2>4
  <2>6. history' \in HistoryStates
        BY <1>2, <2>5 DEF HistoryStates
  <2>7. /\ history'.swept = history.swept /\ history'.owned = history.owned /\ history'.buffer = history.buffer
        /\ history'.runs = history.runs /\ history'.next = history.next /\ history'.pass = first
        BY <1>2, <2>5 DEF HistoryStates
  <2>8. Delivered' = Delivered
        BY <1>1, <1>2, <2>3 DEF Delivered
  <2>9. HistoryHolds(names)'
    <3>1. \A f \in names : /\ f \in DOMAIN history'.owned /\ f \in DOMAIN historyRuns'
                           /\ history'.owned[f] = history.owned[f] /\ historyRuns'[f] = historyRuns[f]
          BY <1>1, <1>a, <2>7
    <3> QED BY <1>6, <1>a, <2>7, <2>8, <3>1, StillHeld
  <2>10. HistoryRecords'
         BY <1>1, <1>8, <2>3, <2>4, <2>7, <2>9 DEF HistoryRecords
  <2>11. HistorySwept' /\ HistoryAccounted' /\ HistoryFiles' /\ HistoryFound'
         BY <1>1, <1>2, <1>3, <2>3, <2>7 DEF HistorySwept, HistoryAccounted, HistoryFiles, HistoryFound, Returned, At
  <2>12. HistorySound'
         BY <1>1, <1>2, <2>6, <2>10, <2>11 DEF HistorySound
  <2> QED BY <2>2, <2>3, <2>12 DEF HistoryGoal
<1> QED BY <1>7, <1>8

\* A call comes to an end, and nothing was written.
LEMMA Concludes ==
    ASSUME HistoryReady, call.at \in {"history flush", "history merge"}, historyRuns' = historyRuns,
           NEW answer \in {"ok", "corrupt", "resource-limit"}, Conclude(answer, history),
           answer = "ok" => CommitsOnce /\ call.op = "history verify", answer = "corrupt" => ~CommitsOnce
    PROVE  HistoryGoal
<1>1. history.swept /\ call.op \in {"history record", "history verify"}
  <2>1. history.swept
        BY HistoryBasics DEF HistorySwept
  <2> QED BY <2>1, StageOps DEF At, HistoryReady
<1>2. /\ Scanning /\ Scanning' /\ allowance' = allowance /\ wal' = wal /\ CommitsOnce' = CommitsOnce
      /\ history \in HistoryStates /\ historyRuns \in Named(HistoryNames, Seq(Recs))
      /\ HistorySwept /\ HistoryAccounted /\ HistoryFiles
      BY HistoryBasics
<1>3. Live
      BY <1>2 DEF Live, At
<1>4. CASE call.op = "history verify"
  <2>1. Go("history cleanup") /\ history' = [history EXCEPT !.outcome = answer]
        BY <1>4 DEF Conclude
  <2>2. CallFormed' /\ Moved("history cleanup")
    <3>1. "history cleanup" \in Stages(call.op)
          BY <1>4 DEF Stages
    <3> QED BY <2>1, <3>1, Goes DEF HistoryReady
  <2>3. call'.at = "history cleanup" /\ call'.op = call.op /\ call'.record = call.record /\ call'.answer = call.answer
        BY <2>2 DEF Moved
  <2>4. history' \in HistoryStates
        BY <1>2, <2>1 DEF HistoryStates
  <2>5. /\ history'.swept = history.swept /\ history'.owned = history.owned /\ history'.buffer = history.buffer
        /\ history'.runs = history.runs /\ history'.next = history.next /\ history'.outcome = answer
        BY <1>2, <2>1 DEF HistoryStates
  <2>6. HistoryRecords'
        BY <1>4, <2>3 DEF HistoryRecords
  <2>7. HistorySwept' /\ HistoryAccounted' /\ HistoryFiles'
        BY <1>1, <1>2, <1>3, <2>3, <2>5 DEF HistorySwept, HistoryAccounted, HistoryFiles
  <2>8. HistoryFound'
        BY <1>2, <2>3, <2>5 DEF HistoryFound, Returned, At
  <2>9. HistorySound'
        BY <1>2, <2>4, <2>6, <2>7, <2>8 DEF HistorySound
  <2> QED BY <2>2, <2>3, <2>9 DEF HistoryGoal
<1>5. CASE call.op = "history record"
  <2>1. Return(answer) /\ history' = history /\ answer # "ok"
        BY <1>5 DEF Conclude
  <2>2. CallFormed' /\ Answered(answer) /\ ~Live'
        BY <2>1, Answers DEF HistoryReady
  <2>3. call'.at = "returned" /\ call'.op = call.op /\ call'.record = call.record /\ call'.answer = answer
        BY <2>2 DEF Answered
  <2>4. HistoryRecords' /\ HistoryFiles'
        BY <2>2, <2>3 DEF HistoryRecords, HistoryFiles
  <2>5. HistorySwept' /\ HistoryAccounted' /\ HistoryFound'
        BY <1>1, <1>2, <1>5, <2>1, <2>3 DEF HistorySwept, HistoryAccounted, HistoryFound, Returned, At
  <2>6. HistorySound'
        BY <1>2, <2>1, <2>4, <2>5 DEF HistorySound
  <2> QED BY <2>2, <2>3, <2>6 DEF HistoryGoal
<1> QED BY <1>1, <1>4, <1>5

\* The merge of some of the history's files.
LEMMA HistoryMergedFacts ==
    ASSUME HistoryReady, NEW names, HistoryHolds(names),
           NEW files \in Seq(Nat), Injective(files), Entries(files) \subseteq names
    PROVE  /\ HistoryMerged(files) \in Seq(Recs)
           /\ Len(HistoryMerged(files)) = SizeOf(Contents(files, historyRuns))
           /\ Ascending("identity", HistoryMerged(files)) /\ Injective(HistoryMerged(files))
           /\ \A r : r \in Entries(HistoryMerged(files)) <=> \E f \in Entries(files) : r \in Entries(historyRuns[f])
<1>1. historyRuns \in Named(HistoryNames, Seq(Recs))
      BY HistoryBasics
<1>2. /\ \A f \in names : /\ f \in DOMAIN historyRuns
                          /\ Ascending("identity", historyRuns[f]) /\ Injective(historyRuns[f])
      /\ \A f, g \in names : f # g => Entries(historyRuns[f]) \cap Entries(historyRuns[g]) = {}
      BY DEF HistoryHolds
<1>3. \A i \in DOMAIN files : files[i] \in Entries(files) /\ files[i] \in names
      BY DEF Entries
<1>4. PICK all : all = Contents(files, historyRuns)
      OBVIOUS
<1>5. all \in Seq(Seq(Recs)) /\ DOMAIN all = DOMAIN files /\ \A i \in DOMAIN files : all[i] = historyRuns[files[i]]
  <2>1. Entries(files) \subseteq DOMAIN historyRuns
        BY <1>2
  <2> QED BY <1>1, <1>4, <2>1, ContentsFacts
<1>6. \A i \in DOMAIN all : Ascending("identity", all[i])
      BY <1>2, <1>3, <1>5
<1>7. Apart(all)
  <2> SUFFICES ASSUME NEW i \in DOMAIN all, NEW j \in DOMAIN all, NEW p \in DOMAIN all[i], NEW q \in DOMAIN all[j],
                      all[i][p] = all[j][q]
               PROVE  i = j /\ p = q
      BY Zenon DEF Apart
  <2>1. all[i][p] \in Entries(all[i]) /\ all[i][p] \in Entries(all[j])
        BY DEF Entries
  <2>2. all[i] = historyRuns[files[i]] /\ all[j] = historyRuns[files[j]] /\ files[i] \in names /\ files[j] \in names
        BY <1>3, <1>5
  <2>3. files[i] = files[j]
        BY <1>2, <2>1, <2>2
  <2>4. i = j
        BY <1>5, <2>3 DEF Injective
  <2>5. Injective(all[i])
        BY <1>2, <2>2
  <2> QED BY <2>4, <2>5 DEF Injective
<1>8. HistoryMerged(files) = Merged("identity", all)
      BY <1>4 DEF HistoryMerged, Contents
<1>9. /\ Merged("identity", all) \in Seq(Recs) /\ Len(Merged("identity", all)) = SizeOf(all)
      /\ \A r : r \in Entries(Merged("identity", all)) <=> \E i \in DOMAIN all : r \in Entries(all[i])
      /\ Ascending("identity", Merged("identity", all)) /\ Injective(Merged("identity", all))
      BY <1>5, <1>6, <1>7, MergedFacts
<1>10. \A r : (\E i \in DOMAIN all : r \in Entries(all[i])) <=> \E f \in Entries(files) : r \in Entries(historyRuns[f])
  <2>1. \A f \in Entries(files) : \E i \in DOMAIN files : f = files[i]
        BY DEF Entries
  <2> QED BY <1>3, <1>5, <2>1
<1> QED BY <1>4, <1>8, <1>9, <1>10

LEMMA FlushHistorySound == ASSUME HistoryReady, FlushHistory PROVE HistoryGoal
<1>1. call.at = "history flush" /\ call.op \in {"history record", "history verify"}
      BY StageOps DEF FlushHistory, At, HistoryReady
<1>2. /\ Scanning /\ Scanning' /\ allowance' = allowance /\ allowance \in Nat /\ HistoryNames \in Nat /\ wal' = wal
      /\ history \in HistoryStates /\ historyRuns \in Named(HistoryNames, Seq(Recs))
      /\ HistorySwept /\ HistoryAccounted /\ HistoryFiles /\ HistoryRecords
      BY HistoryBasics
<1>3. Live /\ history.swept
      BY <1>1, <1>2 DEF Live, At, HistorySwept
<1>4. HistoryHolds(Entries(history.runs)) /\ Injective(history.runs)
      BY <1>1, <1>2, <1>3 DEF HistoryRecords
<1>5. PICK names : names = Entries(history.runs)
      OBVIOUS
<1>6. PICK given : given = {Record(i) : i \in 1..Delivered}
      OBVIOUS
<1>7. PICK held \in Seq(Recs) : held = history.buffer
      BY <1>2, HistoryFields
<1>8. /\ \A f \in names : /\ f \in DOMAIN history.owned /\ f \in DOMAIN historyRuns
                          /\ history.owned[f] = Len(historyRuns[f])
                          /\ Ascending("identity", historyRuns[f]) /\ Injective(historyRuns[f])
                          /\ Entries(held) \cap Entries(historyRuns[f]) = {}
      /\ \A f, g \in names : f # g => Entries(historyRuns[f]) \cap Entries(historyRuns[g]) = {}
      /\ Injective(held)
      /\ \A r : r \in given <=> r \in Entries(held) \/ \E f \in names : r \in Entries(historyRuns[f])
      BY <1>4, <1>5, <1>6, <1>7 DEF HistoryHolds
<1>9. given \subseteq WalRecords
      BY <1>6, DeliveredRecords DEF HistoryReady
<1>10. PICK run : run = SortedRecords("identity", held)
       OBVIOUS
<1>11. /\ run \in Seq(Recs) /\ Len(run) = Len(held) /\ Entries(run) = Entries(held)
       /\ Ascending("identity", run) /\ Injective(run)
       BY <1>8, <1>10, SortedRecordsFacts
<1>12. CASE Repeated(run)
  <2>1. Conclude("corrupt", history) /\ historyRuns' = historyRuns
        BY <1>7, <1>10, <1>12 DEF FlushHistory
  <2>2. PICK r, s \in Entries(run) : r # s /\ r[1] = s[1]
        BY <1>11, <1>12, RepeatedMeans
  <2>3. r \in WalRecords /\ s \in WalRecords
        BY <1>8, <1>9, <1>11, <2>2
  <2>4. ~CommitsOnce
        BY <2>2, <2>3, SameIdentityTwice DEF HistoryReady
  <2> QED BY <1>1, <2>1, <2>4, Concludes
<1>13. CASE ~Repeated(run) /\ (~Within(Len(run)) \/ history.next >= HistoryNames)
  <2>1. Conclude("resource-limit", history) /\ historyRuns' = historyRuns
        BY <1>7, <1>10, <1>13 DEF FlushHistory
  <2> QED BY <1>1, <2>1, Concludes
<1>14. CASE ~Repeated(run) /\ Within(Len(run)) /\ ~(history.next >= HistoryNames)
  <2>1. DOMAIN historyRuns \subseteq DOMAIN history.owned /\ DOMAIN history.owned \subseteq 0..(history.next - 1)
        BY <1>2, <1>3 DEF HistoryFiles
  <2>2. history.next \in Nat /\ history.owned \in Named(HistoryNames, Nat) /\ history.runs \in Seq(Nat)
        BY <1>2, HistoryFields
  <2>3. ~(history.next >= HistoryNames)
        BY <1>14
  <2>4. PICK number : number = history.next
        OBVIOUS
  <2>5. number \in Nat /\ number \in 0..(HistoryNames - 1) /\ DOMAIN history.owned \subseteq 0..(number - 1)
        BY <1>2, <2>1, <2>2, <2>3, <2>4
  <2>6. number \notin DOMAIN history.owned /\ number \notin DOMAIN historyRuns /\ number \notin names
        BY <1>8, <2>1, <2>5
  <2>7. PICK size \in Nat : size = Len(run)
        BY <1>11
  <2>8. /\ historyRuns' = With(historyRuns, number, run)
        /\ history' = [history EXCEPT !.next = number + 1, !.owned = With(@, number, size),
                                      !.runs = Append(@, number), !.buffer = << >>]
        /\ IF call.op = "history record" THEN Return("ok") ELSE Go("history verify")
        BY <1>7, <1>10, <1>14, <2>4, <2>6, <2>7 DEF FlushHistory
  <2>9. /\ CallFormed' /\ call'.at \in {"returned", "history verify"} /\ call'.op = call.op
        /\ call'.record = call.record /\ (call'.answer = call.answer \/ call'.answer = "ok")
        /\ call.op = "history record" => call'.at = "returned"
        /\ call.op = "history verify" => call'.at = "history verify"
    <3>1. CASE call.op = "history record"
          BY <2>8, <3>1, Answers DEF HistoryReady, Answered
    <3>2. CASE call.op = "history verify"
      <4>1. "history verify" \in Stages(call.op) /\ Go("history verify")
            BY <2>8, <3>2 DEF Stages
      <4> QED BY <3>2, <4>1, Goes DEF HistoryReady, Moved
    <3> QED BY <1>1, <3>1, <3>2
  <2>10. PICK owned : owned = With(history.owned, number, size)
         OBVIOUS
  <2>11. /\ owned \in Named(HistoryNames, Nat) /\ DOMAIN owned = DOMAIN history.owned \cup {number}
         /\ owned[number] = size /\ \A f \in DOMAIN history.owned : f # number => owned[f] = history.owned[f]
         /\ Sizes(owned, HistoryNames) = Sizes(history.owned, HistoryNames) + size
    <3>1. owned \in Named(HistoryNames, Nat)
          BY <2>2, <2>5, <2>7, <2>10, NamedWith
    <3>2. Sizes(owned, HistoryNames) = Sizes(history.owned, HistoryNames) + size
          BY <1>2, <2>2, <2>5, <2>6, <2>7, <2>10, SizesWith
    <3> QED BY <2>10, <3>1, <3>2 DEF With
  <2>12. PICK files : files = With(historyRuns, number, run)
         OBVIOUS
  <2>13. /\ files \in Named(HistoryNames, Seq(Recs)) /\ DOMAIN files = DOMAIN historyRuns \cup {number}
         /\ files[number] = run /\ \A f \in DOMAIN historyRuns : f # number => files[f] = historyRuns[f]
    <3>1. files \in Named(HistoryNames, Seq(Recs))
          BY <1>2, <1>11, <2>5, <2>12, NamedWith
    <3> QED BY <2>12, <3>1 DEF With
  <2>14. PICK numbers : numbers = Append(history.runs, number)
         OBVIOUS
  <2>15. numbers \in Seq(Nat) /\ Injective(numbers) /\ Entries(numbers) = names \cup {number}
    <3>1. numbers \in Seq(Nat)
          BY <2>2, <2>5, <2>14
    <3>2. Injective(numbers) /\ Entries(numbers) = Entries(history.runs) \cup {number}
          BY <1>4, <1>5, <2>2, <2>5, <2>6, <2>14, AppendFacts
    <3> QED BY <1>5, <3>1, <3>2
  <2>16. history' = [history EXCEPT !.next = number + 1, !.owned = owned, !.runs = numbers, !.buffer = << >>]
         BY <2>8, <2>10, <2>14
  <2>17. << >> \in Seq(Recs) /\ Entries(<< >>) = {} /\ Injective(<< >>) /\ number + 1 \in Nat
         BY <2>5 DEF Entries, Injective
  <2>18. history' \in HistoryStates
         BY <1>2, <2>11, <2>15, <2>16, <2>17 DEF HistoryStates
  <2>19. /\ history'.swept = history.swept /\ history'.owned = owned /\ history'.buffer = << >>
         /\ history'.runs = numbers /\ history'.next = number + 1
         BY <1>2, <2>16 DEF HistoryStates
  <2>20. historyRuns' = files
         BY <2>8, <2>12
  <2>21. HistoryAccounted'
    <3>1. Sizes(history.owned, HistoryNames) + size =< allowance
          BY <1>14, <2>7 DEF Within
    <3>2. ASSUME NEW f \in DOMAIN files PROVE Len(files[f]) =< Size(owned, f)
      <4>1. CASE f = number
            BY <2>7, <2>11, <2>13, <4>1 DEF Size
      <4>2. CASE f # number
        <5>1. f \in DOMAIN historyRuns /\ files[f] = historyRuns[f]
              BY <2>13, <4>2
        <5>2. Size(owned, f) = Size(history.owned, f)
              BY <2>11, <4>2 DEF Size
        <5> QED BY <1>2, <1>3, <5>1, <5>2 DEF HistoryAccounted
      <4> QED BY <4>1, <4>2
    <3> QED BY <1>2, <2>11, <2>19, <2>20, <3>1, <3>2 DEF HistoryAccounted
  <2>22. HistoryFiles'
    <3>1. DOMAIN files \subseteq DOMAIN owned /\ DOMAIN owned \subseteq 0..((number + 1) - 1)
          BY <2>1, <2>5, <2>11, <2>13
    <3> QED BY <2>19, <2>20, <3>1 DEF HistoryFiles
  <2>23. {Record(i)' : i \in 1..Delivered'} = given
    <3>1. Delivered' = Delivered
          BY <1>1, <1>2, <2>9 DEF Delivered
    <3> QED BY <1>2, <1>6, <3>1 DEF Record
  <2>24. HistoryHolds(names \cup {number})'
    <3>1. \A f \in names \cup {number} :
              /\ f \in DOMAIN owned /\ f \in DOMAIN files /\ owned[f] = Len(files[f])
              /\ Ascending("identity", files[f]) /\ Injective(files[f]) /\ Entries(<< >>) \cap Entries(files[f]) = {}
      <4>1. \A f \in names : owned[f] = history.owned[f] /\ files[f] = historyRuns[f]
            BY <1>8, <2>6, <2>11, <2>13
      <4> QED BY <1>8, <1>11, <2>7, <2>11, <2>13, <2>17, <4>1
    <3>2. \A f, g \in names \cup {number} : f # g => Entries(files[f]) \cap Entries(files[g]) = {}
      <4>1. \A f \in names : Entries(files[f]) = Entries(historyRuns[f])
            BY <1>8, <2>6, <2>13
      <4>2. Entries(files[number]) = Entries(held)
            BY <1>11, <2>13
      <4> QED BY <1>8, <4>1, <4>2
    <3>3. \A r : r \in given <=> r \in Entries(<< >>) \/ \E f \in names \cup {number} : r \in Entries(files[f])
      <4>1. \A f \in names : Entries(files[f]) = Entries(historyRuns[f])
            BY <1>8, <2>6, <2>13
      <4>2. Entries(files[number]) = Entries(held)
            BY <1>11, <2>13
      <4> QED BY <1>8, <2>17, <4>1, <4>2
    <3> QED BY <2>17, <2>19, <2>20, <2>23, <3>1, <3>2, <3>3 DEF HistoryHolds
  <2>25. HistoryRecords'
         BY <2>9, <2>15, <2>19, <2>24 DEF HistoryRecords
  <2>26. HistorySwept' /\ HistoryFound'
         BY <1>1, <1>3, <2>9, <2>19 DEF HistorySwept, HistoryFound, Returned, At
  <2>27. HistorySound'
         BY <1>2, <2>13, <2>18, <2>20, <2>21, <2>22, <2>25, <2>26 DEF HistorySound
  <2> QED BY <2>9, <2>27 DEF HistoryGoal
<1> QED BY <1>12, <1>13, <1>14

LEMMA GroupSizeSame ==
    ASSUME NEW p, NEW owned, NEW others, \A f \in Entries(Group(p)) : owned[f] = others[f]
    PROVE  GroupSize(p, owned) = GroupSize(p, others)
<1>1. \A i \in DOMAIN Group(p) : Group(p)[i] \in Entries(Group(p))
      BY DEF Entries
<1>2. [i \in DOMAIN Group(p) |-> owned[Group(p)[i]]] = [i \in DOMAIN Group(p) |-> others[Group(p)[i]]]
      BY <1>1
<1> QED BY <1>2, Zenon DEF GroupSize

\* While the merge goes on, and where it may begin.
LEMMA MergeReady ==
    ASSUME HistoryReady, call.at \in {"history merge", "history merging"}
    PROVE  /\ call.op = "history verify" /\ history.swept /\ Live /\ history.buffer = << >>
           /\ HistoryHolds(Names(history.pass)) /\ NamesApart(history.pass) /\ history.pass \in Passes
           /\ Entries(Group(history.pass)) \subseteq Names(history.pass)
           /\ DOMAIN historyRuns \subseteq DOMAIN history.owned /\ DOMAIN history.owned \subseteq 0..(history.next - 1)
           /\ history.next \in Nat /\ history.owned \in Named(HistoryNames, Nat)
           /\ Group(history.pass) \in Seq(Nat) /\ Injective(Group(history.pass))
           /\ GroupReserved \in Nat
           /\ Len(HistoryMerged(HistoryGroup)) = GroupReserved
<1>1. /\ Scanning /\ history \in HistoryStates /\ historyRuns \in Named(HistoryNames, Seq(Recs))
      /\ HistorySwept /\ HistoryFiles /\ HistoryRecords
      BY HistoryBasics
<1>2. call.op = "history verify"
      BY <1>1, StageOps DEF HistoryReady, At
<1>3. history.swept /\ Live
      BY <1>1 DEF HistorySwept, Live, At
<1>4. history.buffer = << >> /\ HistoryHolds(Names(history.pass)) /\ NamesApart(history.pass)
      BY <1>1 DEF HistoryRecords
<1>5. DOMAIN historyRuns \subseteq DOMAIN history.owned /\ DOMAIN history.owned \subseteq 0..(history.next - 1)
      BY <1>1, <1>3 DEF HistoryFiles
<1>6. history.next \in Nat /\ history.owned \in Named(HistoryNames, Nat) /\ history.pass \in Passes
      BY <1>1, HistoryFields
<1>7. PICK p \in Passes : p = history.pass
      BY <1>6
<1>8. PICK group \in Seq(Nat) : group = Group(p) /\ Entries(group) \subseteq Names(p) /\ Injective(group)
  <2>1. /\ Group(p) \in Seq(Nat) /\ Entries(Group(p)) \subseteq Names(p)
        /\ \A i \in DOMAIN Group(p) : i \in DOMAIN p.todo /\ Group(p)[i] = p.todo[i]
        BY GroupFacts DEF Names
  <2>2. Injective(p.todo)
        BY <1>4, <1>7 DEF NamesApart
  <2>3. Injective(Group(p))
        BY <2>1, <2>2 DEF Injective
  <2> QED BY <2>1, <2>3
<1>9. \A f \in Names(p) : f \in DOMAIN history.owned /\ f \in DOMAIN historyRuns /\ history.owned[f] = Len(historyRuns[f])
      BY <1>4, <1>7 DEF HistoryHolds
<1>10. /\ Entries(group) \subseteq DOMAIN historyRuns /\ Entries(group) \subseteq DOMAIN history.owned
       /\ \A f \in Entries(group) : history.owned[f] = Len(historyRuns[f])
       BY <1>8, <1>9
<1>11. GroupSize(p, history.owned) \in Nat /\ SizeOf(Contents(group, historyRuns)) = GroupSize(p, history.owned)
       BY <1>1, <1>6, <1>8, <1>10, GroupSizes
<1>12. Len(HistoryMerged(group)) = SizeOf(Contents(group, historyRuns))
       BY <1>4, <1>7, <1>8, HistoryMergedFacts
<1>13. GroupReserved \in Nat /\ Len(HistoryMerged(HistoryGroup)) = GroupReserved
       BY <1>7, <1>8, <1>11, <1>12 DEF GroupReserved, HistoryGroup
<1> QED BY <1>2, <1>3, <1>4, <1>5, <1>6, <1>7, <1>8, <1>13

LEMMA StartHistoryMergeSound == ASSUME HistoryReady, StartHistoryMerge PROVE HistoryGoal
<1>1. call.at = "history merge"
      BY DEF StartHistoryMerge, At
<1>2. /\ Scanning /\ Scanning' /\ allowance' = allowance /\ allowance \in Nat /\ HistoryNames \in Nat /\ wal' = wal
      /\ history \in HistoryStates /\ historyRuns \in Named(HistoryNames, Seq(Recs))
      /\ HistoryAccounted
      BY HistoryBasics
<1>3. /\ call.op = "history verify" /\ history.swept /\ history.buffer = << >>
      /\ HistoryHolds(Names(history.pass)) /\ NamesApart(history.pass) /\ history.pass \in Passes
      /\ Entries(Group(history.pass)) \subseteq Names(history.pass)
      /\ DOMAIN historyRuns \subseteq DOMAIN history.owned /\ DOMAIN history.owned \subseteq 0..(history.next - 1)
      /\ history.next \in Nat /\ history.owned \in Named(HistoryNames, Nat) /\ GroupReserved \in Nat
      BY <1>1, MergeReady
<1>4. CASE ~Within(GroupReserved) \/ history.next >= HistoryNames
  <2>1. Conclude("resource-limit", history) /\ historyRuns' = historyRuns
        BY <1>4 DEF StartHistoryMerge
  <2> QED BY <1>1, <2>1, Concludes
<1>5. CASE Within(GroupReserved) /\ ~(history.next >= HistoryNames)
  <2>1. PICK number : number = history.next
        OBVIOUS
  <2>a. /\ DOMAIN historyRuns \subseteq DOMAIN history.owned /\ DOMAIN history.owned \subseteq 0..(history.next - 1)
        /\ history.next \in Nat
        BY <1>3
  <2>2. ~(history.next >= HistoryNames)
        BY <1>5
  <2>3. number \in Nat /\ number \in 0..(HistoryNames - 1) /\ DOMAIN history.owned \subseteq 0..(number - 1)
        BY <1>2, <2>1, <2>2, <2>a
  <2>4. PICK names : names = Names(history.pass)
        OBVIOUS
  <2>5. \A f \in names : f \in DOMAIN history.owned /\ f \in DOMAIN historyRuns
        BY <1>3, <2>4 DEF HistoryHolds
  <2>6. number \notin DOMAIN history.owned /\ number \notin DOMAIN historyRuns /\ number \notin names
        BY <2>3, <2>5, <2>a
  <2>7. PICK size \in Nat : size = GroupReserved
        BY <1>3
  <2>8. /\ historyRuns' = With(historyRuns, number, << >>) /\ Go("history merging")
        /\ history' = [history EXCEPT !.next = number + 1, !.owned = With(@, number, size)]
        BY <1>5, <2>1, <2>6, <2>7 DEF StartHistoryMerge
  <2>9. CallFormed' /\ Moved("history merging")
    <3>1. "history merging" \in Stages(call.op)
          BY <1>3 DEF Stages
    <3> QED BY <2>8, <3>1, Goes DEF HistoryReady
  <2>10. call'.at = "history merging" /\ call'.op = call.op /\ call'.record = call.record /\ call'.answer = call.answer
         BY <2>9 DEF Moved
  <2>11. PICK owned : owned = With(history.owned, number, size)
         OBVIOUS
  <2>12. /\ owned \in Named(HistoryNames, Nat) /\ DOMAIN owned = DOMAIN history.owned \cup {number}
         /\ owned[number] = size /\ \A f \in DOMAIN history.owned : f # number => owned[f] = history.owned[f]
         /\ Sizes(owned, HistoryNames) = Sizes(history.owned, HistoryNames) + size
    <3>1. owned \in Named(HistoryNames, Nat)
          BY <1>3, <2>3, <2>7, <2>11, NamedWith
    <3>2. Sizes(owned, HistoryNames) = Sizes(history.owned, HistoryNames) + size
      <4>1. HistoryNames \in Nat /\ history.owned \in Named(HistoryNames, Nat) /\ number \in 0..(HistoryNames - 1)
            BY <1>2, <1>3, <2>3, Zenon
      <4>2. number \notin DOMAIN history.owned /\ size \in Nat
            BY <2>6, <2>7, Zenon
      <4>3. Sizes(With(history.owned, number, size), HistoryNames) = Sizes(history.owned, HistoryNames) + size
            BY <4>1, <4>2, SizesWith
      <4> QED BY <2>11, <4>3, Zenon
    <3>3. /\ DOMAIN owned = DOMAIN history.owned \cup {number} /\ owned[number] = size
          /\ \A f \in DOMAIN history.owned : f # number => owned[f] = history.owned[f]
      <4>1. PICK before : before = history.owned
            OBVIOUS
      <4>2. /\ DOMAIN With(before, number, size) = DOMAIN before \cup {number} /\ With(before, number, size)[number] = size
            /\ \A f \in DOMAIN before : f # number => With(before, number, size)[f] = before[f]
            BY DEF With
      <4> QED BY <2>11, <4>1, <4>2, Zenon
    <3> QED BY <3>1, <3>2, <3>3
  <2>13. << >> \in Seq(Recs) /\ Len(<< >>) = 0
         OBVIOUS
  <2>14. PICK files : files = With(historyRuns, number, << >>)
         OBVIOUS
  <2>15. /\ files \in Named(HistoryNames, Seq(Recs)) /\ DOMAIN files = DOMAIN historyRuns \cup {number}
         /\ files[number] = << >> /\ \A f \in DOMAIN historyRuns : f # number => files[f] = historyRuns[f]
    <3>1. files \in Named(HistoryNames, Seq(Recs))
          BY <1>2, <2>3, <2>13, <2>14, NamedWith
    <3> QED BY <2>14, <3>1 DEF With
  <2>16. history' = [history EXCEPT !.next = number + 1, !.owned = owned] /\ historyRuns' = files
         BY <2>8, <2>11, <2>14
  <2>17. number + 1 \in Nat
         BY <2>3
  <2>18. history' \in HistoryStates
         BY <1>2, <2>12, <2>16, <2>17 DEF HistoryStates
  <2>19. /\ history'.swept = history.swept /\ history'.owned = owned /\ history'.buffer = history.buffer
         /\ history'.runs = history.runs /\ history'.next = number + 1 /\ history'.pass = history.pass
         BY <1>2, <2>16 DEF HistoryStates
  <2>20. HistoryAccounted'
    <3>1. Sizes(history.owned, HistoryNames) + size =< allowance
          BY <1>5, <2>7 DEF Within
    <3>2. ASSUME NEW f \in DOMAIN files PROVE Len(files[f]) =< Size(owned, f)
      <4>1. CASE f = number
            BY <2>7, <2>12, <2>13, <2>15, <4>1 DEF Size
      <4>2. CASE f # number
        <5>1. f \in DOMAIN historyRuns /\ files[f] = historyRuns[f]
              BY <2>15, <4>2
        <5>2. Size(owned, f) = Size(history.owned, f)
              BY <2>12, <4>2 DEF Size
        <5> QED BY <1>2, <1>3, <5>1, <5>2 DEF HistoryAccounted
      <4> QED BY <4>1, <4>2
    <3> QED BY <1>2, <2>12, <2>16, <2>19, <3>1, <3>2 DEF HistoryAccounted
  <2>21. HistoryFiles'
    <3>1. DOMAIN files \subseteq DOMAIN owned /\ DOMAIN owned \subseteq 0..((number + 1) - 1)
          BY <2>3, <2>12, <2>15, <2>a
    <3> QED BY <2>16, <2>19, <3>1 DEF HistoryFiles
  <2>22. HistoryHolds(names)'
    <3>1. Delivered' = Delivered
          BY <1>1, <1>2, <1>3, <2>10 DEF Delivered
    <3>2. \A f \in names : /\ f \in DOMAIN history'.owned /\ f \in DOMAIN historyRuns'
                           /\ history'.owned[f] = history.owned[f] /\ historyRuns'[f] = historyRuns[f]
          BY <2>5, <2>6, <2>12, <2>15, <2>16, <2>19
    <3>3. HistoryHolds(names) /\ Kept
          BY <1>3, <2>4 DEF HistoryReady
    <3> QED BY <2>19, <3>1, <3>2, <3>3, StillHeld
  <2>23. GroupReserved' = size
    <3>1. \A f \in Entries(Group(history.pass)) : owned[f] = history.owned[f]
          BY <1>3, <2>4, <2>5, <2>6, <2>12
    <3>2. GroupSize(history.pass, owned) = GroupSize(history.pass, history.owned)
          BY <3>1, GroupSizeSame
    <3> QED BY <2>7, <2>19, <3>2 DEF GroupReserved
  <2>24. HistoryRecords'
    <3>1. (number + 1) - 1 = number /\ number + 1 # 0
          BY <2>3
    <3>2. history'.next - 1 = number /\ history'.next # 0
          BY <2>19, <3>1
    <3>3. number \in DOMAIN files \ names
          BY <2>6, <2>15
    <3> QED BY <1>3, <2>4, <2>10, <2>12, <2>16, <2>19, <2>22, <2>23, <3>2, <3>3 DEF HistoryRecords
  <2>25. HistorySwept' /\ HistoryFound'
         BY <1>3, <2>10, <2>19 DEF HistorySwept, HistoryFound, Returned, At
  <2>26. HistorySound'
         BY <1>2, <2>15, <2>16, <2>18, <2>20, <2>21, <2>24, <2>25 DEF HistorySound
  <2> QED BY <2>9, <2>10, <2>26 DEF HistoryGoal
<1> QED BY <1>4, <1>5

LEMMA FinishHistoryMergeSound == ASSUME HistoryReady, FinishHistoryMerge PROVE HistoryGoal
<1>1. call.at = "history merging"
      BY DEF FinishHistoryMerge, At
<1>2. /\ Scanning /\ Scanning' /\ allowance' = allowance /\ allowance \in Nat /\ HistoryNames \in Nat /\ wal' = wal
      /\ history \in HistoryStates /\ historyRuns \in Named(HistoryNames, Seq(Recs))
      /\ HistoryAccounted /\ HistoryRecords
      BY HistoryBasics
<1>3. /\ call.op = "history verify" /\ history.swept /\ history.buffer = << >>
      /\ HistoryHolds(Names(history.pass)) /\ NamesApart(history.pass) /\ history.pass \in Passes
      /\ Entries(Group(history.pass)) \subseteq Names(history.pass)
      /\ Group(history.pass) \in Seq(Nat) /\ Injective(Group(history.pass))
      /\ GroupReserved \in Nat /\ Len(HistoryMerged(HistoryGroup)) = GroupReserved
      BY <1>1, MergeReady
<1>4. /\ DOMAIN historyRuns \subseteq DOMAIN history.owned /\ DOMAIN history.owned \subseteq 0..(history.next - 1)
      /\ history.next \in Nat /\ history.owned \in Named(HistoryNames, Nat)
      BY <1>1, MergeReady
<1>5. PICK output : output = history.next - 1
      OBVIOUS
<1>6. /\ output \in DOMAIN historyRuns /\ output \notin Names(history.pass)
      /\ history.owned[output] = GroupReserved
      BY <1>1, <1>2, <1>5 DEF HistoryRecords
<1>7. output \in DOMAIN history.owned /\ output \in 0..(HistoryNames - 1) /\ output \in Nat
  <2>1. DOMAIN historyRuns \subseteq 0..(HistoryNames - 1)
        BY <1>2, NamedIs
  <2> QED BY <1>4, <1>6, <2>1
<1>8. PICK names : names = Names(history.pass)
      OBVIOUS
<1>9. PICK group \in Seq(Nat) : group = Group(history.pass)
      BY <1>3
<1>10. PICK run : run = HistoryMerged(group)
       OBVIOUS
<1>11. /\ run \in Seq(Recs) /\ Len(run) = history.owned[output]
       /\ Ascending("identity", run) /\ Injective(run)
       /\ \A r : r \in Entries(run) <=> \E f \in Entries(group) : r \in Entries(historyRuns[f])
  <2>1. HistoryHolds(names) /\ Injective(group) /\ Entries(group) \subseteq names
        BY <1>3, <1>8, <1>9
  <2>2. /\ run \in Seq(Recs) /\ Ascending("identity", run) /\ Injective(run)
        /\ \A r : r \in Entries(run) <=> \E f \in Entries(group) : r \in Entries(historyRuns[f])
        BY <1>10, <2>1, HistoryMergedFacts
  <2>3. Len(run) = history.owned[output]
        BY <1>3, <1>6, <1>9, <1>10 DEF HistoryGroup
  <2> QED BY <2>2, <2>3
<1>12. PICK done \in Passes : /\ done = GroupDone(history.pass, output) /\ NamesApart(done)
                              /\ Names(done) = (names \ Entries(group)) \cup {output}
  <2>1. history.pass \in Passes /\ NamesApart(history.pass)
        BY <1>3
  <2>2. /\ GroupDone(history.pass, output) \in Passes /\ NamesApart(GroupDone(history.pass, output))
        /\ Names(GroupDone(history.pass, output)) =
              (Names(history.pass) \ Entries(Group(history.pass))) \cup {output}
        BY <1>6, <1>7, <2>1, GroupDoneFacts
  <2> QED BY <1>8, <1>9, <2>2
<1>13. /\ historyRuns' = With(historyRuns, output, run) /\ Go("history merge")
       /\ history' = [history EXCEPT !.pass = GroupDone(history.pass, output)]
       BY <1>5, <1>9, <1>10, <1>11 DEF FinishHistoryMerge, HistoryGroup
<1>14. CallFormed' /\ Moved("history merge")
  <2>1. "history merge" \in Stages(call.op)
        BY <1>3 DEF Stages
  <2> QED BY <1>13, <2>1, Goes DEF HistoryReady
<1>15. call'.at = "history merge" /\ call'.op = call.op /\ call'.record = call.record /\ call'.answer = call.answer
       BY <1>14 DEF Moved
<1>16. PICK files : files = With(historyRuns, output, run)
       OBVIOUS
<1>17. /\ files \in Named(HistoryNames, Seq(Recs)) /\ DOMAIN files = DOMAIN historyRuns
       /\ files[output] = run /\ \A f \in DOMAIN historyRuns : f # output => files[f] = historyRuns[f]
  <2>1. files \in Named(HistoryNames, Seq(Recs))
        BY <1>2, <1>7, <1>11, <1>16, NamedWith
  <2> QED BY <1>6, <1>16, <2>1 DEF With
<1>18. history' = [history EXCEPT !.pass = done] /\ historyRuns' = files
       BY <1>12, <1>13, <1>16
<1>19. history' \in HistoryStates
       BY <1>2, <1>12, <1>18 DEF HistoryStates
<1>20. /\ history'.swept = history.swept /\ history'.owned = history.owned /\ history'.buffer = << >>
       /\ history'.runs = history.runs /\ history'.next = history.next /\ history'.pass = done
       BY <1>2, <1>3, <1>18 DEF HistoryStates
<1>21. HistoryAccounted'
  <2>1. ASSUME NEW f \in DOMAIN files PROVE Len(files[f]) =< Size(history.owned, f)
    <3>1. CASE f = output
      <4>1. Size(history.owned, f) = Len(run) /\ files[f] = run /\ Len(run) \in Nat
            BY <1>7, <1>11, <1>17, <3>1 DEF Size
      <4> QED BY <4>1
    <3>2. CASE f # output
      <4>1. f \in DOMAIN historyRuns /\ files[f] = historyRuns[f]
            BY <1>17, <3>2
      <4> QED BY <1>2, <1>3, <4>1 DEF HistoryAccounted
    <3> QED BY <3>1, <3>2
  <2> QED BY <1>2, <1>18, <1>20, <2>1 DEF HistoryAccounted
<1>22. HistoryFiles'
       BY <1>4, <1>17, <1>18, <1>20 DEF HistoryFiles
<1>23. PICK given : given = {Record(i) : i \in 1..Delivered}
       OBVIOUS
<1>24. {Record(i)' : i \in 1..Delivered'} = given
  <2>1. Delivered' = Delivered
        BY <1>1, <1>2, <1>3, <1>15 DEF Delivered
  <2> QED BY <1>2, <1>23, <2>1 DEF Record
<1>25. HistoryHolds(Names(done))'
  <2>1. /\ \A f \in names : /\ f \in DOMAIN history.owned /\ f \in DOMAIN historyRuns
                            /\ history.owned[f] = Len(historyRuns[f])
                            /\ Ascending("identity", historyRuns[f]) /\ Injective(historyRuns[f])
        /\ \A f, g \in names : f # g => Entries(historyRuns[f]) \cap Entries(historyRuns[g]) = {}
        /\ \A r : r \in given <=> r \in Entries(<< >>) \/ \E f \in names : r \in Entries(historyRuns[f])
        BY <1>3, <1>8, <1>23 DEF HistoryHolds
  <2>2. Entries(<< >>) = {} /\ Injective(<< >>)
        BY DEF Entries, Injective
  <2>3. PICK others : others = names \ Entries(group) /\ Entries(group) \subseteq names
        BY <1>3, <1>8, <1>9
  <2>4. \A f \in others : f \in names /\ f # output /\ f \notin Entries(group) /\ files[f] = historyRuns[f]
        BY <1>6, <1>8, <1>17, <2>1, <2>3
  <2>5. \A f \in others \cup {output} :
            /\ f \in DOMAIN history.owned /\ f \in DOMAIN files /\ history.owned[f] = Len(files[f])
            /\ Ascending("identity", files[f]) /\ Injective(files[f]) /\ Entries(<< >>) \cap Entries(files[f]) = {}
        BY <1>6, <1>7, <1>11, <1>17, <2>1, <2>2, <2>4
  <2>6. \A f \in others : Entries(run) \cap Entries(files[f]) = {}
    <3> SUFFICES ASSUME NEW f \in others, NEW r \in Entries(run), r \in Entries(files[f]) PROVE FALSE
        OBVIOUS
    <3>1. PICK g \in Entries(group) : r \in Entries(historyRuns[g])
          BY <1>11
    <3>2. f \in names /\ g \in names /\ f # g /\ r \in Entries(historyRuns[f])
          BY <2>3, <2>4
    <3> QED BY <2>1, <3>1, <3>2
  <2>7. \A f, g \in others \cup {output} : f # g => Entries(files[f]) \cap Entries(files[g]) = {}
    <3>1. \A f, g \in others : f # g => Entries(files[f]) \cap Entries(files[g]) = {}
          BY <2>1, <2>4
    <3> QED BY <1>17, <2>6, <3>1
  <2>8. \A r : r \in given <=> r \in Entries(<< >>) \/ \E f \in others \cup {output} : r \in Entries(files[f])
    <3>1. \A r : (\E f \in names : r \in Entries(historyRuns[f])) <=>
                 (\E f \in others : r \in Entries(files[f])) \/ \E f \in Entries(group) : r \in Entries(historyRuns[f])
          BY <2>3, <2>4
    <3> QED BY <1>11, <1>17, <2>1, <3>1
  <2>9. Names(done) = others \cup {output}
        BY <1>12, <2>3
  <2>10. HistoryHolds(others \cup {output})'
         BY <1>18, <1>20, <1>24, <2>2, <2>5, <2>7, <2>8 DEF HistoryHolds
  <2> QED BY <2>9, <2>10
<1>26. HistoryRecords'
       BY <1>12, <1>15, <1>20, <1>25, <1>3 DEF HistoryRecords
<1>27. HistorySwept' /\ HistoryFound'
       BY <1>3, <1>15, <1>20 DEF HistorySwept, HistoryFound, Returned, At
<1>28. HistorySound'
       BY <1>2, <1>17, <1>18, <1>19, <1>21, <1>22, <1>26, <1>27 DEF HistorySound
<1> QED BY <1>14, <1>15, <1>28 DEF HistoryGoal

LEMMA VerifyOrderedSound == ASSUME HistoryReady, VerifyOrdered PROVE HistoryGoal
<1>1. call.at = "history merge" /\ historyRuns' = historyRuns /\ ~MergeNeeded(history.pass, 1)
      BY DEF VerifyOrdered, At
<1>2. /\ call.op = "history verify" /\ history.buffer = << >>
      /\ HistoryHolds(Names(history.pass)) /\ NamesApart(history.pass) /\ history.pass \in Passes
      BY <1>1, MergeReady
<1>3. PICK todo \in Seq(Nat) : todo = history.pass.todo /\ Entries(todo) = Names(history.pass) /\ Injective(todo)
  <2>1. history.pass.outputs = << >>
        BY <1>1 DEF MergeNeeded
  <2>2. Entries(<< >>) = {}
        BY DEF Entries
  <2>3. history.pass.todo \in Seq(Nat) /\ Entries(history.pass.todo) = Names(history.pass) /\ Injective(history.pass.todo)
        BY <1>2, <2>1, <2>2 DEF Passes, Names, NamesApart
  <2> QED BY <2>3
<1>4. PICK run : run = HistoryMerged(todo)
      OBVIOUS
<1>5. /\ run \in Seq(Recs) /\ Ascending("identity", run) /\ Injective(run)
      /\ \A r : r \in Entries(run) <=> \E f \in Entries(todo) : r \in Entries(historyRuns[f])
  <2>1. PICK names : names = Names(history.pass)
        OBVIOUS
  <2>2. HistoryHolds(names) /\ Entries(todo) \subseteq names
        BY <1>2, <1>3, <2>1
  <2> QED BY <1>3, <1>4, <2>2, HistoryMergedFacts
<1>6. \A r : r \in WalRecords <=> r \in Entries(run)
  <2>1. {Record(i) : i \in 1..Delivered} = WalRecords
        BY <1>2, DeliveredRecords DEF HistoryReady
  <2>2. \A r : r \in {Record(i) : i \in 1..Delivered} <=>
                  r \in Entries(<< >>) \/ \E f \in Entries(todo) : r \in Entries(historyRuns[f])
        BY <1>2, <1>3 DEF HistoryHolds
  <2>3. Entries(<< >>) = {}
        BY DEF Entries
  <2> QED BY <1>5, <2>1, <2>2, <2>3
<1>7. Repeated(run) \/ Overlaps(run) <=> ~CommitsOnce
      BY <1>5, <1>6, VerifiedExactly DEF HistoryReady
<1>8. IF Repeated(run) \/ Overlaps(run) THEN Conclude("corrupt", history) ELSE Conclude("ok", history)
      BY <1>3, <1>4 DEF VerifyOrdered
<1>9. CASE Repeated(run) \/ Overlaps(run)
      BY <1>1, <1>7, <1>8, <1>9, Concludes
<1>10. CASE ~(Repeated(run) \/ Overlaps(run))
       BY <1>1, <1>2, <1>7, <1>8, <1>10, Concludes
<1> QED BY <1>9, <1>10

\* What a cleanup leaves behind, if it leaves anything.
CleanedAll ==
    history' = HistoryReset([history EXCEPT !.owned = NoFiles]) /\ Return(history.outcome)
CleanedBut(left) ==
    /\ history' = [history EXCEPT !.owned = Without(history.owned, DOMAIN history.owned \ left)]
    /\ Return(IF history.outcome = "ok" THEN "failed" ELSE history.outcome)
Cleaned(left) ==
    /\ At("history cleanup") /\ left \subseteq DOMAIN history.owned
    /\ historyRuns' = Without(historyRuns, DOMAIN history.owned \ left)
    /\ (left = {} /\ CleanedAll) \/ CleanedBut(left)

LEMMA CleanHistorySound == ASSUME HistoryReady, NEW left, Cleaned(left) PROVE HistoryGoal
<1>0. left \subseteq DOMAIN history.owned
      BY DEF Cleaned
<1>1. call.at = "history cleanup" /\ call.op = "history verify"
      BY StageOps DEF At, HistoryReady, Cleaned
<1>2. /\ Scanning /\ Scanning' /\ allowance' = allowance /\ allowance \in Nat /\ HistoryNames \in Nat
      /\ CommitsOnce' = CommitsOnce
      /\ history \in HistoryStates /\ historyRuns \in Named(HistoryNames, Seq(Recs))
      /\ HistorySwept /\ HistoryAccounted /\ HistoryFiles /\ HistoryFound
      BY HistoryBasics
<1>3. Live /\ history.swept /\ history.outcome \in {"ok", "corrupt", "resource-limit"}
      BY <1>1, <1>2, HistoryFields DEF Live, At, HistorySwept
<1>4. DOMAIN historyRuns \subseteq DOMAIN history.owned
      BY <1>2, <1>3 DEF HistoryFiles
<1>5. (history.outcome = "ok" => CommitsOnce) /\ (history.outcome = "corrupt" => ~CommitsOnce)
      BY <1>1, <1>2 DEF HistoryFound
<1>6. PICK files : files = Without(historyRuns, DOMAIN history.owned \ left)
      OBVIOUS
<1>7. /\ files \in Named(HistoryNames, Seq(Recs)) /\ DOMAIN files = DOMAIN historyRuns \cap left
      /\ \A f \in DOMAIN files : files[f] = historyRuns[f]
  <2>1. files \in Named(HistoryNames, Seq(Recs))
        BY <1>2, <1>6, NamedWithout
  <2>2. DOMAIN files = DOMAIN historyRuns \ (DOMAIN history.owned \ left) /\ \A f \in DOMAIN files : files[f] = historyRuns[f]
        BY <1>6 DEF Without
  <2> QED BY <1>4, <2>1, <2>2
<1>8. historyRuns' = files
      BY <1>6 DEF Cleaned
<1>9. CASE left = {} /\ CleanedAll
  <2>1. files = NoFiles /\ DOMAIN NoFiles = {}
    <3>1. DOMAIN files = {}
          BY <1>7, <1>9
    <3> QED BY <1>7, <3>1, NothingNamed, NoFilesNamed
  <2>2. NoFiles \in Named(HistoryNames, Nat) /\ << >> \in Seq(Nat) /\ << >> \in Seq(Recs)
        BY NoFilesNamed
  <2>3. PICK first \in Passes : first = FirstPass(<< >>)
        BY <2>2, FirstPassFacts
  <2>4. history' = [history EXCEPT !.owned = NoFiles, !.runs = << >>, !.buffer = << >>, !.next = 0,
                                   !.pass = first, !.outcome = "ok"]
        BY <1>9, <2>3 DEF HistoryReset, CleanedAll
  <2>5. history' \in HistoryStates
        BY <1>2, <2>2, <2>4 DEF HistoryStates
  <2>6. /\ history'.swept = history.swept /\ history'.owned = NoFiles /\ history'.buffer = << >>
        /\ history'.runs = << >> /\ history'.next = 0
        BY <1>2, <2>4 DEF HistoryStates
  <2>7. CallFormed' /\ Answered(history.outcome)
        BY <1>3, <1>9, Answers DEF HistoryReady, CleanedAll
  <2>8. call'.at = "returned" /\ call'.op = call.op /\ call'.record = call.record /\ call'.answer = history.outcome
        BY <2>7 DEF Answered
  <2>9. HistoryAccounted'
    <3>1. Sizes(NoFiles, HistoryNames) = 0
          BY <1>2, NothingSized
    <3>2. DOMAIN historyRuns' = {}
          BY <1>8, <2>1
    <3>3. 0 =< allowance'
      <4>1. allowance \in Nat
            BY <1>2
      <4> QED BY <1>2, <4>1
    <3> QED BY <2>6, <3>1, <3>2, <3>3 DEF HistoryAccounted
  <2>10. HistorySwept' /\ HistoryFiles' /\ HistoryRecords'
         BY <1>1, <1>8, <2>1, <2>6, <2>8 DEF HistorySwept, HistoryFiles, HistoryRecords
  <2>11. HistoryFound'
         BY <1>2, <1>5, <1>8, <2>1, <2>6, <2>8 DEF HistoryFound, Returned, At
  <2>12. HistorySound'
         BY <1>2, <1>7, <1>8, <2>5, <2>9, <2>10, <2>11 DEF HistorySound
  <2> QED BY <1>5, <2>7, <2>8, <2>12 DEF HistoryGoal
<1>10. CASE CleanedBut(left)
  <2>1. PICK owned : owned = Without(history.owned, DOMAIN history.owned \ left)
        OBVIOUS
  <2>2. history.owned \in Named(HistoryNames, Nat)
        BY <1>2, HistoryFields
  <2>3. /\ owned \in Named(HistoryNames, Nat) /\ DOMAIN owned = left /\ \A f \in left : owned[f] = history.owned[f]
        /\ Sizes(owned, HistoryNames) =< Sizes(history.owned, HistoryNames)
        /\ Sizes(owned, HistoryNames) \in Nat /\ Sizes(history.owned, HistoryNames) \in Nat
    <3>1. owned \in Named(HistoryNames, Nat)
          BY <2>1, <2>2, NamedWithout
    <3>2. Sizes(owned, HistoryNames) =< Sizes(history.owned, HistoryNames)
          BY <1>2, <2>1, <2>2, SizesWithout
    <3>3. Sizes(owned, HistoryNames) \in Nat /\ Sizes(history.owned, HistoryNames) \in Nat
          BY <1>2, <2>2, <3>1, NamedNatural, SizesAreNatural
    <3>4. DOMAIN owned = DOMAIN history.owned \ (DOMAIN history.owned \ left)
          BY <2>1 DEF Without
    <3>5. DOMAIN owned = left
          BY <1>0, <3>4
    <3>6. \A f \in left : owned[f] = history.owned[f]
          BY <1>0, <2>1 DEF Without
    <3> QED BY <3>1, <3>2, <3>3, <3>5, <3>6
  <2>4. history' = [history EXCEPT !.owned = owned]
        BY <1>10, <2>1 DEF CleanedBut
  <2>5. history' \in HistoryStates
        BY <1>2, <2>3, <2>4 DEF HistoryStates
  <2>6. /\ history'.swept = history.swept /\ history'.owned = owned /\ history'.buffer = history.buffer
        /\ history'.runs = history.runs /\ history'.next = history.next
        BY <1>2, <2>4 DEF HistoryStates
  <2>7. PICK answer \in {"corrupt", "resource-limit", "failed"} :
            answer = IF history.outcome = "ok" THEN "failed" ELSE history.outcome
        BY <1>3
  <2>8. CallFormed' /\ Answered(answer) /\ ~Live'
        BY <1>10, <2>7, Answers DEF HistoryReady, CleanedBut
  <2>9. call'.at = "returned" /\ call'.op = call.op /\ call'.record = call.record /\ call'.answer = answer
        BY <2>8 DEF Answered
  <2>10. HistoryAccounted'
    <3>1. Sizes(owned, HistoryNames) =< allowance
      <4>1. Sizes(history.owned, HistoryNames) =< allowance
            BY <1>2, <1>3 DEF HistoryAccounted
      <4>2. allowance \in Nat
            BY <1>2
      <4>3. /\ Sizes(owned, HistoryNames) =< Sizes(history.owned, HistoryNames)
            /\ Sizes(owned, HistoryNames) \in Nat /\ Sizes(history.owned, HistoryNames) \in Nat
            BY <2>3
      <4> QED BY <4>1, <4>2, <4>3
    <3>2. ASSUME NEW f \in DOMAIN files PROVE Len(files[f]) =< Size(owned, f)
      <4>1. f \in DOMAIN historyRuns /\ files[f] = historyRuns[f] /\ f \in left
            BY <1>7
      <4>2. Size(owned, f) = Size(history.owned, f)
            BY <1>4, <2>3, <4>1 DEF Size
      <4> QED BY <1>2, <1>3, <4>1, <4>2 DEF HistoryAccounted
    <3> QED BY <1>2, <1>8, <2>6, <3>1, <3>2 DEF HistoryAccounted
  <2>11. HistorySwept' /\ HistoryFiles' /\ HistoryRecords' /\ HistoryFound'
         BY <1>1, <1>3, <2>6, <2>7, <2>8, <2>9 DEF HistorySwept, HistoryFiles, HistoryRecords, HistoryFound, Returned, At
  <2>12. HistorySound'
         BY <1>2, <1>7, <1>8, <2>5, <2>10, <2>11 DEF HistorySound
  <2> QED BY <1>5, <2>7, <2>8, <2>9, <2>12 DEF HistoryGoal
<1> QED BY <1>9, <1>10, Zenon DEF Cleaned

LEMMA HistoryStepSound == ASSUME HistoryReady, HistoryStep \/ CleanHistoryFails PROVE HistoryGoal
<1>1. CASE CleanHistory
  <2>1. {} \in SUBSET DOMAIN history.owned /\ DOMAIN history.owned \ {} = DOMAIN history.owned
        OBVIOUS
  <2>2. Cleaned({})
        BY <1>1, <2>1 DEF CleanHistory, Cleaned, CleanedAll
  <2> QED BY <2>2, CleanHistorySound
<1>2. CASE CleanHistoryFails
  <2>1. \E left : Cleaned(left)
    <3>1. PICK left \in {DOMAIN history.owned, DOMAIN history.owned \cap {0}, {}} :
              /\ historyRuns' = Without(historyRuns, DOMAIN history.owned \ left)
              /\ history' = [history EXCEPT !.owned = Without(@, DOMAIN @ \ left)]
          BY <1>2, Zenon DEF CleanHistoryFails
    <3>2. left \subseteq DOMAIN history.owned
          OBVIOUS
    <3>3. At("history cleanup") /\ Return(IF history.outcome = "ok" THEN "failed" ELSE history.outcome)
          BY <1>2, Zenon DEF CleanHistoryFails
    <3>4. history' = [history EXCEPT !.owned = Without(history.owned, DOMAIN history.owned \ left)]
          BY <3>1
    <3> QED BY <3>1, <3>2, <3>3, <3>4, Zenon DEF Cleaned, CleanedBut
  <2> QED BY <2>1, CleanHistorySound
<1> QED BY <1>1, <1>2, SweepHistorySound, RecordInHistorySound, VerifyHistorySound, FlushHistorySound,
           StartHistoryMergeSound, FinishHistoryMergeSound, VerifyOrderedSound, Zenon DEF HistoryStep

LEMMA HistoryStepKeeps ==
    ASSUME ScanSound, Scanning, HistoryStep \/ CleanHistoryFails,
           UNCHANGED <<scanInput, indexVars, torn, pass, scans, verdict>>
    PROVE  ScanSound'
<1>1. /\ InputSound /\ CallFormed /\ IndexSound /\ HistorySound /\ VerdictSound /\ Kept
      /\ UNCHANGED indexVars
      BY DEF ScanSound, scanInput, Kept
<1>2. InputSound' /\ CommitsOnce' = CommitsOnce /\ Scanning'
      BY <1>1, KeptInput
<1>3. wal' = wal /\ receipts' = receipts /\ verdict' = verdict
      BY <1>1 DEF Kept
<1>4. /\ CallFormed' /\ HistorySound' /\ call'.op = call.op /\ call'.record = call.record
      /\ call'.answer = "corrupt" => call.answer = "corrupt" \/ ~CommitsOnce
      BY <1>1, HistoryStepSound DEF HistoryReady, HistoryGoal
<1>5. call.at \in {"history record", "history verify", "history flush", "history merge", "history merging", "history cleanup"}
      BY DEF HistoryStep, SweepHistory, RecordInHistory, VerifyHistory, FlushHistory, StartHistoryMerge,
             FinishHistoryMerge, VerifyOrdered, CleanHistory, CleanHistoryFails, At
<1>6. Live /\ call.op \in {"history record", "history verify"}
      BY <1>1, <1>5, StageOps DEF Live, At
<1>7. call'.at \in Stages(call.op)
      BY <1>2, <1>4 DEF CallFormed
<1>8. call'.at \notin {"index flush", "index merge", "index merging", "index unlink", "index verify"}
      BY <1>6, <1>7 DEF Stages
<1>9. Recording' = Recording
      BY <1>4 DEF Recording
<1>10. IndexSound'
       BY <1>1, <1>6, <1>8, <1>9, IndexFrame
<1>11. VerdictSound'
  <2>1. verdict # "published"
        BY DEF Scanning
  <2> QED BY <1>1, <1>2, <1>3, <1>4, <2>1 DEF VerdictSound
<1> QED BY <1>2, <1>4, <1>10, <1>11 DEF ScanSound

-------------------------------------------------------------------------------
(* Where a scan starts and where it ends *)

LEMMA ClosedIsState == IndexClosed \in IndexStates
<1>1. IndexNames \in Nat \ {0}
      BY IndexConstantsOK
<1>2. 0 \in 0..(IndexNames - 1)
      BY <1>1
<1>3. NoFiles \in Named(IndexNames, Nat)
      BY NoFilesNamed
<1>4. FirstPass(<< >>) \in Passes
      BY DEF FirstPass, Passes
<1> QED BY <1>2, <1>3, <1>4 DEF IndexClosed, IndexStates

LEMMA FreshIsState == HistoryFresh \in HistoryStates
<1>1. NoFiles \in Named(HistoryNames, Nat)
      BY NoFilesNamed
<1>2. FirstPass(<< >>) \in Passes
      BY DEF FirstPass, Passes
<1> QED BY <1>1, <1>2 DEF HistoryFresh, HistoryStates

LEMMA Starts ==
    ASSUME InputSound, UNCHANGED scanInput, call' = FirstCall, Scanning'
    PROVE  /\ InputSound' /\ CallFormed' /\ Live'
           /\ call'.op = call'.at /\ call'.op \in {"index record", "index verify"} /\ call'.answer = "none"
           /\ Delivered' = 0
<1>1. wal' = wal /\ receipts' = receipts /\ allowance' = allowance /\ kind' = kind
      BY DEF scanInput
<1>2. InputSound'
      BY <1>1 DEF InputSound
<1>3. wal \in Seq(Nat)
      BY DEF InputSound
<1>4. CASE wal = << >>
  <2>1. call' = Calling("index verify", << >>)
        BY <1>4 DEF FirstCall
  <2>2. CallFormed' /\ Live' /\ call'.op = "index verify" /\ call'.at = "index verify" /\ call'.answer = "none"
        BY <2>1, CallBegins DEF Ops
  <2>3. Len(wal') = 0
        BY <1>1, <1>4
  <2>4. Delivered' = 0
        BY <2>2, <2>3 DEF Delivered
  <2> QED BY <1>2, <2>2, <2>4
<1>5. CASE wal # << >>
  <2>1. call' = Calling("index record", <<wal[1], 1>>)
        BY <1>5 DEF FirstCall, Record
  <2>2. 1 \in DOMAIN wal'
        BY <1>1, <1>3, <1>5
  <2>3. \E i \in DOMAIN wal' : <<wal[1], 1>> = <<wal'[i], i>>
        BY <1>1, <2>2
  <2>4. /\ CallFormed' /\ Live' /\ call'.op = "index record" /\ call'.at = "index record" /\ call'.answer = "none"
        /\ call'.record = <<wal[1], 1>>
        BY <2>1, <2>3, CallBegins DEF Ops
  <2>5. call'.record[2] = 1
    <3>1. PICK a : a = wal[1]
          OBVIOUS
    <3>2. PICK record : record = call'.record
          OBVIOUS
    <3>3. record = <<a, 1>>
          BY <2>4, <3>1, <3>2, Zenon
    <3>4. record[2] = 1
          BY <3>3
    <3> QED BY <3>2, <3>4, Zenon
  <2>6. Delivered' = call'.record[2] - 1
        BY <2>4 DEF Delivered
  <2>7. Delivered' = 0
        BY <2>5, <2>6
  <2> QED BY <1>2, <2>4, <2>7
<1> QED BY <1>4, <1>5

\* The index as it is closed, whatever files there are.
LEMMA ClosedSound ==
    ASSUME index' = IndexClosed, indexRuns' \in Named(IndexNames, Seq(Recs)),
           call'.at \notin {"index flush", "index merge", "index merging", "index unlink"}
    PROVE  IndexSound'
<1>1. index' \in IndexStates
      BY ClosedIsState
<1>2. /\ index'.opened = "no" /\ index'.owned = NoFiles /\ index'.buffer = << >> /\ index'.runs = << >>
      /\ index'.next = 0
      BY DEF IndexClosed
<1>3. IndexOpen' /\ IndexAccounted' /\ IndexFiles' /\ IndexPass'
      BY <1>2 DEF IndexOpen, IndexAccounted, IndexFiles, IndexPass
<1> QED BY <1>1, <1>3 DEF IndexSound

\* A verifier that owns nothing, before the first record.
OwnsNothing ==
    /\ history.owned = NoFiles /\ history.buffer = << >> /\ history.runs = << >> /\ history.next = 0
    /\ history.swept => historyRuns = NoFiles
NothingDelivered ==
    Scanning /\ call.op = call.at /\ call.op \in {"index record", "index verify"} /\ Delivered = 0

LEMMA OwningNothingSound ==
    ASSUME history' \in HistoryStates, historyRuns' \in Named(HistoryNames, Seq(Recs)), allowance' \in Nat,
           OwnsNothing', NothingDelivered'
    PROVE  HistorySound'
<1>1. HistorySwept'
      BY DEF HistorySwept, OwnsNothing, NothingDelivered
<1>o. history'.owned = NoFiles /\ (history'.swept => historyRuns' = NoFiles)
      BY DEF OwnsNothing
<1>2. HistoryAccounted'
  <2>1. Sizes(NoFiles, HistoryNames) = 0
        BY NothingSized, HistoryConstantsOK
  <2>2. Sizes(history'.owned, HistoryNames) =< allowance'
    <3>1. 0 =< allowance'
          OBVIOUS
    <3> QED BY <1>o, <2>1, <3>1, Zenon
  <2>3. history'.swept => DOMAIN historyRuns' = {}
        BY <1>o, NoFilesNamed, Zenon
  <2> QED BY <2>2, <2>3, Zenon DEF HistoryAccounted
<1>3. HistoryFiles'
  <2>1. DOMAIN history'.owned = {}
        BY <1>o, NoFilesNamed, Zenon
  <2>2. history'.swept => DOMAIN historyRuns' = {}
        BY <1>o, NoFilesNamed, Zenon
  <2>3. history'.swept => DOMAIN historyRuns' \subseteq DOMAIN history'.owned /\ DOMAIN history'.owned \subseteq 0..(history'.next - 1)
        BY <2>1, <2>2, Zenon
  <2> QED BY <2>3, Zenon DEF HistoryFiles
<1>4. HistoryRecords'
  <2>1. Entries(history'.runs) = {} /\ Injective(history'.runs) /\ Entries(history'.buffer) = {} /\ Injective(history'.buffer)
    <3>1. Entries(<< >>) = {} /\ Injective(<< >>)
          BY DEF Entries, Injective
    <3> QED BY <3>1, Zenon DEF OwnsNothing
  <2>2. {Record(i)' : i \in 1..Delivered'} = {}
    <3>1. Delivered' = 0
          BY DEF NothingDelivered
    <3>2. PICK n : n = Delivered'
          OBVIOUS
    <3>3. 1..n = {}
          BY <3>1, <3>2
    <3> QED BY <3>2, <3>3
  <2>3. HistoryHolds(Entries(history.runs))'
        BY <2>1, <2>2 DEF HistoryHolds
  <2> QED BY <2>1, <2>3 DEF HistoryRecords, NothingDelivered
<1>5. HistoryFound'
      BY DEF HistoryFound, Returned, At, NothingDelivered
<1> QED BY <1>1, <1>2, <1>3, <1>4, <1>5 DEF HistorySound, NothingDelivered

LEMMA NamedForgotten ==
    ASSUME NEW n, NEW names \in SUBSET (0..(n - 1))
    PROVE  Forgotten(names) \in Named(n, Seq(Recs))
<1>1. PICK files : files = Forgotten(names)
      OBVIOUS
<1>2. DOMAIN files = names /\ files = [k \in names |-> files[k]] /\ \A k \in names : files[k] = << >>
      BY <1>1 DEF Forgotten
<1>3. << >> \in Seq(Recs)
      OBVIOUS
<1>4. files = [k \in DOMAIN files |-> files[k]] /\ DOMAIN files \subseteq 0..(n - 1) /\ \A k \in DOMAIN files : files[k] \in Seq(Recs)
  <2>1. files = [k \in DOMAIN files |-> files[k]]
        BY <1>2, Zenon
  <2>2. \A k \in DOMAIN files : files[k] \in Seq(Recs)
        BY <1>2, <1>3, Zenon
  <2>3. DOMAIN files \subseteq 0..(n - 1)
        BY <1>2, Zenon
  <2> QED BY <2>1, <2>2, <2>3, Zenon
<1>5. files \in Named(n, Seq(Recs))
      BY <1>4, NamedIs, Zenon
<1> QED BY <1>1, <1>5, Zenon

LEMMA ResetIsState == ASSUME NEW h \in HistoryStates PROVE HistoryReset(h) \in HistoryStates
<1>1. FirstPass(<< >>) \in Passes
      BY DEF FirstPass, Passes
<1>2. PICK p : p = FirstPass(<< >>)
      OBVIOUS
<1>3. p \in Passes /\ << >> \in Seq(Recs) /\ << >> \in Seq(Nat)
      BY <1>1, <1>2
<1>4. HistoryReset(h) = [h EXCEPT !.runs = << >>, !.buffer = << >>, !.next = 0, !.pass = p, !.outcome = "ok"]
      BY <1>2 DEF HistoryReset
<1>5. [h EXCEPT !.runs = << >>, !.buffer = << >>, !.next = 0, !.pass = p, !.outcome = "ok"] \in HistoryStates
      BY <1>3 DEF HistoryStates
<1> QED BY <1>4, <1>5

\* A recovery begins, with a file to scan or without one.
LEMMA ScanBeginsSound == ASSUME ScanSound, BeginRecovery, kind = "file" PROVE ScanSound'
<1>1. /\ InputSound /\ IndexSound /\ HistorySound /\ ~Scanning /\ UNCHANGED scanInput /\ call' = FirstCall
      /\ verdict' = "none" /\ index' = IndexClosed /\ history' = HistoryFresh
      /\ indexRuns' = indexRuns /\ historyRuns' = historyRuns
      BY DEF ScanSound, BeginRecovery
<1>2. Scanning'
      BY <1>1 DEF Scanning
<1>3. /\ InputSound' /\ CallFormed' /\ Live'
      /\ call'.op = call'.at /\ call'.op \in {"index record", "index verify"} /\ call'.answer = "none"
      /\ Delivered' = 0
      BY <1>1, <1>2, Starts
<1>4. IndexSound'
      BY <1>1, <1>3, ClosedSound DEF IndexSound
<1>5. HistorySound'
  <2>1. history' \in HistoryStates /\ historyRuns' \in Named(HistoryNames, Seq(Recs)) /\ allowance' \in Nat
        BY <1>1, <1>3, FreshIsState DEF HistorySound, InputSound
  <2>2. OwnsNothing'
        BY <1>1 DEF OwnsNothing, HistoryFresh
  <2>3. NothingDelivered'
        BY <1>2, <1>3 DEF NothingDelivered
  <2> QED BY <2>1, <2>2, <2>3, OwningNothingSound
<1>6. VerdictSound'
      BY <1>1, <1>3 DEF VerdictSound
<1> QED BY <1>3, <1>4, <1>5, <1>6 DEF ScanSound

LEMMA NothingScannedSound == ASSUME ScanSound, BeginRecovery, kind = "missing" PROVE ScanSound'
<1>1. /\ InputSound /\ IndexSound /\ HistorySound /\ UNCHANGED scanInput /\ call' = Verified
      /\ verdict' = "none" /\ index' = IndexClosed /\ history' = HistoryFresh
      /\ indexRuns' = indexRuns /\ historyRuns' = historyRuns
      BY DEF ScanSound, BeginRecovery
<1>2. /\ wal' = wal /\ receipts' = receipts /\ allowance' = allowance /\ kind' = kind /\ wal = << >>
      BY <1>1 DEF scanInput, InputSound
<1>3. InputSound' /\ Scanning' /\ CommitsOnce'
      BY <1>1, <1>2 DEF InputSound, Scanning, CommitsOnce
<1>4. call' = [op |-> "history verify", at |-> "returned", record |-> << >>, answer |-> "ok"]
      BY <1>1 DEF Verified, Calling
<1>5. call'.op = "history verify" /\ call'.at = "returned" /\ call'.record = << >> /\ call'.answer = "ok"
      BY <1>4
<1>6. CallFormed'
  <2>1. call' = [op |-> call'.op, at |-> call'.at, record |-> call'.record, answer |-> call'.answer]
        BY <1>4, <1>5
  <2>2. call'.op \in Ops /\ call'.at \in Stages(call'.op) /\ ~Recording'
        BY <1>5 DEF Ops, Stages, Recording
  <2> QED BY <1>3, <1>5, <2>1, <2>2 DEF CallFormed, At
<1>7. IndexSound'
      BY <1>1, <1>5, ClosedSound DEF IndexSound
<1>8. HistorySound'
  <2>1. history' \in HistoryStates /\ historyRuns' \in Named(HistoryNames, Seq(Recs))
        BY <1>1, FreshIsState DEF HistorySound
  <2>2. /\ history'.swept = FALSE /\ history'.owned = NoFiles /\ history'.buffer = << >> /\ history'.runs = << >>
        /\ history'.next = 0
        BY <1>1 DEF HistoryFresh
  <2>3. kind' # "file"
        BY <1>2
  <2>4. HistorySwept' /\ HistoryAccounted' /\ HistoryFiles' /\ HistoryRecords' /\ HistoryFound'
        BY <1>3, <1>5, <2>2, <2>3 DEF HistorySwept, HistoryAccounted, HistoryFiles, HistoryRecords, HistoryFound
  <2> QED BY <1>3, <2>1, <2>4 DEF HistorySound
<1>9. VerdictSound'
      BY <1>1, <1>5 DEF VerdictSound
<1> QED BY <1>3, <1>6, <1>7, <1>8, <1>9 DEF ScanSound

LEMMA BeginRecoverySound == ASSUME ScanSound, BeginRecovery PROVE ScanSound'
<1>1. kind = "file" \/ kind = "missing"
      BY DEF ScanSound, InputSound
<1> QED BY <1>1, ScanBeginsSound, NothingScannedSound

\* The verifier has unlinked its files before the tail is cut off.
LEMMA RepairTailSound == ASSUME ScanSound, RepairTail PROVE ScanSound'
<1>1. /\ InputSound /\ IndexSound /\ HistorySound /\ Scanning /\ UNCHANGED scanInput /\ call' = FirstCall
      /\ verdict' = verdict /\ index' = IndexClosed /\ history' = HistoryReset(history)
      /\ indexRuns' = Without(indexRuns, 0..(IndexNames - 1)) /\ historyRuns' = historyRuns
      /\ Returned("history verify", "ok") /\ kind = "file"
      BY DEF ScanSound, RepairTail
<1>2. Scanning'
      BY <1>1 DEF Scanning
<1>3. /\ InputSound' /\ CallFormed' /\ Live'
      /\ call'.op = call'.at /\ call'.op \in {"index record", "index verify"} /\ call'.answer = "none"
      /\ Delivered' = 0
      BY <1>1, <1>2, Starts
<1>4. IndexSound'
  <2>1. indexRuns' \in Named(IndexNames, Seq(Recs))
        BY <1>1, NamedWithout DEF IndexSound
  <2> QED BY <1>1, <1>3, <2>1, ClosedSound
<1>5. HistorySound'
  <2>1. history \in HistoryStates /\ history.owned = NoFiles /\ historyRuns = NoFiles
        BY <1>1 DEF HistorySound, HistoryFound
  <2>2. history' \in HistoryStates
    <3>1. HistoryReset(history) \in HistoryStates
          BY <2>1, ResetIsState
    <3> QED BY <1>1, <3>1, Zenon
  <2>3. historyRuns' \in Named(HistoryNames, Seq(Recs)) /\ allowance' \in Nat
        BY <1>1, <1>3 DEF HistorySound, InputSound
  <2>4. /\ history'.owned = history.owned /\ history'.buffer = << >> /\ history'.runs = << >> /\ history'.next = 0
        BY <1>1, <2>1 DEF HistoryReset, HistoryStates
  <2>5. OwnsNothing'
        BY <1>1, <2>1, <2>4, Zenon DEF OwnsNothing
  <2>6. NothingDelivered'
        BY <1>2, <1>3 DEF NothingDelivered
  <2> QED BY <2>2, <2>3, <2>5, <2>6, OwningNothingSound
<1>6. VerdictSound'
      BY <1>1, <1>2, <1>3 DEF VerdictSound, Scanning
<1> QED BY <1>3, <1>4, <1>5, <1>6 DEF ScanSound

\* A scan ends, or power is lost between two.
LEMMA EndedSound ==
    ASSUME InputSound, UNCHANGED scanInput, NEW result, Ended(result), result \in {"published", "killed", "corrupt", "resource-limit", "failed"},
           indexRuns' \in Named(IndexNames, Seq(Recs)), historyRuns' \in Named(HistoryNames, Seq(Recs)),
           result = "published" => CommitsOnce /\ (kind = "file" => historyRuns' = NoFiles),
           result = "corrupt" => ~CommitsOnce
    PROVE  ScanSound'
<1>1. /\ wal' = wal /\ receipts' = receipts /\ allowance' = allowance /\ kind' = kind
      /\ verdict' = result /\ call' = NoCall /\ index' = IndexClosed /\ history' = HistoryFresh
      BY DEF scanInput, Ended
<1>2. InputSound'
      BY <1>1 DEF InputSound
<1>3. CommitsOnce' = CommitsOnce
      BY <1>1 DEF CommitsOnce
<1>4. ~Scanning' /\ ~Live'
      BY <1>1 DEF Scanning, Live
<1>5. call' = [op |-> "no call", at |-> "no call", record |-> << >>, answer |-> "none"]
      BY <1>1 DEF NoCall, Calling
<1>6. call'.op = "no call" /\ call'.at = "no call" /\ call'.record = << >> /\ call'.answer = "none"
      BY <1>5
<1>7. CallFormed'
  <2>1. call' = [op |-> call'.op, at |-> call'.at, record |-> call'.record, answer |-> call'.answer]
        BY <1>5, <1>6
  <2> QED BY <1>1, <1>4, <1>6, <2>1 DEF CallFormed, NoCall, Calling
<1>8. IndexSound'
      BY <1>1, <1>6, ClosedSound
<1>9. HistorySound'
  <2>1. history' \in HistoryStates
        BY <1>1, FreshIsState
  <2>2. /\ history'.swept = FALSE /\ history'.owned = NoFiles /\ history'.buffer = << >> /\ history'.runs = << >>
        /\ history'.next = 0
        BY <1>1 DEF HistoryFresh
  <2>3. HistorySwept' /\ HistoryAccounted' /\ HistoryFiles' /\ HistoryRecords' /\ HistoryFound'
        BY <1>4, <1>6, <2>2 DEF HistorySwept, HistoryAccounted, HistoryFiles, HistoryRecords, HistoryFound, Returned, At
  <2> QED BY <1>1, <2>1, <2>3 DEF HistorySound
<1>10. VerdictSound'
       BY <1>1, <1>3, <1>6 DEF VerdictSound
<1> QED BY <1>2, <1>7, <1>8, <1>9, <1>10 DEF ScanSound

LEMMA PublishSound == ASSUME ScanSound, Publish PROVE ScanSound'
<1>1. /\ InputSound /\ IndexSound /\ HistorySound /\ UNCHANGED scanInput /\ Ended("published")
      /\ historyRuns' = historyRuns /\ ResetIndex /\ Returned("history verify", "ok")
      BY DEF ScanSound, Publish
<1>2. CommitsOnce /\ (kind = "file" => historyRuns = NoFiles)
      BY <1>1 DEF HistorySound, HistoryFound
<1>3. indexRuns' \in Named(IndexNames, Seq(Recs))
  <2>1. indexRuns \in Named(IndexNames, Seq(Recs))
        BY <1>1 DEF IndexSound
  <2>2. indexRuns' \in {indexRuns, Without(indexRuns, 0..(IndexNames - 1))}
        BY <1>1 DEF ResetIndex
  <2> QED BY <2>1, <2>2, NamedWithout
<1>4. historyRuns' \in Named(HistoryNames, Seq(Recs))
      BY <1>1 DEF HistorySound
<1>5. kind = "file" => historyRuns' = NoFiles
      BY <1>1, <1>2, Zenon
<1> QED BY <1>1, <1>2, <1>3, <1>4, <1>5, EndedSound

LEMMA AbortSound == ASSUME ScanSound, Abort PROVE ScanSound'
<1>1. /\ InputSound /\ CallFormed /\ IndexSound /\ HistorySound /\ VerdictSound /\ UNCHANGED scanInput
      /\ Ended(call.answer) /\ ResetIndex /\ Scanning /\ At("returned") /\ call.answer # "ok"
      /\ historyRuns' \in {historyRuns, Without(historyRuns, DOMAIN history.owned)}
      BY DEF ScanSound, Abort
<1>2. call.answer \in {"corrupt", "resource-limit", "failed"}
      BY <1>1 DEF CallFormed
<1>3. indexRuns' \in Named(IndexNames, Seq(Recs))
  <2>1. indexRuns \in Named(IndexNames, Seq(Recs))
        BY <1>1 DEF IndexSound
  <2>2. indexRuns' \in {indexRuns, Without(indexRuns, 0..(IndexNames - 1))}
        BY <1>1 DEF ResetIndex
  <2> QED BY <2>1, <2>2, NamedWithout
<1>4. historyRuns' \in Named(HistoryNames, Seq(Recs))
      BY <1>1, NamedWithout DEF HistorySound
<1>5. call.answer = "corrupt" => ~CommitsOnce
      BY <1>1 DEF VerdictSound
<1> QED BY <1>1, <1>2, <1>3, <1>4, <1>5, EndedSound

LEMMA KilledScanningSound == ASSUME ScanSound, KilledScanning PROVE ScanSound'
<1>1. /\ InputSound /\ IndexSound /\ HistorySound /\ UNCHANGED scanInput /\ Ended("killed")
      /\ indexRuns' = Forgotten(DOMAIN indexRuns) /\ historyRuns' = Forgotten(DOMAIN historyRuns)
      BY DEF ScanSound, KilledScanning
<1>2. indexRuns' \in Named(IndexNames, Seq(Recs))
  <2>1. DOMAIN indexRuns \subseteq 0..(IndexNames - 1)
        BY <1>1, NamedIs DEF IndexSound
  <2> QED BY <1>1, <2>1, NamedForgotten
<1>3. historyRuns' \in Named(HistoryNames, Seq(Recs))
  <2>1. DOMAIN historyRuns \subseteq 0..(HistoryNames - 1)
        BY <1>1, NamedIs DEF HistorySound
  <2> QED BY <1>1, <2>1, NamedForgotten
<1> QED BY <1>1, <1>2, <1>3, EndedSound

LEMMA PowerLostScanningSound == ASSUME ScanSound, PowerLostScanning PROVE ScanSound'
<1>1. InputSound /\ UNCHANGED scanInput /\ Ended("killed")
      BY DEF ScanSound, PowerLostScanning
<1>2. PICK none \in BOOLEAN : /\ indexRuns' = Forgotten(IF none THEN {} ELSE 0..(IndexNames - 1))
                              /\ historyRuns' = Forgotten(IF none THEN {} ELSE 0..(HistoryNames - 1))
      BY DEF PowerLostScanning
<1>3. /\ (IF none THEN {} ELSE 0..(IndexNames - 1)) \in SUBSET (0..(IndexNames - 1))
      /\ (IF none THEN {} ELSE 0..(HistoryNames - 1)) \in SUBSET (0..(HistoryNames - 1))
      OBVIOUS
<1>4. indexRuns' \in Named(IndexNames, Seq(Recs)) /\ historyRuns' \in Named(HistoryNames, Seq(Recs))
      BY <1>2, <1>3, NamedForgotten
<1> QED BY <1>1, <1>4, EndedSound

\* No file outgrew its account.
Bounded(files, owned) == \A f \in DOMAIN files : Len(files[f]) =< Size(owned, f)
StillBounded ==
    /\ indexRuns' \in Named(IndexNames, Seq(Recs)) /\ historyRuns' \in Named(HistoryNames, Seq(Recs))
    /\ index.opened = "swept" => indexRuns' = indexRuns
    /\ index.opened = "yes" => Bounded(indexRuns', index.owned)
    /\ history.swept => Bounded(historyRuns', history.owned)
Failing == Scanning /\ Kept /\ Return("failed") /\ UNCHANGED <<index, manifest, history>>

LEMMA BoundedNow ==
    ASSUME IndexSound, HistorySound
    PROVE  /\ index.opened = "yes" => Bounded(indexRuns, index.owned)
           /\ history.swept => Bounded(historyRuns, history.owned)
           /\ indexRuns \in Named(IndexNames, Seq(Recs)) /\ historyRuns \in Named(HistoryNames, Seq(Recs))
<1>1. index.opened = "yes" => Bounded(indexRuns, index.owned)
      BY DEF IndexSound, IndexAccounted, Bounded
<1>2. history.swept => Bounded(historyRuns, history.owned)
      BY DEF HistorySound, HistoryAccounted, Bounded
<1> QED BY <1>1, <1>2 DEF IndexSound, HistorySound

\* A call that failed reads nothing again.
LEMMA RefusalSound == ASSUME ScanSound, Failing, StillBounded PROVE ScanSound'
<1>1. /\ InputSound /\ CallFormed /\ IndexSound /\ HistorySound /\ VerdictSound
      /\ index' = index /\ manifest' = manifest /\ history' = history
      /\ Scanning /\ Kept /\ Return("failed")
      BY DEF ScanSound, Failing
<1>2. InputSound' /\ CommitsOnce' = CommitsOnce /\ Scanning'
      BY <1>1, KeptInput
<1>3. wal' = wal /\ receipts' = receipts /\ verdict' = verdict /\ allowance' = allowance
      BY <1>1 DEF Kept
<1>4. CallFormed' /\ ~Live' /\ call'.at = "returned" /\ call'.answer = "failed"
      BY <1>1, Answers DEF Answered
<1>5. IndexSound'
  <2>1. index \in IndexStates /\ IndexOpen /\ IndexAccounted
        BY <1>1 DEF IndexSound
  <2>2. IndexOpen'
        BY <1>1, <1>4, <2>1 DEF IndexOpen, StillBounded
  <2>3. IndexAccounted'
        BY <1>1, <1>3, <2>1 DEF IndexAccounted, StillBounded, Bounded
  <2>4. IndexFiles' /\ IndexPass'
        BY <1>4 DEF IndexFiles, IndexPass
  <2>5. index' \in IndexStates
        BY <1>1, <2>1
  <2> QED BY <1>2, <2>2, <2>3, <2>4, <2>5 DEF IndexSound, StillBounded
<1>6. HistorySound'
  <2>1. history \in HistoryStates /\ HistorySwept /\ HistoryAccounted
        BY <1>1 DEF HistorySound
  <2>2. HistorySwept'
        BY <1>1, <1>4, <2>1 DEF HistorySwept
  <2>3. HistoryAccounted'
        BY <1>1, <1>3, <2>1 DEF HistoryAccounted, StillBounded, Bounded
  <2>4. HistoryFiles' /\ HistoryRecords' /\ HistoryFound'
        BY <1>4 DEF HistoryFiles, HistoryRecords, HistoryFound, Returned
  <2>5. history' \in HistoryStates
        BY <1>1, <2>1
  <2> QED BY <1>2, <2>2, <2>3, <2>4, <2>5 DEF HistorySound, StillBounded
<1>7. VerdictSound'
      BY <1>1, <1>2, <1>3, <1>4 DEF VerdictSound, Scanning
<1> QED BY <1>2, <1>4, <1>5, <1>6, <1>7 DEF ScanSound

\* An empty file is within any account.
LEMMA EmptyFileBounded ==
    ASSUME NEW n, NEW files \in Named(n, Seq(Recs)), NEW name \in 0..(n - 1),
           NEW m, NEW owned \in Named(m, Nat), Bounded(files, owned)
    PROVE  With(files, name, << >>) \in Named(n, Seq(Recs)) /\ Bounded(With(files, name, << >>), owned)
<1>1. << >> \in Seq(Recs) /\ Len(<< >>) = 0
      OBVIOUS
<1>2. With(files, name, << >>) \in Named(n, Seq(Recs))
      BY <1>1, NamedWith
<1>3. \A f : Size(owned, f) \in Nat
      BY NamedIs DEF Size
<1>4. PICK more : more = With(files, name, << >>)
      OBVIOUS
<1>5. DOMAIN more = DOMAIN files \cup {name} /\ more[name] = << >> /\ \A f \in DOMAIN files : f # name => more[f] = files[f]
      BY <1>4 DEF With
<1>6. Len(more[name]) =< Size(owned, name)
  <2>1. 0 =< Size(owned, name)
        BY <1>3
  <2> QED BY <1>1, <1>5, <2>1, Zenon
<1>7. \A f \in DOMAIN more : Len(more[f]) =< Size(owned, f)
  <2> TAKE f \in DOMAIN more
  <2>1. CASE f = name
        BY <1>6, <2>1, Zenon
  <2>2. CASE f # name
        BY <1>5, <2>2, Zenon DEF Bounded
  <2> QED BY <2>1, <2>2
<1>8. Bounded(more, owned)
      BY <1>7, Zenon DEF Bounded
<1> QED BY <1>2, <1>4, <1>8, Zenon

LEMMA RepairTailFailsSound == ASSUME ScanSound, RepairTailFails PROVE ScanSound'
<1>1. Failing /\ indexRuns' = indexRuns /\ historyRuns' = historyRuns
      BY DEF RepairTailFails, Failing, Kept, scanInput, indexVars, historyVars
<1>2. StillBounded
      BY <1>1, BoundedNow, Zenon DEF ScanSound, StillBounded
<1> QED BY <1>1, <1>2, RefusalSound

LEMMA OperationFailsSound == ASSUME ScanSound, OperationFails PROVE ScanSound'
<1>1. Failing
      BY DEF OperationFails, Failing, Kept, scanInput
<1>2. /\ index.opened = "yes" => Bounded(indexRuns, index.owned)
      /\ history.swept => Bounded(historyRuns, history.owned)
      /\ indexRuns \in Named(IndexNames, Seq(Recs)) /\ historyRuns \in Named(HistoryNames, Seq(Recs))
      BY BoundedNow DEF ScanSound
<1>3. index \in IndexStates /\ history \in HistoryStates /\ IndexOpen /\ HistorySwept
      BY DEF ScanSound, IndexSound, HistorySound
<1>4. CASE UNCHANGED <<indexRuns, historyRuns>>
  <2>1. indexRuns' = indexRuns /\ historyRuns' = historyRuns
        BY <1>4
  <2>2. StillBounded
        BY <1>2, <2>1, Zenon DEF StillBounded
  <2> QED BY <1>1, <2>2, RefusalSound
<1>5. CASE IndexCreates /\ index.next =< index.watermark /\ indexRuns' = With(indexRuns, index.next, << >>) /\ historyRuns' = historyRuns
  <2>1. index.opened = "yes"
        BY <1>3, <1>5 DEF IndexCreates, IndexMergeNeeded, IndexOpen, At
  <2>2. index.next \in 0..(IndexNames - 1) /\ index.owned \in Named(IndexNames, Nat)
    <3>1. /\ index.next \in Nat /\ index.watermark \in Nat /\ index.watermark < IndexNames /\ IndexNames \in Nat
          /\ index.owned \in Named(IndexNames, Nat)
          BY <1>3, IndexFields, Zenon
    <3>2. index.next =< index.watermark
          BY <1>5
    <3> QED BY <3>1, <3>2
  <2>3. indexRuns' \in Named(IndexNames, Seq(Recs)) /\ Bounded(indexRuns', index.owned)
        BY <1>2, <1>5, <2>1, <2>2, EmptyFileBounded, Zenon
  <2>4. index.opened # "swept"
        BY <2>1
  <2>5. StillBounded
        BY <1>2, <1>5, <2>3, <2>4, Zenon DEF StillBounded
  <2> QED BY <1>1, <2>5, RefusalSound
<1>6. CASE At("history flush") /\ history.next < HistoryNames /\ historyRuns' = With(historyRuns, history.next, << >>) /\ indexRuns' = indexRuns
  <2>1. history.swept
        BY <1>3, <1>6 DEF HistorySwept, At
  <2>2. history.next \in 0..(HistoryNames - 1) /\ history.owned \in Named(HistoryNames, Nat)
    <3>1. history.next \in Nat /\ history.owned \in Named(HistoryNames, Nat)
          BY <1>3, HistoryFields, Zenon
    <3>2. history.next < HistoryNames /\ HistoryNames \in Nat
          BY <1>6, HistoryConstantsOK
    <3> QED BY <3>1, <3>2
  <2>3. historyRuns' \in Named(HistoryNames, Seq(Recs)) /\ Bounded(historyRuns', history.owned)
        BY <1>2, <1>6, <2>1, <2>2, EmptyFileBounded, Zenon
  <2>4. StillBounded
        BY <1>2, <1>6, <2>3, Zenon DEF StillBounded
  <2> QED BY <1>1, <2>4, RefusalSound
<1> QED BY <1>4, <1>5, <1>6 DEF OperationFails

LEMMA ScanStepSound == ASSUME ScanSound, ScanNext PROVE ScanSound'
  BY BeginRecoverySound, ProceedSound, RepairTailSound, RepairTailFailsSound, PublishSound, AbortSound,
     IndexStepKeeps, HistoryStepKeeps, OperationFailsSound, KilledScanningSound, PowerLostScanningSound DEF ScanNext

-------------------------------------------------------------------------------
(* Maintenance *)

\* No recovery has begun before the store is reopened.
ScanInvariant == MaintenanceSound /\ ScanSound /\ (status # "reopened" => ScanEmpty)

NotBegun ==
    /\ call = NoCall /\ verdict = "none yet"
    /\ index = IndexClosed /\ indexRuns = NoFiles /\ history = HistoryFresh /\ historyRuns = NoFiles

LEMMA UnscannedSound == ASSUME InputSound, NotBegun PROVE ScanSound
<1>1. /\ call = NoCall /\ verdict = "none yet"
      /\ index = IndexClosed /\ indexRuns = NoFiles /\ history = HistoryFresh /\ historyRuns = NoFiles
      BY DEF NotBegun
<1>2. ~Scanning /\ ~Live
      BY <1>1 DEF Scanning, Live
<1>4. call = [op |-> "no call", at |-> "no call", record |-> << >>, answer |-> "none"]
      BY <1>1 DEF NoCall, Calling
<1>5. call.op = "no call" /\ call.at = "no call" /\ call.record = << >> /\ call.answer = "none"
      BY <1>4
<1>6. CallFormed
  <2>1. call = [op |-> call.op, at |-> call.at, record |-> call.record, answer |-> call.answer]
        BY <1>4, <1>5
  <2> QED BY <1>1, <1>2, <1>5, <2>1 DEF CallFormed
<1>7. IndexSound
  <2>1. index \in IndexStates /\ indexRuns \in Named(IndexNames, Seq(Recs))
        BY <1>1, ClosedIsState, NoFilesNamed
  <2>2. /\ index.opened = "no" /\ index.owned = NoFiles /\ index.buffer = << >> /\ index.runs = << >>
        /\ index.next = 0
        BY <1>1 DEF IndexClosed
  <2>3. IndexOpen /\ IndexAccounted /\ IndexFiles /\ IndexPass
        BY <1>5, <2>2 DEF IndexOpen, IndexAccounted, IndexFiles, IndexPass
  <2> QED BY <1>1, <2>1, <2>3 DEF IndexSound
<1>8. HistorySound
  <2>1. history \in HistoryStates /\ historyRuns \in Named(HistoryNames, Seq(Recs))
        BY <1>1, FreshIsState, NoFilesNamed
  <2>2. /\ history.swept = FALSE /\ history.owned = NoFiles /\ history.buffer = << >> /\ history.runs = << >>
        /\ history.next = 0
        BY <1>1 DEF HistoryFresh
  <2>3. HistorySwept /\ HistoryAccounted /\ HistoryFiles /\ HistoryRecords /\ HistoryFound
        BY <1>2, <1>5, <2>2 DEF HistorySwept, HistoryAccounted, HistoryFiles, HistoryRecords, HistoryFound, Returned, At
  <2> QED BY <1>1, <2>1, <2>3 DEF HistorySound
<1>9. VerdictSound
      BY <1>1, <1>5 DEF VerdictSound
<1> QED BY <1>6, <1>7, <1>8, <1>9 DEF ScanSound

LEMMA EmptyScanSound == ScanEmpty => InputSound /\ NotBegun /\ ScanSound
<1> SUFFICES ASSUME ScanEmpty PROVE InputSound /\ NotBegun /\ ScanSound
    OBVIOUS
<1>1. << >> \in Seq(Nat) /\ Increasing(<< >>) /\ 0 \in Nat /\ "missing" \in {"file", "missing"}
      BY DEF Increasing
<1>2. InputSound
      BY <1>1, Zenon DEF InputSound, ScanEmpty
<1>3. NotBegun
      BY Zenon DEF ScanEmpty, NotBegun
<1> QED BY <1>2, <1>3, UnscannedSound

\* The same of the next state.
LEMMA UnscannedNext == InputSound' /\ NotBegun' => ScanSound'
<1>1. InputSound /\ NotBegun => ScanSound
      BY UnscannedSound
<1> QED BY <1>1, PTL

LEMMA EmptyScanNext == ScanEmpty' => ScanSound'
<1>1. ScanEmpty => ScanSound
      BY EmptyScanSound
<1> QED BY <1>1, PTL

LEMMA EmptyScanKept == ASSUME ScanEmpty, UNCHANGED scanVars PROVE ScanEmpty'
  BY DEF ScanEmpty, scanVars, indexVars, historyVars

LEMMA ScanUnchanged == ASSUME ScanSound, UNCHANGED scanVars PROVE ScanSound'
<1>1. /\ wal' = wal /\ receipts' = receipts /\ allowance' = allowance /\ call' = call /\ verdict' = verdict
      /\ kind' = kind /\ index' = index /\ indexRuns' = indexRuns /\ manifest' = manifest
      /\ history' = history /\ historyRuns' = historyRuns
      BY DEF scanVars, indexVars, historyVars
<1>2. /\ InputSound /\ CallFormed /\ IndexSound /\ HistorySound /\ VerdictSound
      BY DEF ScanSound
<1>3. Kept
      BY <1>1 DEF Kept
<1>4. /\ InputSound' /\ CommitsOnce' = CommitsOnce /\ Scanning' = Scanning /\ WalRecords' = WalRecords
      BY <1>2, <1>3, KeptInput
<1>5. Live' = Live /\ Recording' = Recording /\ Delivered' = Delivered
      BY <1>1 DEF Live, At, Scanning, Recording, Delivered
<1>6. CallFormed'
      BY <1>1, <1>2 DEF CallFormed, Scanning, At, Recording, NoCall, Calling, Record
<1>7. IndexSound'
  <2>1. IndexOpen' /\ IndexAccounted'
        BY <1>1, <1>2 DEF IndexSound, IndexOpen, IndexAccounted
  <2>2. IndexFiles'
        BY <1>1, <1>2, <1>4, <1>5 DEF IndexSound, IndexFiles
  <2>3. IndexPass'
    <3>1. Fits(GroupBytes)' = Fits(GroupBytes) /\ MergeOutput' = MergeOutput
          BY <1>1 DEF Fits, IndexBytes, GroupBytes, MergeOutput
    <3> QED BY <1>1, <1>2, <3>1 DEF IndexSound, IndexPass
  <2> QED BY <1>1, <1>2, <1>4, <2>1, <2>2, <2>3 DEF IndexSound
<1>8. HistorySound'
  <2>1. HistorySwept' /\ HistoryAccounted'
        BY <1>1, <1>2 DEF HistorySound, HistorySwept, HistoryAccounted
  <2>2. HistoryFiles' /\ HistoryFound'
        BY <1>1, <1>2, <1>4, <1>5 DEF HistorySound, HistoryFiles, HistoryFound, Returned, At
  <2>3. \A names : HistoryHolds(names) => HistoryHolds(names)'
    <3> SUFFICES ASSUME NEW names, HistoryHolds(names) PROVE HistoryHolds(names)'
        OBVIOUS
    <3>1. {Record(i)' : i \in 1..Delivered'} = {Record(i) : i \in 1..Delivered}
          BY <1>1, <1>5 DEF Record
    <3> QED BY <1>1, <3>1 DEF HistoryHolds
  <2>4. HistoryRecords'
    <3>1. HistoryRecords
          BY <1>2 DEF HistorySound
    <3>2. GroupReserved' = GroupReserved
          BY <1>1 DEF GroupReserved
    <3>3. HistoryHolds(Entries(history.runs)) => HistoryHolds(Entries(history.runs))'
      <4>1. PICK names : names = Entries(history.runs)
            OBVIOUS
      <4>2. Entries(history'.runs) = names
            BY <1>1, <4>1
      <4> QED BY <2>3, <4>1, <4>2
    <3>4. HistoryHolds(Names(history.pass)) => HistoryHolds(Names(history.pass))'
      <4>1. PICK names : names = Names(history.pass)
            OBVIOUS
      <4>2. Names(history'.pass) = names
            BY <1>1, <4>1
      <4> QED BY <2>3, <4>1, <4>2
    <3> QED BY <1>1, <1>5, <3>1, <3>2, <3>3, <3>4 DEF HistoryRecords
  <2> QED BY <1>1, <1>2, <1>4, <2>1, <2>2, <2>4 DEF HistorySound
<1>9. VerdictSound'
      BY <1>1, <1>2, <1>4 DEF VerdictSound
<1> QED BY <1>4, <1>6, <1>7, <1>8, <1>9 DEF ScanSound

\* A reopened store: the ledger is a finished one.
LEMMA ReopenedSound == ASSUME ScanEmpty, LedgerSound, Reopened PROVE ScanSound'
<1>1. /\ status = "done" /\ receipts' = ledger /\ wal' \in Wals /\ allowance' \in Allowances
      /\ kind' \in {"file", "missing"} /\ (kind' = "missing" => wal' = << >>)
      /\ call' = call /\ verdict' = verdict /\ indexVars' = indexVars /\ historyVars' = historyVars
      BY DEF Reopened, Merging
<1>2. ledger \in Seq(Nat) /\ Increasing(ledger)
  <2>1. ledger \in Seq(Ids) /\ LedgerIsExact
        BY LedgerHolds DEF LedgerSound, MergeTypeOK
  <2>2. Increasing(ledger)
        BY <1>1, <2>1 DEF LedgerIsExact
  <2>3. ledger \in Seq(Nat)
    <3>1. Ids \subseteq Nat
          BY MergeConstantsOK
    <3>2. DOMAIN ledger = 1..Len(ledger) /\ Len(ledger) \in Nat /\ \A i \in DOMAIN ledger : ledger[i] \in Ids
          BY <2>1
    <3>3. \A i \in 1..Len(ledger) : ledger[i] \in Nat
          BY <3>1, <3>2, Zenon
    <3>4. [i \in 1..Len(ledger) |-> ledger[i]] \in Seq(Nat)
          BY <3>2, <3>3
    <3>5. ledger = [i \in 1..Len(ledger) |-> ledger[i]]
          BY <2>1, <3>2
    <3> QED BY <3>4, <3>5, Zenon
  <2> QED BY <2>2, <2>3
<1>3. InputSound'
      BY <1>1, <1>2, ReopeningOK DEF InputSound
<1>4. NotBegun
      BY EmptyScanSound
<1>5. NotBegun'
      BY <1>1, <1>4 DEF NotBegun, indexVars, historyVars
<1> QED BY <1>3, <1>5, UnscannedNext

LEMMA MergeNeverReopens == ASSUME MergeNext PROVE status # "reopened" /\ status' # "reopened"
<1>1. CASE Verify \/ Finish \/ Add
      BY <1>1 DEF Verify, Finish, Add, Flush
<1>2. CASE StartMerge \/ Write \/ Close
      BY <1>2 DEF StartMerge, Write, Close
<1> QED BY <1>1, <1>2 DEF MergeNext

LEMMA ScanInvariantKept == ASSUME ScanInvariant, [Next]_vars PROVE ScanInvariant'
<1>1. MaintenanceSound /\ LedgerSound /\ ScanSound /\ (status # "reopened" => ScanEmpty)
      BY DEF ScanInvariant, MaintenanceSound
<1>2. MaintenanceSound'
      BY <1>1, NextSound
<1>3. CASE Reopened
  <2>1. status = "done" /\ status' = "reopened"
        BY <1>3 DEF Reopened, Merging
  <2>2. ScanSound'
        BY <1>1, <1>3, <2>1, ReopenedSound
  <2> QED BY <1>2, <2>1, <2>2 DEF ScanInvariant
<1>4. CASE status = "reopened" /\ ScanNext /\ UNCHANGED <<mergeVars, gcVars>>
  <2>1. status' = "reopened"
        BY <1>4 DEF mergeVars
  <2> QED BY <1>1, <1>2, <1>4, <2>1, ScanStepSound DEF ScanInvariant
<1>5. CASE UNCHANGED scanVars /\ (status = "reopened" => status' = "reopened") /\ (status' = "reopened" => status = "reopened")
  <2>1. ScanSound'
        BY <1>1, <1>5, ScanUnchanged
  <2>2. status' # "reopened" => ScanEmpty'
        BY <1>1, <1>5, EmptyScanKept
  <2> QED BY <1>2, <2>1, <2>2 DEF ScanInvariant
<1>6. CASE MergeNext /\ UNCHANGED <<gcVars, scanVars>>
  <2>1. status # "reopened" /\ status' # "reopened"
        BY <1>6, MergeNeverReopens
  <2> QED BY <1>5, <1>6, <2>1
<1>7. CASE Rotated
  <2>1. status = "done" /\ status' = "rotated" /\ UNCHANGED scanVars
        BY <1>7 DEF Rotated, Merging
  <2> QED BY <1>5, <2>1
<1>8. CASE status = "rotated" /\ GcNext /\ UNCHANGED <<mergeVars, scanVars>>
  <2>1. status' = "rotated" /\ UNCHANGED scanVars
        BY <1>8 DEF mergeVars
  <2> QED BY <1>5, <1>8, <2>1
<1>9. CASE UNCHANGED vars
  <2>1. status' = status /\ UNCHANGED scanVars
        BY <1>9 DEF vars, mergeVars
  <2> QED BY <1>5, <2>1
<1> QED BY <1>3, <1>4, <1>6, <1>7, <1>8, <1>9 DEF Next

\* What every recovery finds and leaves: which files there are, what they hold
\* and are accounted for, and that each record delivered is in one place.
THEOREM RecoveriesSound == Spec => []ScanInvariant
<1>1. Init => ScanInvariant
      BY InitSound, EmptyScanSound DEF Init, ScanInvariant
<1>2. ScanInvariant /\ [Next]_vars => ScanInvariant'
      BY ScanInvariantKept
<1> QED BY <1>1, <1>2, PTL DEF Spec

LEMMA ScratchFollows == ASSUME ScanSound PROVE ScratchWithinAllowance
<1>1. /\ InputSound /\ IndexAccounted /\ HistoryAccounted
      /\ index \in IndexStates /\ indexRuns \in Named(IndexNames, Seq(Recs))
      /\ history \in HistoryStates /\ historyRuns \in Named(HistoryNames, Seq(Recs))
      BY DEF ScanSound, IndexSound, HistorySound
<1>2. ASSUME NEW n \in Nat, NEW files \in Named(n, Seq(Recs)), NEW owned \in Named(n, Nat), Bounded(files, owned)
      PROVE  BytesIn(files, n) \in Nat /\ Sizes(owned, n) \in Nat /\ BytesIn(files, n) =< Sizes(owned, n)
  <2>1. PICK held : held = [name \in DOMAIN files |-> Len(files[name])]
        OBVIOUS
  <2>2. DOMAIN held = DOMAIN files /\ \A f \in DOMAIN held : held[f] = Len(files[f])
        BY <2>1
  <2>3. Natural(held)
    <3>1. \A f \in DOMAIN files : files[f] \in Seq(Recs)
          BY NamedIs
    <3>2. \A f \in DOMAIN files : Len(files[f]) \in Nat
          BY <3>1
    <3> QED BY <2>2, <3>2, Zenon DEF Natural
  <2>4. Natural(owned)
        BY NamedNatural
  <2>5. \A f : Size(owned, f) \in Nat
        BY <2>4 DEF Size, Natural
  <2>6. \A f \in 0..n : Size(held, f) =< Size(owned, f)
    <3> TAKE f \in 0..n
    <3>1. CASE f \in DOMAIN held
      <4>1. Size(held, f) = Len(files[f])
            BY <2>2, <3>1 DEF Size
      <4>2. f \in DOMAIN files
            BY <2>2, <3>1, Zenon
      <4>3. Len(files[f]) =< Size(owned, f)
            BY <1>2, <4>2, Zenon DEF Bounded
      <4> QED BY <4>1, <4>3
    <3>2. CASE f \notin DOMAIN held
      <4>1. Size(held, f) = 0 /\ Size(owned, f) \in Nat
            BY <2>5, <3>2 DEF Size
      <4> QED BY <4>1
    <3> QED BY <3>1, <3>2
  <2>7. Sizes(held, n) =< Sizes(owned, n)
        BY <2>3, <2>4, <2>6, SizesMonotone
  <2>8. Sizes(held, n) \in Nat /\ Sizes(owned, n) \in Nat
        BY <2>3, <2>4, SizesAreNatural
  <2>9. BytesIn(files, n) = Sizes(held, n)
        BY <2>1 DEF BytesIn
  <2> QED BY <2>7, <2>8, <2>9
<1>3. index.opened = "yes" => BytesIn(indexRuns, IndexNames) + 1 =< allowance
  <2> SUFFICES ASSUME index.opened = "yes" PROVE BytesIn(indexRuns, IndexNames) + 1 =< allowance
      OBVIOUS
  <2>1. Bounded(indexRuns, index.owned) /\ Sizes(index.owned, IndexNames) + 1 =< allowance
        BY <1>1 DEF IndexAccounted, Bounded
  <2>2. IndexNames \in Nat /\ index.owned \in Named(IndexNames, Nat)
        BY <1>1, IndexFields
  <2>3. PICK bytes, sum : bytes = BytesIn(indexRuns, IndexNames) /\ sum = Sizes(index.owned, IndexNames)
        OBVIOUS
  <2>4. bytes \in Nat /\ sum \in Nat /\ bytes =< sum
        BY <1>1, <1>2, <2>1, <2>2, <2>3
  <2>5. sum + 1 =< allowance /\ allowance \in Nat
        BY <1>1, <2>1, <2>3 DEF InputSound
  <2>6. bytes + 1 =< allowance
        BY <2>4, <2>5
  <2> QED BY <2>3, <2>6
<1>4. history.swept => BytesIn(historyRuns, HistoryNames) =< allowance
  <2> SUFFICES ASSUME history.swept PROVE BytesIn(historyRuns, HistoryNames) =< allowance
      OBVIOUS
  <2>1. Bounded(historyRuns, history.owned) /\ Sizes(history.owned, HistoryNames) =< allowance
        BY <1>1 DEF HistoryAccounted, Bounded
  <2>2. HistoryNames \in Nat /\ history.owned \in Named(HistoryNames, Nat)
        BY <1>1, HistoryFields, HistoryConstantsOK
  <2>3. PICK bytes, sum : bytes = BytesIn(historyRuns, HistoryNames) /\ sum = Sizes(history.owned, HistoryNames)
        OBVIOUS
  <2>4. bytes \in Nat /\ sum \in Nat /\ bytes =< sum
        BY <1>1, <1>2, <2>1, <2>2, <2>3
  <2>5. sum =< allowance /\ allowance \in Nat
        BY <1>1, <2>1, <2>3 DEF InputSound
  <2>6. bytes =< allowance
        BY <2>4, <2>5
  <2> QED BY <2>3, <2>6
<1> QED BY <1>3, <1>4 DEF ScratchWithinAllowance

\* A recovery publishes exactly the histories in which no identity was committed
\* twice and calls only the others corrupt, for any fan-in, buffers and numbers
\* of files and after any failures (recoveryMutationIndex.ts and
\* receiptLedger.ts, over every spilling and merging of their records).
THEOREM VerdictsExact == Spec => []VerdictIsExact
<1>1. ScanInvariant => VerdictIsExact
      BY DEF ScanInvariant, ScanSound, VerdictSound, VerdictIsExact
<1> QED BY <1>1, RecoveriesSound, PTL

\* At every instant, within a merge too, the files of each index are within
\* indexDiskBytes, the manifest and files left by a failed creation included.
THEOREM ScratchAlwaysWithin == Spec => []ScratchWithinAllowance
<1>1. ScanInvariant => ScratchWithinAllowance
      BY ScratchFollows DEF ScanInvariant
<1> QED BY <1>1, RecoveriesSound, PTL

\* No run file and no manifest that an interrupted recovery left in .private/
\* is ever met by the exclusive creations of a later one.
THEOREM DebrisNeverStops == Spec => []DebrisNeverInTheWay
<1>1. ScanInvariant => DebrisNeverInTheWay
      BY DEF ScanInvariant, ScanSound, VerdictSound, DebrisNeverInTheWay
<1> QED BY <1>1, RecoveriesSound, PTL

\* A recovery that scanned a WAL file and succeeds has unlinked every file of the
\* verifier, its own and what earlier recoveries left, for any fan-in, buffers and
\* numbers of files (mutationHistoryVerification.ts, ensureSwept and cleanup).
\* Without a WAL file neither is reached (StartupRecovery.ts, reconstruct).
THEOREM SuccessCleans == Spec => []SuccessLeavesNoHistory
<1>1. ScanInvariant => SuccessLeavesNoHistory
      BY DEF ScanInvariant, ScanSound, VerdictSound, SuccessLeavesNoHistory
<1> QED BY <1>1, RecoveriesSound, PTL

-------------------------------------------------------------------------------
(* The two passes *)

\* What decides how a pass goes on: the call, and the fields of both indexes.
State(c, i, h) == [call |-> c, index |-> i, history |-> h]
GoOn(c, stage) == [c EXCEPT !.at = stage]
Answer(c, answer) == [c EXCEPT !.at = "returned", !.answer = answer]
Refusal == State([op |-> "none", at |-> "returned", record |-> << >>, answer |-> "resource-limit"],
                 IndexClosed, HistoryFresh)

Room(allowed, i, bytes) == Sizes(i.owned, IndexNames) + (IF i.opened = "yes" THEN 1 ELSE 0) + bytes =< allowed
HistoryRoom(allowed, h, bytes) == Sizes(h.owned, HistoryNames) + bytes =< allowed
LastRun(i) == i.runs[Len(i.runs)]
Unmerged(i) == {n \in DOMAIN Group(i.pass) : Group(i.pass)[n] \in DOMAIN i.owned}
FirstOf(numbers) == CHOOSE n \in numbers : \A m \in numbers : n =< m

\* Each operation, as a function of these fields, where nothing fails and
\* nothing is found corrupt.
IndexOpened(allowed, c, i, h) ==
    IF i.opened = "no" THEN State(c, [i EXCEPT !.opened = "swept"], h)
    ELSE IF ~Room(allowed, i, 1) THEN Refusal
    ELSE State(c, [i EXCEPT !.opened = "yes", !.watermark = 0], h)

IndexRecorded(c, i, h) ==
    State(IF Len(i.buffer) + 1 >= IndexFlush THEN GoOn(c, "index flush") ELSE Answer(c, "ok"),
          [i EXCEPT !.buffer = Append(@, c.record)], h)

IndexVerified(c, i, h) ==
    IF i.buffer # << >> THEN State(GoOn(c, "index flush"), i, h)
    ELSE State(GoOn(c, "index merge"), [i EXCEPT !.pass = FirstPass(i.runs)], h)

IndexFlushed(allowed, c, i, h) ==
    LET run == SortedRecords("line", i.buffer)
        numbered == [i EXCEPT !.next = @ + 1]
    IN  IF i.next >= IndexNames THEN Refusal
        ELSE IF i.next > i.watermark THEN State(c, [i EXCEPT !.watermark = i.next], h)
        ELSE IF ~Room(allowed, i, Len(run)) THEN Refusal
        ELSE State(IF c.op = "index record" THEN Answer(c, "ok") ELSE GoOn(c, "index verify"),
                   [numbered EXCEPT !.owned = With(@, i.next, Len(run)),
                                    !.runs = Append(@, i.next), !.buffer = << >>], h)

IndexMergeBegun(allowed, c, i, h) ==
    IF ~MergeNeeded(i.pass, FanIn) THEN State(Answer(c, "ok"), i, h)
    ELSE IF i.next >= IndexNames \/ ~Room(allowed, i, GroupSize(i.pass, i.owned)) THEN Refusal
    ELSE IF i.next > i.watermark THEN State(c, [i EXCEPT !.watermark = i.next], h)
    ELSE State(GoOn(c, "index merging"), [i EXCEPT !.next = @ + 1, !.runs = Append(@, i.next)], h)

IndexMergeDone(c, i, h) ==
    State(GoOn(c, "index unlink"), [i EXCEPT !.owned = With(@, LastRun(i), GroupSize(i.pass, i.owned))], h)

IndexUnlinked(c, i, h) ==
    LET file == Group(i.pass)[FirstOf(Unmerged(i))]
        unlinked == [i EXCEPT !.owned = Without(@, {file})]
    IN  IF Unmerged(i) # {FirstOf(Unmerged(i))} THEN State(c, unlinked, h)
        ELSE State(GoOn(c, "index merge"), [unlinked EXCEPT !.pass = GroupDone(@, LastRun(i))], h)

HistoryRecorded(c, i, h) ==
    State(IF Len(h.buffer) + 1 >= HistoryFlush THEN GoOn(c, "history flush") ELSE Answer(c, "ok"), i,
          [h EXCEPT !.buffer = Append(@, c.record)])

HistoryVerified(c, i, h) ==
    IF h.buffer # << >> THEN State(GoOn(c, "history flush"), i, h)
    ELSE State(GoOn(c, "history merge"), i, [h EXCEPT !.pass = FirstPass(h.runs)])

HistoryFlushed(allowed, c, i, h) ==
    LET run == SortedRecords("identity", h.buffer)
        owned == [h EXCEPT !.next = @ + 1, !.owned = With(@, h.next, Len(run))]
    IN  IF ~HistoryRoom(allowed, h, Len(run)) \/ h.next >= HistoryNames THEN Refusal
        ELSE State(IF c.op = "history record" THEN Answer(c, "ok") ELSE GoOn(c, "history verify"), i,
                   [owned EXCEPT !.runs = Append(@, h.next), !.buffer = << >>])

HistoryMergeBegun(allowed, c, i, h) ==
    LET bytes == GroupSize(h.pass, h.owned)
        owned == [h EXCEPT !.next = @ + 1, !.owned = With(@, h.next, bytes)]
    IN  IF ~MergeNeeded(h.pass, 1) THEN State(GoOn(c, "history cleanup"), i, [h EXCEPT !.outcome = "ok"])
        ELSE IF ~HistoryRoom(allowed, h, bytes) \/ h.next >= HistoryNames THEN Refusal
        ELSE State(GoOn(c, "history merging"), i, owned)

HistoryMergeDone(c, i, h) ==
    State(GoOn(c, "history merge"), i, [h EXCEPT !.pass = GroupDone(@, h.next - 1)])

HistoryCleaned(c, i, h) == State(Answer(c, "ok"), i, HistoryReset([h EXCEPT !.owned = NoFiles]))

NextCall(identities, c) ==
    IF c.op = "index record" THEN Calling("history record", c.record)
    ELSE IF c.op = "history record"
    THEN IF c.record[2] < Len(identities)
         THEN Calling("index record", <<identities[c.record[2] + 1], c.record[2] + 1>>)
         ELSE Calling("index verify", << >>)
    ELSE Calling("history verify", << >>)

AdvanceFrom(identities, allowed, c, i, h) ==
    CASE c.at = "returned" -> State(NextCall(identities, c), i, h)
      [] c.at \in {"index record", "index verify"} /\ i.opened # "yes" -> IndexOpened(allowed, c, i, h)
      [] c.at = "index record" /\ i.opened = "yes" -> IndexRecorded(c, i, h)
      [] c.at = "index verify" /\ i.opened = "yes" -> IndexVerified(c, i, h)
      [] c.at = "index flush" -> IndexFlushed(allowed, c, i, h)
      [] c.at = "index merge" -> IndexMergeBegun(allowed, c, i, h)
      [] c.at = "index merging" -> IndexMergeDone(c, i, h)
      [] c.at = "index unlink" -> IndexUnlinked(c, i, h)
      [] c.at = "history record" -> HistoryRecorded(c, i, h)
      [] c.at = "history verify" -> HistoryVerified(c, i, h)
      [] c.at = "history flush" -> HistoryFlushed(allowed, c, i, h)
      [] c.at = "history merge" -> HistoryMergeBegun(allowed, c, i, h)
      [] c.at = "history merging" -> HistoryMergeDone(c, i, h)
      [] c.at = "history cleanup" -> HistoryCleaned(c, i, h)

AdvanceOf(identities, allowed, a) ==
    IF a.call.answer = "resource-limit" THEN a
    ELSE AdvanceFrom(identities, allowed, a.call, a.index, a.history)

\* A verifier sweeps once, in whichever pass comes first.
Swept(h) == [h EXCEPT !.swept = TRUE]
Reached == State(call, index, Swept(history))
Successor == AdvanceOf(wal, allowance, Reached)

\* Nothing failed, was refused or was found so far in this recovery.
Straight == Scanning /\ call.answer \in {"none", "ok"} /\ history.outcome = "ok"
Refused == call.answer = "resource-limit" \/ history.outcome = "resource-limit"

Follows ==
    /\ Refused' => Successor = Refusal
    /\ Straight' => Reached' = Successor \/ Reached' = Reached

-------------------------------------------------------------------------------
(* Passes that end *)

Places ==
    {"index record", "index flush", "index verify", "index merge", "index merging", "index unlink", "history record",
     "history flush", "history verify", "history merge", "history merging", "history cleanup", "returned"}
CallStates ==
    [op : Ops, at : Places, record : Recs \cup {<< >>},
     answer : {"none", "ok", "corrupt", "resource-limit", "failed"}]
PassStates == [call : CallStates, index : IndexStates, history : HistoryStates]

Ends(a) == a.call.op = "history verify" /\ a.call.at = "returned" /\ a.call.answer = "ok"
Backward(identities, allowed, S) ==
    \A a \in PassStates : Ends(a) \/ AdvanceOf(identities, allowed, a) \in S => a \in S

\* From here on the pass comes to its end: the least set closed backward.
Ending(identities, allowed) ==
    {a \in PassStates : \A S \in SUBSET PassStates : Backward(identities, allowed, S) => a \in S}

LEMMA EndingBack ==
    ASSUME NEW w, NEW n, NEW a \in PassStates, Ends(a) \/ AdvanceOf(w, n, a) \in Ending(w, n)
    PROVE  a \in Ending(w, n)
<1> SUFFICES ASSUME NEW S \in SUBSET PassStates, Backward(w, n, S) PROVE a \in S
    BY DEF Ending
<1>1. CASE Ends(a)
      BY <1>1, Zenon DEF Backward
<1>2. CASE AdvanceOf(w, n, a) \in Ending(w, n)
  <2>1. AdvanceOf(w, n, a) \in S
        BY <1>2, Zenon DEF Ending
  <2> QED BY <2>1, Zenon DEF Backward
<1> QED BY <1>1, <1>2

\* What does not end goes on to where it ends.
LEMMA EndingOn ==
    ASSUME NEW w, NEW n, NEW a \in Ending(w, n), ~Ends(a)
    PROVE  AdvanceOf(w, n, a) \in Ending(w, n)
<1> SUFFICES ASSUME AdvanceOf(w, n, a) \notin Ending(w, n) PROVE FALSE
    OBVIOUS
<1> DEFINE S == Ending(w, n) \ {a}
<1>1. S \in SUBSET PassStates
      BY DEF Ending
<1>2. Backward(w, n, S)
  <2> SUFFICES ASSUME NEW b \in PassStates, Ends(b) \/ AdvanceOf(w, n, b) \in S PROVE b \in S
      BY DEF Backward
  <2>1. b \in Ending(w, n)
        BY EndingBack
  <2>2. b # a
        OBVIOUS
  <2> QED BY <2>1, <2>2
<1>3. a \in S
      BY <1>1, <1>2, Zenon DEF Ending
<1> QED BY <1>3

\* A refusal never ends.
LEMMA EndingAllowed ==
    ASSUME NEW w, NEW n, NEW a \in Ending(w, n)
    PROVE  a.call.answer # "resource-limit"
<1> DEFINE S == {b \in PassStates : b.call.answer # "resource-limit"}
<1>1. S \in SUBSET PassStates
      OBVIOUS
<1>2. Backward(w, n, S)
  <2> SUFFICES ASSUME NEW b \in PassStates, Ends(b) \/ AdvanceOf(w, n, b) \in S PROVE b \in S
      BY DEF Backward
  <2>1. b.call.answer # "resource-limit"
        BY DEF Ends, AdvanceOf
  <2> QED BY <2>1
<1>3. a \in S
      BY <1>1, <1>2, Zenon DEF Ending
<1> QED BY <1>3

LEMMA RefusalNeverEnds == ASSUME NEW w, NEW n PROVE Refusal \notin Ending(w, n)
<1>1. Refusal.call.answer = "resource-limit"
      BY DEF Refusal, State
<1> QED BY <1>1, EndingAllowed

-------------------------------------------------------------------------------
(* Each step follows the function *)

\* Where the index may be gone on with, its files are as long as accounted for.
IndexExact ==
    Live /\ index.opened = "yes" => \A f \in DOMAIN index.owned : Len(indexRuns[f]) = index.owned[f]

PassReady == ScanSound /\ IndexExact /\ Straight /\ Kept

LEMMA StraightLive == ASSUME PassReady PROVE Live /\ Scanning /\ call.answer \in {"none", "ok"} /\ history.outcome = "ok"
<1>1. CallFormed /\ Scanning /\ call.answer \in {"none", "ok"} /\ history.outcome = "ok"
      BY DEF PassReady, Straight, ScanSound
<1> QED BY <1>1 DEF CallFormed, Live, At

LEMMA SuccessorIs ==
    ASSUME PassReady
    PROVE  Successor = AdvanceFrom(wal, allowance, call, index, Swept(history))
<1>1. Reached.call = call /\ Reached.index = index /\ Reached.history = Swept(history)
      BY DEF Reached, State
<1> QED BY <1>1, StraightLive DEF Successor, AdvanceOf

LEMMA SweptAlready == ASSUME NEW h \in HistoryStates, h.swept PROVE Swept(h) = h
  BY DEF HistoryStates, Swept

LEMMA Went == ASSUME CallFormed, NEW stage, Go(stage) PROVE call' = GoOn(call, stage) /\ call'.answer = call.answer
  BY DEF CallFormed, Go, GoOn

LEMMA Came ==
    ASSUME CallFormed, NEW answer, Return(answer)
    PROVE  call' = Answer(call, answer) /\ call'.answer = answer
  BY DEF CallFormed, Return, Answer

\* A step may lead on as the function says,
LEMMA FollowsOn ==
    ASSUME call'.answer \in {"none", "ok"}, history'.outcome = "ok",
           Successor = State(call', index', Swept(history'))
    PROVE  Follows
  BY DEF Follows, Refused, Reached

\* be refused where it does,
LEMMA FollowsRefused ==
    ASSUME call'.answer = "resource-limit" \/ history'.outcome = "resource-limit", Successor = Refusal
    PROVE  Follows
  BY DEF Follows, Straight

\* or end what the function is about.
LEMMA FollowsNot ==
    ASSUME call'.answer # "resource-limit", history'.outcome # "resource-limit",
           call'.answer \notin {"none", "ok"} \/ history'.outcome # "ok"
    PROVE  Follows
  BY DEF Follows, Straight, Refused

-------------------------------------------------------------------------------
(* The index follows it *)

IndexPassReady == PassReady /\ UNCHANGED historyVars

LEMMA IndexPassBasics ==
    ASSUME IndexPassReady
    PROVE  /\ CallFormed /\ IndexSound /\ IndexReady /\ Scanning /\ Live /\ history' = history /\ history'.outcome = "ok"
           /\ call.answer \in {"none", "ok"} /\ index \in IndexStates
           /\ Successor = AdvanceFrom(wal, allowance, call, index, Swept(history))
<1>1. PassReady /\ history' = history
      BY DEF IndexPassReady, historyVars
<1>2. /\ Live /\ Scanning /\ call.answer \in {"none", "ok"} /\ history.outcome = "ok"
      /\ Successor = AdvanceFrom(wal, allowance, call, index, Swept(history))
      BY <1>1, StraightLive, SuccessorIs
<1> QED BY <1>1, <1>2 DEF PassReady, ScanSound, IndexReady, IndexSound

LEMMA RoomIs ==
    /\ \A bytes : Fits(bytes) <=> Room(allowance, index, bytes)
    /\ GroupBytes = GroupSize(index.pass, index.owned)
    /\ MergeOutput = LastRun(index) /\ InputsLeft = Unmerged(index)
  BY DEF Fits, IndexBytes, Room, GroupBytes, MergeOutput, LastRun, InputsLeft, Unmerged

LEMMA OpeningFollows ==
    ASSUME IndexPassReady, SweepIndex \/ CreateManifest
    PROVE  Follows
<1>1. /\ CallFormed /\ history' = history /\ history'.outcome = "ok" /\ call.answer \in {"none", "ok"}
      /\ Successor = AdvanceFrom(wal, allowance, call, index, Swept(history))
      BY IndexPassBasics
<1>2. call.at \in {"index record", "index verify"} /\ index.opened # "yes"
      BY DEF SweepIndex, CreateManifest, At
<1>3. Successor = IndexOpened(allowance, call, index, Swept(history))
      BY <1>1, <1>2 DEF AdvanceFrom
<1>4. CASE SweepIndex
  <2>1. call' = call /\ index' = [index EXCEPT !.opened = "swept"] /\ index.opened = "no"
        BY <1>4 DEF SweepIndex
  <2>2. Successor = State(call', index', Swept(history'))
        BY <1>1, <1>3, <2>1 DEF IndexOpened
  <2> QED BY <1>1, <2>1, <2>2, FollowsOn
<1>5. CASE CreateManifest
  <2>1. index.opened = "swept" /\ (Fits(1) <=> Room(allowance, index, 1))
        BY <1>5, RoomIs DEF CreateManifest
  <2>2. CASE ~Fits(1)
    <3>1. call'.answer = "resource-limit"
          BY <1>1, <1>5, <2>2, Came DEF CreateManifest
    <3>2. Successor = Refusal
          BY <1>3, <2>1, <2>2 DEF IndexOpened
    <3> QED BY <3>1, <3>2, FollowsRefused
  <2>3. CASE Fits(1) /\ manifest # << >>
    <3>1. call'.answer = "in the way"
          BY <1>1, <1>5, <2>3, Came DEF CreateManifest
    <3> QED BY <1>1, <3>1, FollowsNot
  <2>4. CASE Fits(1) /\ manifest = << >>
    <3>1. call' = call /\ index' = [index EXCEPT !.opened = "yes", !.watermark = 0]
          BY <1>5, <2>4 DEF CreateManifest
    <3>2. Successor = State(call', index', Swept(history'))
          BY <1>1, <1>3, <2>1, <2>4, <3>1 DEF IndexOpened
    <3> QED BY <1>1, <3>1, <3>2, FollowsOn
  <2> QED BY <2>2, <2>3, <2>4
<1> QED BY <1>4, <1>5

LEMMA IndexTakesFollows ==
    ASSUME IndexPassReady, RecordInIndex \/ VerifyIndex
    PROVE  Follows
<1>1. /\ CallFormed /\ history' = history /\ history'.outcome = "ok" /\ call.answer \in {"none", "ok"}
      /\ Successor = AdvanceFrom(wal, allowance, call, index, Swept(history))
      BY IndexPassBasics
<1>2. CASE RecordInIndex
  <2>1. /\ call.at = "index record" /\ index.opened = "yes"
        /\ index' = [index EXCEPT !.buffer = Append(@, call.record)]
        BY <1>2 DEF RecordInIndex, At
  <2>2. Successor = IndexRecorded(call, index, Swept(history))
        BY <1>1, <2>1 DEF AdvanceFrom
  <2>3. CASE Len(index.buffer) + 1 >= IndexFlush
    <3>1. call' = GoOn(call, "index flush") /\ call'.answer = call.answer
          BY <1>1, <1>2, <2>3, Went DEF RecordInIndex
    <3>2. Successor = State(call', index', Swept(history'))
          BY <1>1, <2>1, <2>2, <2>3, <3>1 DEF IndexRecorded
    <3> QED BY <1>1, <3>1, <3>2, FollowsOn
  <2>4. CASE ~(Len(index.buffer) + 1 >= IndexFlush)
    <3>1. call' = Answer(call, "ok") /\ call'.answer = "ok"
          BY <1>1, <1>2, <2>4, Came DEF RecordInIndex
    <3>2. Successor = State(call', index', Swept(history'))
          BY <1>1, <2>1, <2>2, <2>4, <3>1 DEF IndexRecorded
    <3> QED BY <1>1, <3>1, <3>2, FollowsOn
  <2> QED BY <2>3, <2>4
<1>3. CASE VerifyIndex
  <2>1. call.at = "index verify" /\ index.opened = "yes"
        BY <1>3 DEF VerifyIndex, At
  <2>2. Successor = IndexVerified(call, index, Swept(history))
        BY <1>1, <2>1 DEF AdvanceFrom
  <2>3. CASE index.buffer # << >>
    <3>1. call' = GoOn(call, "index flush") /\ call'.answer = call.answer /\ index' = index
          BY <1>1, <1>3, <2>3, Went DEF VerifyIndex
    <3>2. Successor = State(call', index', Swept(history'))
          BY <1>1, <2>2, <2>3, <3>1 DEF IndexVerified
    <3> QED BY <1>1, <3>1, <3>2, FollowsOn
  <2>4. CASE index.buffer = << >>
    <3>1. /\ call' = GoOn(call, "index merge") /\ call'.answer = call.answer
          /\ index' = [index EXCEPT !.pass = FirstPass(index.runs)]
          BY <1>1, <1>3, <2>4, Went DEF VerifyIndex
    <3>2. Successor = State(call', index', Swept(history'))
          BY <1>1, <2>2, <2>4, <3>1 DEF IndexVerified
    <3> QED BY <1>1, <3>1, <3>2, FollowsOn
  <2> QED BY <2>3, <2>4
<1> QED BY <1>2, <1>3

\* At the stages that create a file: what is refused, reserved or created next.
LEMMA FileNumbersFollow ==
    ASSUME IndexPassReady, NumbersExhausted \/ Reserve \/ MergeTooLarge
    PROVE  Follows
<1>1. /\ CallFormed /\ history' = history /\ history'.outcome = "ok" /\ call.answer \in {"none", "ok"}
      /\ Successor = AdvanceFrom(wal, allowance, call, index, Swept(history))
      BY IndexPassBasics
<1>a. index.next \in Nat /\ IndexNames \in Nat /\ index.watermark \in Nat
      BY IndexPassBasics, IndexFields
<1>2. call.at = "index flush" => Successor = IndexFlushed(allowance, call, index, Swept(history))
      BY <1>1 DEF AdvanceFrom
<1>3. call.at = "index merge" => Successor = IndexMergeBegun(allowance, call, index, Swept(history))
      BY <1>1 DEF AdvanceFrom
<1>4. /\ call.at = "index flush" \/ (call.at = "index merge" /\ MergeNeeded(index.pass, FanIn))
      BY DEF NumbersExhausted, Reserve, MergeTooLarge, IndexCreates, IndexMergeNeeded, At
<1>5. CASE NumbersExhausted
  <2>1. call'.answer = "resource-limit" /\ index.next >= IndexNames
        BY <1>1, <1>5, Came DEF NumbersExhausted
  <2>2. Successor = Refusal
        BY <1>2, <1>3, <1>4, <2>1 DEF IndexFlushed, IndexMergeBegun
  <2> QED BY <2>1, <2>2, FollowsRefused
<1>6. CASE Reserve
  <2>1. /\ call' = call /\ index' = [index EXCEPT !.watermark = index.next]
        /\ ~(index.next >= IndexNames) /\ index.next > index.watermark
        BY <1>a, <1>6 DEF Reserve
  <2>2. call.at = "index merge" => Room(allowance, index, GroupSize(index.pass, index.owned))
        BY <1>6, RoomIs DEF Reserve, IndexCreates, At
  <2>3. Successor = State(call', index', Swept(history'))
        BY <1>1, <1>2, <1>3, <1>4, <2>1, <2>2 DEF IndexFlushed, IndexMergeBegun
  <2> QED BY <1>1, <2>1, <2>3, FollowsOn
<1>7. CASE MergeTooLarge
  <2>1. call'.answer = "resource-limit" /\ call.at = "index merge" /\ MergeNeeded(index.pass, FanIn)
        BY <1>1, <1>7, Came DEF MergeTooLarge, IndexMergeNeeded, At
  <2>2. ~Room(allowance, index, GroupSize(index.pass, index.owned))
        BY <1>7, RoomIs DEF MergeTooLarge
  <2>3. Successor = Refusal
        BY <1>3, <2>1, <2>2 DEF IndexMergeBegun
  <2> QED BY <2>1, <2>3, FollowsRefused
<1> QED BY <1>5, <1>6, <1>7

LEMMA FlushIndexFollows ==
    ASSUME IndexPassReady, FlushIndex
    PROVE  Follows
<1>1. /\ CallFormed /\ history' = history /\ history'.outcome = "ok" /\ call.answer \in {"none", "ok"}
      /\ Successor = AdvanceFrom(wal, allowance, call, index, Swept(history))
      BY IndexPassBasics
<1>a. index.next \in Nat /\ IndexNames \in Nat /\ index.watermark \in Nat
      BY IndexPassBasics, IndexFields
<1>b. call.at = "index flush" /\ index.next < IndexNames /\ index.next =< index.watermark
      BY DEF FlushIndex, At
<1>c. \A n, m \in Nat : (n < m => ~(n >= m)) /\ (n =< m => ~(n > m))
      OBVIOUS
<1>d. ~(index.next >= IndexNames) /\ ~(index.next > index.watermark)
      BY <1>a, <1>b, <1>c, Zenon
<1>2. call.at = "index flush" /\ ~(index.next >= IndexNames) /\ ~(index.next > index.watermark)
      BY <1>b, <1>d, Zenon
<1>3. Successor = IndexFlushed(allowance, call, index, Swept(history))
      BY <1>1, <1>2 DEF AdvanceFrom
<1>4. PICK run, numbered : run = SortedRecords("line", index.buffer) /\ numbered = [index EXCEPT !.next = @ + 1]
      OBVIOUS
<1>5. Fits(Len(run)) <=> Room(allowance, index, Len(run))
      BY RoomIs
<1>6. CASE ~Fits(Len(run))
  <2>1. call'.answer = "resource-limit"
        BY <1>1, <1>4, <1>6, Came DEF FlushIndex
  <2>2. Successor = Refusal
        BY <1>2, <1>3, <1>4, <1>5, <1>6 DEF IndexFlushed
  <2> QED BY <2>1, <2>2, FollowsRefused
<1>7. CASE Fits(Len(run)) /\ index.next \in DOMAIN indexRuns
  <2>1. call'.answer = "in the way"
        BY <1>1, <1>4, <1>7, Came DEF FlushIndex
  <2> QED BY <1>1, <2>1, FollowsNot
<1>8. CASE Fits(Len(run)) /\ index.next \notin DOMAIN indexRuns
  <2>1. /\ index' = [numbered EXCEPT !.owned = With(@, index.next, Len(run)),
                                     !.runs = Append(@, index.next), !.buffer = << >>]
        /\ IF call.op = "index record" THEN Return("ok") ELSE Go("index verify")
        BY <1>4, <1>8 DEF FlushIndex
  <2>2. /\ call' = IF call.op = "index record" THEN Answer(call, "ok") ELSE GoOn(call, "index verify")
        /\ call'.answer \in {"none", "ok"}
    <3>1. CASE call.op = "index record"
          BY <1>1, <2>1, <3>1, Came
    <3>2. CASE call.op # "index record"
          BY <1>1, <2>1, <3>2, Went
    <3> QED BY <3>1, <3>2
  <2>3. Successor = State(call', index', Swept(history'))
        BY <1>1, <1>2, <1>3, <1>4, <1>5, <1>8, <2>1, <2>2 DEF IndexFlushed
  <2> QED BY <1>1, <2>2, <2>3, FollowsOn
<1> QED BY <1>6, <1>7, <1>8

LEMMA IndexMergeFollows ==
    ASSUME IndexPassReady, StartIndexMerge \/ ScanGroup
    PROVE  Follows
<1>1. /\ CallFormed /\ history' = history /\ history'.outcome = "ok" /\ call.answer \in {"none", "ok"}
      /\ Successor = AdvanceFrom(wal, allowance, call, index, Swept(history))
      BY IndexPassBasics
<1>a. index.next \in Nat /\ IndexNames \in Nat /\ index.watermark \in Nat
      BY IndexPassBasics, IndexFields
<1>2. call.at = "index merge"
      BY DEF StartIndexMerge, ScanGroup, IndexMergeNeeded, At
<1>3. Successor = IndexMergeBegun(allowance, call, index, Swept(history))
      BY <1>1, <1>2 DEF AdvanceFrom
<1>4. CASE ScanGroup
  <2>1. ~MergeNeeded(index.pass, FanIn) /\ index' = index /\ (Return("corrupt") \/ Return("ok"))
        BY <1>4 DEF ScanGroup, indexVars
  <2>2. CASE Return("corrupt")
    <3>1. call'.answer = "corrupt"
          BY <1>1, <2>2, Came
    <3> QED BY <1>1, <3>1, FollowsNot
  <2>3. CASE Return("ok")
    <3>1. call' = Answer(call, "ok") /\ call'.answer = "ok"
          BY <1>1, <2>3, Came
    <3>2. Successor = State(call', index', Swept(history'))
          BY <1>1, <1>3, <2>1, <3>1 DEF IndexMergeBegun
    <3> QED BY <1>1, <3>1, <3>2, FollowsOn
  <2> QED BY <2>1, <2>2, <2>3
<1>5. CASE StartIndexMerge
  <2>a. /\ MergeNeeded(index.pass, FanIn) /\ index.next < IndexNames /\ index.next =< index.watermark
        /\ index' = [index EXCEPT !.next = @ + 1, !.runs = Append(@, index.next)]
        BY <1>5 DEF StartIndexMerge, IndexMergeNeeded
  <2>b. ~(index.next >= IndexNames) /\ ~(index.next > index.watermark)
        BY <1>a, <2>a
  <2>1. /\ MergeNeeded(index.pass, FanIn) /\ ~(index.next >= IndexNames) /\ ~(index.next > index.watermark)
        /\ index' = [index EXCEPT !.next = @ + 1, !.runs = Append(@, index.next)]
        BY <2>a, <2>b
  <2>2. Room(allowance, index, GroupSize(index.pass, index.owned))
        BY <1>5, RoomIs DEF StartIndexMerge
  <2>3. CASE index.next \in DOMAIN indexRuns
    <3>1. call'.answer = "in the way"
          BY <1>1, <1>5, <2>3, Came DEF StartIndexMerge
    <3> QED BY <1>1, <3>1, FollowsNot
  <2>4. CASE index.next \notin DOMAIN indexRuns
    <3>1. call' = GoOn(call, "index merging") /\ call'.answer = call.answer
          BY <1>1, <1>5, <2>4, Went DEF StartIndexMerge
    <3>2. Successor = State(call', index', Swept(history'))
          BY <1>1, <1>3, <2>1, <2>2, <3>1 DEF IndexMergeBegun
    <3> QED BY <1>1, <3>1, <3>2, FollowsOn
  <2> QED BY <2>3, <2>4
<1> QED BY <1>4, <1>5

\* A merge writes as much as was accounted for its inputs.
LEMMA IndexMergedSize ==
    ASSUME IndexPassReady, FinishIndexMerge
    PROVE  Len(IndexMerged(Group(index.pass))) = GroupSize(index.pass, index.owned)
<1>1. IndexReady /\ IndexSound /\ Live /\ index \in IndexStates
      BY IndexPassBasics
<1>2. call.at = "index merging"
      BY DEF FinishIndexMerge, At
<1>3. /\ IndexFiles /\ IndexPass /\ IndexOpen
      /\ indexRuns \in Named(IndexNames, Seq(Recs))
      BY <1>1 DEF IndexSound
<1>4. index.opened = "yes"
      BY <1>2, <1>3 DEF IndexOpen
<1>5. Names(index.pass) \subseteq DOMAIN index.owned /\ DOMAIN index.owned \subseteq DOMAIN indexRuns
      BY <1>1, <1>2, <1>3, <1>4 DEF IndexPass, IndexFiles
<1>6. index.owned \in Named(IndexNames, Nat) /\ index.pass \in Passes
      BY <1>1, IndexFields
<1>7. PICK group \in Seq(Nat) : group = Group(index.pass) /\ Entries(group) \subseteq DOMAIN index.owned
      BY <1>5, <1>6, GroupFacts DEF Names
<1>8. Len(IndexMerged(group)) = SizeOf(Contents(group, indexRuns))
      BY <1>1, <1>4, <1>7, IndexMergedFacts
<1>9. \A f \in Entries(group) : index.owned[f] = Len(indexRuns[f])
      BY <1>1, <1>4, <1>7 DEF IndexExact, IndexPassReady, PassReady
<1>10. SizeOf(Contents(group, indexRuns)) = GroupSize(index.pass, index.owned)
  <2>1. Entries(group) \subseteq DOMAIN indexRuns
        BY <1>5, <1>7
  <2> QED BY <1>3, <1>6, <1>7, <1>9, <2>1, GroupSizes
<1> QED BY <1>7, <1>8, <1>10

LEMMA IndexMergedFollows ==
    ASSUME IndexPassReady, FinishIndexMerge
    PROVE  Follows
<1>1. /\ CallFormed /\ history' = history /\ history'.outcome = "ok" /\ call.answer \in {"none", "ok"}
      /\ Successor = AdvanceFrom(wal, allowance, call, index, Swept(history))
      BY IndexPassBasics
<1>2. call.at = "index merging"
      BY DEF FinishIndexMerge, At
<1>3. Successor = IndexMergeDone(call, index, Swept(history))
      BY <1>1, <1>2 DEF AdvanceFrom
<1>4. PICK size : size = GroupSize(index.pass, index.owned)
      OBVIOUS
<1>5. index' = [index EXCEPT !.owned = With(@, MergeOutput, size)] /\ Go("index unlink")
      BY <1>4, IndexMergedSize DEF FinishIndexMerge
<1>6. call' = GoOn(call, "index unlink") /\ call'.answer = call.answer
      BY <1>1, <1>5, Went
<1>7. Successor = State(call', index', Swept(history'))
      BY <1>1, <1>3, <1>4, <1>5, <1>6, RoomIs DEF IndexMergeDone
<1> QED BY <1>1, <1>6, <1>7, FollowsOn

LEMMA FirstIs ==
    ASSUME NEW numbers \in SUBSET Nat, NEW n \in numbers, \A m \in numbers : n =< m
    PROVE  n = FirstOf(numbers)
<1>1. /\ FirstOf(numbers) \in numbers /\ \A m \in numbers : FirstOf(numbers) =< m
      BY DEF FirstOf
<1>2. n \in Nat /\ FirstOf(numbers) \in Nat
      BY <1>1
<1> QED BY <1>1, <1>2

LEMMA UnlinkFollows ==
    ASSUME IndexPassReady, UnlinkInput
    PROVE  Follows
<1>1. /\ CallFormed /\ history' = history /\ history'.outcome = "ok" /\ call.answer \in {"none", "ok"}
      /\ Successor = AdvanceFrom(wal, allowance, call, index, Swept(history)) /\ index \in IndexStates
      BY IndexPassBasics
<1>2. call.at = "index unlink"
      BY DEF UnlinkInput, At
<1>3. Successor = IndexUnlinked(call, index, Swept(history))
      BY <1>1, <1>2 DEF AdvanceFrom
<1>4. PICK i \in InputsLeft :
          /\ \A j \in InputsLeft : i =< j
          /\ IF InputsLeft # {i}
             THEN index' = [index EXCEPT !.owned = Without(@, {Group(index.pass)[i]})] /\ UNCHANGED call
             ELSE /\ index' = [[index EXCEPT !.owned = Without(@, {Group(index.pass)[i]})]
                                  EXCEPT !.pass = GroupDone(@, MergeOutput)]
                  /\ Go("index merge")
      BY DEF UnlinkInput
<1>5. i = FirstOf(Unmerged(index))
  <2>1. index.pass \in Passes
        BY <1>1, IndexFields
  <2>2. DOMAIN Group(index.pass) = 1..Len(Group(index.pass)) /\ Len(Group(index.pass)) \in Nat
        BY <2>1, GroupFacts
  <2>3. InputsLeft \in SUBSET Nat
        BY <2>2 DEF InputsLeft
  <2> QED BY <1>4, <2>3, FirstIs, RoomIs
<1>6. PICK unlinked : unlinked = [index EXCEPT !.owned = Without(@, {Group(index.pass)[i]})]
      OBVIOUS
<1>7. CASE InputsLeft # {i}
  <2>1. index' = unlinked /\ call' = call
        BY <1>4, <1>6, <1>7
  <2>2. Successor = State(call', index', Swept(history'))
        BY <1>1, <1>3, <1>5, <1>6, <1>7, <2>1, RoomIs DEF IndexUnlinked
  <2> QED BY <1>1, <2>1, <2>2, FollowsOn
<1>8. CASE InputsLeft = {i}
  <2>1. index' = [unlinked EXCEPT !.pass = GroupDone(@, MergeOutput)] /\ Go("index merge")
        BY <1>4, <1>6, <1>8
  <2>2. call' = GoOn(call, "index merge") /\ call'.answer = call.answer
        BY <1>1, <2>1, Went
  <2>3. Successor = State(call', index', Swept(history'))
        BY <1>1, <1>3, <1>5, <1>6, <1>8, <2>1, <2>2, RoomIs DEF IndexUnlinked
  <2> QED BY <1>1, <2>2, <2>3, FollowsOn
<1> QED BY <1>7, <1>8

LEMMA IndexFollows == ASSUME IndexPassReady, IndexStep PROVE Follows
  BY OpeningFollows, IndexTakesFollows, FileNumbersFollow, FlushIndexFollows, IndexMergeFollows,
     IndexMergedFollows, UnlinkFollows DEF IndexStep

-------------------------------------------------------------------------------
(* The history follows it *)

HistoryPassReady == PassReady /\ UNCHANGED indexVars

LEMMA HistoryPassBasics ==
    ASSUME HistoryPassReady
    PROVE  /\ CallFormed /\ HistoryReady /\ Scanning /\ index' = index /\ history.outcome = "ok"
           /\ call.answer \in {"none", "ok"} /\ history \in HistoryStates /\ HistorySwept
           /\ Successor = AdvanceFrom(wal, allowance, call, index, Swept(history))
           /\ history.swept => Swept(history) = history
<1>1. PassReady /\ index' = index
      BY DEF HistoryPassReady, indexVars
<1>2. /\ Scanning /\ call.answer \in {"none", "ok"} /\ history.outcome = "ok"
      /\ Successor = AdvanceFrom(wal, allowance, call, index, Swept(history))
      BY <1>1, StraightLive, SuccessorIs
<1>3. history \in HistoryStates /\ HistorySwept /\ CallFormed /\ HistoryReady
      BY <1>1, <1>2 DEF PassReady, ScanSound, HistoryReady, HistorySound
<1> QED BY <1>1, <1>2, <1>3, SweptAlready

LEMMA WithinIs ==
    /\ \A bytes : Within(bytes) <=> HistoryRoom(allowance, history, bytes)
    /\ GroupReserved = GroupSize(history.pass, history.owned)
  BY DEF Within, HistoryRoom, GroupReserved

\* Where the verifier is swept already, the function is about its own fields.
LEMMA HistoryFollowsOn ==
    ASSUME HistoryPassReady, history' \in HistoryStates, history'.swept, history'.outcome = "ok",
           call'.answer \in {"none", "ok"}, Successor = State(call', index, history')
    PROVE  Follows
<1>1. index' = index /\ Swept(history') = history'
      BY HistoryPassBasics, SweptAlready
<1> QED BY <1>1, FollowsOn

LEMMA HistoryGoes == ASSUME HistoryPassReady, HistoryStep \/ CleanHistoryFails PROVE history' \in HistoryStates
<1>1. HistoryGoal
      BY HistoryPassBasics, HistoryStepSound
<1> QED BY <1>1 DEF HistoryGoal, HistorySound

LEMMA SweepHistoryFollows ==
    ASSUME HistoryPassReady, SweepHistory
    PROVE  Follows
<1>1. index' = index /\ history \in HistoryStates
      BY HistoryPassBasics
<1>2. call' = call /\ history' = [history EXCEPT !.swept = TRUE]
      BY DEF SweepHistory
<1>3. Swept(history') = Swept(history) /\ history'.outcome = history.outcome
      BY <1>1, <1>2 DEF Swept, HistoryStates
<1> QED BY <1>1, <1>2, <1>3, HistoryPassBasics DEF Follows, Refused, Reached

LEMMA HistoryTakesFollows ==
    ASSUME HistoryPassReady, RecordInHistory \/ VerifyHistory
    PROVE  Follows
<1>1. /\ CallFormed /\ history.outcome = "ok" /\ call.answer \in {"none", "ok"}
      /\ Successor = AdvanceFrom(wal, allowance, call, index, Swept(history)) /\ history \in HistoryStates
      BY HistoryPassBasics
<1>2. history.swept /\ Swept(history) = history /\ history' \in HistoryStates
      BY HistoryPassBasics, HistoryGoes DEF RecordInHistory, VerifyHistory, HistoryStep
<1>3. CASE RecordInHistory
  <2>1. call.at = "history record" /\ history' = [history EXCEPT !.buffer = Append(@, call.record)]
        BY <1>3 DEF RecordInHistory, At
  <2>2. Successor = HistoryRecorded(call, index, history)
        BY <1>1, <1>2, <2>1 DEF AdvanceFrom
  <2>3. history'.swept /\ history'.outcome = "ok"
        BY <1>1, <1>2, <2>1 DEF HistoryStates
  <2>4. CASE Len(history.buffer) + 1 >= HistoryFlush
    <3>1. call' = GoOn(call, "history flush") /\ call'.answer = call.answer
          BY <1>1, <1>3, <2>4, Went DEF RecordInHistory
    <3>2. Successor = State(call', index, history')
          BY <2>1, <2>2, <2>4, <3>1 DEF HistoryRecorded
    <3> QED BY <1>1, <1>2, <2>3, <3>1, <3>2, HistoryFollowsOn
  <2>5. CASE ~(Len(history.buffer) + 1 >= HistoryFlush)
    <3>1. call' = Answer(call, "ok") /\ call'.answer = "ok"
          BY <1>1, <1>3, <2>5, Came DEF RecordInHistory
    <3>2. Successor = State(call', index, history')
          BY <2>1, <2>2, <2>5, <3>1 DEF HistoryRecorded
    <3> QED BY <1>1, <1>2, <2>3, <3>1, <3>2, HistoryFollowsOn
  <2> QED BY <2>4, <2>5
<1>4. CASE VerifyHistory
  <2>1. call.at = "history verify"
        BY <1>4 DEF VerifyHistory, At
  <2>2. Successor = HistoryVerified(call, index, history)
        BY <1>1, <1>2, <2>1 DEF AdvanceFrom
  <2>3. CASE history.buffer # << >>
    <3>1. call' = GoOn(call, "history flush") /\ call'.answer = call.answer /\ history' = history
          BY <1>1, <1>4, <2>3, Went DEF VerifyHistory
    <3>2. Successor = State(call', index, history')
          BY <2>2, <2>3, <3>1 DEF HistoryVerified
    <3> QED BY <1>1, <1>2, <3>1, <3>2, HistoryFollowsOn
  <2>4. CASE history.buffer = << >>
    <3>1. /\ call' = GoOn(call, "history merge") /\ call'.answer = call.answer
          /\ history' = [history EXCEPT !.pass = FirstPass(history.runs)]
          BY <1>1, <1>4, <2>4, Went DEF VerifyHistory
    <3>2. Successor = State(call', index, history')
          BY <2>2, <2>4, <3>1 DEF HistoryVerified
    <3>3. history'.swept /\ history'.outcome = "ok"
          BY <1>1, <1>2, <3>1 DEF HistoryStates
    <3> QED BY <1>1, <1>2, <3>1, <3>2, <3>3, HistoryFollowsOn
  <2> QED BY <2>3, <2>4
<1> QED BY <1>3, <1>4

\* A refusal is concluded with, or returned.
LEMMA ConcludesWith ==
    ASSUME CallFormed, call.answer \in {"none", "ok"}, history \in HistoryStates, history.outcome = "ok", NEW answer, NEW fields,
           "outcome" \in DOMAIN fields, fields.outcome = "ok",
           Conclude(answer, fields)
    PROVE  /\ call'.answer = answer \/ history'.outcome = answer
           /\ call'.answer \in {"none", "ok", answer} /\ history'.outcome \in {"ok", answer}
<1>1. CASE call.op = "history verify"
  <2>1. Go("history cleanup") /\ history' = [fields EXCEPT !.outcome = answer]
        BY <1>1 DEF Conclude
  <2>2. call'.answer = call.answer
        BY <2>1, Went
  <2> QED BY <2>1, <2>2
<1>2. CASE call.op # "history verify"
  <2>1. Return(answer) /\ history' = fields
        BY <1>2 DEF Conclude
  <2>2. call'.answer = answer
        BY <2>1, Came
  <2> QED BY <2>1, <2>2
<1> QED BY <1>1, <1>2

\* What a conclusion other than success means to the function.
LEMMA ConcludesOff ==
    ASSUME HistoryPassReady, NEW answer, NEW fields, "outcome" \in DOMAIN fields, fields.outcome = "ok",
           Conclude(answer, fields), answer \notin {"none", "ok"},
           answer = "resource-limit" => Successor = Refusal
    PROVE  Follows
<1>1. /\ call'.answer = answer \/ history'.outcome = answer
      /\ call'.answer \in {"none", "ok", answer} /\ history'.outcome \in {"ok", answer}
  <2>1. CallFormed /\ call.answer \in {"none", "ok"} /\ history \in HistoryStates /\ history.outcome = "ok"
        BY HistoryPassBasics
  <2> QED BY <2>1, ConcludesWith
<1>2. CASE answer = "resource-limit"
      BY <1>1, <1>2, FollowsRefused
<1>3. CASE answer # "resource-limit"
      BY <1>1, <1>3, FollowsNot
<1> QED BY <1>2, <1>3

LEMMA FlushHistoryFollows ==
    ASSUME HistoryPassReady, FlushHistory
    PROVE  Follows
<1>1. /\ CallFormed /\ history.outcome = "ok" /\ call.answer \in {"none", "ok"}
      /\ Successor = AdvanceFrom(wal, allowance, call, index, Swept(history)) /\ history \in HistoryStates
      BY HistoryPassBasics
<1>2. call.at = "history flush"
      BY DEF FlushHistory, At
<1>3. history.swept /\ Swept(history) = history /\ history' \in HistoryStates
      BY <1>2, HistoryPassBasics, HistoryGoes DEF HistorySwept, HistoryStep
<1>4. Successor = HistoryFlushed(allowance, call, index, history)
      BY <1>1, <1>2, <1>3 DEF AdvanceFrom
<1>5. PICK run, owned : /\ run = SortedRecords("identity", history.buffer)
                        /\ owned = [history EXCEPT !.next = @ + 1, !.owned = With(@, history.next, Len(run))]
      OBVIOUS
<1>6. /\ {"outcome", "swept"} \subseteq DOMAIN owned
      /\ "outcome" \in DOMAIN history /\ "outcome" \in DOMAIN owned /\ owned.outcome = "ok" /\ owned.swept
      BY <1>1, <1>3, <1>5 DEF HistoryStates
<1>7. Within(Len(run)) <=> HistoryRoom(allowance, history, Len(run))
      BY WithinIs
<1>8. CASE Repeated(run)
  <2>1. Conclude("corrupt", history)
        BY <1>5, <1>8 DEF FlushHistory
  <2> QED BY <1>1, <1>6, <2>1, ConcludesOff
<1>9. CASE ~Repeated(run) /\ (~Within(Len(run)) \/ history.next >= HistoryNames)
  <2>1. Conclude("resource-limit", history)
        BY <1>5, <1>9 DEF FlushHistory
  <2>2. Successor = Refusal
        BY <1>4, <1>5, <1>7, <1>9 DEF HistoryFlushed
  <2> QED BY <1>1, <1>6, <2>1, <2>2, ConcludesOff
<1>10. CASE ~Repeated(run) /\ ~(~Within(Len(run)) \/ history.next >= HistoryNames) /\ history.next \in DOMAIN historyRuns
  <2>1. Conclude("in the way", owned)
        BY <1>5, <1>10 DEF FlushHistory
  <2> QED BY <1>1, <1>6, <2>1, ConcludesOff
<1>11. CASE ~Repeated(run) /\ ~(~Within(Len(run)) \/ history.next >= HistoryNames) /\ history.next \notin DOMAIN historyRuns
  <2>1. /\ history' = [owned EXCEPT !.runs = Append(@, history.next), !.buffer = << >>]
        /\ IF call.op = "history record" THEN Return("ok") ELSE Go("history verify")
        BY <1>5, <1>11 DEF FlushHistory
  <2>2. /\ call' = IF call.op = "history record" THEN Answer(call, "ok") ELSE GoOn(call, "history verify")
        /\ call'.answer \in {"none", "ok"}
    <3>1. CASE call.op = "history record"
          BY <1>1, <2>1, <3>1, Came
    <3>2. CASE call.op # "history record"
          BY <1>1, <2>1, <3>2, Went
    <3> QED BY <3>1, <3>2
  <2>3. Successor = State(call', index, history')
        BY <1>4, <1>5, <1>7, <1>11, <2>1, <2>2 DEF HistoryFlushed
  <2>4. history'.swept /\ history'.outcome = "ok"
        BY <1>6, <2>1
  <2> QED BY <1>3, <2>2, <2>3, <2>4, HistoryFollowsOn
<1> QED BY <1>8, <1>9, <1>10, <1>11

LEMMA HistoryMergeFollows ==
    ASSUME HistoryPassReady, StartHistoryMerge
    PROVE  Follows
<1>1. /\ CallFormed /\ history.outcome = "ok" /\ call.answer \in {"none", "ok"}
      /\ Successor = AdvanceFrom(wal, allowance, call, index, Swept(history)) /\ history \in HistoryStates
      BY HistoryPassBasics
<1>2. call.at = "history merge" /\ MergeNeeded(history.pass, 1)
      BY DEF StartHistoryMerge, At
<1>3. history.swept /\ Swept(history) = history /\ history' \in HistoryStates
      BY <1>2, HistoryPassBasics, HistoryGoes DEF HistorySwept, HistoryStep
<1>4. Successor = HistoryMergeBegun(allowance, call, index, history)
      BY <1>1, <1>2, <1>3 DEF AdvanceFrom
<1>5. PICK bytes, owned : /\ bytes = GroupSize(history.pass, history.owned) /\ bytes = GroupReserved
                          /\ owned = [history EXCEPT !.next = @ + 1, !.owned = With(@, history.next, bytes)]
      BY WithinIs
<1>6. /\ "outcome" \in DOMAIN history /\ "outcome" \in DOMAIN owned /\ owned.outcome = "ok" /\ owned.swept
      BY <1>1, <1>3, <1>5 DEF HistoryStates
<1>7. Within(bytes) <=> HistoryRoom(allowance, history, bytes)
      BY WithinIs
<1>8. CASE ~Within(bytes) \/ history.next >= HistoryNames
  <2>1. Conclude("resource-limit", history)
        BY <1>5, <1>8 DEF StartHistoryMerge
  <2>2. Successor = Refusal
        BY <1>2, <1>4, <1>5, <1>7, <1>8 DEF HistoryMergeBegun
  <2> QED BY <1>1, <1>6, <2>1, <2>2, ConcludesOff
<1>9. CASE ~(~Within(bytes) \/ history.next >= HistoryNames) /\ history.next \in DOMAIN historyRuns
  <2>1. Conclude("in the way", owned)
        BY <1>5, <1>9 DEF StartHistoryMerge
  <2> QED BY <1>1, <1>6, <2>1, ConcludesOff
<1>10. CASE ~(~Within(bytes) \/ history.next >= HistoryNames) /\ history.next \notin DOMAIN historyRuns
  <2>1. history' = owned /\ Go("history merging")
        BY <1>5, <1>10 DEF StartHistoryMerge
  <2>2. call' = GoOn(call, "history merging") /\ call'.answer = call.answer
        BY <1>1, <2>1, Went
  <2>3. Successor = State(call', index, history')
        BY <1>2, <1>4, <1>5, <1>7, <1>10, <2>1, <2>2 DEF HistoryMergeBegun
  <2> QED BY <1>1, <1>3, <1>6, <2>1, <2>2, <2>3, HistoryFollowsOn
<1> QED BY <1>8, <1>9, <1>10

LEMMA HistoryMergedFollows ==
    ASSUME HistoryPassReady, FinishHistoryMerge
    PROVE  Follows
<1>1. /\ CallFormed /\ history.outcome = "ok" /\ call.answer \in {"none", "ok"}
      /\ Successor = AdvanceFrom(wal, allowance, call, index, Swept(history)) /\ history \in HistoryStates
      BY HistoryPassBasics
<1>2. call.at = "history merging"
      BY DEF FinishHistoryMerge, At
<1>3. history.swept /\ Swept(history) = history /\ history' \in HistoryStates
      BY <1>2, HistoryPassBasics, HistoryGoes DEF HistorySwept, HistoryStep
<1>4. Successor = HistoryMergeDone(call, index, history)
      BY <1>1, <1>2, <1>3 DEF AdvanceFrom
<1>5. CASE Conclude("corrupt", history)
  <2>1. "outcome" \in DOMAIN history
        BY <1>1 DEF HistoryStates
  <2> QED BY <1>1, <1>5, <2>1, ConcludesOff
<1>6. CASE history' = [history EXCEPT !.pass = GroupDone(@, history.next - 1)] /\ Go("history merge")
  <2>1. call' = GoOn(call, "history merge") /\ call'.answer = call.answer
        BY <1>1, <1>6, Went
  <2>2. Successor = State(call', index, history')
        BY <1>4, <1>6, <2>1 DEF HistoryMergeDone
  <2>3. history'.swept /\ history'.outcome = "ok"
        BY <1>1, <1>3, <1>6 DEF HistoryStates
  <2> QED BY <1>1, <1>3, <2>1, <2>2, <2>3, HistoryFollowsOn
<1> QED BY <1>5, <1>6 DEF FinishHistoryMerge

LEMMA VerifyOrderedFollows ==
    ASSUME HistoryPassReady, VerifyOrdered
    PROVE  Follows
<1>1. /\ CallFormed /\ Scanning /\ history.outcome = "ok" /\ call.answer \in {"none", "ok"}
      /\ Successor = AdvanceFrom(wal, allowance, call, index, Swept(history)) /\ history \in HistoryStates
      BY HistoryPassBasics
<1>2. call.at = "history merge" /\ ~MergeNeeded(history.pass, 1) /\ call.op = "history verify"
      BY <1>1, StageOps DEF VerifyOrdered, At
<1>3. history.swept /\ Swept(history) = history /\ history' \in HistoryStates
      BY <1>2, HistoryPassBasics, HistoryGoes DEF HistorySwept, HistoryStep
<1>4. Successor = HistoryMergeBegun(allowance, call, index, history)
      BY <1>1, <1>2, <1>3 DEF AdvanceFrom
<1>5. CASE Conclude("corrupt", history)
  <2>1. "outcome" \in DOMAIN history
        BY <1>1 DEF HistoryStates
  <2> QED BY <1>1, <1>5, <2>1, ConcludesOff
<1>6. CASE Conclude("ok", history)
  <2>1. Go("history cleanup") /\ history' = [history EXCEPT !.outcome = "ok"]
        BY <1>2, <1>6 DEF Conclude
  <2>2. call' = GoOn(call, "history cleanup") /\ call'.answer = call.answer
        BY <1>1, <2>1, Went
  <2>3. Successor = State(call', index, history')
        BY <1>2, <1>4, <2>1, <2>2 DEF HistoryMergeBegun
  <2>4. history'.swept /\ history'.outcome = "ok"
        BY <1>1, <1>3, <2>1 DEF HistoryStates
  <2> QED BY <1>1, <1>3, <2>2, <2>3, <2>4, HistoryFollowsOn
<1> QED BY <1>5, <1>6 DEF VerifyOrdered

LEMMA CleanHistoryFollows ==
    ASSUME HistoryPassReady, CleanHistory \/ CleanHistoryFails
    PROVE  Follows
<1>1. /\ CallFormed /\ Scanning /\ history.outcome = "ok" /\ call.answer \in {"none", "ok"}
      /\ Successor = AdvanceFrom(wal, allowance, call, index, Swept(history)) /\ history \in HistoryStates
      BY HistoryPassBasics
<1>2. call.at = "history cleanup"
      BY DEF CleanHistory, CleanHistoryFails, At
<1>3. history.swept /\ Swept(history) = history /\ history' \in HistoryStates
      BY <1>2, HistoryPassBasics, HistoryGoes DEF HistorySwept, HistoryStep
<1>4. CASE CleanHistory
  <2>1. Return("ok") /\ history' = HistoryReset([history EXCEPT !.owned = NoFiles])
        BY <1>1, <1>4 DEF CleanHistory
  <2>2. Successor = HistoryCleaned(call, index, history)
        BY <1>1, <1>2, <1>3 DEF AdvanceFrom
  <2>3. call' = Answer(call, "ok") /\ call'.answer = "ok"
        BY <1>1, <2>1, Came
  <2>4. Successor = State(call', index, history')
        BY <2>1, <2>2, <2>3 DEF HistoryCleaned
  <2>5. history'.swept /\ history'.outcome = "ok"
        BY <1>1, <1>3, <2>1 DEF HistoryStates, HistoryReset
  <2> QED BY <1>3, <2>3, <2>4, <2>5, HistoryFollowsOn
<1>5. CASE CleanHistoryFails
  <2>1. Return("failed") /\ \E gone : history' = [history EXCEPT !.owned = gone]
        BY <1>1, <1>5 DEF CleanHistoryFails
  <2>2. history'.outcome = "ok"
        BY <1>1, <2>1 DEF HistoryStates
  <2>3. call'.answer = "failed"
        BY <1>1, <2>1, Came
  <2> QED BY <2>2, <2>3, FollowsNot
<1> QED BY <1>4, <1>5

LEMMA HistoryFollows == ASSUME HistoryPassReady, HistoryStep \/ CleanHistoryFails PROVE Follows
  BY SweepHistoryFollows, HistoryTakesFollows, FlushHistoryFollows, HistoryMergeFollows,
     HistoryMergedFollows, VerifyOrderedFollows, CleanHistoryFollows DEF HistoryStep

-------------------------------------------------------------------------------
(* What both passes keep true *)

RecordFormed == Scanning /\ ~Recording => call.record = << >>
AnswerLate == Scanning /\ ~At("returned") => call.answer = "none"
OutcomeLate == Scanning /\ history.outcome # "ok" => At("history cleanup") \/ (At("returned") /\ call.answer # "ok")

PassBegun == State(FirstCall, IndexClosed, Swept(HistoryFresh))

\* If the first pass over a file comes to its end, it would from the beginning; and from
\* there and from where it is the second one does.
SecondFits ==
    Scanning =>
        /\ kind = "file" /\ pass # 1 /\ Straight /\ Reached \in Ending(wal, allowance) => PassBegun \in Ending(wal, allowance)
        /\ pass = 1 => /\ PassBegun \in Ending(wal, allowance) /\ ~Refused
                       /\ Straight => Reached \in Ending(wal, allowance)

SecondSound ==
    (~Scanning => pass = 0) /\ RecordFormed /\ AnswerLate /\ OutcomeLate /\ IndexExact /\ SecondFits

LEMMA PassStays == ASSUME UNCHANGED <<wal, allowance>> PROVE PassBegun' = PassBegun
  BY DEF PassBegun, FirstCall, Record

LEMMA ReachedTyped == ASSUME ScanSound, RecordFormed, Scanning PROVE Reached \in PassStates
<1>1. /\ call = [op |-> call.op, at |-> call.at, record |-> call.record, answer |-> call.answer]
      /\ call.answer \in {"none", "ok", "corrupt", "resource-limit", "failed"}
      /\ call.op \in Ops /\ call.at \in Stages(call.op)
      BY DEF ScanSound, CallFormed
<1>2. call.at \in Places
      BY <1>1 DEF Ops, Stages, Places
<1>3. call.record \in Recs \cup {<< >>}
  <2>1. CASE ~Recording
        BY <2>1 DEF RecordFormed
  <2>2. CASE Recording
    <3>1. PICK i \in DOMAIN wal : call.record = Record(i)
          BY <2>2 DEF ScanSound, CallFormed
    <3>2. Record(i) \in WalRecords /\ WalRecords \subseteq Recs
          BY WalRecordsAre DEF WalRecords, ScanSound
    <3> QED BY <3>1, <3>2
  <2> QED BY <2>1, <2>2
<1>4. call \in CallStates
      BY <1>1, <1>2, <1>3 DEF CallStates
<1>5. index \in IndexStates /\ history \in HistoryStates
      BY DEF ScanSound, IndexSound, HistorySound
<1>6. Swept(history) \in HistoryStates
      BY <1>5 DEF Swept, HistoryStates
<1> QED BY <1>4, <1>5, <1>6 DEF Reached, State, PassStates

\* A step that follows the function,
LEMMA FitsOn ==
    ASSUME ScanSound, RecordFormed, SecondFits, Straight, Kept, pass' = pass, ~Ends(Reached), Follows
    PROVE  SecondFits'
<1>1. wal' = wal /\ allowance' = allowance /\ kind' = kind /\ Scanning /\ PassBegun' = PassBegun
      BY PassStays DEF Kept, Straight
<1>2. Reached \in PassStates
      BY <1>1, ReachedTyped
<1>3. PICK ending : ending = Ending(wal, allowance)
      OBVIOUS
<1>4. Successor \in ending <=> Reached \in ending
  <2>1. Successor \in ending => Reached \in ending
        BY <1>2, <1>3, EndingBack DEF Successor
  <2>2. Reached \in ending => Successor \in ending
        BY <1>3, EndingOn DEF Successor
  <2> QED BY <2>1, <2>2
<1>5. Refusal \notin ending
      BY <1>3, RefusalNeverEnds
<1>6. Straight' => (Reached' \in ending <=> Reached \in ending)
      BY <1>4 DEF Follows
<1>7. Refused' => Reached \notin ending
      BY <1>4, <1>5 DEF Follows
<1>8. /\ kind = "file" /\ pass # 1 /\ Reached \in ending => PassBegun \in ending
      /\ pass = 1 => PassBegun \in ending /\ Reached \in ending
      BY <1>1, <1>3 DEF SecondFits
<1>9. Ending(wal', allowance') = ending
      BY <1>1, <1>3
<1>10. /\ kind' = "file" /\ pass' # 1 /\ Straight' /\ Reached' \in ending => PassBegun' \in ending
       /\ pass' = 1 => /\ PassBegun' \in ending /\ ~Refused'
                       /\ Straight' => Reached' \in ending
       BY <1>1, <1>6, <1>7, <1>8
<1> QED BY <1>9, <1>10 DEF SecondFits

\* and one that ends what it is about.
LEMMA FitsOff ==
    ASSUME SecondFits, Scanning, Kept, pass' = pass, ~Straight', pass = 1 => ~Refused'
    PROVE  SecondFits'
<1>1. wal' = wal /\ allowance' = allowance /\ PassBegun' = PassBegun
      BY PassStays DEF Kept
<1>2. Ending(wal', allowance') = Ending(wal, allowance)
      BY <1>1
<1>3. pass = 1 => PassBegun \in Ending(wal, allowance)
      BY DEF SecondFits
<1> QED BY <1>1, <1>2, <1>3 DEF SecondFits

\* No operation is going on with an answer, or after something was found, but for the cleanup.
LEMMA GoingStraight ==
    ASSUME ScanSound, SecondSound, Scanning, ~At("returned"), ~At("history cleanup")
    PROVE  Straight /\ Live
  BY DEF SecondSound, AnswerLate, OutcomeLate, Straight, Live

LEMMA CallMoves ==
    ASSUME IndexStep \/ HistoryStep \/ CleanHistoryFails
    PROVE  /\ ~At("returned")
           /\ call' = call \/ (\E stage : Go(stage)) \/ (\E answer : Return(answer))
<1>1. CASE SweepIndex \/ CreateManifest \/ RecordInIndex \/ VerifyIndex
      BY <1>1 DEF SweepIndex, CreateManifest, RecordInIndex, VerifyIndex, At
<1>2. CASE NumbersExhausted \/ Reserve \/ FlushIndex
      BY <1>2 DEF NumbersExhausted, Reserve, FlushIndex, IndexMergeNeeded, IndexCreates, At
<1>3. CASE MergeTooLarge \/ StartIndexMerge \/ FinishIndexMerge \/ UnlinkInput \/ ScanGroup
      BY <1>3 DEF MergeTooLarge, StartIndexMerge, FinishIndexMerge, UnlinkInput, ScanGroup, IndexMergeNeeded, At
<1>4. CASE SweepHistory \/ RecordInHistory \/ VerifyHistory
      BY <1>4 DEF SweepHistory, RecordInHistory, VerifyHistory, At
<1>5. CASE FlushHistory \/ StartHistoryMerge
      BY <1>5 DEF FlushHistory, StartHistoryMerge, Conclude, At
<1>6. CASE FinishHistoryMerge \/ VerifyOrdered
      BY <1>6 DEF FinishHistoryMerge, VerifyOrdered, Conclude, At
<1>7. CASE CleanHistory \/ CleanHistoryFails
      BY <1>7 DEF CleanHistory, CleanHistoryFails, At
<1> QED BY <1>1, <1>2, <1>3, <1>4, <1>5, <1>6, <1>7 DEF IndexStep, HistoryStep

LEMMA CallKept ==
    ASSUME ScanSound, SecondSound, Scanning, Kept, IndexStep \/ HistoryStep \/ CleanHistoryFails,
           call'.op = call.op, call'.record = call.record
    PROVE  RecordFormed' /\ AnswerLate'
<1>1. CallFormed /\ call.answer = "none"
      BY CallMoves DEF ScanSound, SecondSound, AnswerLate
<1>2. call'.at = "returned" \/ call'.answer = "none"
  <2>1. CASE call' = call
        BY <1>1, <2>1
  <2>2. ASSUME NEW stage, Go(stage) PROVE call'.answer = "none"
        BY <1>1, <2>2, Went
  <2>3. ASSUME NEW answer, Return(answer) PROVE call'.at = "returned"
        BY <1>1, <2>3 DEF Return, CallFormed
  <2> QED BY <2>1, <2>2, <2>3, CallMoves
<1>3. AnswerLate'
      BY <1>2 DEF AnswerLate, At
<1>4. RecordFormed'
      BY DEF SecondSound, RecordFormed, Recording, Kept, Scanning
<1> QED BY <1>3, <1>4

\* An index's files stay as long as they are accounted for.
LEMMA ExactKept ==
    ASSUME IndexReady, Live, IndexExact, IndexStep
    PROVE  IndexExact'
<1>1. /\ index \in IndexStates /\ indexRuns \in Named(IndexNames, Seq(Recs))
      /\ IndexOpen /\ IndexFiles /\ IndexPass
      BY IndexBasics
<1>2. index.opened = "yes" => \A f \in DOMAIN index.owned : Len(indexRuns[f]) = index.owned[f]
      BY DEF IndexExact
<1>3. ASSUME index'.owned = index.owned, index'.opened = index.opened, indexRuns' = indexRuns PROVE IndexExact'
      BY <1>2, <1>3 DEF IndexExact
<1>4. CASE SweepIndex \/ CreateManifest
  <2>1. index.owned = NoFiles
        BY <1>1, <1>4 DEF SweepIndex, CreateManifest, IndexOpen
  <2>2. index'.owned = index.owned
        BY <1>1, <1>4 DEF SweepIndex, CreateManifest, IndexStates
  <2>3. DOMAIN NoFiles = {}
        BY DEF NoFiles
  <2> QED BY <2>1, <2>2, <2>3 DEF IndexExact
<1>5. CASE RecordInIndex \/ VerifyIndex \/ Reserve
  <2>1. index'.owned = index.owned /\ index'.opened = index.opened /\ indexRuns' = indexRuns
        BY <1>1, <1>5 DEF RecordInIndex, VerifyIndex, Reserve, IndexStates
  <2> QED BY <1>3, <2>1
<1>6. CASE NumbersExhausted \/ MergeTooLarge \/ ScanGroup
  <2>1. index' = index /\ indexRuns' = indexRuns
        BY <1>6 DEF NumbersExhausted, MergeTooLarge, ScanGroup, indexVars
  <2> QED BY <1>3, <2>1
<1>7. CASE FlushIndex
  <2>1. PICK run, numbered : run = SortedRecords("line", index.buffer) /\ numbered = [index EXCEPT !.next = @ + 1]
        OBVIOUS
  <2>2. CASE index' = numbered /\ indexRuns' = indexRuns
    <3>1. index'.owned = index.owned /\ index'.opened = index.opened
          BY <1>1, <2>1, <2>2 DEF IndexStates
    <3> QED BY <1>3, <2>2, <3>1
  <2>3. CASE /\ indexRuns' = With(indexRuns, index.next, run)
             /\ index' = [numbered EXCEPT !.owned = With(@, index.next, Len(run)),
                                          !.runs = Append(@, index.next), !.buffer = << >>]
    <3>1. index'.owned = With(index.owned, index.next, Len(run)) /\ index.opened = "yes"
          BY <1>1, <1>7, <2>1, <2>3 DEF IndexStates, FlushIndex, At, IndexOpen
    <3>2. \A f \in DOMAIN index.owned : f \in DOMAIN indexRuns
          BY <1>1, <3>1 DEF IndexFiles
    <3>3. \A f \in DOMAIN index'.owned : Len(indexRuns'[f]) = index'.owned[f]
          BY <1>2, <2>3, <3>1, <3>2 DEF With
    <3> QED BY <3>3 DEF IndexExact
  <2> QED BY <1>7, <2>1, <2>2, <2>3 DEF FlushIndex
<1>8. CASE StartIndexMerge
  <2>1. index'.owned = index.owned /\ index'.opened = index.opened /\ index.opened = "yes"
        BY <1>1, <1>8 DEF StartIndexMerge, IndexStates, IndexMergeNeeded, At, IndexOpen
  <2>2. CASE indexRuns' = indexRuns
        BY <1>3, <2>1, <2>2
  <2>3. CASE index.next \notin DOMAIN indexRuns /\ indexRuns' = With(indexRuns, index.next, << >>)
    <3>1. \A f \in DOMAIN index.owned : f \in DOMAIN indexRuns /\ f # index.next
          BY <1>1, <2>1, <2>3 DEF IndexFiles
    <3>2. \A f \in DOMAIN index'.owned : Len(indexRuns'[f]) = index'.owned[f]
          BY <1>2, <2>1, <2>3, <3>1 DEF With
    <3> QED BY <3>2 DEF IndexExact
  <2> QED BY <1>8, <2>2, <2>3 DEF StartIndexMerge
<1>9. CASE FinishIndexMerge
  <2>1. PICK run : run = IndexMerged(Group(index.pass))
        OBVIOUS
  <2>2. /\ indexRuns' = With(indexRuns, MergeOutput, run)
        /\ index' = [index EXCEPT !.owned = With(@, MergeOutput, Len(run))]
        BY <1>9, <2>1 DEF FinishIndexMerge
  <2>3. index'.owned = With(index.owned, MergeOutput, Len(run)) /\ index.opened = "yes"
        BY <1>1, <1>9, <2>2 DEF IndexStates, FinishIndexMerge, At, IndexOpen
  <2>4. \A f \in DOMAIN index.owned : f \in DOMAIN indexRuns
        BY <1>1, <2>3 DEF IndexFiles
  <2>5. \A f \in DOMAIN index'.owned : Len(indexRuns'[f]) = index'.owned[f]
        BY <1>2, <2>2, <2>3, <2>4 DEF With
  <2> QED BY <2>5 DEF IndexExact
<1>10. CASE UnlinkInput
  <2>1. index.opened = "yes"
        BY <1>1, <1>10 DEF UnlinkInput, At, IndexOpen
  <2>2. PICK file : /\ indexRuns' = Without(indexRuns, {file})
                    /\ \/ index' = [index EXCEPT !.owned = Without(@, {file})]
                       \/ index' = [[index EXCEPT !.owned = Without(@, {file})] EXCEPT !.pass = GroupDone(@, MergeOutput)]
        BY <1>10 DEF UnlinkInput
  <2>3. index'.owned = Without(index.owned, {file})
        BY <1>1, <2>2 DEF IndexStates
  <2>4. \A f \in DOMAIN index.owned : f \in DOMAIN indexRuns
        BY <1>1, <2>1 DEF IndexFiles
  <2>5. \A f \in DOMAIN index'.owned : Len(indexRuns'[f]) = index'.owned[f]
        BY <1>2, <2>1, <2>2, <2>3, <2>4 DEF Without
  <2> QED BY <2>5 DEF IndexExact
<1> QED BY <1>4, <1>5, <1>6, <1>7, <1>8, <1>9, <1>10 DEF IndexStep

LEMMA IndexStepFits ==
    ASSUME ScanSound, SecondSound, Scanning, IndexStep, UNCHANGED <<scanInput, historyVars, torn, pass, scans, verdict>>
    PROVE  SecondSound'
<1>1. Kept /\ UNCHANGED historyVars /\ pass' = pass /\ Scanning' = Scanning /\ IndexReady
      BY DEF Kept, scanInput, Scanning, IndexReady, ScanSound
<1>2. ~At("returned") /\ call'.op = call.op /\ call'.record = call.record
      BY <1>1, CallMoves, IndexStepSound DEF IndexGoal
<1>3. ~At("history cleanup")
  <2>1. CASE SweepIndex \/ CreateManifest \/ RecordInIndex \/ VerifyIndex
        BY <2>1 DEF SweepIndex, CreateManifest, RecordInIndex, VerifyIndex, At
  <2>2. CASE NumbersExhausted \/ Reserve \/ FlushIndex
        BY <2>2 DEF NumbersExhausted, Reserve, FlushIndex, IndexMergeNeeded, IndexCreates, At
  <2>3. CASE MergeTooLarge \/ StartIndexMerge \/ FinishIndexMerge \/ UnlinkInput \/ ScanGroup
        BY <2>3 DEF MergeTooLarge, StartIndexMerge, FinishIndexMerge, UnlinkInput, ScanGroup, IndexMergeNeeded, At
  <2> QED BY <2>1, <2>2, <2>3 DEF IndexStep
<1>4. Straight /\ Live
      BY <1>2, <1>3, GoingStraight
<1>5. RecordFormed' /\ AnswerLate'
      BY <1>1, <1>2, CallKept
<1>6. IndexExact'
      BY <1>1, <1>4, ExactKept DEF SecondSound
<1>7. OutcomeLate'
      BY <1>1, <1>4 DEF OutcomeLate, Straight, historyVars
<1>8. SecondFits'
  <2>1. Follows
        BY <1>1, <1>4, IndexFollows DEF IndexPassReady, PassReady, SecondSound
  <2>2. ~Ends(Reached)
        BY <1>2 DEF Ends, Reached, State, At
  <2> QED BY <1>1, <1>4, <2>1, <2>2, FitsOn DEF SecondSound
<1> QED BY <1>1, <1>5, <1>6, <1>7, <1>8 DEF SecondSound

LEMMA OutcomesLate ==
    ASSUME ScanSound, SecondSound, Scanning, Kept, HistoryStep \/ CleanHistoryFails
    PROVE  OutcomeLate'
<1>1. CallFormed /\ history \in HistoryStates /\ ~At("returned")
      BY CallMoves DEF ScanSound, HistorySound
<1>2. CASE CleanHistory \/ CleanHistoryFails
  <2>1. PICK answer : Return(answer) /\ (history'.outcome # "ok" => answer # "ok")
    <3>1. CASE CleanHistory
      <4>1. history'.outcome = "ok" /\ Return(history.outcome)
            BY <1>1, <3>1 DEF CleanHistory, HistoryReset, HistoryStates
      <4> QED BY <4>1
    <3>2. CASE CleanHistoryFails
      <4>1. \E gone : history' = [history EXCEPT !.owned = gone]
            BY <3>2 DEF CleanHistoryFails
      <4>2. history'.outcome = history.outcome
            BY <1>1, <4>1 DEF HistoryStates
      <4>3. Return(IF history.outcome = "ok" THEN "failed" ELSE history.outcome)
            BY <3>2 DEF CleanHistoryFails
      <4> QED BY <4>2, <4>3
    <3> QED BY <1>2, <3>1, <3>2
  <2>2. call'.answer = answer /\ call'.at = "returned"
        BY <1>1, <2>1 DEF Return, CallFormed
  <2> QED BY <2>1, <2>2 DEF OutcomeLate, At
<1>3. CASE SweepHistory \/ RecordInHistory \/ VerifyHistory
  <2>1. ~At("history cleanup")
        BY <1>3 DEF SweepHistory, RecordInHistory, VerifyHistory, At
  <2>2. history.outcome = "ok"
        BY <1>1, <2>1 DEF SecondSound, OutcomeLate
  <2>3. history'.outcome = history.outcome
        BY <1>1, <1>3 DEF SweepHistory, RecordInHistory, VerifyHistory, HistoryStates
  <2> QED BY <2>2, <2>3 DEF OutcomeLate
<1>4. ASSUME NEW answer, NEW fields, Conclude(answer, fields), fields.outcome = "ok"
      PROVE  OutcomeLate'
  <2>1. CASE call.op = "history verify"
    <3>1. call'.at = "history cleanup"
          BY <1>1, <1>4, <2>1 DEF Conclude, Go, CallFormed
    <3> QED BY <3>1 DEF OutcomeLate, At
  <2>2. CASE call.op # "history verify"
        BY <1>4, <2>2 DEF Conclude, OutcomeLate
  <2> QED BY <2>1, <2>2
<1>5. CASE FlushHistory
  <2>1. history.outcome = "ok"
        BY <1>1, <1>5 DEF SecondSound, OutcomeLate, FlushHistory, At
  <2>2. PICK run, owned : /\ run = SortedRecords("identity", history.buffer)
                          /\ owned = [history EXCEPT !.next = @ + 1, !.owned = With(@, history.next, Len(run))]
        OBVIOUS
  <2>3. owned.outcome = "ok"
        BY <1>1, <2>1, <2>2 DEF HistoryStates
  <2>4. \/ \E answer : Conclude(answer, history) \/ Conclude(answer, owned)
        \/ history' = [owned EXCEPT !.runs = Append(@, history.next), !.buffer = << >>]
        BY <1>5, <2>2 DEF FlushHistory
  <2>5. CASE history' = [owned EXCEPT !.runs = Append(@, history.next), !.buffer = << >>]
    <3>1. history'.outcome = "ok"
          BY <1>1, <2>1, <2>2, <2>5 DEF HistoryStates
    <3> QED BY <3>1 DEF OutcomeLate
  <2> QED BY <1>4, <2>1, <2>3, <2>4, <2>5
<1>6. CASE StartHistoryMerge
  <2>1. history.outcome = "ok"
        BY <1>1, <1>6 DEF SecondSound, OutcomeLate, StartHistoryMerge, At
  <2>2. PICK owned : owned = [history EXCEPT !.next = @ + 1, !.owned = With(@, history.next, GroupReserved)]
        OBVIOUS
  <2>3. owned.outcome = "ok"
        BY <1>1, <2>1, <2>2 DEF HistoryStates
  <2>4. (\E answer : Conclude(answer, history) \/ Conclude(answer, owned)) \/ history' = owned
        BY <1>6, <2>2 DEF StartHistoryMerge
  <2>5. CASE history' = owned
        BY <2>3, <2>5 DEF OutcomeLate
  <2> QED BY <1>4, <2>1, <2>3, <2>4, <2>5
<1>7. CASE FinishHistoryMerge \/ VerifyOrdered
  <2>1. history.outcome = "ok"
        BY <1>1, <1>7 DEF SecondSound, OutcomeLate, FinishHistoryMerge, VerifyOrdered, At
  <2>2. (\E answer : Conclude(answer, history)) \/ \E done : history' = [history EXCEPT !.pass = done]
        BY <1>7 DEF FinishHistoryMerge, VerifyOrdered
  <2>3. ASSUME NEW done, history' = [history EXCEPT !.pass = done] PROVE OutcomeLate'
    <3>1. history'.outcome = "ok"
          BY <1>1, <2>1, <2>3 DEF HistoryStates
    <3> QED BY <3>1 DEF OutcomeLate
  <2> QED BY <1>4, <2>1, <2>2, <2>3
<1> QED BY <1>2, <1>3, <1>5, <1>6, <1>7 DEF HistoryStep

LEMMA HistoryStepFits ==
    ASSUME ScanSound, SecondSound, Scanning, HistoryStep \/ CleanHistoryFails,
           UNCHANGED <<scanInput, indexVars, torn, pass, scans, verdict>>
    PROVE  SecondSound'
<1>1. Kept /\ UNCHANGED indexVars /\ pass' = pass /\ Scanning' = Scanning /\ HistoryReady
      BY DEF Kept, scanInput, Scanning, HistoryReady, ScanSound
<1>2. ~At("returned") /\ call'.op = call.op /\ call'.record = call.record
      BY <1>1, CallMoves, HistoryStepSound DEF HistoryGoal
<1>3. RecordFormed' /\ AnswerLate' /\ OutcomeLate'
      BY <1>1, <1>2, CallKept, OutcomesLate
<1>4. IndexExact'
  <2>1. Live
        BY <1>2 DEF Live
  <2> QED BY <1>1, <2>1 DEF SecondSound, IndexExact, indexVars
<1>5. SecondFits'
  <2>1. CASE Straight
    <3>1. Follows
          BY <1>1, <2>1, HistoryFollows DEF HistoryPassReady, PassReady, SecondSound
    <3>2. ~Ends(Reached)
          BY <1>2 DEF Ends, Reached, State, At
    <3> QED BY <1>1, <2>1, <3>1, <3>2, FitsOn DEF SecondSound
  <2>2. CASE ~Straight
    <3>1. At("history cleanup") /\ history.outcome # "ok" /\ history \in HistoryStates
      <4>1. At("history cleanup")
            BY <1>2, <2>2, GoingStraight
      <4>2. call.answer = "none"
            BY <1>2 DEF SecondSound, AnswerLate
      <4> QED BY <2>2, <4>1, <4>2 DEF Straight, ScanSound, HistorySound
    <3>2. CleanHistory \/ CleanHistoryFails
          BY <3>1 DEF HistoryStep, SweepHistory, RecordInHistory, VerifyHistory, FlushHistory, StartHistoryMerge,
                      FinishHistoryMerge, VerifyOrdered, At
    <3>3. Return(history.outcome) /\ history'.outcome \in {"ok", history.outcome}
      <4>1. CASE CleanHistory
            BY <3>1, <4>1 DEF CleanHistory, HistoryReset, HistoryStates
      <4>2. CASE CleanHistoryFails
        <5>1. \E gone : history' = [history EXCEPT !.owned = gone]
              BY <4>2 DEF CleanHistoryFails
        <5>2. history'.outcome = history.outcome
              BY <3>1, <5>1 DEF HistoryStates
        <5> QED BY <3>1, <4>2, <5>2 DEF CleanHistoryFails
      <4> QED BY <3>2, <4>1, <4>2
    <3>4. call'.answer = history.outcome
          BY <3>3, Came DEF ScanSound
    <3>5. ~Straight'
          BY <3>1, <3>4 DEF Straight, HistoryStates
    <3>6. pass = 1 => ~Refused'
          BY <3>3, <3>4 DEF SecondSound, SecondFits, Refused
    <3> QED BY <1>1, <3>5, <3>6, FitsOff DEF SecondSound
  <2> QED BY <2>1, <2>2
<1> QED BY <1>1, <1>3, <1>4, <1>5 DEF SecondSound

\* From call to call,
LEMMA ProceedFits == ASSUME ScanSound, SecondSound, Proceed PROVE SecondSound'
<1>1. /\ Scanning /\ Kept /\ UNCHANGED indexVars /\ history' = history /\ pass' = pass /\ Scanning' = Scanning
      /\ call.at = "returned" /\ call.answer = "ok" /\ call.op # "history verify"
      BY DEF Proceed, Returned, At, Kept, scanInput, historyVars, Scanning
<1>2. Live /\ Straight
      BY <1>1 DEF Live, Straight, SecondSound, OutcomeLate, At
<1>3. call' = NextCall(wal, call)
      BY DEF Proceed, Returned, NextCall, Record
<1>4. \E op, record : call' = Calling(op, record) /\ (op \notin {"index record", "history record"} => record = << >>)
      BY DEF Proceed
<1>5. PICK op, record : call' = Calling(op, record) /\ (op \notin {"index record", "history record"} => record = << >>)
      BY <1>4
<1>6. call'.op = op /\ call'.record = record /\ call'.answer = "none"
      BY <1>5, CallFields
<1>7. RecordFormed' /\ AnswerLate'
      BY <1>5, <1>6 DEF RecordFormed, Recording, AnswerLate
<1>8. OutcomeLate' /\ IndexExact'
      BY <1>1, <1>2 DEF SecondSound, OutcomeLate, Straight, IndexExact, indexVars
<1>9. Follows
  <2>1. Successor = AdvanceFrom(wal, allowance, call, index, Swept(history))
        BY <1>1, <1>2, SuccessorIs DEF PassReady, SecondSound
  <2>2. Successor = State(NextCall(wal, call), index, Swept(history))
        BY <1>1, <2>1 DEF AdvanceFrom
  <2>3. Successor = State(call', index', Swept(history'))
        BY <1>1, <1>3, <2>2 DEF indexVars
  <2> QED BY <1>1, <1>2, <1>6, <2>3, FollowsOn DEF Straight
<1>10. ~Ends(Reached)
       BY <1>1 DEF Ends, Reached, State
<1>11. SecondFits'
       BY <1>1, <1>2, <1>9, <1>10, FitsOn DEF SecondSound
<1> QED BY <1>1, <1>7, <1>8, <1>11 DEF SecondSound

\* from the first pass, which has just ended, to the second,
LEMMA FirstCallFormed ==
    FirstCall.op \notin {"index record", "history record"} => FirstCall.record = << >>
  BY DEF FirstCall, Calling

LEMMA PassBegins ==
    ASSUME UNCHANGED <<wal, allowance>>, Scanning', call' = FirstCall, index' = IndexClosed, history'.outcome = "ok"
    PROVE  RecordFormed' /\ AnswerLate' /\ OutcomeLate' /\ IndexExact' /\ ~Refused'
<1>1. call'.answer = "none"
      BY DEF FirstCall, Calling
<1>2. RecordFormed'
      BY FirstCallFormed DEF RecordFormed, Recording
<1>3. index'.opened = "no"
      BY DEF IndexClosed
<1> QED BY <1>1, <1>2, <1>3 DEF AnswerLate, OutcomeLate, IndexExact, Refused

LEMMA ResetIsFresh ==
    ASSUME NEW h \in HistoryStates, h.owned = NoFiles
    PROVE  Swept(HistoryReset(h)) = Swept(HistoryFresh) /\ HistoryReset(h).outcome = "ok"
<1>1. PICK p, o, e : p = FirstPass(<< >>) /\ o = NoFiles /\ e = << >>
      OBVIOUS
<1>2. PICK reset : reset = [h EXCEPT !.runs = e, !.buffer = e, !.next = 0, !.pass = p, !.outcome = "ok"]
      OBVIOUS
<1>3. PICK fresh : fresh = HistoryFresh
      OBVIOUS
<1>4. HistoryReset(h) = reset
      BY <1>1, <1>2 DEF HistoryReset
<1> DEFINE Alike(swept) ==
        [swept : swept, buffer : {e}, runs : {e}, next : {0}, owned : {o}, pass : {p}, outcome : {"ok"}]
<1>5. reset \in Alike(BOOLEAN) /\ fresh \in Alike(BOOLEAN)
  <2>1. reset \in Alike(BOOLEAN)
        BY <1>1, <1>2 DEF HistoryStates
  <2>2. fresh \in Alike(BOOLEAN)
        BY <1>1, <1>3 DEF HistoryFresh
  <2> QED BY <2>1, <2>2
<1>6. \A one \in Alike({TRUE}) :
          one = [swept |-> TRUE, buffer |-> e, runs |-> e, next |-> 0, owned |-> o, pass |-> p, outcome |-> "ok"]
  <2> SUFFICES ASSUME NEW one, one \in Alike({TRUE})
               PROVE  one = [swept |-> TRUE, buffer |-> e, runs |-> e, next |-> 0, owned |-> o, pass |-> p, outcome |-> "ok"]
      OBVIOUS
  <2>1. one \in [swept : {TRUE}, buffer : {e}, runs : {e}, next : {0}, owned : {o}, pass : {p}, outcome : {"ok"}]
        OBVIOUS
  <2> HIDE DEF Alike
  <2> QED BY <2>1
<1>7. \A one \in Alike(BOOLEAN) : Swept(one) \in Alike({TRUE}) /\ one.outcome = "ok"
      BY DEF Swept
<1> QED BY <1>3, <1>4, <1>5, <1>6, <1>7

LEMMA RepairTailFits == ASSUME ScanSound, SecondSound, RepairTail PROVE SecondSound'
<1>1. /\ Scanning /\ Scanning' = Scanning /\ wal' = wal /\ allowance' = allowance /\ pass' = 1
      /\ call' = FirstCall /\ index' = IndexClosed /\ history' = HistoryReset(history)
      /\ Returned("history verify", "ok") /\ kind = "file"
      BY DEF RepairTail, scanInput, Scanning
<1>2. history \in HistoryStates /\ history.owned = NoFiles
      BY <1>1 DEF ScanSound, HistorySound, HistoryFound
<1>3. Straight
      BY <1>1 DEF Straight, SecondSound, OutcomeLate, Returned, At
<1>4. Reached \in Ending(wal, allowance)
  <2>1. Ends(Reached)
        BY <1>1 DEF Ends, Reached, State, Returned, At
  <2>2. Reached \in PassStates
        BY <1>1, ReachedTyped DEF SecondSound
  <2> QED BY <2>1, <2>2, EndingBack
<1>5. PassBegun \in Ending(wal, allowance)
      BY <1>1, <1>3, <1>4 DEF SecondSound, SecondFits
<1>6. Swept(history') = Swept(HistoryFresh) /\ history'.outcome = "ok"
      BY <1>1, <1>2, ResetIsFresh
<1>7. PassBegun' = PassBegun /\ Reached' = PassBegun
      BY <1>1, <1>6, PassStays DEF Reached, PassBegun
<1>8. RecordFormed' /\ AnswerLate' /\ OutcomeLate' /\ IndexExact' /\ ~Refused'
      BY <1>1, <1>6, PassBegins
<1>9. PassBegun' \in Ending(wal', allowance') /\ Reached' \in Ending(wal', allowance')
      BY <1>1, <1>5, <1>7
<1>10. SecondFits'
       BY <1>1, <1>8, <1>9 DEF SecondFits
<1> QED BY <1>1, <1>8, <1>10 DEF SecondSound

\* and into the first one,
LEMMA ScanBeginsFits == ASSUME ScanSound, BeginRecovery, kind = "file" PROVE SecondSound'
<1>1. /\ Scanning' /\ wal' = wal /\ allowance' = allowance /\ pass' = 0
      /\ call' = FirstCall /\ index' = IndexClosed /\ history' = HistoryFresh
      BY DEF BeginRecovery, scanInput, Scanning
<1>2. history'.outcome = "ok"
      BY <1>1 DEF HistoryFresh
<1>3. RecordFormed' /\ AnswerLate' /\ OutcomeLate' /\ IndexExact'
      BY <1>1, <1>2, PassBegins
<1>4. Reached' = PassBegun'
      BY <1>1, PassStays DEF Reached, PassBegun
<1>5. SecondFits'
      BY <1>1, <1>4 DEF SecondFits
<1> QED BY <1>1, <1>3, <1>5 DEF SecondSound

\* or to where nothing is scanned, and no second pass follows,
LEMMA NothingScannedFits == ASSUME ScanSound, BeginRecovery, kind = "missing" PROVE SecondSound'
<1>1. Scanning' /\ kind' = "missing" /\ pass' = 0 /\ call' = Verified /\ index' = IndexClosed /\ history' = HistoryFresh
      BY DEF BeginRecovery, scanInput, Scanning
<1>2. call' = [op |-> "history verify", at |-> "returned", record |-> << >>, answer |-> "ok"]
      BY <1>1 DEF Verified, Calling
<1>3. call'.at = "returned" /\ call'.record = << >>
      BY <1>2
<1>4. RecordFormed' /\ AnswerLate' /\ SecondFits'
      BY <1>1, <1>3 DEF RecordFormed, AnswerLate, SecondFits, At
<1>5. OutcomeLate' /\ IndexExact'
  <2>1. history'.outcome = "ok" /\ index'.opened = "no"
        BY <1>1 DEF HistoryFresh, IndexClosed
  <2> QED BY <2>1 DEF OutcomeLate, IndexExact
<1> QED BY <1>1, <1>4, <1>5 DEF SecondSound

LEMMA BeginRecoveryFits == ASSUME ScanSound, BeginRecovery PROVE SecondSound'
<1>1. kind = "file" \/ kind = "missing"
      BY DEF ScanSound, InputSound
<1> QED BY <1>1, ScanBeginsFits, NothingScannedFits

\* a failure, after which nothing goes straight on,
LEMMA FailingFits == ASSUME ScanSound, SecondSound, Failing, pass' = pass PROVE SecondSound'
<1>1. /\ Scanning /\ Kept /\ Scanning' = Scanning /\ index' = index /\ history' = history /\ CallFormed
      /\ Return("failed")
      BY DEF Failing, ScanSound, Kept, Scanning
<1>2. call'.at = "returned" /\ call'.answer = "failed" /\ call'.op = call.op /\ call'.record = call.record
      BY <1>1 DEF Return, CallFormed
<1>3. RecordFormed' /\ AnswerLate' /\ OutcomeLate' /\ IndexExact'
      BY <1>1, <1>2 DEF SecondSound, RecordFormed, Recording, AnswerLate, OutcomeLate, IndexExact, Live, At
<1>4. ~Straight' /\ (pass = 1 => ~Refused')
      BY <1>1, <1>2 DEF Straight, Refused, SecondSound, SecondFits
<1>5. SecondFits'
      BY <1>1, <1>4, FitsOff DEF SecondSound
<1> QED BY <1>1, <1>3, <1>5 DEF SecondSound

\* and the end.
LEMMA UnscannedFits == ASSUME ~Scanning', pass' = 0 PROVE SecondSound'
  BY DEF SecondSound, RecordFormed, AnswerLate, OutcomeLate, IndexExact, Live, SecondFits

LEMMA EndedFits ==
    ASSUME ScanSound, Publish \/ Abort \/ KilledScanning \/ PowerLostScanning
    PROVE  SecondSound'
<1>1. CASE Publish \/ KilledScanning \/ PowerLostScanning
  <2>1. pass' = 0 /\ verdict' \in {"published", "killed"}
        BY <1>1 DEF Publish, KilledScanning, PowerLostScanning, Ended
  <2> QED BY <2>1, UnscannedFits DEF Scanning
<1>2. CASE Abort
  <2>1. pass' = 0 /\ verdict' = call.answer /\ call.answer # "none"
        BY <1>2 DEF Abort, Ended, ScanSound, CallFormed
  <2> QED BY <2>1, UnscannedFits DEF Scanning
<1> QED BY <1>1, <1>2

LEMMA ScanStepFits == ASSUME ScanSound, SecondSound, ScanNext PROVE SecondSound'
<1>1. CASE RepairTailFails \/ OperationFails
  <2>1. Failing /\ pass' = pass
        BY <1>1 DEF RepairTailFails, OperationFails, Failing, Kept, scanInput, indexVars, historyVars
  <2> QED BY <2>1, FailingFits
<1> QED BY <1>1, BeginRecoveryFits, ProceedFits, RepairTailFits, EndedFits, IndexStepFits, HistoryStepFits DEF ScanNext

LEMMA FitsUnchanged == ASSUME SecondSound, UNCHANGED scanVars PROVE SecondSound'
<1>1. /\ wal' = wal /\ allowance' = allowance /\ kind' = kind /\ call' = call /\ index' = index /\ indexRuns' = indexRuns
      /\ history' = history /\ pass' = pass /\ Scanning' = Scanning
      BY DEF scanVars, indexVars, historyVars, Scanning
<1>2. RecordFormed' /\ AnswerLate' /\ OutcomeLate' /\ IndexExact'
      BY <1>1 DEF SecondSound, RecordFormed, Recording, AnswerLate, OutcomeLate, IndexExact, Live, At
<1>3. PassBegun' = PassBegun /\ Reached' = Reached /\ (Straight' <=> Straight) /\ (Refused' <=> Refused)
      BY <1>1, PassStays DEF Reached, Straight, Refused
<1>4. Ending(wal', allowance') = Ending(wal, allowance)
      BY <1>1
<1>5. SecondFits'
      BY <1>1, <1>3, <1>4 DEF SecondSound, SecondFits
<1> QED BY <1>1, <1>2, <1>5 DEF SecondSound

SecondInvariant == ScanInvariant /\ SecondSound

LEMMA SecondInvariantKept == ASSUME SecondInvariant, [Next]_vars PROVE SecondInvariant'
<1>1. ScanInvariant' /\ ScanSound /\ SecondSound /\ (status # "reopened" => ScanEmpty)
      BY ScanInvariantKept DEF SecondInvariant, ScanInvariant
<1>2. CASE Reopened
  <2>1. status # "reopened" /\ verdict' = verdict /\ pass' = pass
        BY <1>2 DEF Reopened, Merging
  <2>2. ~Scanning' /\ pass' = 0
        BY <1>1, <2>1 DEF ScanEmpty, Scanning
  <2> QED BY <1>1, <2>2, UnscannedFits DEF SecondInvariant
<1>3. CASE ScanNext
      BY <1>1, <1>3, ScanStepFits DEF SecondInvariant
<1>4. CASE UNCHANGED scanVars
      BY <1>1, <1>4, FitsUnchanged DEF SecondInvariant
<1>5. Reopened \/ ScanNext \/ UNCHANGED scanVars
      BY DEF Next, Rotated, vars
<1> QED BY <1>2, <1>3, <1>4, <1>5

\* Once a pass has come to its end, the one that follows the repair of the tail
\* is refused nothing, for any allowance, numbers of files, buffers and fan-in
\* (StartupRecovery.ts, reconstruct, which empties both indexes and starts over).
THEOREM SecondPassAlwaysFits == Spec => []SecondPassFits
<1>1. Init => SecondInvariant
  <2> SUFFICES ASSUME Init PROVE SecondInvariant
      OBVIOUS
  <2>1. ScanEmpty /\ ScanInvariant
        BY InitSound, EmptyScanSound DEF Init, ScanInvariant
  <2>2. ~Scanning /\ pass = 0
        BY <2>1 DEF ScanEmpty, Scanning
  <2>3. SecondSound
        BY <2>2 DEF SecondSound, RecordFormed, AnswerLate, OutcomeLate, IndexExact, Live, SecondFits
  <2> QED BY <2>1, <2>3 DEF SecondInvariant
<1>2. SecondInvariant /\ [Next]_vars => SecondInvariant'
      BY SecondInvariantKept
<1>3. SecondInvariant => SecondPassFits
  <2> SUFFICES ASSUME SecondInvariant, pass = 1 PROVE call.answer # "resource-limit"
      BY DEF SecondPassFits
  <2>1. Scanning
        BY DEF SecondInvariant, SecondSound
  <2> QED BY <2>1 DEF SecondInvariant, SecondSound, SecondFits, Refused
<1> QED BY <1>1, <1>2, <1>3, PTL DEF Spec
===============================================================================
