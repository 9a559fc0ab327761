------------------------- MODULE StoreBootstrap_proofs -------------------------
(***************************************************************************)
(* The creation of a store, for any number of calls, any mix of modes and  *)
(* every fault.                                                            *)
(***************************************************************************)
EXTENDS StoreBootstrap, TLAPS

-------------------------------------------------------------------------------
(* The kinds of step *)

Idles == UNCHANGED <<disk, kept, whole, owns>>
Syncs(folder) ==
    /\ kept' = [x \in Entries |-> IF Folder(x) = folder THEN disk[x] ELSE kept[x]]
    /\ UNCHANGED <<disk, whole, base, owns>>
Makes(c, e) ==
    /\ disk[e] = None /\ disk' = [disk EXCEPT ![e] = c] /\ whole' = whole \ {e}
    /\ UNCHANGED <<kept, base, owns>>
Fills(c, e) ==
    /\ whole' = whole \cup {e}
    /\ owns' = IF e = "lock" THEN [owns EXCEPT ![c] = TRUE] ELSE owns
    /\ UNCHANGED <<disk, kept, base>>
Renames ==
    /\ disk["candidate"] # None
    /\ disk' = [disk EXCEPT !["HEAD"] = disk["candidate"], !["candidate"] = None]
    /\ whole' = {x \in Entries : (IF x = "HEAD" THEN "candidate" ELSE x) \in whole}
    /\ UNCHANGED <<kept, base, owns>>
Removes(c) ==
    /\ disk["lock"] # None /\ disk' = [disk EXCEPT !["lock"] = None]
    /\ owns' = [owns EXCEPT ![c] = FALSE]
    /\ UNCHANGED <<kept, whole, base>>

\* The call stays in its part, or takes up the next one.
Continues(c) ==
    /\ at' = [at EXCEPT ![c] = @ + 1] /\ path' = path /\ good' = good
Turns(c, next) ==
    /\ at' = [at EXCEPT ![c] = 1] /\ path' = [path EXCEPT ![c] = next]
    /\ good' = [good EXCEPT ![c] = @ \/ path[c] = "recover"]

LEMMA EffectOf ==
    ASSUME NEW c \in Calls, Perform(c), NEW e
    PROVE  /\ Current(c) = Do("sync", e) => Syncs(e)
           /\ Current(c) = Do("make", e) => Makes(c, e)
           /\ Current(c) = Do("fill", e) => Fills(c, e)
           /\ Current(c) = Do("rename", "HEAD") => Renames
           /\ Current(c) = Do("remove", "lock") => Removes(c)
           /\ Current(c) = Do("verify", e) => Idles /\ base' = base /\ e \in whole /\ disk[e] = base[c]
           /\ Current(c) = Do("read", e) => Idles /\ base' = [base EXCEPT ![c] = disk[e]] /\ disk[e] # None
           /\ Current(c) = Do("same", e) => Idles /\ base' = base /\ disk[e] = base[c]
           /\ Current(c) = Do("own", e) => Idles /\ base' = base /\ disk[e] = c
           /\ Current(c) \in {Do("absent", e), Do("present", e)} => Idles /\ base' = base
<1> DEFINE do == Current(c)
<1>1. Succeeds(c, do) /\ Effect(c, do)
      BY DEF Perform
<1> HIDE DEF do
<1>2. do = Do("sync", e) => Syncs(e)
      BY <1>1 DEF Effect, Do, Syncs
<1>3. do = Do("make", e) => Makes(c, e)
      BY <1>1 DEF Effect, Succeeds, Do, Makes
<1>4. do = Do("fill", e) => Fills(c, e)
      BY <1>1 DEF Effect, Do, Fills
<1>5. do = Do("rename", "HEAD") => Renames
      BY <1>1 DEF Effect, Succeeds, Do, Renames
<1>6. do = Do("remove", "lock") => Removes(c)
      BY <1>1 DEF Effect, Succeeds, Do, Removes
<1>7. do.op \in {"absent", "present", "read", "same", "verify", "own"} =>
         Idles /\ base' = IF do.op = "read" THEN [base EXCEPT ![c] = disk[do.of]] ELSE base
  <2>1. do.op \in {"absent", "present", "read", "same", "verify", "own"} =>
            do # Do("fill", "lock") /\ do # Do("remove", "lock")
        BY DEF Do
  <2> QED BY <1>1, <2>1 DEF Effect, Idles
<1>8. /\ do = Do("verify", e) => e \in whole /\ disk[e] = base[c]
      /\ do = Do("read", e) => disk[e] # None
      /\ do = Do("same", e) => disk[e] = base[c]
      /\ do = Do("own", e) => disk[e] = c
  <2>1. do = Do("verify", e) => e \in whole /\ disk[e] = base[c]
        BY <1>1 DEF Succeeds, Do
  <2>2. do = Do("read", e) => disk[e] # None
        BY <1>1 DEF Succeeds, Do
  <2>3. do = Do("same", e) => disk[e] = base[c]
        BY <1>1 DEF Succeeds, Do
  <2>4. do = Do("own", e) => disk[e] = c
        BY <1>1 DEF Succeeds, Do
  <2> QED BY <2>1, <2>2, <2>3, <2>4
<1> QED BY <1>2, <1>3, <1>4, <1>5, <1>6, <1>7, <1>8 DEF do, Do

\* Where a step leads: to the next one, and after the last to another part.
LEMMA Leads ==
    ASSUME TypeOK, NEW c \in Calls, Perform(c)
    PROVE  /\ at[c] < Len(Program[path[c]]) => Continues(c)
           /\ at[c] = Len(Program[path[c]]) => Turns(c, After(c))
<1>1. at[c] \in 1..Len(Program[path[c]])
      BY DEF Perform, TypeOK
<1> QED BY <1>1 DEF Perform, Goto, Continues, Turns

LEMMA CreationSteps ==
    ASSUME TypeOK, NEW c \in Calls, Perform(c), path[c] = "create"
    PROVE  /\ at[c] \in 1..23
           /\ at[c] \in {1, 13} => Syncs("parent")
           /\ at[c] = 2 => Makes(c, "dir")
           /\ at[c] = 3 => Makes(c, "lock")
           /\ at[c] = 4 => Fills(c, "lock")
           /\ at[c] = 5 => Makes(c, "checkpoints")
           /\ at[c] = 6 => Makes(c, "wal")
           /\ at[c] = 7 => Makes(c, "private")
           /\ at[c] = 8 => Makes(c, "checkpoint")
           /\ at[c] = 9 => Fills(c, "checkpoint")
           /\ at[c] = 10 => Syncs("checkpoints")
           /\ at[c] = 11 => Syncs("wal")
           /\ at[c] \in {12, 21, 23} => Syncs("dir")
           /\ at[c] = 14 => Makes(c, "candidate")
           /\ at[c] = 15 => Fills(c, "candidate")
           /\ at[c] \in {16, 20} => Syncs("private")
           /\ at[c] \in {17, 18} => Idles /\ base' = base
           /\ at[c] = 17 => "candidate" \in whole
           /\ at[c] = 19 => Renames
           /\ at[c] = 22 => Removes(c)
           /\ at[c] < 23 => Continues(c)
           /\ at[c] = 23 => Turns(c, "recover")
<1> DEFINE k == at[c]
<1>1. Len(Creation) = 23 /\ Program["create"] = Creation
      BY DEF Creation, Program
<1>2. k \in 1..23 /\ Current(c) = Creation[k]
      BY <1>1 DEF TypeOK, Working, Current, Program
<1>3. /\ k \in {1, 13} => Current(c) = Do("sync", "parent")
      /\ k = 2 => Current(c) = Do("make", "dir")
      /\ k = 3 => Current(c) = Do("make", "lock")
      /\ k = 4 => Current(c) = Do("fill", "lock")
      /\ k = 5 => Current(c) = Do("make", "checkpoints")
      /\ k = 6 => Current(c) = Do("make", "wal")
      /\ k = 7 => Current(c) = Do("make", "private")
      /\ k = 8 => Current(c) = Do("make", "checkpoint")
      /\ k = 9 => Current(c) = Do("fill", "checkpoint")
      /\ k = 10 => Current(c) = Do("sync", "checkpoints")
      /\ k = 11 => Current(c) = Do("sync", "wal")
      /\ k \in {12, 21, 23} => Current(c) = Do("sync", "dir")
      /\ k = 14 => Current(c) = Do("make", "candidate")
      /\ k = 15 => Current(c) = Do("fill", "candidate")
      /\ k \in {16, 20} => Current(c) = Do("sync", "private")
      /\ k = 17 => Current(c) = Do("verify", "candidate")
      /\ k = 18 => Current(c) = Do("verify", "checkpoint")
      /\ k = 19 => Current(c) = Do("rename", "HEAD")
      /\ k = 22 => Current(c) = Do("remove", "lock")
      BY <1>2 DEF Creation
<1>4. /\ k < 23 => Continues(c)
      /\ k = 23 => Turns(c, "recover")
      BY <1>1, <1>2, Leads DEF After
<1> HIDE DEF k
<1>5. /\ k \in {1, 13} => Syncs("parent")
      /\ k = 10 => Syncs("checkpoints")
      /\ k = 11 => Syncs("wal")
      /\ k \in {12, 21, 23} => Syncs("dir")
      /\ k \in {16, 20} => Syncs("private")
      BY <1>3, EffectOf
<1>6. /\ k = 2 => Makes(c, "dir")
      /\ k = 3 => Makes(c, "lock")
      /\ k = 5 => Makes(c, "checkpoints")
      /\ k = 6 => Makes(c, "wal")
      /\ k = 7 => Makes(c, "private")
      /\ k = 8 => Makes(c, "checkpoint")
      /\ k = 14 => Makes(c, "candidate")
      BY <1>3, EffectOf
<1>7. /\ k = 4 => Fills(c, "lock")
      /\ k = 9 => Fills(c, "checkpoint")
      /\ k = 15 => Fills(c, "candidate")
      /\ k = 19 => Renames
      /\ k = 22 => Removes(c)
      /\ k \in {17, 18} => Idles /\ base' = base
      /\ k = 17 => "candidate" \in whole
      BY <1>3, EffectOf
<1> QED BY <1>2, <1>4, <1>5, <1>6, <1>7 DEF k

LEMMA RecoverySteps ==
    ASSUME TypeOK, NEW c \in Calls, Perform(c), path[c] = "recover"
    PROVE  /\ at[c] \in 1..15
           /\ at[c] \in {1, 2, 3, 10, 11, 12, 13, 14, 15} => Idles /\ base' = base
           /\ at[c] \in {4, 9} => Syncs("dir")
           /\ at[c] = 5 => Syncs("wal")
           /\ at[c] = 6 => Idles /\ base' = [base EXCEPT ![c] = disk["HEAD"]] /\ disk["HEAD"] # None
           /\ at[c] = 7 => Makes(c, "lock")
           /\ at[c] = 8 => Fills(c, "lock")
           /\ at[c] < 15 => Continues(c)
           /\ at[c] = 15 => Turns(c, "release")
<1> DEFINE k == at[c]
<1>1. Len(Recovery) = 15 /\ Program["recover"] = Recovery
      BY DEF Recovery, Program
<1>2. k \in 1..15 /\ Current(c) = Recovery[k]
      BY <1>1 DEF TypeOK, Working, Current, Program
<1>3. /\ k \in {1, 10} => Current(c) = Do("present", "checkpoints")
      /\ k \in {2, 11} => Current(c) = Do("present", "wal")
      /\ k \in {3, 12} => Current(c) = Do("present", "private")
      /\ k \in {4, 9} => Current(c) = Do("sync", "dir")
      /\ k = 5 => Current(c) = Do("sync", "wal")
      /\ k = 6 => Current(c) = Do("read", "HEAD")
      /\ k = 7 => Current(c) = Do("make", "lock")
      /\ k = 8 => Current(c) = Do("fill", "lock")
      /\ k = 13 => Current(c) = Do("own", "lock")
      /\ k = 14 => Current(c) = Do("same", "HEAD")
      /\ k = 15 => Current(c) = Do("verify", "checkpoint")
      BY <1>2 DEF Recovery
<1>4. /\ k < 15 => Continues(c)
      /\ k = 15 => Turns(c, "release")
      BY <1>1, <1>2, Leads DEF After
<1> HIDE DEF k
<1>5. /\ k \in {1, 2, 3, 10, 11, 12, 13, 14, 15} => Idles /\ base' = base
      /\ k = 6 => Idles /\ base' = [base EXCEPT ![c] = disk["HEAD"]] /\ disk["HEAD"] # None
      BY <1>3, EffectOf
<1>6. /\ k \in {4, 9} => Syncs("dir")
      /\ k = 5 => Syncs("wal")
      /\ k = 7 => Makes(c, "lock")
      /\ k = 8 => Fills(c, "lock")
      BY <1>3, EffectOf
<1> QED BY <1>2, <1>4, <1>5, <1>6 DEF k

LEMMA OtherSteps ==
    ASSUME TypeOK, NEW c \in Calls, Perform(c), path[c] \notin {"create", "recover"}
    PROVE  /\ path[c] \in {"inspect", "again"} =>
                /\ Idles /\ base' \in {base, [base EXCEPT ![c] = disk["HEAD"]]}
                /\ Continues(c) \/ Turns(c, After(c))
           /\ path[c] = "release" => at[c] \in 1..3
           /\ path[c] = "release" /\ at[c] = 1 => Idles /\ base' = base /\ Continues(c)
           /\ path[c] = "release" /\ at[c] = 2 => Removes(c) /\ Continues(c)
           /\ path[c] = "release" /\ at[c] = 3 => Syncs("dir") /\ Turns(c, After(c))
           /\ path[c] = "cleanup" => Removes(c) /\ Turns(c, "refused")
           /\ path[c] \in {"inspect", "again", "release", "cleanup"}
<1> DEFINE k == at[c]
<1>1. path[c] \in {"inspect", "again", "release", "cleanup"}
      BY DEF Perform, Working, Program
<1>2. CASE path[c] \in {"inspect", "again"}
  <2>1. Len(Inspection) = 8 /\ Program[path[c]] = Inspection /\ Working(c)
        BY <1>2 DEF Inspection, Program, Working
  <2>2. k \in 1..8 /\ Current(c) = Inspection[k]
        BY <2>1 DEF TypeOK, Current
  <2>3. \/ Current(c) = Do("read", "HEAD")
        \/ \E e : Current(c) \in {Do("absent", e), Do("present", e), Do("verify", e), Do("same", e)}
        BY <2>2 DEF Inspection
  <2>4. Idles /\ base' \in {base, [base EXCEPT ![c] = disk["HEAD"]]}
        BY <2>3, EffectOf
  <2>5. Continues(c) \/ Turns(c, After(c))
    <3>1. at[c] < Len(Inspection) \/ at[c] = Len(Inspection)
          BY <2>1, <2>2
    <3> HIDE DEF k
    <3> QED BY <2>1, <3>1, Leads
  <2> QED BY <1>2, <2>4, <2>5
<1>3. CASE path[c] = "release"
  <2>1. Len(Release) = 3 /\ Program["release"] = Release
        BY DEF Release, Program
  <2>2. k \in 1..3 /\ Current(c) = Release[k]
        BY <1>3, <2>1 DEF TypeOK, Working, Current, Program
  <2>3. /\ k = 1 => Current(c) = Do("own", "lock")
        /\ k = 2 => Current(c) = Do("remove", "lock")
        /\ k = 3 => Current(c) = Do("sync", "dir")
        BY <2>2 DEF Release
  <2>4. /\ k < 3 => Continues(c)
        /\ k = 3 => Turns(c, After(c))
        BY <1>3, <2>1, <2>2, Leads
  <2> HIDE DEF k
  <2>5. /\ k = 1 => Idles /\ base' = base
        /\ k = 2 => Removes(c)
        /\ k = 3 => Syncs("dir")
        BY <2>3, EffectOf
  <2> QED BY <1>3, <2>2, <2>4, <2>5 DEF k
<1>4. CASE path[c] = "cleanup"
  <2>1. Len(Cleanup) = 1 /\ Program[path[c]] = Cleanup /\ Cleanup[1] = Do("remove", "lock") /\ Working(c)
        BY <1>4 DEF Cleanup, Program, Working
  <2>2. k = 1 /\ Current(c) = Do("remove", "lock")
    <3>1. k \in 1..1 /\ Current(c) = Cleanup[k]
          BY <2>1 DEF TypeOK, Current
    <3> QED BY <2>1, <3>1
  <2>3. Removes(c)
        BY <2>2, EffectOf
  <2>4. Turns(c, "refused")
        BY <1>4, <2>1, <2>2, Leads DEF After
  <2> QED BY <1>4, <2>3, <2>4
<1> QED BY <1>1, <1>2, <1>3, <1>4

-------------------------------------------------------------------------------
(* Initially, and types *)

LEMMA Parts ==
    /\ DOMAIN Program = {"inspect", "again", "create", "recover", "release", "cleanup"}
    /\ \A part \in DOMAIN Program : Len(Program[part]) >= 1
    /\ Len(Program["create"]) = 23 /\ Len(Program["recover"]) = 15
    /\ Len(Program["release"]) = 3 /\ Len(Program["cleanup"]) = 1
<1>1. DOMAIN Program = {"inspect", "again", "create", "recover", "release", "cleanup"}
      BY DEF Program
<1>2. /\ Program["inspect"] = Inspection /\ Program["again"] = Inspection
      /\ Program["create"] = Creation /\ Program["recover"] = Recovery
      /\ Program["release"] = Release /\ Program["cleanup"] = Cleanup
      BY DEF Program
<1>3. /\ Len(Inspection) = 8 /\ Len(Creation) = 23 /\ Len(Recovery) = 15
      /\ Len(Release) = 3 /\ Len(Cleanup) = 1
      BY DEF Inspection, Creation, Recovery, Release, Cleanup
<1>4. Len(Program["inspect"]) = 8 /\ Len(Program["again"]) = 8
      BY <1>2, <1>3
<1>5. /\ Len(Program["create"]) = 23 /\ Len(Program["recover"]) = 15
      /\ Len(Program["release"]) = 3 /\ Len(Program["cleanup"]) = 1
      BY <1>2, <1>3
<1>6. ASSUME NEW part \in DOMAIN Program PROVE Len(Program[part]) \in {8, 23, 15, 3, 1}
  <2>1. part \in {"inspect", "again", "create", "recover", "release", "cleanup"}
        BY <1>1
  <2> QED BY <2>1, <1>4, <1>5
<1>7. \A n \in {8, 23, 15, 3, 1} : n >= 1
      OBVIOUS
<1> QED BY <1>1, <1>5, <1>6, <1>7

LEMMA BootstrappedInit == Init => Bootstrapped
<1> SUFFICES ASSUME Init PROVE Bootstrapped
    OBVIOUS
<1>1. TypeOK
      BY Parts DEF Init, TypeOK, Working
<1>2. OneCreator /\ Established
      BY DEF Init, OneCreator, Established, Entries, Layout, Lasting
<1>3. ASSUME NEW c \in Calls PROVE Locking(c) /\ Creating(c) /\ Recovering(c)
      BY <1>3 DEF Init, Locking, Creating, Recovering, Past
<1> QED BY <1>1, <1>2, <1>3 DEF Bootstrapped

\* A step is made of one of these changes, and who makes an entry or removes
\* writer.lock may do so.
LEMMA Kinds ==
    ASSUME Bootstrapped, NEW c \in Calls, Perform(c)
    PROVE  \/ Idles
           \/ \E folder : Syncs(folder)
           \/ \E e \in (Lasting \cup {"candidate"}) \ {"HEAD"} :
                Makes(c, e) /\ Past(c, "create", 1) /\ (e # "dir" => disk["dir"] = c)
           \/ Makes(c, "lock")
           \/ \E e \in Entries : Fills(c, e)
           \/ Renames /\ Past(c, "create", 18) /\ at[c] = 19
           \/ Removes(c) /\ owns[c]
<1>1. TypeOK /\ Locking(c) /\ Creating(c)
      BY DEF Bootstrapped
<1>2. CASE path[c] = "create"
  <2>1. at[c] \in 1..23
        BY <1>1, <1>2, CreationSteps
  <2>2. at[c] \in {2, 5, 6, 7, 8, 14} =>
          \E e \in (Lasting \cup {"candidate"}) \ {"HEAD"} :
            Makes(c, e) /\ Past(c, "create", 1) /\ (e # "dir" => disk["dir"] = c)
    <3>1. {"dir", "checkpoints", "wal", "private", "checkpoint", "candidate"}
             \subseteq (Lasting \cup {"candidate"}) \ {"HEAD"}
          BY DEF Lasting, Entries, Layout
    <3>2. at[c] \in {5, 6, 7, 8, 14} => disk["dir"] = c
          BY <1>1, <1>2 DEF Creating, Past
    <3>3. at[c] \in {2, 5, 6, 7, 8, 14} => Past(c, "create", 1)
          BY <1>2 DEF Past
    <3>4. /\ at[c] = 2 => Makes(c, "dir")
          /\ at[c] = 5 => Makes(c, "checkpoints")
          /\ at[c] = 6 => Makes(c, "wal")
          /\ at[c] = 7 => Makes(c, "private")
          /\ at[c] = 8 => Makes(c, "checkpoint")
          /\ at[c] = 14 => Makes(c, "candidate")
          BY <1>1, <1>2, CreationSteps
    <3> QED BY <3>1, <3>2, <3>3, <3>4
  <2>3. at[c] \in {4, 9, 15} => \E e \in Entries : Fills(c, e)
        BY <1>1, <1>2, CreationSteps DEF Entries
  <2>4. at[c] = 22 => owns[c]
        BY <1>1, <1>2 DEF Locking, Past
  <2>5. at[c] = 19 => Past(c, "create", 18)
        BY <1>2 DEF Past
  <2>6. \/ at[c] \in {1, 10, 11, 12, 13, 16, 20, 21, 23}
        \/ at[c] \in {2, 5, 6, 7, 8, 14} \/ at[c] \in {4, 9, 15}
        \/ at[c] \in {17, 18} \/ at[c] = 3 \/ at[c] = 19 \/ at[c] = 22
        BY <2>1
  <2>7. /\ at[c] \in {1, 10, 11, 12, 13, 16, 20, 21, 23} => \E folder : Syncs(folder)
        /\ at[c] \in {17, 18} => Idles
        /\ at[c] = 3 => Makes(c, "lock")
        /\ at[c] = 19 => Renames
        /\ at[c] = 22 => Removes(c)
        BY <1>1, <1>2, CreationSteps
  <2> QED BY <2>2, <2>3, <2>4, <2>5, <2>6, <2>7
<1>3. CASE path[c] = "recover"
  <2>1. at[c] \in 1..15
        BY <1>1, <1>3, RecoverySteps
  <2>2. \/ at[c] \in {1, 2, 3, 10, 11, 12, 13, 14, 15} \/ at[c] \in {4, 9}
        \/ at[c] = 5 \/ at[c] = 6 \/ at[c] = 7 \/ at[c] = 8
        BY <2>1
  <2>3. "lock" \in Entries
        BY DEF Entries
  <2> QED BY <1>1, <1>3, <2>2, <2>3, RecoverySteps
<1>4. CASE path[c] \notin {"create", "recover"}
  <2>1. path[c] = "release" => at[c] = 1 \/ at[c] = 2 \/ at[c] = 3
        BY <1>1, <1>4, OtherSteps
  <2>2. (path[c] = "release" /\ at[c] = 2) \/ path[c] = "cleanup" => owns[c]
        BY <1>1 DEF Locking
  <2> QED BY <1>1, <1>4, <2>1, <2>2, OtherSteps
<1> QED BY <1>2, <1>3, <1>4

LEMMA StepTyped ==
    ASSUME Bootstrapped, NEW c \in Calls, Perform(c)
    PROVE  TypeOK'
<1> USE DEF Bootstrapped
<1>1. Working(c) /\ at[c] \in 1..Len(Program[path[c]]) /\ path[c] \in DOMAIN Program
      BY DEF Perform, TypeOK, Working
<1>2. After(c) \in DOMAIN Program \cup {"start", "restart", "opened", "refused", "dead"}
      BY <1>1, Parts DEF After, TypeOK
<1>3. /\ path' \in [Calls -> DOMAIN Program \cup {"start", "restart", "opened", "refused", "dead"}]
      /\ at' \in [Calls -> Nat] /\ good' \in [Calls -> BOOLEAN]
      /\ \A p \in Calls : Working(p)' => at'[p] \in 1..Len(Program[path'[p]])
  <2>1. CASE Continues(c)
    <3>1. at[c] < Len(Program[path[c]]) \/ at[c] = Len(Program[path[c]])
          BY <1>1
    <3>2. at[c] = Len(Program[path[c]]) => ~Continues(c)
      <4>1. at[c] = Len(Program[path[c]]) => Turns(c, After(c))
            BY Leads
      <4>2. at[c] \in Nat /\ at[c] + 1 # 1
            BY <1>1
      <4> QED BY <2>1, <4>1, <4>2 DEF Continues, Turns, TypeOK
    <3>3. at'[c] \in 1..Len(Program[path[c]])
      <4>1. at[c] < Len(Program[path[c]]) /\ at'[c] = at[c] + 1
            BY <2>1, <3>1, <3>2 DEF Continues, TypeOK
      <4> QED BY <1>1, <4>1
    <3>4. at' \in [Calls -> Nat] /\ \A p \in Calls \ {c} : at'[p] = at[p]
          BY <2>1 DEF Continues, TypeOK
    <3> QED BY <2>1, <3>3, <3>4 DEF Continues, TypeOK, Working
  <2>2. CASE Turns(c, After(c))
    <3>1. /\ path' \in [Calls -> DOMAIN Program \cup {"start", "restart", "opened", "refused", "dead"}]
          /\ at' \in [Calls -> Nat] /\ at'[c] = 1
          /\ \A p \in Calls \ {c} : at'[p] = at[p] /\ path'[p] = path[p]
          BY <1>2, <2>2 DEF Turns, TypeOK
    <3>2. good' \in [Calls -> BOOLEAN]
          BY <2>2 DEF Turns, TypeOK
    <3>3. \A part \in DOMAIN Program : 1 \in 1..Len(Program[part])
          BY Parts
    <3> QED BY <3>1, <3>2, <3>3 DEF TypeOK, Working
  <2>3. at[c] < Len(Program[path[c]]) \/ at[c] = Len(Program[path[c]])
        BY <1>1
  <2> QED BY <2>1, <2>2, <2>3, Leads
<1>4. /\ disk' \in [Entries -> Calls \cup {None}] /\ kept' \in [Entries -> Calls \cup {None}]
      /\ whole' \subseteq Entries /\ owns' \in [Calls -> BOOLEAN]
      /\ base' \in [Calls -> Calls \cup {None}]
  <2>1. Entries = {"checkpoints", "wal", "private", "dir", "lock", "checkpoint", "candidate", "HEAD"}
        BY DEF Entries, Layout
  <2>2. \/ base' = base \/ base' = [base EXCEPT ![c] = disk["HEAD"]]
    <3>1. CASE path[c] = "create"
          BY <3>1, CreationSteps DEF Syncs, Makes, Fills, Renames, Removes
    <3>2. CASE path[c] = "recover"
          BY <3>2, RecoverySteps DEF Syncs, Makes, Fills
    <3>3. CASE path[c] \notin {"create", "recover"}
          BY <3>3, OtherSteps DEF Syncs, Removes
    <3> QED BY <3>1, <3>2, <3>3
  <2>3. base' \in [Calls -> Calls \cup {None}]
        BY <2>1, <2>2 DEF TypeOK
  <2>4. kept' \in [Entries -> Calls \cup {None}]
        BY Kinds DEF TypeOK, Idles, Syncs, Makes, Fills, Renames, Removes
  <2>5. disk' \in [Entries -> Calls \cup {None}]
    <3>1. CASE Renames
      <4>1. disk["candidate"] \in Calls \cup {None}
            BY <2>1 DEF TypeOK
      <4> QED BY <3>1, <4>1 DEF Renames, TypeOK
    <3>2. \/ disk' = disk \/ disk' = [disk EXCEPT !["lock"] = None]
          \/ (\E e : disk' = [disk EXCEPT ![e] = c]) \/ Renames
          BY Kinds DEF Idles, Syncs, Makes, Fills, Removes
    <3> QED BY <3>1, <3>2 DEF TypeOK
  <2>6. whole' \subseteq Entries
        BY Kinds DEF TypeOK, Idles, Syncs, Makes, Fills, Renames, Removes
  <2>7. owns' \in [Calls -> BOOLEAN]
    <3>1. owns' \in {owns, [owns EXCEPT ![c] = TRUE], [owns EXCEPT ![c] = FALSE]}
          BY Kinds DEF Idles, Syncs, Makes, Fills, Renames, Removes
    <3> QED BY <3>1 DEF TypeOK
  <2> QED BY <2>3, <2>4, <2>5, <2>6, <2>7
<1> QED BY <1>3, <1>4 DEF TypeOK

\* What lasts: an entry that is made, filled or synced stays so.
LEMMA StoreStays ==
    ASSUME Bootstrapped, NEW c \in Calls, Perform(c)
    PROVE  /\ \A e \in Lasting : /\ disk[e] # None => disk'[e] = disk[e]
                                 /\ kept[e] # None => kept'[e] = kept[e]
                                 /\ disk[e] # None /\ e \in whole => e \in whole'
           /\ OneCreator' /\ Established'
<1> USE DEF Bootstrapped
<1>1. Entries = {"checkpoints", "wal", "private", "dir", "lock", "checkpoint", "candidate", "HEAD"}
      BY DEF Entries, Layout
<1>2. Lasting = {"checkpoints", "wal", "private", "dir", "checkpoint", "HEAD"}
      BY <1>1 DEF Lasting
<1>3. Layout \cup {"dir", "checkpoint"} = {"checkpoints", "wal", "private", "dir", "checkpoint"}
      BY DEF Layout
<1>4. \A e \in Lasting : disk[e] \in Calls \cup {None} /\ kept[e] \in Calls \cup {None}
      BY <1>1, <1>2 DEF TypeOK
<1> DEFINE Keeps ==
        \A e \in Lasting : /\ disk[e] # None => disk'[e] = disk[e]
                           /\ kept[e] # None => kept'[e] = kept[e]
                           /\ disk[e] # None /\ e \in whole => e \in whole'
<1>5. CASE Idles \/ Removes(c) \/ Makes(c, "lock")
  <2>1. \A e \in Entries \ {"lock"} : disk'[e] = disk[e] /\ kept'[e] = kept[e] /\ (e \in whole' <=> e \in whole)
        BY <1>1, <1>5 DEF Idles, Removes, Makes, TypeOK
  <2> QED BY <1>1, <1>2, <1>3, <2>1 DEF OneCreator, Established
<1>6. ASSUME NEW e \in Entries, Fills(c, e) PROVE Keeps /\ OneCreator' /\ Established'
  <2>1. UNCHANGED <<disk, kept>> /\ whole \subseteq whole'
        BY <1>6 DEF Fills
  <2> QED BY <2>1 DEF OneCreator, Established
<1>7. ASSUME NEW folder, Syncs(folder) PROVE Keeps /\ OneCreator' /\ Established'
  <2>1. UNCHANGED <<disk, whole>> /\ \A e \in Entries : kept'[e] \in {disk[e], kept[e]}
        BY <1>7 DEF Syncs
  <2> QED BY <1>1, <1>2, <1>3, <2>1 DEF OneCreator, Established
<1>8. ASSUME NEW e \in (Lasting \cup {"candidate"}) \ {"HEAD"}, Makes(c, e), Past(c, "create", 1),
             e # "dir" => disk["dir"] = c
      PROVE  Keeps /\ OneCreator' /\ Established'
  <2>1. /\ \A x \in Entries \ {e} : disk'[x] = disk[x] /\ (x \in whole' <=> x \in whole)
        /\ kept' = kept /\ disk[e] = None /\ disk'[e] = c
        BY <1>1, <1>2, <1>8 DEF Makes, TypeOK
  <2>2. c # None /\ Mode[c] # "existing"
        BY <1>8, ModesOK DEF Creating, Past
  <2>3. Keeps
        BY <1>2, <1>1, <2>1
  <2>4. OneCreator'
    <3>1. CASE e = "dir"
      <4>1. \A x \in Entries \ {"lock"} : disk[x] = None /\ kept[x] = None
            BY <2>1, <3>1 DEF OneCreator
      <4> QED BY <1>1, <1>2, <2>1, <2>2, <3>1, <4>1 DEF OneCreator
    <3>2. CASE e # "dir"
          BY <1>1, <1>2, <1>8, <2>1, <2>2, <3>2 DEF OneCreator
    <3> QED BY <3>1, <3>2
  <2>5. Established'
    <3>1. disk'["HEAD"] = disk["HEAD"]
          BY <1>1, <1>8, <2>1
    <3>2. disk["HEAD"] # None => e = "candidate"
          BY <1>2, <1>3, <2>1 DEF Established
    <3> QED BY <1>1, <1>3, <2>1, <3>1, <3>2 DEF Established
  <2> QED BY <2>3, <2>4, <2>5
<1>9. CASE Renames /\ Past(c, "create", 18) /\ at[c] = 19
  <2>1. /\ disk["dir"] = c /\ disk["candidate"] = c /\ "candidate" \in whole /\ "checkpoint" \in whole
        /\ \A e \in Layout \cup {"dir", "checkpoint"} : disk[e] = c /\ kept[e] = c
        BY <1>3, <1>9 DEF Creating, Past, Layout
  <2>2. /\ disk'["HEAD"] = c /\ disk'["candidate"] = None /\ kept' = kept
        /\ \A e \in Entries \ {"HEAD", "candidate"} : disk'[e] = disk[e] /\ (e \in whole' <=> e \in whole)
        /\ "HEAD" \in whole'
        BY <1>1, <1>9, <2>1 DEF Renames, TypeOK
  <2>3. disk["HEAD"] \in {None, c} /\ kept["HEAD"] \in {None, c} /\ kept["candidate"] \in {None, c}
        BY <1>1, <2>1 DEF OneCreator
  <2>4. Keeps /\ Established'
        BY <1>1, <1>2, <1>3, <2>1, <2>2, <2>3 DEF Established
  <2>5. OneCreator'
        BY <1>1, <1>2, <1>3, <2>1, <2>2, <2>3 DEF OneCreator
  <2> QED BY <2>4, <2>5
<1> QED BY <1>5, <1>6, <1>7, <1>8, <1>9, Kinds

\* What a call relies on, no other call's step takes away.
LEMMA OtherCall ==
    ASSUME Bootstrapped, NEW c \in Calls, Perform(c), NEW q \in Calls \ {c}
    PROVE  Locking(q)' /\ Creating(q)' /\ Recovering(q)'
<1> USE DEF Bootstrapped
<1>1. Entries = {"checkpoints", "wal", "private", "dir", "lock", "checkpoint", "candidate", "HEAD"}
      BY DEF Entries, Layout
<1>2. Lasting = {"checkpoints", "wal", "private", "dir", "checkpoint", "HEAD"}
      BY <1>1 DEF Lasting
<1>3. /\ path'[q] = path[q] /\ at'[q] = at[q] /\ good'[q] = good[q]
      BY Leads, StepTyped DEF Perform, Goto, TypeOK
<1>4. base'[q] = base[q] /\ owns'[q] = owns[q]
  <2>1. owns' \in {owns, [owns EXCEPT ![c] = TRUE], [owns EXCEPT ![c] = FALSE]}
        BY Kinds DEF Idles, Syncs, Makes, Fills, Renames, Removes
  <2>2. base' \in {base, [base EXCEPT ![c] = disk[Current(c).of]]}
        BY DEF Perform, Effect
  <2> QED BY <2>1, <2>2 DEF TypeOK
<1>5. disk["lock"] = q => disk'["lock"] = q
  <2>1. q # None /\ (owns[c] => disk["lock"] = c)
        BY ModesOK DEF Locking
  <2>2. disk["lock"] = None \/ disk["lock"] = c \/ disk'["lock"] = disk["lock"]
    <3>1. Makes(c, "lock") => disk["lock"] = None
          BY DEF Makes
    <3>2. Removes(c) /\ owns[c] => disk["lock"] = c
          BY <2>1
    <3>3. \A e \in (Lasting \cup {"candidate"}) \ {"HEAD"} : Makes(c, e) => disk'["lock"] = disk["lock"]
          BY <1>1 DEF Makes, TypeOK, Lasting
    <3>4. Renames => disk'["lock"] = disk["lock"]
          BY <1>1 DEF Renames, TypeOK
    <3>5. /\ Idles \/ (\E folder : Syncs(folder)) => disk' = disk
          /\ (\E e \in Entries : Fills(c, e)) => disk' = disk
          BY DEF Idles, Syncs, Fills
    <3> QED BY <3>1, <3>2, <3>3, <3>4, <3>5, Kinds
  <2> QED BY <2>1, <2>2
<1>6. ASSUME disk["dir"] = q, disk["candidate"] = q
      PROVE  disk'["candidate"] = q /\ ("candidate" \in whole => "candidate" \in whole')
  <2>1. q # None /\ (Past(c, "create", 18) => disk["dir"] = c)
        BY ModesOK DEF Creating, Past, TypeOK
  <2>2. ~Renames \/ ~Past(c, "create", 18)
        BY <1>6, <2>1
  <2> QED BY <1>1, <1>6, <2>1, <2>2, Kinds DEF Idles, Syncs, Makes, Fills, Removes, TypeOK, Lasting
<1>7. q # None /\ \A e \in Lasting : /\ disk[e] = q => disk'[e] = q
                                     /\ kept[e] = q => kept'[e] = q
                                     /\ disk[e] = q /\ e \in whole => e \in whole'
      BY ModesOK, StoreStays
<1>8. Locking(q)'
      BY <1>3, <1>4, <1>5 DEF Locking, Past
<1>9. at[q] \in Nat /\ Creating(q) /\ Recovering(q)
      BY DEF TypeOK
<1>10. Creating(q)'
  <2>1. /\ Past(q, "create", 5) => Past(q, "create", 2)
        /\ Past(q, "create", 14) => Past(q, "create", 2)
        /\ Past(q, "create", 15) => Past(q, "create", 14)
        /\ Past(q, "create", 9) => Past(q, "create", 8)
        BY <1>9 DEF Past
  <2>2. \A n \in {2, 5, 6, 7, 8, 9, 10, 12, 13, 14, 15, 19} :
            Past(q, "create", n)' <=> Past(q, "create", n)
        BY <1>3 DEF Past
  <2> QED BY <1>2, <1>3, <1>4, <1>6, <1>7, <1>9, <2>1, <2>2 DEF Creating, Layout
<1>11. Recovering(q)'
  <2>1. /\ disk["HEAD"] # None => disk'["HEAD"] = disk["HEAD"]
        /\ kept["HEAD"] # None => kept'["HEAD"] = kept["HEAD"]
        BY <1>2, StoreStays
  <2>2. Past(q, "recover", 9) => Past(q, "recover", 6)
        BY <1>9 DEF Past
  <2>3. /\ Past(q, "recover", 6)' <=> Past(q, "recover", 6)
        /\ Past(q, "recover", 9)' <=> Past(q, "recover", 9)
        BY <1>3 DEF Past
  <2> QED BY <1>2, <1>3, <1>4, <1>7, <1>9, <2>1, <2>2, <2>3 DEF Recovering
<1> QED BY <1>8, <1>10, <1>11

\* A creation, at each of its steps.
LEMMA OwnCreation ==
    ASSUME Bootstrapped, NEW c \in Calls, Perform(c), path[c] = "create"
    PROVE  Locking(c)' /\ Creating(c)' /\ Recovering(c)'
<1> USE DEF Bootstrapped
<1>1. Entries = {"checkpoints", "wal", "private", "dir", "lock", "checkpoint", "candidate", "HEAD"}
      BY DEF Entries, Layout
<1>2. Lasting = {"checkpoints", "wal", "private", "dir", "checkpoint", "HEAD"}
      BY <1>1 DEF Lasting
<1>3. /\ c # None /\ at[c] \in 1..23 /\ at[c] \in Nat
      /\ Locking(c) /\ Creating(c) /\ Recovering(c)
      BY ModesOK, CreationSteps DEF TypeOK
<1>4. base' = base
      BY CreationSteps DEF Syncs, Makes, Fills, Renames, Removes
<1>5. \A e \in Lasting : /\ disk[e] = c => disk'[e] = c
                         /\ kept[e] = c => kept'[e] = c
                         /\ disk[e] = c /\ e \in whole => e \in whole'
      BY <1>3, StoreStays
<1>6. Locking(c)'
  <2>1. at[c] = 3 => disk'["lock"] = c /\ owns' = owns
        BY <1>1, CreationSteps DEF Makes, TypeOK
  <2>2. at[c] = 4 => disk' = disk /\ owns'[c] = TRUE
        BY CreationSteps DEF Fills, TypeOK
  <2>3. at[c] = 22 => owns'[c] = FALSE
        BY CreationSteps DEF Removes, TypeOK
  <2>4. at[c] \notin {3, 4, 22} => owns' = owns /\ disk'["lock"] = disk["lock"]
    <3>1. at[c] \in {1, 10, 11, 12, 13, 16, 17, 18, 20, 21, 23} => UNCHANGED <<disk, owns>>
          BY CreationSteps DEF Idles, Syncs
    <3>2. at[c] \in {2, 5, 6, 7, 8, 14, 19} => owns' = owns /\ disk'["lock"] = disk["lock"]
          BY <1>1, CreationSteps DEF Makes, Renames, TypeOK
    <3>3. at[c] \in {9, 15} => UNCHANGED <<disk, owns>>
          BY CreationSteps DEF Fills
    <3> QED BY <1>3, <3>1, <3>2, <3>3
  <2>5. CASE at[c] < 23
    <3>1. path'[c] = "create" /\ at'[c] = at[c] + 1
          BY <2>5, CreationSteps DEF Continues, TypeOK
    <3> QED BY <1>3, <2>1, <2>2, <2>3, <2>4, <2>5, <3>1 DEF Locking, Past
  <2>6. CASE at[c] = 23
    <3>1. path'[c] = "recover" /\ at'[c] = 1
          BY <2>6, CreationSteps DEF Turns, TypeOK
    <3> QED BY <1>3, <2>4, <2>6, <3>1 DEF Locking, Past
  <2> QED BY <1>3, <2>5, <2>6
<1>7. CASE at[c] < 23
  <2>1. path'[c] = "create" /\ at'[c] = at[c] + 1 /\ good'[c] = good[c]
        BY <1>7, CreationSteps DEF Continues, TypeOK
  <2>2. /\ at[c] = 2 => disk'["dir"] = c
        /\ at[c] = 5 => disk'["checkpoints"] = c
        /\ at[c] = 6 => disk'["wal"] = c
        /\ at[c] = 7 => disk'["private"] = c
        /\ at[c] = 8 => disk'["checkpoint"] = c
        /\ at[c] = 9 => "checkpoint" \in whole'
        /\ at[c] = 14 => disk'["candidate"] = c
        /\ at[c] = 15 => "candidate" \in whole' /\ disk' = disk
        BY <1>1, CreationSteps DEF Makes, Fills, TypeOK
  <2>3. /\ at[c] = 10 => kept'["checkpoint"] = disk["checkpoint"]
        /\ at[c] = 12 => \A e \in Layout : kept'[e] = disk[e]
        /\ at[c] = 13 => kept'["dir"] = disk["dir"]
    <3>1. /\ Folder("checkpoint") = "checkpoints" /\ Folder("dir") = "parent"
          /\ \A e \in Layout : Folder(e) = "dir" /\ e \in Entries
          BY <1>1 DEF Folder, Layout
    <3> QED BY <1>1, <3>1, CreationSteps DEF Syncs
  <2>4. at[c] = 19 => disk'["HEAD"] = c
    <3>1. at[c] = 19 => disk["candidate"] = c
          BY <1>3 DEF Creating, Past
    <3> QED BY <1>1, <3>1, CreationSteps DEF Renames, TypeOK
  <2>5. at[c] \in {16, 17, 18} => UNCHANGED <<disk, whole>>
        BY CreationSteps DEF Idles, Syncs
  <2>6. \A n \in {2, 5, 6, 7, 8, 9, 10, 12, 13, 14, 15, 19} :
            Past(c, "create", n)' => Past(c, "create", n) \/ at[c] = n
        BY <1>3, <2>1 DEF Past
  <2>7. Creating(c)'
    <3>1. /\ path'[c] \in {"restart", "create"} => Mode[c] # "existing"
          /\ base'[c] = c
          BY <1>3, <1>4 DEF Creating
    <3>2. /\ Past(c, "create", 2)' => disk'["dir"] = c
          /\ Past(c, "create", 5)' => disk'["checkpoints"] = c
          /\ Past(c, "create", 6)' => disk'["wal"] = c
          /\ Past(c, "create", 7)' => disk'["private"] = c
          /\ Past(c, "create", 8)' => disk'["checkpoint"] = c
          /\ Past(c, "create", 19)' => disk'["HEAD"] = c
          BY <1>2, <1>3, <1>5, <2>2, <2>4, <2>6 DEF Creating
    <3>3. \A m, n \in {2, 5, 6, 7, 8, 9, 10, 12, 13, 14, 15, 19} :
            m > n /\ at[c] = m => Past(c, "create", n)
          BY <1>3 DEF Past
    <3>4. Past(c, "create", 9)' => "checkpoint" \in whole'
      <4>1. Past(c, "create", 9) => disk["checkpoint"] = c /\ "checkpoint" \in whole
            BY <1>3 DEF Creating, Past
      <4> QED BY <1>2, <1>5, <2>2, <2>6, <4>1
    <3>5. /\ Past(c, "create", 10)' => kept'["checkpoint"] = c
          /\ Past(c, "create", 12)' => \A e \in Layout : kept'[e] = c
          /\ Past(c, "create", 13)' => kept'["dir"] = c
      <4>1. /\ at[c] = 10 => disk["checkpoint"] = c
            /\ at[c] = 12 => \A e \in Layout : disk[e] = c
            /\ at[c] = 13 => disk["dir"] = c
            BY <1>3 DEF Creating, Past, Layout
      <4>2. /\ Past(c, "create", 10) => kept["checkpoint"] = c
            /\ Past(c, "create", 12) => \A e \in Layout : kept[e] = c
            /\ Past(c, "create", 13) => kept["dir"] = c
            BY <1>3 DEF Creating
      <4> QED BY <1>2, <1>5, <2>3, <2>6, <4>1, <4>2 DEF Layout
    <3>6. ASSUME at'[c] < 20
          PROVE  /\ Past(c, "create", 14)' => disk'["candidate"] = c
                 /\ Past(c, "create", 15)' => "candidate" \in whole'
      <4>1. at[c] < 19
            BY <1>3, <2>1, <3>6
      <4>2. at[c] > 15 => at[c] \in {16, 17, 18}
            BY <1>3, <4>1
      <4>3. /\ at[c] > 14 => disk["candidate"] = c
            /\ at[c] > 15 => "candidate" \in whole
            BY <1>3, <4>1 DEF Creating, Past
      <4>4. /\ Past(c, "create", 14)' => at[c] = 14 \/ at[c] = 15 \/ at[c] > 15
            /\ Past(c, "create", 15)' => at[c] = 15 \/ at[c] > 15
            BY <1>3, <2>1 DEF Past
      <4> QED BY <1>3, <2>2, <2>5, <4>2, <4>3, <4>4
    <3> QED BY <3>1, <3>2, <3>4, <3>5, <3>6 DEF Creating
  <2>8. Recovering(c)'
        BY <1>3, <2>1 DEF Recovering, Past
  <2> QED BY <1>6, <2>7, <2>8
<1>8. CASE at[c] = 23
  <2>1. path'[c] = "recover" /\ at'[c] = 1
        BY <1>8, CreationSteps DEF Turns, TypeOK
  <2>2. disk["HEAD"] = c /\ disk'["HEAD"] = c
        BY <1>2, <1>3, <1>5, <1>8 DEF Creating, Past
  <2>3. ~good'[c]
    <3>1. good' = [good EXCEPT ![c] = @ \/ path[c] = "recover"]
          BY <1>8, CreationSteps DEF Turns
    <3>2. ~good[c] /\ good \in [Calls -> BOOLEAN]
          BY <1>3 DEF Recovering, TypeOK
    <3> QED BY <3>1, <3>2
  <2> QED BY <1>6, <2>1, <2>2, <2>3 DEF Creating, Recovering, Past
<1> QED BY <1>3, <1>7, <1>8

LEMMA OwnRecovery ==
    ASSUME Bootstrapped, NEW c \in Calls, Perform(c), path[c] = "recover"
    PROVE  Locking(c)' /\ Creating(c)' /\ Recovering(c)'
<1> USE DEF Bootstrapped
<1>1. "lock" \in Entries /\ "HEAD" \in Entries /\ "HEAD" \in Lasting /\ Folder("HEAD") = "dir"
      BY DEF Entries, Lasting, Folder
<1>2. /\ c # None /\ at[c] \in 1..15 /\ at[c] \in Nat
      /\ Locking(c) /\ Recovering(c) /\ ~good[c]
      BY ModesOK, RecoverySteps DEF TypeOK, Recovering
<1>3. /\ disk["HEAD"] # None => disk'["HEAD"] = disk["HEAD"]
      /\ kept["HEAD"] # None => kept'["HEAD"] = kept["HEAD"]
      BY <1>1, StoreStays
<1>4. /\ at[c] = 7 => disk'["lock"] = c /\ owns' = owns
      /\ at[c] = 8 => disk' = disk /\ owns'[c] = TRUE
      /\ at[c] \notin {7, 8} => disk' = disk /\ owns' = owns
  <2>1. at[c] = 7 => disk'["lock"] = c /\ owns' = owns
        BY <1>1, RecoverySteps DEF Makes, TypeOK
  <2>2. at[c] = 8 => disk' = disk /\ owns'[c] = TRUE
        BY RecoverySteps DEF Fills, TypeOK
  <2>3. at[c] \in {1, 2, 3, 10, 11, 12, 13, 14, 15, 4, 9, 5, 6} => disk' = disk /\ owns' = owns
        BY RecoverySteps DEF Idles, Syncs
  <2> QED BY <1>2, <2>1, <2>2, <2>3
<1>5. at[c] > 6 => base' = base
  <2>1. at[c] \in {7, 8, 9, 10, 11, 12, 13, 14, 15} => base' = base
        BY RecoverySteps DEF Syncs, Makes, Fills
  <2> QED BY <1>2, <2>1
<1>6. at[c] >= 6 => base'[c] = disk'["HEAD"] /\ base'[c] # None
  <2>1. at[c] = 6 => base'[c] = disk["HEAD"] /\ disk["HEAD"] # None
        BY RecoverySteps DEF TypeOK
  <2>2. at[c] > 6 => base'[c] = disk["HEAD"] /\ disk["HEAD"] # None
        BY <1>2, <1>5 DEF Recovering, Past
  <2> QED BY <1>2, <1>3, <2>1, <2>2
<1>7. at[c] >= 9 => kept'["HEAD"] = base'[c]
  <2>1. at[c] = 9 => kept'["HEAD"] = disk["HEAD"] /\ disk' = disk
        BY <1>1, RecoverySteps DEF Syncs
  <2>2. at[c] > 9 => kept["HEAD"] = base'[c] /\ base'[c] # None
        BY <1>2, <1>5, <1>6 DEF Recovering, Past
  <2> QED BY <1>2, <1>3, <1>6, <2>1, <2>2
<1>8. Mode[c] = "create" => disk'["HEAD"] = c
      BY <1>2, <1>3 DEF Recovering
<1>9. CASE at[c] < 15
  <2>1. path'[c] = "recover" /\ at'[c] = at[c] + 1 /\ good' = good
        BY <1>9, RecoverySteps DEF Continues, TypeOK
  <2>2. Locking(c)'
        BY <1>2, <1>4, <2>1 DEF Locking, Past
  <2>3. Recovering(c)'
        BY <1>2, <1>6, <1>7, <1>8, <2>1 DEF Recovering, Past
  <2> QED BY <2>1, <2>2, <2>3 DEF Creating, Past
<1>10. CASE at[c] = 15
  <2>1. path'[c] = "release" /\ at'[c] = 1
        BY <1>10, RecoverySteps DEF Turns, TypeOK
  <2>2. Locking(c)'
        BY <1>2, <1>4, <1>10, <2>1 DEF Locking, Past
  <2>3. Recovering(c)'
        BY <1>6, <1>7, <1>8, <1>10, <2>1 DEF Recovering, Past
  <2> QED BY <2>1, <2>2, <2>3 DEF Creating, Past
<1> QED BY <1>2, <1>9, <1>10

LEMMA OwnOther ==
    ASSUME Bootstrapped, NEW c \in Calls, Perform(c), path[c] \notin {"create", "recover"}
    PROVE  Locking(c)' /\ Creating(c)' /\ Recovering(c)'
<1> USE DEF Bootstrapped
<1>1. "lock" \in Entries /\ "HEAD" \in Lasting
      BY DEF Entries, Lasting
<1>2. Locking(c) /\ Recovering(c) /\ at[c] \in Nat
      BY DEF TypeOK
<1>3. /\ disk["HEAD"] # None => disk'["HEAD"] = disk["HEAD"]
      /\ kept["HEAD"] # None => kept'["HEAD"] = kept["HEAD"]
      BY <1>1, StoreStays
<1>4. good'[c] <=> good[c]
  <2>1. good' = good \/ good' = [good EXCEPT ![c] = @ \/ path[c] = "recover"]
        BY OtherSteps DEF Continues, Turns
  <2>2. good \in [Calls -> BOOLEAN] /\ path[c] # "recover"
        BY DEF TypeOK
  <2> QED BY <2>1, <2>2
<1>5. CASE path[c] \in {"inspect", "again"}
  <2>1. UNCHANGED <<disk, kept, owns>>
        BY <1>5, OtherSteps DEF Idles
  <2>2. ~good[c] /\ ~good'[c]
        BY <1>2, <1>4, <1>5 DEF Recovering
  <2>3. CASE Continues(c)
    <3>1. path'[c] = path[c]
          BY <2>3 DEF Continues
    <3> QED BY <1>2, <1>5, <2>1, <2>2, <3>1 DEF Locking, Creating, Recovering, Past
  <2>4. CASE Turns(c, After(c))
    <3>1. /\ path'[c] \in {"refused", "recover"} /\ at'[c] = 1
          /\ path'[c] = "recover" => Mode[c] # "create"
          BY <1>5, <2>4 DEF Turns, After, TypeOK
    <3> QED BY <1>2, <2>1, <2>2, <3>1 DEF Locking, Creating, Recovering, Past
  <2> QED BY <1>5, <2>3, <2>4, OtherSteps
<1>6. CASE path[c] = "release"
  <2>1. base' = base
        BY <1>6, OtherSteps DEF Syncs, Removes
  <2>2. CASE at[c] = 1
    <3>1. path'[c] = "release" /\ at'[c] = 2 /\ UNCHANGED <<disk, kept, owns>>
          BY <1>6, <2>2, OtherSteps DEF Continues, Idles, TypeOK
    <3> QED BY <1>2, <1>4, <1>6, <2>1, <2>2, <3>1 DEF Locking, Creating, Recovering, Past
  <2>3. CASE at[c] = 2
    <3>1. path'[c] = "release" /\ at'[c] = 3 /\ owns'[c] = FALSE
          BY <1>6, <2>3, OtherSteps DEF Continues, Removes, TypeOK
    <3>2. disk'["HEAD"] = disk["HEAD"] /\ kept' = kept /\ "HEAD" \in Entries /\ "HEAD" # "lock"
          BY <1>6, <2>3, OtherSteps DEF Removes, TypeOK, Entries
    <3>3. Locking(c)' /\ Creating(c)'
          BY <3>1 DEF Locking, Creating, Past
    <3>4. Recovering(c)'
          BY <1>2, <1>4, <1>6, <2>1, <3>1, <3>2 DEF Recovering, Past
    <3> QED BY <3>3, <3>4
  <2>4. CASE at[c] = 3
    <3>1. /\ UNCHANGED <<disk, owns>>
          /\ path'[c] \in {"opened", "refused"} /\ (path'[c] = "opened" => good[c])
      <4>1. UNCHANGED <<disk, owns>> /\ path' = [path EXCEPT ![c] = After(c)]
            BY <1>6, <2>4, OtherSteps DEF Turns, Syncs
      <4>2. After(c) = IF good[c] THEN "opened" ELSE "refused"
            BY <1>6 DEF After
      <4> QED BY <4>1, <4>2 DEF TypeOK
    <3> QED BY <1>2, <1>3, <1>4, <1>6, <2>1, <3>1 DEF Locking, Creating, Recovering, Past
  <2> QED BY <1>6, <2>2, <2>3, <2>4, OtherSteps
<1>7. CASE path[c] = "cleanup"
  <2>1. path'[c] = "refused" /\ owns'[c] = FALSE
        BY <1>7, OtherSteps DEF Turns, Removes, TypeOK
  <2> QED BY <2>1 DEF Locking, Creating, Recovering, Past
<1> QED BY <1>5, <1>6, <1>7, OtherSteps

LEMMA PerformKeeps ==
    ASSUME Bootstrapped, NEW c \in Calls, Perform(c)
    PROVE  Bootstrapped'
<1>1. TypeOK' /\ OneCreator' /\ Established'
      BY StepTyped, StoreStays
<1>2. ASSUME NEW q \in Calls PROVE Locking(q)' /\ Creating(q)' /\ Recovering(q)'
  <2>1. CASE q # c
        BY <2>1, OtherCall
  <2>2. CASE q = c
        BY <2>2, OwnCreation, OwnRecovery, OwnOther
  <2> QED BY <2>1, <2>2
<1> QED BY <1>1, <1>2 DEF Bootstrapped

\* A call that only goes elsewhere, and keeps what it may keep there.
LEMMA GoesKeeps ==
    ASSUME Bootstrapped, NEW c \in Calls, Fails(c) \/ Look(c) \/ Crash(c)
    PROVE  Bootstrapped'
<1> USE DEF Bootstrapped
<1>1. /\ UNCHANGED <<disk, kept, whole, good>>
      /\ \A q \in Calls \ {c} : path'[q] = path[q] /\ at'[q] = at[q] /\ base'[q] = base[q] /\ owns'[q] = owns[q]
      /\ at'[c] = 1
      BY DEF Fails, Look, Crash, Goto, TypeOK
<1>2. OneCreator' /\ Established'
      BY <1>1 DEF OneCreator, Established
<1>3. \A q \in Calls \ {c} : Locking(q)' /\ Creating(q)' /\ Recovering(q)'
      BY <1>1 DEF Locking, Creating, Recovering, Past
<1>4. CASE Fails(c)
  <2>1. /\ path'[c] \in {"cleanup", "release", "refused"} /\ base' = base /\ owns' = owns
        /\ path'[c] = "cleanup" => owns[c]
        /\ path'[c] = "release" => owns[c] /\ path[c] = "recover"
        BY <1>4 DEF Fails, Goto, TypeOK
  <2>2. Working(c) /\ path[c] \in DOMAIN Program
        BY <1>4 DEF Fails, Working
  <2>3. Locking(c)' /\ Creating(c)' /\ Recovering(c)'
    <3>1. Locking(c) /\ Recovering(c)
          OBVIOUS
    <3>2. Locking(c)'
          BY <1>1, <2>1, <3>1 DEF Locking, Past
    <3>3. Creating(c)'
          BY <1>1, <2>1 DEF Creating, Past
    <3>4. path[c] = "recover" => ~good[c]
          BY <3>1 DEF Recovering
    <3>5. good' = good /\ disk' = disk /\ kept' = kept
          BY <1>1
    <3>6. good[c] => path'[c] \in {"release", "refused"}
      <4>1. good[c] => path[c] \in {"release", "opened", "refused", "dead"}
            BY <3>1 DEF Recovering
      <4> QED BY <1>4, <2>1, <4>1 DEF Fails, Goto, TypeOK
    <3>7. path'[c] = "release" => ~good'[c] /\ (Mode[c] = "create" => disk'["HEAD"] = c)
          BY <2>1, <3>1, <3>4, <3>5 DEF Recovering
    <3>8. path'[c] \in {"cleanup", "release", "refused"} /\ (good'[c] => path'[c] \in {"release", "refused"})
          BY <2>1, <3>5, <3>6
    <3>9. Recovering(c)'
          BY <3>7, <3>8 DEF Recovering, Past
    <3> QED BY <3>2, <3>3, <3>9
  <2>4. TypeOK'
    <3>1. path' = [path EXCEPT ![c] = path'[c]] /\ at' = [at EXCEPT ![c] = 1]
          BY <1>4 DEF Fails, Goto, TypeOK
    <3> QED BY <1>1, <2>1, <3>1, Parts DEF TypeOK, Working
  <2> QED BY <1>2, <1>3, <2>3, <2>4
<1>5. CASE Look(c)
  <2>1. /\ path'[c] \in {"inspect", "again", "refused", "restart", "create"} /\ owns' = owns
        /\ path'[c] \in {"restart", "create"} => Mode[c] # "existing" /\ base'[c] = c
        /\ path[c] \in {"start", "restart"}
        BY <1>5 DEF Look, Goto, TypeOK
  <2>2. Locking(c)' /\ Creating(c)' /\ Recovering(c)'
        BY <1>1, <2>1 DEF Locking, Creating, Recovering, Past
  <2>3. TypeOK'
    <3>1. /\ path' = [path EXCEPT ![c] = path'[c]] /\ at' = [at EXCEPT ![c] = 1]
          /\ base' \in {base, [base EXCEPT ![c] = c]}
          BY <1>5 DEF Look, Goto, TypeOK
    <3>2. path'[c] \in DOMAIN Program => 1 \in 1..Len(Program[path'[c]])
          BY <2>1, Parts
    <3>3. /\ path' \in [Calls -> DOMAIN Program \cup {"start", "restart", "opened", "refused", "dead"}]
          /\ at' \in [Calls -> Nat] /\ base' \in [Calls -> Calls \cup {None}]
      <4>1. path'[c] \in DOMAIN Program \cup {"start", "restart", "opened", "refused", "dead"}
            BY <2>1, Parts
      <4>2. 1 \in Nat
            OBVIOUS
      <4> QED BY <3>1, <4>1, <4>2 DEF TypeOK
    <3>4. \A q \in Calls : Working(q)' => at'[q] \in 1..Len(Program[path'[q]])
          BY <1>1, <3>2 DEF TypeOK, Working
    <3> QED BY <1>1, <2>1, <3>3, <3>4 DEF TypeOK
  <2> QED BY <1>2, <1>3, <2>2, <2>3
<1>6. CASE Crash(c)
  <2>1. path'[c] = "dead" /\ base' = base /\ owns'[c] = FALSE
        BY <1>6 DEF Crash, Goto, TypeOK
  <2>2. Locking(c)' /\ Creating(c)' /\ Recovering(c)'
        BY <1>1, <2>1 DEF Locking, Creating, Recovering, Past
  <2>3. TypeOK'
    <3>1. /\ path' = [path EXCEPT ![c] = "dead"] /\ at' = [at EXCEPT ![c] = 1]
          /\ owns' = [owns EXCEPT ![c] = FALSE]
          BY <1>6 DEF Crash, Goto
    <3> QED BY <1>1, <2>1, <3>1, Parts DEF TypeOK, Working
  <2> QED BY <1>2, <1>3, <2>2, <2>3
<1> QED BY <1>4, <1>5, <1>6

\* Once HEAD is visible, all it needs is synced: a power loss takes none of
\* it.  Before, a directory that is lost takes everything with it.
LEMMA PowerKeeps ==
    ASSUME Bootstrapped, LosePower
    PROVE  Bootstrapped'
<1> USE DEF Bootstrapped
<1>1. Entries = {"checkpoints", "wal", "private", "dir", "lock", "checkpoint", "candidate", "HEAD"}
      BY DEF Entries, Layout
<1>2. Lasting = {"checkpoints", "wal", "private", "dir", "checkpoint", "HEAD"}
      BY <1>1 DEF Lasting
<1>3. Layout \cup {"dir", "checkpoint"} = {"checkpoints", "wal", "private", "dir", "checkpoint"}
      BY DEF Layout
<1>4. PICK image \in [Entries -> Calls \cup {None}] :
         /\ \A e \in Entries : image[e] \in {disk[e], kept[e]}
         /\ disk' = [e \in Entries |->
                      IF /\ e = "dir" \/ image["dir"] # None
                         /\ Folder(e) \in {"parent", "dir"} \/ image[Folder(e)] # None
                      THEN image[e] ELSE None]
         /\ kept' = disk' /\ whole' = {e \in whole : disk'[e] # None}
  <2>1. PICK lost \in SUBSET {e \in Entries : disk[e] # kept[e]} :
          LET image == [e \in Entries |-> IF e \in lost THEN kept[e] ELSE disk[e]]
              inDir(e) == e = "dir" \/ image["dir"] # None
              linked(e) == inDir(e) /\ (Folder(e) \in {"parent", "dir"} \/ image[Folder(e)] # None)
              left == [e \in Entries |-> IF linked(e) THEN image[e] ELSE None]
          IN  disk' = left /\ kept' = left /\ whole' = {e \in whole : left[e] # None}
        BY DEF LosePower
  <2>2. [e \in Entries |-> IF e \in lost THEN kept[e] ELSE disk[e]] \in [Entries -> Calls \cup {None}]
        BY DEF TypeOK
  <2> QED BY <2>1, <2>2
<1>5. /\ \A q \in Calls : path'[q] \in {"start", "dead"} /\ at'[q] = 1 /\ owns'[q] = FALSE
      /\ \A q \in Calls : path'[q] = "start" => path[q] = "start"
      /\ base' = base /\ good' = good
      BY DEF LosePower
<1>6. \A q \in Calls : Locking(q)' /\ Creating(q)' /\ Recovering(q)'
      BY <1>5 DEF Locking, Creating, Recovering, Past
<1>7. TypeOK'
  <2>1. /\ disk' \in [Entries -> Calls \cup {None}] /\ kept' \in [Entries -> Calls \cup {None}]
        /\ whole' \subseteq Entries
        BY <1>4 DEF TypeOK
  <2>2. /\ path' \in [Calls -> DOMAIN Program \cup {"start", "restart", "opened", "refused", "dead"}]
        /\ at' \in [Calls -> Nat] /\ owns' \in [Calls -> BOOLEAN]
        BY DEF LosePower
  <2>3. \A q \in Calls : ~Working(q)'
        BY <1>5, Parts DEF Working
  <2> QED BY <1>5, <2>1, <2>2, <2>3 DEF TypeOK
<1>8. \A e \in Entries \ {"lock"} : disk'[e] \in {None, disk["dir"]} /\ (disk'[e] # None => disk'["dir"] = disk["dir"])
  <2>1. Folder("dir") = "parent"
        BY DEF Folder
  <2>2. disk'["dir"] = image["dir"] /\ image["dir"] \in {None, disk["dir"]}
        BY <1>1, <1>4, <2>1 DEF OneCreator
  <2>3. \A e \in Entries \ {"lock"} : image[e] \in {None, disk["dir"]}
        BY <1>4 DEF OneCreator
  <2>4. \A e \in Entries \ {"dir"} : disk'[e] # None => image["dir"] # None /\ disk'[e] = image[e]
        BY <1>4
  <2> QED BY <1>1, <2>2, <2>3, <2>4
<1>9. OneCreator'
      BY <1>1, <1>2, <1>4, <1>8 DEF OneCreator
<1>10. Established'
  <2> SUFFICES ASSUME disk'["HEAD"] # None PROVE Established'
      BY DEF Established
  <2>1. image["HEAD"] # None /\ disk'["HEAD"] = image["HEAD"]
        BY <1>1, <1>4
  <2>2. disk["HEAD"] # None /\ image["HEAD"] = disk["HEAD"]
        BY <1>1, <1>2, <1>4, <2>1 DEF OneCreator
  <2>3. \A e \in Layout \cup {"dir", "checkpoint"} : image[e] = disk["HEAD"]
        BY <1>1, <1>3, <1>4, <2>2 DEF Established
  <2>4. /\ Folder("checkpoint") = "checkpoints" /\ Folder("dir") = "parent"
        /\ \A e \in Layout : Folder(e) = "dir"
        BY DEF Folder, Layout
  <2>5. \A e \in Layout \cup {"dir", "checkpoint"} : disk'[e] = disk["HEAD"]
        BY <1>1, <1>3, <1>4, <2>2, <2>3, <2>4 DEF Layout
  <2>6. {"HEAD", "checkpoint"} \subseteq whole'
        BY <1>3, <1>4, <2>1, <2>2, <2>5 DEF Established
  <2> QED BY <1>4, <2>1, <2>2, <2>5, <2>6 DEF Established
<1> QED BY <1>6, <1>7, <1>9, <1>10

THEOREM BootstrapSound == Spec => []Bootstrapped
<1>1. Bootstrapped /\ [Next]_vars => Bootstrapped'
  <2> SUFFICES ASSUME Bootstrapped, [Next]_vars PROVE Bootstrapped'
      OBVIOUS
  <2>1. CASE UNCHANGED vars
        BY <2>1 DEF vars, Bootstrapped, TypeOK, Working, OneCreator, Established, Locking, Creating,
                    Recovering, Past
  <2> QED BY <2>1, PerformKeeps, GoesKeeps, PowerKeeps DEF Next, Step
<1> QED BY <1>1, BootstrappedInit, PTL DEF Spec

\* Two calls never both believe writer.lock to be theirs, and none removes a
\* lock that is another's.
THEOREM LockHasOneOwner == Spec => []LockIsOwned
<1>1. Bootstrapped => LockIsOwned
      BY DEF Bootstrapped, Locking, LockIsOwned
<1> QED BY <1>1, BootstrapSound, PTL

\* A visible HEAD is whole, and so is everything it selects, all of one
\* creation, through every race, failure and power loss.
THEOREM HeadComesLast == Spec => []HeadIsComplete
<1>1. Bootstrapped => HeadIsComplete
      BY DEF Bootstrapped, Established, HeadIsComplete
<1> QED BY <1>1, BootstrapSound, PTL

\* The store a caller was given is one that no power loss takes away.
THEOREM OpenedStoreLasts == Spec => []EstablishedSurvives
<1>1. Bootstrapped => EstablishedSurvives
  <2> SUFFICES ASSUME Bootstrapped, NEW c \in Calls, path[c] = "opened",
                      NEW e \in Layout \cup {"dir", "HEAD", "checkpoint"}
               PROVE  kept[e] = base[c] /\ disk[e] = base[c]
      BY DEF EstablishedSurvives
  <2>1. disk["HEAD"] # None /\ base[c] = disk["HEAD"] /\ kept["HEAD"] = base[c]
        BY DEF Bootstrapped, Recovering
  <2> QED BY <2>1 DEF Bootstrapped, Established
<1> QED BY <1>1, BootstrapSound, PTL

\* Whoever asked for a new store got one nobody else created, and whoever
\* asked for an existing one did not create it.
THEOREM ModesAreKept == Spec => []ModeRespected
<1>1. Bootstrapped => ModeRespected
  <2> SUFFICES ASSUME Bootstrapped, NEW c \in Calls, path[c] = "opened"
               PROVE  /\ Mode[c] = "create" => base[c] = c
                      /\ Mode[c] = "existing" => base[c] # c
      BY DEF ModeRespected
  <2>1. disk["HEAD"] # None /\ base[c] = disk["HEAD"] /\ (Mode[c] = "create" => disk["HEAD"] = c)
        BY DEF Bootstrapped, Recovering
  <2>2. disk["dir"] = disk["HEAD"] /\ Mode[disk["dir"]] # "existing"
        BY <2>1 DEF Bootstrapped, Established, OneCreator
  <2> QED BY <2>1, <2>2
<1> QED BY <1>1, BootstrapSound, PTL
===============================================================================
