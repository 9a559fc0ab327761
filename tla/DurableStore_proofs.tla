-------------------------- MODULE DurableStore_proofs --------------------------
(***************************************************************************)
(* The safety of DurableStore, for every set of runtimes, requests and     *)
(* bodies, every envelope and every fault.  The control: types, who holds  *)
(* writer.lock, and the shape of each stage.  The content: what the log,   *)
(* the receipts and the runtimes hold; Coherent is inductive, the          *)
(* properties follow, and the store implements CommittedHistory.  The      *)
(* limits: the size of the active WAL, what a corruption answer may mean,  *)
(* and what a runtime may rely on when it is alone on its store.           *)
(***************************************************************************)
EXTENDS DurableStoreInvariant, TLAPS

-------------------------------------------------------------------------------
(* Control *)

USE ConstantsOK

LEMMA ControlInit == Init => Control
<1> SUFFICES ASSUME Init PROVE Control
    OBVIOUS
<1> USE DEF Init
<1>1. TypeOK
  <2>1. <<>> \in Seq(Transaction)
        OBVIOUS
  <2>2. /\ pending \in [Runtimes -> [next : Stages, code : Codes]]
        BY DEF Stages, Unlocked, Codes, NoPending
  <2>3. /\ gen \in [Runtimes -> Seq(Transaction)]
        /\ root \in [Runtimes -> Seq(Transaction)]
        BY <2>1
  <2>4. /\ stage \in [Runtimes -> Stages]
        /\ task \in [Runtimes -> Kinds \cup {"none"}]
        BY DEF Stages, Unlocked
  <2>5. cand \in [Runtimes -> SUBSET Bodies]
        OBVIOUS
  <2> QED BY <2>1, <2>2, <2>3, <2>4, <2>5 DEF TypeOK
<1>2. HeldByHolder /\ ReleaseFormed /\ IdleBetween
      BY DEF HeldByHolder, ReleaseFormed, IdleBetween, Held
<1>3. RequestCarried
      BY DEF RequestCarried, Searched, Unused, Prepared, Found
<1> QED BY <1>1, <1>2, <1>3 DEF Control

\* The log, taken whole or in part, is made of transactions.
LEMMA LogTyped ==
    ASSUME TypeOK
    PROVE  /\ Frames \in Seq(Transaction)
           /\ History \in Seq(Transaction)
           /\ DurableHistory \in Seq(Transaction)
           /\ Entries(Frames) \subseteq Transaction
  BY DEF TypeOK, Frames, History, DurableHistory, Entries

\* Ending an operation leaves the runtime well formed and in no stage.
LEMMA SettleControl ==
    ASSUME Control, NEW r \in Runtimes, NEW code, Settle(r, code)
    PROVE  /\ life' \in [Runtimes -> {"ready", "recovery-required", "closed"}]
           /\ task' \in [Runtimes -> Kinds \cup {"none"}]
           /\ stage' \in [Runtimes -> Stages]
           /\ req' \in [Runtimes -> Requests \cup {None}]
           /\ body' \in [Runtimes -> Bodies \cup {None}]
           /\ seen' \in [Runtimes -> Nat]
           /\ pending' \in [Runtimes -> [next : Stages, code : Codes]]
           /\ root' \in [Runtimes -> Seq(Transaction)]
           /\ cand' \in [Runtimes -> SUBSET Bodies]
           /\ RequestCarried' /\ ReleaseFormed' /\ IdleBetween'
           /\ lock' = lock \/ lock = r => HeldByHolder'
<1> USE DEF Control, TypeOK, Settle, Stages, Scopes, Held, Unlocked, Codes, Kinds, NoPending
<1>1. /\ life' \in [Runtimes -> {"ready", "recovery-required", "closed"}]
      /\ task' \in [Runtimes -> Kinds \cup {"none"}]
      /\ stage' \in [Runtimes -> Stages]
      /\ req' \in [Runtimes -> Requests \cup {None}]
      /\ body' \in [Runtimes -> Bodies \cup {None}]
      OBVIOUS
<1>2. /\ seen' \in [Runtimes -> Nat]
      /\ pending' \in [Runtimes -> [next : Stages, code : Codes]]
      /\ root' \in [Runtimes -> Seq(Transaction)]
      /\ cand' \in [Runtimes -> SUBSET Bodies]
      OBVIOUS
<1>3. /\ stage'[r] = "idle" /\ task'[r] = "none"
      /\ \A p \in Runtimes \ {r} : /\ stage'[p] = stage[p] /\ task'[p] = task[p]
                                  /\ req'[p] = req[p] /\ body'[p] = body[p]
                                  /\ pending'[p] = pending[p]
      OBVIOUS
<1>4. RequestCarried' /\ ReleaseFormed' /\ IdleBetween'
      BY <1>3 DEF RequestCarried, ReleaseFormed, IdleBetween, Searched, Unused, Prepared, Found
<1>5. ASSUME lock' = lock \/ lock = r PROVE HeldByHolder'
      BY <1>3, <1>5 DEF HeldByHolder
<1> QED BY <1>1, <1>2, <1>4, <1>5

\* Finishing the work under writer.lock leaves the runtime at a well-formed
\* release, when the mutation carries what the next stage needs.
LEMMA ConcludeControl ==
    ASSUME Control, NEW r \in Runtimes, NEW next, NEW code, Conclude(r, next, code),
           lock = r, lock' = lock, stage[r] # "idle",
           UNCHANGED <<task, req, body>>,
           next \in {"idle", "receipts", "effects", "prepare", "commit", "relook", "gc"},
           code \in Codes,
           next # "idle" => code \in {"continue", "rotated"},
           next \in {"receipts", "effects", "prepare", "commit", "relook"}
                \/ code \in {"already", "committed"} => req[r] # None,
           next = "commit" \/ code = "committed" => body[r] # None
    PROVE  /\ stage' \in [Runtimes -> Stages]
           /\ pending' \in [Runtimes -> [next : Stages, code : Codes]]
           /\ HeldByHolder' /\ RequestCarried' /\ ReleaseFormed' /\ IdleBetween'
<1> USE DEF Control, TypeOK, Conclude
<1>1. /\ stage'[r] = "release" /\ pending'[r] = [next |-> next, code |-> code]
      /\ \A p \in Runtimes \ {r} : stage'[p] = stage[p] /\ pending'[p] = pending[p]
      OBVIOUS
<1>2. /\ stage' \in [Runtimes -> Stages]
      /\ pending' \in [Runtimes -> [next : Stages, code : Codes]]
      BY DEF Stages, Held, Scopes, Unlocked
<1>3. HeldByHolder' /\ IdleBetween'
      BY <1>1 DEF HeldByHolder, IdleBetween
<1>4. RequestCarried'
      BY <1>1 DEF RequestCarried, Searched, Unused, Prepared, Found
<1>5. ReleaseFormed'
      BY <1>1 DEF ReleaseFormed
<1> QED BY <1>2, <1>3, <1>4, <1>5

\* So does moving from one stage to another, before or after writer.lock.
LEMMA MoveControl ==
    ASSUME Control, NEW r \in Runtimes, NEW next \in Stages \ {"release"},
           stage' = [stage EXCEPT ![r] = next],
           UNCHANGED <<req, task>>, task[r] # "none",
           \A p \in Runtimes : body'[p] = body[p] \/ (p = r /\ body'[p] # None),
           \A p \in Runtimes \ {r} : pending'[p] = pending[p],
           (lock' = lock /\ (next \in Held => lock = r)) \/ (lock = r /\ next \notin Held),
           next \in {"lookup", "receipts", "effects", "prepare", "measure", "install", "commit",
                    "relook", "writing", "written"} => req[r] # None,
           next \in {"measure", "install", "commit", "writing", "written"} => body'[r] # None
    PROVE  /\ stage' \in [Runtimes -> Stages]
           /\ HeldByHolder' /\ RequestCarried' /\ ReleaseFormed' /\ IdleBetween'
<1> USE DEF Control, TypeOK
<1>1. stage'[r] = next /\ \A p \in Runtimes \ {r} : stage'[p] = stage[p]
      OBVIOUS
<1>2. stage' \in [Runtimes -> Stages]
      OBVIOUS
<1>3. HeldByHolder' /\ IdleBetween'
      BY <1>1 DEF HeldByHolder, IdleBetween
<1>4. RequestCarried'
      BY <1>1 DEF RequestCarried, Searched, Unused, Prepared, Found
<1>5. ReleaseFormed'
      BY <1>1 DEF ReleaseFormed
<1> QED BY <1>2, <1>3, <1>4, <1>5

-------------------------------------------------------------------------------
(* One lemma per part of the program *)

LEMMA CallControl == ASSUME Control, NEW r \in Runtimes, Call(r) PROVE Control'
<1> USE DEF Control, TypeOK
<1>1. ASSUME NEW kind \in Kinds, NEW first \in {"lookup", "recover", "rotate", "gc", "observe"},
             Begin(r, kind, first),
             req' \in [Runtimes -> Requests \cup {None}],
             \A p \in Runtimes \ {r} : req'[p] = req[p],
             first = "lookup" => req'[r] # None
      PROVE  Control'
  <2>1. /\ task' \in [Runtimes -> Kinds \cup {"none"}]
        /\ stage' \in [Runtimes -> Stages]
        /\ seen' \in [Runtimes -> Nat]
        BY <1>1 DEF Begin, Stages, Scopes, Unlocked
  <2>2. /\ stage'[r] = first /\ task'[r] = kind
        /\ \A p \in Runtimes \ {r} : stage'[p] = stage[p] /\ task'[p] = task[p]
        BY <1>1 DEF Begin
  <2>3. HeldByHolder' /\ IdleBetween' /\ ReleaseFormed'
        BY <1>1, <2>2 DEF Begin, disk, HeldByHolder, IdleBetween, ReleaseFormed, Held, Kinds
  <2>4. RequestCarried'
        BY <1>1, <2>2 DEF Begin, RequestCarried, Searched, Unused, Prepared, Found
  <2> QED BY <1>1, <2>1, <2>3, <2>4 DEF Begin, disk
<1>2. CASE Open(r)
      BY <1>1, <1>2 DEF Open, Kinds
<1>3. CASE Close(r)
      BY <1>3 DEF Close, disk, HeldByHolder, RequestCarried, ReleaseFormed, IdleBetween,
                  Searched, Unused, Prepared, Found
<1>4. CASE BeginMutate(r)
  <2>1. PICK q \in Requests : req' = [req EXCEPT ![r] = q]
        BY <1>4 DEF BeginMutate
  <2>2. /\ req' \in [Runtimes -> Requests \cup {None}]
        /\ req'[r] # None /\ \A p \in Runtimes \ {r} : req'[p] = req[p]
        BY <2>1
  <2> QED BY <1>1, <1>4, <2>2 DEF BeginMutate, Kinds
<1>5. CASE BeginRecover(r)
      BY <1>1, <1>5 DEF BeginRecover, Kinds
<1>6. CASE BeginRotate(r)
      BY <1>1, <1>6 DEF BeginRotate, Kinds
<1>7. CASE BeginGc(r)
      BY <1>1, <1>7 DEF BeginGc, Kinds
<1>8. CASE BeginMaintain(r)
      BY <1>1, <1>8 DEF BeginMaintain, Kinds
<1> QED BY <1>2, <1>3, <1>4, <1>5, <1>6, <1>7, <1>8 DEF Call

LEMMA LockControl ==
    ASSUME Control, NEW r \in Runtimes,
           Take(r) \/ TakeOnOldHead(r) \/ Busy(r) \/ TakeFails(r)
    PROVE  Control'
<1> USE DEF Control, TypeOK
<1>1. CASE Take(r)
  <2>1. HeldByHolder'
        BY <1>1 DEF Take, Waits, HeldByHolder, flow
  <2> QED BY <1>1, <2>1 DEF Take, flow, RequestCarried, ReleaseFormed, IdleBetween,
                            Searched, Unused, Prepared, Found
<1>2. CASE TakeOnOldHead(r)
  <2> USE <1>2 DEF TakeOnOldHead, Conclude
  <2>1. /\ stage' \in [Runtimes -> Stages]
        /\ pending' \in [Runtimes -> [next : Stages, code : Codes]]
        BY DEF Stages, Held, Unlocked, Codes
  <2>2. /\ stage'[r] = "release" /\ pending'[r] = [next |-> "idle", code |-> "recovery-required"]
        /\ \A p \in Runtimes \ {r} : stage'[p] = stage[p] /\ pending'[p] = pending[p]
        OBVIOUS
  <2>3. HeldByHolder' /\ IdleBetween' /\ ReleaseFormed'
        BY <2>2 DEF Waits, Scopes, HeldByHolder, IdleBetween, ReleaseFormed
  <2>4. RequestCarried'
        BY <2>2 DEF RequestCarried, Searched, Unused, Prepared, Found
  <2> QED BY <2>1, <2>3, <2>4
<1>3. CASE Busy(r)
  <2>1. Settle(r, "refused") /\ lock' = lock
        BY <1>3 DEF Busy
  <2> QED BY <1>3, <2>1, SettleControl DEF Busy
<1>4. CASE TakeFails(r)
  <2>1. PICK code : Settle(r, code)
        BY <1>4 DEF TakeFails
  <2>2. lock' = lock \/ (lock = None /\ lock' = Stale)
        BY <1>4 DEF TakeFails
  <2>3. UNCHANGED <<head, ckpt, ledger, wal, dirty, torn, prior, objects, gen, acked>>
        BY <1>4 DEF TakeFails
  <2>4. HeldByHolder'
    <3>1. CASE lock' = lock
          BY <3>1, <2>1, SettleControl
    <3>2. CASE lock = None
          BY <3>2, <2>1, ConstantsOK DEF Settle, HeldByHolder, Held
    <3> QED BY <2>2, <3>1, <3>2
  <2> QED BY <2>1, <2>2, <2>3, <2>4, SettleControl
<1> QED BY <1>1, <1>2, <1>3, <1>4

LEMMA ReleaseControl ==
    ASSUME Control, NEW r \in Runtimes, Release(r) \/ ReleaseFails(r)
    PROVE  Control'
<1> USE DEF Control, TypeOK
<1>1. CASE Release(r)
  <2> USE <1>1 DEF Release, Holds
  <2>1. CASE pending[r].next = "idle"
    <3>1. Deliver(r)
          BY <2>1
    <3>2. PICK code : Settle(r, code)
          BY <3>1 DEF Deliver
    <3>3. gen' \in [Runtimes -> Seq(Transaction)] /\ acked' \subseteq Requests
      <4>1. pending[r].code \in {"already", "committed"} => req[r] \in Requests
            BY DEF RequestCarried, Found, Unused
      <4>2. pending[r].code = "committed" => body[r] \in Bodies
            BY DEF RequestCarried, Prepared
      <4>3. pending[r].code = "committed" => Tx(r) \in Transaction
            BY <4>1, <4>2 DEF Tx, Transaction
      <4>4. CASE pending[r].code = "committed"
        <5>1. gen' = [gen EXCEPT ![r] = Append(@, Tx(r))] /\ acked' = acked \cup {req[r]}
              BY <3>1, <4>4 DEF Deliver
        <5>2. Append(gen[r], Tx(r)) \in Seq(Transaction)
              BY <4>3, <4>4
        <5> QED BY <5>1, <5>2, <4>1, <4>4
      <4>5. CASE pending[r].code # "committed"
            BY <3>1, <4>1, <4>5 DEF Deliver
      <4> QED BY <4>4, <4>5
    <3> QED BY <3>2, <3>3, SettleControl
  <2>2. CASE pending[r].next # "idle"
    <3>1. pending[r].next \in {"receipts", "effects", "prepare", "commit", "relook", "gc"}
          BY <2>2 DEF ReleaseFormed
    <3>2. /\ Enter(r, pending[r].next)
          /\ pending' = [pending EXCEPT ![r] = NoPending]
          /\ UNCHANGED <<life, gen, task, req, body, root, cand, acked>>
          BY <2>2
    <3>3. /\ task[r] # "none"
          /\ pending[r].next # "gc" => req[r] # None
          /\ pending[r].next = "commit" => body[r] # None
          BY <2>2, <3>1 DEF RequestCarried, Searched, Unused, Found, Prepared, IdleBetween
    <3>4. pending[r].next \in Stages \ {"release"} /\ pending[r].next \notin Held
          BY <3>1 DEF Stages, Scopes, Unlocked, Held
    <3>5. /\ stage' \in [Runtimes -> Stages]
          /\ HeldByHolder' /\ RequestCarried' /\ ReleaseFormed' /\ IdleBetween'
      <4> DEFINE next == pending[r].next
      <4>1. /\ stage' = [stage EXCEPT ![r] = next]
            /\ \A p \in Runtimes : body'[p] = body[p] \/ (p = r /\ body'[p] # None)
            /\ \A p \in Runtimes \ {r} : pending'[p] = pending[p]
            /\ next \notin {"measure", "install", "writing", "written"}
            BY <3>1, <3>2 DEF Enter
      <4>2. next \in {"lookup", "receipts", "effects", "prepare", "measure", "install", "commit",
                      "relook", "writing", "written"} => req[r] # None
            BY <3>3
      <4>3. next \in {"measure", "install", "commit", "writing", "written"} => body'[r] # None
            BY <3>2, <3>3, <4>1
      <4> HIDE DEF next
      <4> QED BY <3>2, <3>3, <3>4, <4>1, <4>2, <4>3, MoveControl DEF next
    <3>6. /\ pending' \in [Runtimes -> [next : Stages, code : Codes]]
          /\ seen' \in [Runtimes -> Nat]
          BY <3>2 DEF Enter, NoPending, Stages, Unlocked, Codes
    <3> QED BY <3>2, <3>5, <3>6
  <2> QED BY <2>1, <2>2
<1>2. CASE ReleaseFails(r)
  <2>1. PICK code : Settle(r, code)
        BY <1>2 DEF ReleaseFails
  <2>2. lock = r /\ lock' \in {None, Stale}
        BY <1>2 DEF ReleaseFails, Holds
  <2> QED BY <1>2, <2>1, <2>2, SettleControl DEF ReleaseFails
<1> QED BY <1>1, <1>2

\* The stages of a mutation know their request, and from preparation on
\* their body.
LEMMA MutationCarries ==
    ASSUME Control, NEW r \in Runtimes
    PROVE  /\ stage[r] \in {"lookup", "receipts", "effects", "prepare", "measure", "install",
                             "commit", "relook", "writing", "written"} => req[r] \in Requests
           /\ stage[r] \in {"measure", "install", "commit", "writing", "written"} =>
                  body[r] \in Bodies /\ Tx(r) \in Transaction
<1> USE DEF Control, TypeOK
<1>1. stage[r] \in {"lookup", "receipts", "effects", "prepare", "measure", "install",
                    "commit", "relook", "writing", "written"} => req[r] \in Requests
      BY DEF RequestCarried, Searched, Unused, Found
<1>2. stage[r] \in {"measure", "install", "commit", "writing", "written"} => body[r] \in Bodies
      BY DEF RequestCarried, Prepared
<1> QED BY <1>1, <1>2 DEF Tx, Transaction

\* What making the log durable leaves.
LEMMA SyncTyped ==
    ASSUME TypeOK, SyncWal
    PROVE  wal' \in Seq(Transaction) /\ dirty' \in Seq(Transaction)
  BY LogTyped DEF SyncWal, TypeOK

LEMMA SearchControl ==
    ASSUME Control, NEW r \in Runtimes, Lookup(r) \/ Relook(r)
    PROVE  Control'
<1> USE DEF Control, TypeOK
<1>1. PICK missing \in {"receipts", "idle"}, found \in {"continue", "corruption"} :
          /\ Search(r, missing, found)
          /\ missing = "receipts" => found = "continue"
      BY DEF Lookup, Relook
<1>2. /\ lock = r /\ stage[r] \in {"lookup", "relook"} /\ req[r] # None
      /\ UNCHANGED <<lock, head, ckpt, ledger, torn, prior, objects>>
      /\ UNCHANGED <<life, gen, task, req, body, seen, root, cand, acked>>
      BY MutationCarries DEF Lookup, Relook, Holds
<1>3. wal' \in Seq(Transaction) /\ dirty' \in Seq(Transaction)
      BY <1>1, SyncTyped DEF Search
<1>4. PICK next \in {"idle", "receipts", "effects"},
           code \in {"recovery-required", "continue", "corruption"} :
          Conclude(r, next, code) /\ (next # "idle" => code = "continue")
      BY <1>1 DEF Search
<1>5. /\ stage' \in [Runtimes -> Stages]
      /\ pending' \in [Runtimes -> [next : Stages, code : Codes]]
      /\ HeldByHolder' /\ RequestCarried' /\ ReleaseFormed' /\ IdleBetween'
      BY <1>2, <1>4, ConcludeControl DEF Codes
<1> QED BY <1>2, <1>3, <1>5

LEMMA FoundControl ==
    ASSUME Control, NEW r \in Runtimes, ResolveEffects(r) \/ LookupReceipts(r)
    PROVE  Control'
<1> USE DEF Control, TypeOK
<1>1. /\ lock = r /\ stage[r] \in {"effects", "receipts"} /\ req[r] # None
      /\ UNCHANGED <<disk, life, gen, task, req, body, seen, root, cand, acked>>
      BY MutationCarries DEF ResolveEffects, LookupReceipts, Holds
<1>2. PICK next \in {"idle", "prepare"},
           code \in {"recovery-required", "continue", "corruption", "already"} :
          Conclude(r, next, code) /\ (next # "idle" => code = "continue")
      BY DEF ResolveEffects, LookupReceipts
<1>3. /\ stage' \in [Runtimes -> Stages]
      /\ pending' \in [Runtimes -> [next : Stages, code : Codes]]
      /\ HeldByHolder' /\ RequestCarried' /\ ReleaseFormed' /\ IdleBetween'
      BY <1>1, <1>2, ConcludeControl DEF Codes, disk
<1> QED BY <1>1, <1>3 DEF disk

LEMMA PrepareControl ==
    ASSUME Control, NEW r \in Runtimes, Prepare(r) \/ Measure(r)
    PROVE  Control'
<1> USE DEF Control, TypeOK
<1>1. ASSUME NEW code, Settle(r, code), UNCHANGED <<disk, gen, acked>> PROVE Control'
      BY <1>1, SettleControl DEF disk
<1>2. ASSUME NEW next \in {"measure", "install", "commit"}, Enter(r, next),
             stage[r] \in {"prepare", "measure"},
             body' \in [Runtimes -> Bodies \cup {None}], body'[r] # None,
             \A p \in Runtimes \ {r} : body'[p] = body[p],
             UNCHANGED <<disk, gen, acked, life, task, req, pending, root, cand>>
      PROVE  Control'
  <2>1. /\ stage' \in [Runtimes -> Stages]
        /\ HeldByHolder' /\ RequestCarried' /\ ReleaseFormed' /\ IdleBetween'
    <3>1. next \in Stages \ {"release"} /\ next \notin Held
          BY DEF Stages, Scopes, Held, Unlocked
    <3>2. req[r] # None /\ task[r] # "none"
          BY <1>2, MutationCarries DEF IdleBetween
    <3>3. /\ stage' = [stage EXCEPT ![r] = next]
          /\ \A p \in Runtimes : body'[p] = body[p] \/ (p = r /\ body'[p] # None)
          /\ lock' = lock
          BY <1>2 DEF Enter, disk
    <3> QED BY <1>2, <3>1, <3>2, <3>3, MoveControl
  <2>2. seen' \in [Runtimes -> Nat]
        BY <1>2 DEF Enter
  <2> QED BY <1>2, <2>1, <2>2 DEF disk
<1>3. CASE Prepare(r)
  <2>1. CASE Settle(r, "refused")
        BY <1>1, <1>3, <2>1 DEF Prepare
  <2>2. CASE ~Settle(r, "refused")
    <3>1. PICK b \in Bodies : body' = [body EXCEPT ![r] = b]
          BY <1>3, <2>2 DEF Prepare
    <3> QED BY <1>2, <1>3, <2>2, <3>1 DEF Prepare
  <2> QED BY <2>1, <2>2
<1>4. CASE Measure(r)
  <2>1. CASE \E code : Settle(r, code)
        BY <1>1, <1>4, <2>1 DEF Measure
  <2>2. CASE ~\E code : Settle(r, code)
    <3>1. PICK next \in {"install", "commit"} :
              Enter(r, next) /\ UNCHANGED <<life, task, req, body, pending, root, cand>>
          BY <1>4, <2>2 DEF Measure
    <3>2. body[r] # None
          BY <1>4, MutationCarries DEF Measure
    <3> QED BY <1>2, <1>4, <3>1, <3>2 DEF Measure
  <2> QED BY <2>1, <2>2
<1> QED BY <1>3, <1>4

LEMMA AppendControl ==
    ASSUME Control, NEW r \in Runtimes,
           Install(r) \/ Commit(r) \/ FinishWrite(r) \/ SyncWrite(r)
    PROVE  Control'
<1> USE DEF Control, TypeOK
<1>1. /\ lock = r /\ stage[r] \in {"install", "commit", "writing", "written"}
      /\ lock' = lock /\ head' = head /\ ckpt' = ckpt /\ ledger' = ledger /\ prior' = prior
      /\ UNCHANGED <<life, gen, task, req, body, seen, root, cand, acked>>
      BY DEF Install, Commit, FinishWrite, SyncWrite, Holds, disk
<1>2. req[r] # None /\ body[r] \in Bodies /\ body[r] # None /\ Tx(r) \in Transaction
      BY <1>1, MutationCarries
<1>3. ASSUME NEW next \in {"idle", "commit", "relook"},
             NEW code \in {"recovery-required", "already", "continue", "stale-base", "committed"},
             Conclude(r, next, code), next # "idle" => code = "continue"
      PROVE  /\ stage' \in [Runtimes -> Stages]
             /\ pending' \in [Runtimes -> [next : Stages, code : Codes]]
             /\ HeldByHolder' /\ RequestCarried' /\ ReleaseFormed' /\ IdleBetween'
      BY <1>1, <1>2, <1>3, ConcludeControl DEF Codes
<1>4. ASSUME NEW next \in {"writing", "written"},
             stage' = [stage EXCEPT ![r] = next], pending' = pending
      PROVE  /\ stage' \in [Runtimes -> Stages]
             /\ HeldByHolder' /\ RequestCarried' /\ ReleaseFormed' /\ IdleBetween'
  <2>1. next \in Stages \ {"release"} /\ task[r] # "none"
        BY <1>1 DEF Stages, Held, IdleBetween
  <2> QED BY <1>1, <1>2, <1>4, <2>1, MoveControl
<1>5. CASE Install(r)
  <2>1. objects' \subseteq Bodies /\ UNCHANGED <<wal, dirty, torn>> /\ Conclude(r, "commit", "continue")
        BY <1>2, <1>5 DEF Install
  <2> QED BY <1>1, <1>3, <2>1
<1>6. CASE Commit(r)
  <2>1. wal' \in Seq(Transaction) /\ dirty' \in Seq(Transaction) /\ torn' \in BOOLEAN
    <3>1. SyncWal \/ UNCHANGED <<wal, dirty>>
          BY <1>6 DEF Commit
    <3> QED BY <1>6, <3>1, SyncTyped DEF Commit
  <2>2. CASE stage' = [stage EXCEPT ![r] = "writing"] /\ UNCHANGED pending
        BY <1>1, <1>4, <1>6, <2>1, <2>2 DEF Commit
  <2>3. CASE ~(stage' = [stage EXCEPT ![r] = "writing"] /\ UNCHANGED pending)
    <3>1. PICK next \in {"idle", "relook"},
               code \in {"recovery-required", "already", "continue", "stale-base"} :
              Conclude(r, next, code) /\ (next # "idle" => code = "continue")
          BY <1>6, <2>3 DEF Commit
    <3> QED BY <1>1, <1>3, <1>6, <2>1, <3>1 DEF Commit
  <2> QED BY <2>2, <2>3
<1>7. CASE FinishWrite(r)
  <2>1. /\ dirty' = Append(dirty, Tx(r)) /\ torn' = FALSE
        /\ UNCHANGED <<wal, objects, pending>>
        BY <1>7 DEF FinishWrite
  <2>2. dirty' \in Seq(Transaction)
    <3> DEFINE tx == Tx(r)
    <3>1. tx \in Transaction /\ dirty' = Append(dirty, tx)
          BY <1>2, <2>1
    <3> HIDE DEF tx
    <3> QED BY <3>1
  <2> QED BY <1>1, <1>4, <1>7, <2>1, <2>2 DEF FinishWrite
<1>8. CASE SyncWrite(r)
  <2>1. wal' \in Seq(Transaction) /\ dirty' \in Seq(Transaction)
        BY <1>8, SyncTyped DEF SyncWrite
  <2> QED BY <1>1, <1>3, <1>8, <2>1 DEF SyncWrite
<1> QED BY <1>5, <1>6, <1>7, <1>8

LEMMA RecoveryControl ==
    ASSUME Control, NEW r \in Runtimes, RepairTail(r) \/ Reconstruct(r)
    PROVE  Control'
<1> USE DEF Control, TypeOK
<1>1. CASE RepairTail(r)
  <2>1. wal' \in Seq(Transaction) /\ dirty' \in Seq(Transaction)
        BY <1>1, SyncTyped DEF RepairTail
  <2>2. UNCHANGED <<lock, head, ckpt, ledger, prior, objects, flow, acked>> /\ torn' = FALSE
        BY <1>1 DEF RepairTail
  <2>3. HeldByHolder' /\ RequestCarried' /\ ReleaseFormed' /\ IdleBetween'
        BY <2>2 DEF flow, HeldByHolder, RequestCarried, ReleaseFormed, IdleBetween,
                    Searched, Unused, Prepared, Found
  <2> QED BY <2>1, <2>2, <2>3 DEF flow
<1>2. CASE Reconstruct(r)
  <2>1. /\ lock = r /\ stage[r] = "recover"
        /\ UNCHANGED <<lock, head, ckpt, ledger, torn, prior, objects>>
        /\ UNCHANGED <<life, gen, task, req, body, seen, cand, acked>>
        BY <1>2 DEF Reconstruct, Holds
  <2>2. PICK code \in {"recovery-required", "recovered"} : Conclude(r, "idle", code)
        BY <1>2 DEF Reconstruct
  <2>3. /\ stage' \in [Runtimes -> Stages]
        /\ pending' \in [Runtimes -> [next : Stages, code : Codes]]
        /\ HeldByHolder' /\ RequestCarried' /\ ReleaseFormed' /\ IdleBetween'
        BY <2>1, <2>2, ConcludeControl DEF Codes
  <2>4. /\ wal' \in Seq(Transaction) /\ dirty' \in Seq(Transaction)
        /\ root' \in [Runtimes -> Seq(Transaction)]
    <3>1. SyncWal \/ UNCHANGED <<wal, dirty>>
          BY <1>2 DEF Reconstruct
    <3>2. UNCHANGED root \/ root' = [root EXCEPT ![r] = History]
          BY <1>2 DEF Reconstruct
    <3>3. wal' \in Seq(Transaction) /\ dirty' \in Seq(Transaction)
          BY <3>1, SyncTyped
    <3>4. History \in Seq(Transaction)
          BY LogTyped
    <3>5. root' \in [Runtimes -> Seq(Transaction)]
          BY <3>2, <3>4
    <3> QED BY <3>3, <3>5
  <2> QED BY <2>1, <2>3, <2>4
<1> QED BY <1>1, <1>2

LEMMA RotationControl ==
    ASSUME Control, NEW r \in Runtimes,
           Rotate(r) \/ ConfirmSwitch(r) \/ SwitchUnconfirmed(r) \/ Observe(r)
    PROVE  Control'
<1> USE DEF Control, TypeOK
<1>1. ASSUME NEW next \in {"idle", "gc"}, NEW code \in {"recovery-required", "rotated",
                 "cleanup-pending", "unconfirmed"},
             Conclude(r, next, code), next # "idle" => code = "rotated",
             lock = r, lock' = lock, stage[r] # "idle", UNCHANGED <<task, req, body>>
      PROVE  /\ stage' \in [Runtimes -> Stages]
             /\ pending' \in [Runtimes -> [next : Stages, code : Codes]]
             /\ HeldByHolder' /\ RequestCarried' /\ ReleaseFormed' /\ IdleBetween'
      BY <1>1, ConcludeControl DEF Codes
<1>2. CASE Rotate(r)
  <2>1. CASE gen[r] # History
        BY <1>1, <1>2, <2>1 DEF Rotate, Holds
  <2>2. CASE gen[r] = History
    <3>1. /\ lock' = lock /\ lock = r /\ stage[r] = "rotate" /\ head' = head + 1
          /\ ckpt' = gen[r] /\ ledger' = ledger \cup Entries(Frames)
          /\ wal' = << >> /\ dirty' = << >> /\ torn' = FALSE
          /\ prior' = [head |-> head, ckpt |-> ckpt, ledger |-> ledger, wal |-> Frames,
                       torn |-> torn]
          /\ stage' = [stage EXCEPT ![r] = "switched"]
          /\ UNCHANGED <<objects, life, gen, task, req, body, seen, pending, root, cand, acked>>
          BY <1>2, <2>2 DEF Rotate, Holds
    <3>2. prior' \in Lineage /\ ledger' \subseteq Transaction
          BY <3>1, LogTyped DEF Lineage
    <3>3. "switched" \in Stages \ {"release"} /\ task[r] # "none"
          BY <3>1 DEF Stages, Held, IdleBetween
    <3>4. /\ stage' \in [Runtimes -> Stages]
          /\ HeldByHolder' /\ RequestCarried' /\ ReleaseFormed' /\ IdleBetween'
          BY <3>1, <3>3, MoveControl
    <3>5. wal' \in Seq(Transaction) /\ dirty' \in Seq(Transaction) /\ ckpt' \in Seq(Transaction)
          BY <3>1
    <3>6. head' \in Nat
          BY <3>1
    <3>7. torn' \in BOOLEAN
          BY <3>1
    <3>8. TypeOK'
          BY <3>1, <3>2, <3>4, <3>5, <3>6, <3>7
    <3> QED BY <3>4, <3>8
  <2> QED BY <2>1, <2>2
<1>3. CASE ConfirmSwitch(r)
      BY <1>1, <1>3 DEF ConfirmSwitch, Holds
<1>4. CASE SwitchUnconfirmed(r)
      BY <1>1, <1>4 DEF SwitchUnconfirmed, Holds, disk
<1>5. CASE Observe(r)
  <2>1. CASE \E code : Settle(r, code)
        BY <1>5, <2>1, SettleControl DEF Observe, disk
  <2>2. CASE ~\E code : Settle(r, code)
    <3>1. /\ Enter(r, "rotate") /\ stage[r] = "observe"
          /\ UNCHANGED <<disk, gen, acked, life, task, req, body, pending, root, cand>>
          BY <1>5, <2>2 DEF Observe
    <3>2. "rotate" \in Stages \ {"release"} /\ "rotate" \notin Held /\ task[r] # "none"
          BY <3>1 DEF Stages, Scopes, Held, IdleBetween
    <3>3. /\ stage' \in [Runtimes -> Stages]
          /\ HeldByHolder' /\ RequestCarried' /\ ReleaseFormed' /\ IdleBetween'
          BY <3>1, <3>2, MoveControl DEF Enter, disk
    <3> QED BY <3>1, <3>3 DEF Enter, disk
  <2> QED BY <2>1, <2>2
<1> QED BY <1>2, <1>3, <1>4, <1>5

LEMMA CollectionControl ==
    ASSUME Control, NEW r \in Runtimes, Mark(r) \/ Unlink(r) \/ EndSweep(r)
    PROVE  Control'
<1> USE DEF Control, TypeOK
<1>1. ASSUME NEW code \in Codes \ {"already", "committed"}, Conclude(r, "idle", code),
             lock = r, lock' = lock, stage[r] # "idle", UNCHANGED <<task, req, body>>
      PROVE  /\ stage' \in [Runtimes -> Stages]
             /\ pending' \in [Runtimes -> [next : Stages, code : Codes]]
             /\ HeldByHolder' /\ RequestCarried' /\ ReleaseFormed' /\ IdleBetween'
      BY <1>1, ConcludeControl
<1>2. CASE Mark(r)
  <2>1. CASE gen[r] # History \/ MissingObjects
        BY <1>1, <1>2, <2>1 DEF Mark, Holds, disk, Codes
  <2>2. CASE ~(gen[r] # History \/ MissingObjects)
    <3>1. /\ lock = r /\ stage[r] = "gc" /\ stage' = [stage EXCEPT ![r] = "sweep"]
          /\ cand' = [cand EXCEPT ![r] = objects \ Referenced]
          /\ UNCHANGED <<disk, life, gen, task, req, body, seen, pending, root, acked>>
          BY <1>2, <2>2 DEF Mark, Holds
    <3>2. "sweep" \in Stages \ {"release"} /\ task[r] # "none"
          BY <3>1 DEF Stages, Held, IdleBetween
    <3>3. /\ stage' \in [Runtimes -> Stages]
          /\ HeldByHolder' /\ RequestCarried' /\ ReleaseFormed' /\ IdleBetween'
          BY <3>1, <3>2, MoveControl DEF disk
    <3> QED BY <3>1, <3>3 DEF disk
  <2> QED BY <2>1, <2>2
<1>3. CASE Unlink(r)
  <2>1. HeldByHolder' /\ RequestCarried' /\ ReleaseFormed' /\ IdleBetween'
        BY <1>3 DEF Unlink, HeldByHolder, RequestCarried, ReleaseFormed, IdleBetween,
                    Searched, Unused, Prepared, Found
  <2> QED BY <1>3, <2>1 DEF Unlink
<1>4. CASE EndSweep(r)
  <2>1. PICK code \in {"collected", "maintenance"} : Conclude(r, "idle", code)
        BY <1>4 DEF EndSweep
  <2> QED BY <1>1, <1>4, <2>1 DEF EndSweep, Holds, disk, Codes
<1> QED BY <1>2, <1>3, <1>4

LEMMA FailControl ==
    ASSUME Control, NEW r \in Runtimes, StageFails(r)
    PROVE  Control'
<1> USE DEF Control, TypeOK
<1>1. /\ lock = r /\ stage[r] \in Scopes \cup {"writing", "written"}
      /\ UNCHANGED <<lock, head, ckpt, ledger, wal, dirty, torn, prior>>
      /\ UNCHANGED <<life, gen, task, req, body, seen, root, cand, acked>>
      BY DEF StageFails
<1>2. PICK code \in {"recovery-required", "authoritative", "maintenance", "refused"} :
          Conclude(r, "idle", code)
      BY DEF StageFails, FailureCodes
<1>3. /\ stage' \in [Runtimes -> Stages]
      /\ pending' \in [Runtimes -> [next : Stages, code : Codes]]
      /\ HeldByHolder' /\ RequestCarried' /\ ReleaseFormed' /\ IdleBetween'
      BY <1>1, <1>2, ConcludeControl DEF Codes, Scopes
<1>4. objects' \subseteq Bodies
      BY MutationCarries DEF StageFails
<1> QED BY <1>1, <1>3, <1>4

\* Dead runtimes are in no stage; the lock of a dead owner has no owner.
LEMMA DieControl ==
    ASSUME Control, NEW gone \in SUBSET Runtimes, Die(gone),
           head' \in Nat, ckpt' \in Seq(Transaction), ledger' \subseteq Transaction,
           wal' \in Seq(Transaction), dirty' \in Seq(Transaction), torn' \in BOOLEAN,
           prior' \in Lineage \cup {None}, objects' = objects, acked' = acked
    PROVE  Control'
<1> USE DEF Control, TypeOK, Die
<1>1. /\ \A p \in gone : stage'[p] = "idle" /\ task'[p] = "none"
      /\ \A p \in Runtimes \ gone : /\ stage'[p] = stage[p] /\ task'[p] = task[p]
                                   /\ req'[p] = req[p] /\ body'[p] = body[p]
                                   /\ pending'[p] = pending[p]
      OBVIOUS
<1>2. HeldByHolder' /\ IdleBetween' /\ ReleaseFormed'
      BY <1>1 DEF HeldByHolder, IdleBetween, ReleaseFormed, Held
<1>3. RequestCarried'
      BY <1>1 DEF RequestCarried, Searched, Unused, Prepared, Found
<1>4. /\ stage' \in [Runtimes -> Stages]
      /\ pending' \in [Runtimes -> [next : Stages, code : Codes]]
      BY DEF Stages, Unlocked, Codes, NoPending
<1>5. /\ lock' \in Runtimes \cup {None, Stale}
      /\ life' \in [Runtimes -> {"ready", "recovery-required", "closed"}]
      /\ task' \in [Runtimes -> Kinds \cup {"none"}]
      /\ req' \in [Runtimes -> Requests \cup {None}]
      /\ body' \in [Runtimes -> Bodies \cup {None}]
      OBVIOUS
<1>6. << >> \in Seq(Transaction)
      OBVIOUS
<1>7. /\ gen' \in [Runtimes -> Seq(Transaction)]
      /\ root' \in [Runtimes -> Seq(Transaction)]
      BY <1>6
<1>8. /\ seen' \in [Runtimes -> Nat]
      /\ cand' \in [Runtimes -> SUBSET Bodies]
      OBVIOUS
<1>9. objects' \subseteq Bodies /\ acked' \subseteq Requests
      OBVIOUS
<1>10. TypeOK'
      BY <1>4, <1>5, <1>7, <1>8, <1>9
<1> QED BY <1>2, <1>3, <1>10

LEMMA CrashControl ==
    ASSUME Control, (\E r \in Runtimes : Crash(r)) \/ LosePower \/ LoseRename
    PROVE  Control'
<1>1. ASSUME NEW r \in Runtimes, Crash(r) PROVE Control'
  <2>1. Die({r}) /\ UNCHANGED <<head, ckpt, ledger, wal, dirty, torn, prior, objects, acked>>
        BY <1>1 DEF Crash
  <2> QED BY <2>1, DieControl DEF Control, TypeOK
<1>2. CASE LosePower
  <2>1. PICK kept \in 0..Len(dirty) : /\ dirty' = SubSeq(dirty, 1, kept)
                                    /\ torn' \in BOOLEAN
        BY <1>2 DEF LosePower
  <2>2. dirty' \in Seq(Transaction)
        BY <2>1 DEF Control, TypeOK
  <2>3. Die(Runtimes) /\ UNCHANGED <<head, ckpt, ledger, wal, prior, objects, acked>>
        BY <1>2 DEF LosePower
  <2> QED BY <2>1, <2>2, <2>3, DieControl DEF Control, TypeOK
<1>3. CASE LoseRename
  <2>1. /\ Die(Runtimes) /\ UNCHANGED <<objects, acked>> /\ prior \in Lineage
        /\ head' = prior.head /\ ckpt' = prior.ckpt /\ ledger' = prior.ledger
        /\ wal' = prior.wal /\ torn' = prior.torn /\ dirty' = << >> /\ prior' = None
        BY <1>3 DEF LoseRename, Control, TypeOK
  <2>2. /\ head' \in Nat /\ ckpt' \in Seq(Transaction) /\ ledger' \subseteq Transaction
        /\ wal' \in Seq(Transaction) /\ torn' \in BOOLEAN
        BY <2>1 DEF Lineage
  <2>3. dirty' \in Seq(Transaction)
        BY <2>1
  <2> QED BY <2>1, <2>2, <2>3, DieControl
<1> QED BY <1>1, <1>2, <1>3

LEMMA ControlNext == Control /\ [Next]_vars => Control'
<1> SUFFICES ASSUME Control, [Next]_vars PROVE Control'
    OBVIOUS
<1>1. ASSUME NEW r \in Runtimes, Step(r) PROVE Control'
      BY <1>1, LockControl, ReleaseControl, SearchControl, FoundControl, PrepareControl,
         AppendControl, RecoveryControl, RotationControl, CollectionControl DEF Step
<1>2. ASSUME NEW r \in Runtimes, Fail(r) PROVE Control'
      BY <1>2, LockControl, ReleaseControl, FailControl, RotationControl, CrashControl DEF Fail
<1>3. CASE ClearStaleLock
  <2>1. HeldByHolder'
        BY <1>3 DEF ClearStaleLock, flow, Control, HeldByHolder
  <2> QED BY <1>3, <2>1 DEF ClearStaleLock, flow, Control, TypeOK, RequestCarried, ReleaseFormed,
                            IdleBetween, Searched, Unused, Prepared, Found
<1>4. CASE UNCHANGED vars
      BY <1>4 DEF vars, disk, flow, Control, TypeOK, HeldByHolder, RequestCarried, ReleaseFormed,
                  IdleBetween, Searched, Unused, Prepared, Found
<1> QED BY <1>1, <1>2, <1>3, <1>4, CallControl, CrashControl DEF Next

\* Every variable keeps its type, and only the runtime named by writer.lock is
\* ever in a stage that changes the log, HEAD or the objects, whatever faults
\* and interleavings occur.
THEOREM TypeCorrect == Spec => [](TypeOK /\ HeldByHolder)
<1>1. Control => TypeOK /\ HeldByHolder
      BY DEF Control
<1> QED BY <1>1, ControlInit, ControlNext, PTL DEF Spec

HIDE ConstantsOK

-------------------------------------------------------------------------------
(* Sequences *)

LEMMA ConcatAt ==
    ASSUME NEW S, NEW s \in Seq(S), NEW t \in Seq(S)
    PROVE  /\ s \o t \in Seq(S)
           /\ Len(s \o t) = Len(s) + Len(t)
           /\ \A i \in 1..Len(s) : (s \o t)[i] = s[i]
           /\ \A i \in 1..Len(t) : (s \o t)[Len(s) + i] = t[i]
  OBVIOUS

LEMMA SameSequence ==
    ASSUME NEW S, NEW s \in Seq(S), NEW t \in Seq(S), Len(s) = Len(t),
           \A i \in 1..Len(s) : s[i] = t[i]
    PROVE  s = t
  OBVIOUS

LEMMA ConcatEmpty ==
    ASSUME NEW S, NEW s \in Seq(S)
    PROVE  s \o << >> = s
<1>1. << >> \in Seq(S) /\ Len(<< >>) = 0
      OBVIOUS
<1>2. /\ s \o << >> \in Seq(S) /\ Len(s \o << >>) = Len(s)
      /\ \A i \in 1..Len(s) : (s \o << >>)[i] = s[i]
      BY <1>1, ConcatAt
<1> QED BY <1>2, SameSequence

LEMMA ConcatAssociates ==
    ASSUME NEW S, NEW s \in Seq(S), NEW t \in Seq(S), NEW u \in Seq(S)
    PROVE  s \o (t \o u) = (s \o t) \o u
  OBVIOUS

LEMMA ConcatAppend ==
    ASSUME NEW S, NEW s \in Seq(S), NEW t \in Seq(S), NEW e \in S
    PROVE  s \o Append(t, e) = Append(s \o t, e)
  OBVIOUS

LEMMA AppendAt ==
    ASSUME NEW S, NEW s \in Seq(S), NEW e \in S
    PROVE  /\ Append(s, e) \in Seq(S)
           /\ Len(Append(s, e)) = Len(s) + 1
           /\ \A i \in 1..Len(s) : Append(s, e)[i] = s[i]
           /\ Append(s, e)[Len(s) + 1] = e
  OBVIOUS

LEMMA ConcatEntries ==
    ASSUME NEW S, NEW s \in Seq(S), NEW t \in Seq(S)
    PROVE  Entries(s \o t) = Entries(s) \cup Entries(t)
<1>1. ASSUME NEW i \in DOMAIN (s \o t) PROVE (s \o t)[i] \in Entries(s) \cup Entries(t)
  <2>1. CASE i =< Len(s)
        BY <2>1, ConcatAt DEF Entries
  <2>2. CASE i > Len(s)
    <3>1. i - Len(s) \in 1..Len(t) /\ i = Len(s) + (i - Len(s))
          BY <2>2, ConcatAt
    <3>2. (s \o t)[i] = t[i - Len(s)]
          BY <3>1, ConcatAt
    <3> QED BY <3>1, <3>2 DEF Entries
  <2>3. s \o t \in Seq(S) /\ i \in 1..Len(s \o t) /\ Len(s \o t) \in Nat /\ Len(s) \in Nat
        BY ConcatAt
  <2> QED BY <2>1, <2>2, <2>3
<1>2. ASSUME NEW i \in DOMAIN s PROVE s[i] \in Entries(s \o t)
  <2>1. s \o t \in Seq(S) /\ Len(s \o t) = Len(s) + Len(t) /\ (s \o t)[i] = s[i]
        BY ConcatAt
  <2>2. i \in DOMAIN (s \o t)
        BY <2>1
  <2> QED BY <2>1, <2>2 DEF Entries
<1>3. ASSUME NEW i \in DOMAIN t PROVE t[i] \in Entries(s \o t)
  <2>1. i \in 1..Len(t) /\ Len(t) \in Nat /\ Len(s) \in Nat
        OBVIOUS
  <2>2. s \o t \in Seq(S) /\ Len(s \o t) = Len(s) + Len(t)
        BY ConcatAt
  <2>3. (s \o t)[Len(s) + i] = t[i]
        BY <2>1, ConcatAt
  <2>4. Len(s) + i \in DOMAIN (s \o t)
        BY <2>1, <2>2
  <2> QED BY <2>3, <2>4 DEF Entries
<1> QED BY <1>1, <1>2, <1>3 DEF Entries

LEMMA PrefixFacts ==
    ASSUME NEW S, NEW s \in Seq(S), NEW t \in Seq(S), IsPrefixOf(s, t)
    PROVE  /\ \A q : Settles(s, q) => Settles(t, q)
           /\ \A m : Has(s, m) => Has(t, m)
           /\ \A u \in Seq(S) : IsPrefixOf(u, s) => IsPrefixOf(u, t)
           /\ Len(s) = Len(t) => s = t
<1>1. DOMAIN s \subseteq DOMAIN t
      BY DEF IsPrefixOf
<1>2. \A q : Settles(s, q) => Settles(t, q)
      BY <1>1 DEF IsPrefixOf, Settles
<1>3. \A m : Has(s, m) => Has(t, m)
      BY <1>1 DEF IsPrefixOf, Has
<1>4. \A u \in Seq(S) : IsPrefixOf(u, s) => IsPrefixOf(u, t)
      BY DEF IsPrefixOf
<1>5. Len(s) = Len(t) => s = t
      BY SameSequence DEF IsPrefixOf
<1> QED BY <1>2, <1>3, <1>4, <1>5

LEMMA ConcatPrefix ==
    ASSUME NEW S, NEW s \in Seq(S), NEW t \in Seq(S)
    PROVE  IsPrefixOf(s, s \o t)
  BY ConcatAt DEF IsPrefixOf

-------------------------------------------------------------------------------
(* The log, and how a step of the store changes it *)

\* The store's half of the invariant, and each runtime's.
Shared ==
    /\ CommittedOnce
    /\ AckedDurable
    /\ LedgerMatchesCheckpoint
    /\ RevertIsHarmless
    /\ PriorIsSound
    /\ OneDirtyFrame

Local(p) ==
    /\ IsPrefixOf(gen[p], DurableHistory)
    /\ (lock = p /\ stage[p] \notin {"switched", "release"}) => prior = None
    /\ Searched(p) => \A i \in DOMAIN gen[p] : gen[p][i].mid = req[p].mid => i =< Len(ckpt)
    /\ Unused(p) => ~Has(gen[p], req[p].mid)
    /\ Found(p) => Settles(DurableHistory, req[p])
    /\ stage[p] = "writing" => dirty = << >> /\ gen[p] = DurableHistory
    /\ stage[p] = "written" => dirty = <<Tx(p)>> /\ gen[p] = DurableHistory
    /\ (stage[p] = "release" /\ pending[p].code = "committed") =>
            dirty = << >> /\ DurableHistory = Append(gen[p], Tx(p))
    /\ (stage[p] = "release" /\ pending[p].code = "recovered") => root[p] = DurableHistory

LEMMA ContentSplits == Content <=> Shared /\ \A p \in Runtimes : Local(p)
<1>1. PublishedIsDurable <=> \A p \in Runtimes : IsPrefixOf(gen[p], DurableHistory)
      BY DEF PublishedIsDurable, IsPrefixOf
<1> QED BY <1>1 DEF Content, Shared, Local, RenameConfirmed, IdentityTracked, FoundIsDurable,
                    AppendStages, RecoveredIsDurable

LEMMA LogShape ==
    ASSUME TypeOK
    PROVE  /\ DurableHistory \in Seq(Transaction) /\ History \in Seq(Transaction)
           /\ Frames \in Seq(Transaction)
           /\ History = DurableHistory \o dirty
           /\ History = ckpt \o Frames
           /\ Len(History) = Len(DurableHistory) + Len(dirty)
           /\ IsPrefixOf(DurableHistory, History)
           /\ Entries(History) = Entries(ckpt) \cup Entries(Frames)
           /\ IsPrefixOf(ckpt, History)
<1>1. /\ ckpt \in Seq(Transaction) /\ wal \in Seq(Transaction) /\ dirty \in Seq(Transaction)
      BY DEF TypeOK
<1>2. /\ Frames \in Seq(Transaction) /\ DurableHistory \in Seq(Transaction)
      /\ History \in Seq(Transaction)
      BY LogTyped
<1>3. History = DurableHistory \o dirty
      BY <1>1, ConcatAssociates DEF History, DurableHistory, Frames
<1>4. History = ckpt \o Frames
      BY DEF History
<1>5. Len(History) = Len(DurableHistory) + Len(dirty)
      BY <1>1, <1>2, <1>3, ConcatAt
<1>6. IsPrefixOf(DurableHistory, History)
      BY <1>1, <1>2, <1>3, ConcatPrefix
<1>7. IsPrefixOf(ckpt, History)
      BY <1>1, <1>2, <1>4, ConcatPrefix
<1>8. Entries(History) = Entries(ckpt) \cup Entries(Frames)
      BY <1>1, <1>2, <1>4, ConcatEntries
<1> QED BY <1>2, <1>3, <1>4, <1>5, <1>6, <1>7, <1>8

\* Frames that are found in the active WAL are found in the history.
LEMMA FramesInHistory ==
    ASSUME TypeOK
    PROVE  /\ \A q : Settles(Frames, q) => Settles(History, q)
           /\ \A i \in DOMAIN Frames : Len(ckpt) + i \in DOMAIN History
                                       /\ History[Len(ckpt) + i] = Frames[i]
           /\ \A i \in DOMAIN History : i > Len(ckpt) =>
                  i - Len(ckpt) \in DOMAIN Frames /\ History[i] = Frames[i - Len(ckpt)]
<1>1. ckpt \in Seq(Transaction) /\ Frames \in Seq(Transaction) /\ History = ckpt \o Frames
      BY LogShape DEF TypeOK
<1>2. \A i \in DOMAIN Frames : Len(ckpt) + i \in DOMAIN History
                               /\ History[Len(ckpt) + i] = Frames[i]
      BY <1>1, ConcatAt
<1>3. \A i \in DOMAIN History : i > Len(ckpt) =>
          i - Len(ckpt) \in DOMAIN Frames /\ History[i] = Frames[i - Len(ckpt)]
  <2> TAKE i \in DOMAIN History
  <2> HAVE i > Len(ckpt)
  <2>1. i - Len(ckpt) \in DOMAIN Frames
        BY <1>1, ConcatAt
  <2>2. History[Len(ckpt) + (i - Len(ckpt))] = Frames[i - Len(ckpt)]
        BY <1>2, <2>1
  <2>3. Len(ckpt) + (i - Len(ckpt)) = i
        BY <1>1, ConcatAt
  <2> QED BY <2>1, <2>2, <2>3
<1>4. \A q : Settles(Frames, q) => Settles(History, q)
      BY <1>2 DEF Settles
<1> QED BY <1>2, <1>3, <1>4

\* A step that leaves the log alone leaves its readers' view alone.
LEMMA QuietLog ==
    ASSUME UNCHANGED <<ckpt, wal, dirty>>
    PROVE  History' = History /\ DurableHistory' = DurableHistory /\ Frames' = Frames
  BY DEF History, DurableHistory, Frames

\* Making the log durable moves no transaction.
LEMMA SyncedLog ==
    ASSUME TypeOK, SyncWal, ckpt' = ckpt
    PROVE  /\ History' = History /\ DurableHistory' = History /\ Frames' = Frames
           /\ dirty' = << >>
<1>1. Frames \in Seq(Transaction)
      BY LogTyped
<1>2. wal' = Frames /\ dirty' = << >>
      BY DEF SyncWal
<1>3. Frames' = Frames \o << >>
      BY <1>2 DEF Frames
<1>4. Frames' = Frames
      BY <1>1, <1>3, ConcatEmpty
<1>5. History' = History
      BY <1>4 DEF History
<1>6. DurableHistory' = History
      BY <1>2 DEF DurableHistory, History
<1> QED BY <1>2, <1>4, <1>5, <1>6

\* Nothing waits for a barrier when the published generation is the log.
LEMMA PublishedIsWhole ==
    ASSUME TypeOK, NEW r \in Runtimes, Local(r), gen[r] = History
    PROVE  dirty = << >> /\ gen[r] = DurableHistory /\ DurableHistory = History
<1>1. /\ gen[r] \in Seq(Transaction) /\ dirty \in Seq(Transaction)
      /\ DurableHistory \in Seq(Transaction) /\ History \in Seq(Transaction)
      BY LogTyped DEF TypeOK
<1>2. Len(gen[r]) =< Len(DurableHistory) /\ IsPrefixOf(gen[r], DurableHistory)
      BY DEF Local, IsPrefixOf
<1>3. Len(History) = Len(DurableHistory) + Len(dirty)
      BY LogShape
<1>4. Len(dirty) = 0 /\ Len(DurableHistory) = Len(gen[r])
      BY <1>1, <1>2, <1>3
<1>5. dirty = << >>
      BY <1>1, <1>4
<1>6. gen[r] = DurableHistory
      BY <1>1, <1>2, <1>4, PrefixFacts
<1> QED BY <1>5, <1>6

LEMMA SharedQuiet ==
    ASSUME TypeOK, Shared, UNCHANGED <<ckpt, ledger, wal, dirty>>, prior' \in {prior, None},
           \A q \in acked' : q \in acked \/ Settles(DurableHistory, q)
    PROVE  Shared'
<1>1. History' = History /\ DurableHistory' = DurableHistory /\ Frames' = Frames
      BY QuietLog
<1>2. CommittedOnce' /\ LedgerMatchesCheckpoint' /\ OneDirtyFrame'
      BY <1>1 DEF Shared, CommittedOnce, LedgerMatchesCheckpoint, OneDirtyFrame, Entries
<1>3. AckedDurable'
      BY <1>1 DEF Shared, AckedDurable
<1>4. RevertIsHarmless' /\ PriorIsSound'
      BY <1>1 DEF Shared, RevertIsHarmless, PriorIsSound, Entries
<1> QED BY <1>2, <1>3, <1>4 DEF Shared

LEMMA SharedSynced ==
    ASSUME TypeOK, Shared, SyncWal, UNCHANGED <<ckpt, ledger, prior, acked>>
    PROVE  Shared'
<1>1. History' = History /\ DurableHistory' = History /\ Frames' = Frames /\ dirty' = << >>
      BY SyncedLog
<1>2. CommittedOnce' /\ LedgerMatchesCheckpoint' /\ OneDirtyFrame'
      BY <1>1 DEF Shared, CommittedOnce, LedgerMatchesCheckpoint, OneDirtyFrame, Entries
<1>3. \A q : Settles(DurableHistory, q) => Settles(History, q)
      BY LogShape, PrefixFacts
<1>4. AckedDurable'
      BY <1>1, <1>3 DEF Shared, AckedDurable
<1>5. RevertIsHarmless' /\ PriorIsSound'
      BY <1>1 DEF Shared, RevertIsHarmless, PriorIsSound, Entries
<1> QED BY <1>2, <1>4, <1>5 DEF Shared

\* A runtime that does not move keeps what it knows, when the durable history
\* only grows and nobody touches the store while it holds writer.lock.
LEMMA OtherKeeps ==
    ASSUME Control, NEW p \in Runtimes, Local(p), TypeOK',
           stage'[p] = stage[p], pending'[p] = pending[p], req'[p] = req[p],
           body'[p] = body[p], gen'[p] = gen[p], root'[p] = root[p],
           IsPrefixOf(DurableHistory, DurableHistory'), Len(ckpt) =< Len(ckpt'),
           lock = p => UNCHANGED <<ckpt, wal, dirty>>,
           lock' = p => lock = p /\ prior' \in {prior, None}
    PROVE  Local(p)'
<1>1. /\ DurableHistory \in Seq(Transaction) /\ DurableHistory' \in Seq(Transaction)
      /\ gen[p] \in Seq(Transaction) /\ ckpt \in Seq(Transaction) /\ ckpt' \in Seq(Transaction)
      BY LogTyped DEF Control, TypeOK, DurableHistory
<1>2. IsPrefixOf(gen[p], DurableHistory)'
  <2>1. IsPrefixOf(gen[p], DurableHistory')
        BY <1>1, PrefixFacts DEF Local
  <2> QED BY <2>1 DEF IsPrefixOf
<1>3. Found(p)' => Settles(DurableHistory', req'[p])
      BY <1>1, PrefixFacts DEF Local, Found
<1>4. /\ Searched(p)' => \A i \in DOMAIN gen'[p] : gen'[p][i].mid = req'[p].mid => i =< Len(ckpt')
      /\ Unused(p)' => ~Has(gen'[p], req'[p].mid)
      BY <1>1 DEF Local, Searched, Unused
<1>5. (lock' = p /\ stage'[p] \notin {"switched", "release"}) => prior' = None
      BY DEF Local
<1>6. stage[p] \in {"writing", "written", "release"} =>
          dirty' = dirty /\ DurableHistory' = DurableHistory
      BY QuietLog DEF Control, HeldByHolder, Held
<1>7. /\ stage'[p] = "writing" => dirty' = << >> /\ gen'[p] = DurableHistory'
      /\ stage'[p] = "written" => dirty' = <<Tx(p)>>' /\ gen'[p] = DurableHistory'
      /\ (stage'[p] = "release" /\ pending'[p].code = "committed") =>
              dirty' = << >> /\ DurableHistory' = Append(gen'[p], Tx(p)')
      /\ (stage'[p] = "release" /\ pending'[p].code = "recovered") => root'[p] = DurableHistory'
      BY <1>6 DEF Local, Tx
<1> QED BY <1>2, <1>3, <1>4, <1>5, <1>7 DEF Local, Settles, Has

\* A runtime in no stage has nothing to know but what it published.
LEMMA IdleLocal ==
    ASSUME NEW p \in Runtimes, stage[p] = "idle", IsPrefixOf(gen[p], DurableHistory),
           lock = p => prior = None
    PROVE  Local(p)
  BY DEF Local, Searched, Unused, Found

-------------------------------------------------------------------------------
(* What a step of one runtime leaves, by the kind of step *)

\* The rest of the runtimes stand still.
OthersStay(r) ==
    \A p \in Runtimes \ {r} :
        /\ stage'[p] = stage[p] /\ pending'[p] = pending[p]
        /\ req'[p] = req[p] /\ body'[p] = body[p]
        /\ gen'[p] = gen[p] /\ root'[p] = root[p]
        /\ lock' = p => lock = p

LEMMA QuietContent ==
    ASSUME Coherent, TypeOK', NEW r \in Runtimes, OthersStay(r), Local(r)',
           UNCHANGED <<ckpt, ledger, wal, dirty>>, prior' \in {prior, None},
           \A q \in acked' : q \in acked \/ Settles(DurableHistory, q)
    PROVE  Content'
<1>1. TypeOK /\ Control /\ Shared /\ \A p \in Runtimes : Local(p)
      BY ContentSplits DEF Coherent, Control
<1>2. Shared'
      BY <1>1, SharedQuiet
<1>3. DurableHistory' = DurableHistory
      BY QuietLog
<1>4. IsPrefixOf(DurableHistory, DurableHistory') /\ Len(ckpt) =< Len(ckpt')
      BY <1>1, <1>3, LogShape DEF IsPrefixOf, TypeOK
<1>5. ASSUME NEW p \in Runtimes \ {r} PROVE Local(p)'
      BY <1>1, <1>4, OtherKeeps DEF OthersStay
<1>6. (\A p \in Runtimes : Local(p))'
      BY <1>5
<1>7. (Content <=> Shared /\ \A p \in Runtimes : Local(p))'
      BY ContentSplits, PTL
<1> QED BY <1>2, <1>6, <1>7

LEMMA SyncContent ==
    ASSUME Coherent, TypeOK', NEW r \in Runtimes, OthersStay(r), Local(r)',
           lock = r, SyncWal, UNCHANGED <<lock, ckpt, ledger, prior, acked>>
    PROVE  Content'
<1>1. TypeOK /\ Control /\ Shared /\ \A p \in Runtimes : Local(p)
      BY ContentSplits DEF Coherent, Control
<1>2. Shared'
      BY <1>1, SharedSynced
<1>3. DurableHistory' = History /\ IsPrefixOf(DurableHistory, History)
      BY <1>1, SyncedLog, LogShape
<1>4. IsPrefixOf(DurableHistory, DurableHistory') /\ Len(ckpt) =< Len(ckpt')
      BY <1>1, <1>3 DEF TypeOK
<1>5. ASSUME NEW p \in Runtimes \ {r} PROVE Local(p)'
      BY <1>1, <1>4, OtherKeeps DEF OthersStay
<1>6. (\A p \in Runtimes : Local(p))'
      BY <1>5
<1>7. (Content <=> Shared /\ \A p \in Runtimes : Local(p))'
      BY ContentSplits, PTL
<1> QED BY <1>2, <1>6, <1>7

LEMMA SettleLocal ==
    ASSUME TypeOK, NEW r \in Runtimes, NEW code, Settle(r, code),
           IsPrefixOf(gen[r], DurableHistory)', lock' = r => prior' = None
    PROVE  Local(r)' /\ \A p \in Runtimes \ {r} : /\ stage'[p] = stage[p]
                                                  /\ pending'[p] = pending[p]
                                                  /\ req'[p] = req[p] /\ body'[p] = body[p]
                                                  /\ root'[p] = root[p]
<1>1. stage'[r] = "idle"
      BY DEF Settle, TypeOK
<1>2. Local(r)'
      BY <1>1, IdleLocal DEF Local, Searched, Unused, Found
<1> QED BY <1>2 DEF Settle, TypeOK

LEMMA ConcludeLocal ==
    ASSUME TypeOK, NEW r \in Runtimes, NEW next, NEW code, Conclude(r, next, code),
           UNCHANGED <<req, body, gen>>,
           IsPrefixOf(gen[r], DurableHistory'),
           next = "receipts" =>
                \A i \in DOMAIN gen[r] : gen[r][i].mid = req[r].mid => i =< Len(ckpt'),
           next \in {"prepare", "commit"} \/ code = "committed" => ~Has(gen[r], req[r].mid),
           next = "effects" \/ code = "already" => Settles(DurableHistory', req[r]),
           code = "committed" => dirty' = << >> /\ DurableHistory' = Append(gen[r], Tx(r)),
           code = "recovered" => root'[r] = DurableHistory'
    PROVE  Local(r)' /\ \A p \in Runtimes \ {r} : /\ stage'[p] = stage[p]
                                                  /\ pending'[p] = pending[p]
                                                  /\ req'[p] = req[p] /\ body'[p] = body[p]
                                                  /\ gen'[p] = gen[p]
<1>1. /\ stage'[r] = "release" /\ pending'[r] = [next |-> next, code |-> code]
      /\ \A p \in Runtimes \ {r} : stage'[p] = stage[p] /\ pending'[p] = pending[p]
      BY DEF Conclude, TypeOK
<1>2. IsPrefixOf(gen[r], DurableHistory)'
      BY DEF IsPrefixOf
<1>3. Local(r)'
      BY <1>1, <1>2 DEF Local, Searched, Unused, Found, Settles, Has, Tx
<1> QED BY <1>1, <1>3

-------------------------------------------------------------------------------
(* One lemma per part of the program *)

USE ConstantsOK

LEMMA Unfold ==
    ASSUME Coherent
    PROVE  Control /\ TypeOK /\ Content /\ Shared /\ \A p \in Runtimes : Local(p)
  BY ContentSplits DEF Coherent, Control

LEMMA CallContent ==
    ASSUME Coherent, Control', NEW r \in Runtimes, Call(r)
    PROVE  Content'
<1> USE Unfold DEF Control
<1>1. ASSUME NEW kind, NEW first \in {"lookup", "recover", "rotate", "gc", "observe"},
             Begin(r, kind, first), \A p \in Runtimes \ {r} : req'[p] = req[p]
      PROVE  Content'
  <2>1. stage'[r] = first /\ stage[r] = "idle"
        BY <1>1 DEF Begin, TypeOK, IdleBetween
  <2>2. /\ UNCHANGED <<lock, ckpt, ledger, wal, dirty, prior, gen, acked, pending, body, root>>
        BY <1>1 DEF Begin, disk
  <2>3. OthersStay(r)
        BY <1>1, <2>2 DEF OthersStay, Begin, TypeOK
  <2>4. DurableHistory' = DurableHistory
        BY <2>2, QuietLog
  <2>5. Local(r)'
        BY <2>1, <2>2, <2>4 DEF Local, Searched, Unused, Found, IsPrefixOf
  <2> QED BY <2>2, <2>3, <2>5, QuietContent
<1>2. ASSUME NEW q, req' = [req EXCEPT ![r] = q] PROVE \A p \in Runtimes \ {r} : req'[p] = req[p]
      BY <1>2 DEF TypeOK
<1>3. CASE Close(r)
  <2>1. stage'[r] = "idle" /\ gen'[r] = << >> /\ stage[r] = "idle"
        BY <1>3 DEF Close, TypeOK, IdleBetween
  <2>2. UNCHANGED <<lock, ckpt, ledger, wal, dirty, prior, acked, stage, pending, req, body, root>>
        BY <1>3 DEF Close, disk
  <2>3. OthersStay(r)
        BY <1>3, <2>2 DEF OthersStay, Close, TypeOK
  <2>4. DurableHistory' \in Seq(Transaction) /\ IsPrefixOf(gen[r], DurableHistory)'
        BY <2>1, <2>2, QuietLog, LogTyped DEF IsPrefixOf
  <2>5. Local(r)'
        BY <2>1, <2>2, <2>4 DEF Local, Searched, Unused, Found
  <2> QED BY <2>2, <2>3, <2>5, QuietContent
<1>4. CASE Open(r)
      BY <1>1, <1>4 DEF Open
<1>5. CASE BeginMutate(r)
      BY <1>1, <1>2, <1>5 DEF BeginMutate
<1>6. CASE BeginRecover(r)
      BY <1>1, <1>6 DEF BeginRecover
<1>7. CASE BeginRotate(r)
      BY <1>1, <1>7 DEF BeginRotate
<1>8. CASE BeginGc(r)
      BY <1>1, <1>8 DEF BeginGc
<1>9. CASE BeginMaintain(r)
      BY <1>1, <1>9 DEF BeginMaintain
<1> QED BY <1>3, <1>4, <1>5, <1>6, <1>7, <1>8, <1>9 DEF Call

\* An operation that ends without publishing.
LEMMA SettleContent ==
    ASSUME Coherent, Control', NEW r \in Runtimes, NEW code, Settle(r, code),
           UNCHANGED <<ckpt, ledger, wal, dirty, gen, acked>>, prior' \in {prior, None},
           lock' = lock \/ lock' \notin Runtimes,
           stage[r] \notin {"switched", "release"} \/ lock' # r
    PROVE  Content'
<1> USE Unfold DEF Control
<1>1. DurableHistory' = DurableHistory
      BY QuietLog
<1>2. IsPrefixOf(gen[r], DurableHistory)'
      BY <1>1 DEF Local, IsPrefixOf
<1>3. lock' = r => prior' = None
      BY DEF Local
<1>4. Local(r)' /\ OthersStay(r)
      BY <1>2, <1>3, SettleLocal DEF OthersStay
<1> QED BY <1>4, QuietContent

LEMMA LockContent ==
    ASSUME Coherent, Control', NEW r \in Runtimes,
           Take(r) \/ TakeOnOldHead(r) \/ Busy(r) \/ TakeFails(r)
    PROVE  Content'
<1> USE Unfold DEF Control
<1>1. CASE Take(r)
  <2>1. /\ lock' = r /\ prior' = None
        /\ UNCHANGED <<ckpt, ledger, wal, dirty, stage, pending, req, body, gen, root, acked>>
        /\ stage[r] \in Scopes
        BY <1>1 DEF Take, Waits, flow
  <2>2. OthersStay(r)
        BY <2>1 DEF OthersStay
  <2>3. DurableHistory' = DurableHistory
        BY <2>1, QuietLog
  <2>4. Local(r)'
        BY <2>1, <2>3 DEF Local, Searched, Unused, Found, Settles, Has, IsPrefixOf, Scopes
  <2> QED BY <2>1, <2>2, <2>4, QuietContent
<1>2. CASE TakeOnOldHead(r)
  <2>1. /\ lock' = r /\ prior' = None /\ Conclude(r, "idle", "recovery-required")
        /\ UNCHANGED <<ckpt, ledger, wal, dirty, req, body, gen, root, acked>>
        BY <1>2 DEF TakeOnOldHead
  <2>2. DurableHistory' = DurableHistory
        BY <2>1, QuietLog
  <2>3. Local(r)' /\ OthersStay(r)
        BY <2>1, <2>2, ConcludeLocal DEF OthersStay, Local
  <2> QED BY <2>1, <2>3, QuietContent
<1>3. CASE Busy(r)
  <2>1. /\ Settle(r, "refused") /\ lock' = lock /\ stage[r] \in Scopes
        /\ UNCHANGED <<ckpt, ledger, wal, dirty, gen, acked>> /\ prior' \in {prior, None}
        BY <1>3 DEF Busy, Waits
  <2> QED BY <2>1, SettleContent DEF Scopes
<1>4. CASE TakeFails(r)
  <2>1. PICK code : Settle(r, code)
        BY <1>4 DEF TakeFails
  <2>2. /\ UNCHANGED <<ckpt, ledger, wal, dirty, prior, gen, acked>> /\ stage[r] \in Scopes
        /\ lock' = lock \/ lock' \notin Runtimes
        BY <1>4, ConstantsOK DEF TakeFails, Waits
  <2> QED BY <2>1, <2>2, SettleContent DEF Scopes
<1> QED BY <1>1, <1>2, <1>3, <1>4

LEMMA ReleaseContent ==
    ASSUME Coherent, Control', NEW r \in Runtimes, Release(r) \/ ReleaseFails(r)
    PROVE  Content'
<1> USE Unfold DEF Control
<1>1. CASE ReleaseFails(r)
  <2>1. PICK code : Settle(r, code)
        BY <1>1 DEF ReleaseFails
  <2>2. /\ UNCHANGED <<ckpt, ledger, wal, dirty, prior, gen, acked>>
        BY <1>1 DEF ReleaseFails
  <2>3. lock' \notin Runtimes
        BY <1>1 DEF ReleaseFails
  <2> QED BY <2>1, <2>2, <2>3, SettleContent
<1>2. CASE Release(r) /\ pending[r].next # "idle"
  <2>1. /\ lock' = None /\ prior' = None /\ stage[r] = "release"
        /\ UNCHANGED <<ckpt, ledger, wal, dirty, req, body, gen, root, acked>>
        /\ stage' = [stage EXCEPT ![r] = pending[r].next]
        /\ pending' = [pending EXCEPT ![r] = NoPending]
        BY <1>2 DEF Release, Holds, Enter
  <2>2. /\ stage'[r] = pending[r].next
        /\ \A p \in Runtimes \ {r} : stage'[p] = stage[p] /\ pending'[p] = pending[p]
        BY <2>1 DEF TypeOK
  <2>3. pending[r].next \in {"receipts", "effects", "prepare", "commit", "relook", "gc"}
        BY <1>2, <2>1 DEF ReleaseFormed
  <2>4. OthersStay(r)
        BY <2>1, <2>2 DEF OthersStay
  <2>5. DurableHistory' = DurableHistory
        BY <2>1, QuietLog
  <2>6. Local(r)'
        BY <2>1, <2>2, <2>3, <2>5 DEF Local, Searched, Unused, Found, Settles, Has, IsPrefixOf
  <2> QED BY <2>1, <2>4, <2>6, QuietContent
<1>3. CASE Release(r) /\ pending[r].next = "idle"
  <2>1. /\ lock' = None /\ prior' = None /\ stage[r] = "release" /\ lock = r
        /\ UNCHANGED <<ckpt, ledger, wal, dirty>>
        /\ Deliver(r)
        BY <1>3 DEF Release, Holds
  <2>2. PICK code : Settle(r, code)
        BY <2>1 DEF Deliver
  <2>3. DurableHistory' = DurableHistory
        BY <2>1, QuietLog
  <2>4. ASSUME IsPrefixOf(gen'[r], DurableHistory), \A p \in Runtimes \ {r} : gen'[p] = gen[p],
               \A q \in acked' : q \in acked \/ Settles(DurableHistory, q)
        PROVE  Content'
    <3>1. IsPrefixOf(gen[r], DurableHistory)'
          BY <2>3, <2>4 DEF IsPrefixOf
    <3>2. Local(r)' /\ OthersStay(r)
          BY <2>1, <2>2, <2>4, <3>1, SettleLocal DEF OthersStay
    <3> QED BY <2>1, <2>4, <3>2, QuietContent
  <2>5. CASE pending[r].code = "committed"
    <3>1. gen' = [gen EXCEPT ![r] = Append(@, Tx(r))] /\ acked' = acked \cup {req[r]}
          BY <2>1, <2>5 DEF Deliver
    <3>2. DurableHistory = Append(gen[r], Tx(r))
          BY <2>1, <2>5 DEF Local
    <3>3. gen'[r] = DurableHistory /\ \A p \in Runtimes \ {r} : gen'[p] = gen[p]
          BY <3>1, <3>2 DEF TypeOK
    <3>4. DurableHistory \in Seq(Transaction)
          BY LogTyped
    <3>5. req[r] \in Requests /\ body[r] \in Bodies
          BY <2>1, <2>5 DEF RequestCarried, Unused, Prepared, TypeOK
    <3>6. Settles(DurableHistory, req[r])
      <4>1. Tx(r) \in Transaction /\ Tx(r).mid = req[r].mid /\ Tx(r).intent = req[r].intent
            BY <3>5 DEF Tx, Transaction
      <4>2. gen[r] \in Seq(Transaction)
            BY DEF TypeOK
      <4>3. Len(gen[r]) + 1 \in DOMAIN DurableHistory /\ DurableHistory[Len(gen[r]) + 1] = Tx(r)
            BY <3>2, <4>1, <4>2, AppendAt
      <4> QED BY <4>1, <4>3 DEF Settles
    <3>7. IsPrefixOf(gen'[r], DurableHistory)
          BY <3>3, <3>4 DEF IsPrefixOf
    <3> QED BY <2>4, <3>1, <3>3, <3>6, <3>7
  <2>6. CASE pending[r].code = "recovered"
    <3>1. gen' = [gen EXCEPT ![r] = root[r]] /\ acked' = acked
          BY <2>1, <2>6 DEF Deliver
    <3>2. root[r] = DurableHistory
          BY <2>1, <2>6 DEF Local
    <3>3. gen'[r] = DurableHistory /\ \A p \in Runtimes \ {r} : gen'[p] = gen[p]
          BY <3>1, <3>2 DEF TypeOK
    <3>4. IsPrefixOf(gen'[r], DurableHistory)
          BY <3>3, LogTyped DEF IsPrefixOf
    <3> QED BY <2>4, <3>1, <3>3, <3>4
  <2>7. CASE pending[r].code \notin {"committed", "recovered"}
    <3>1. gen' = gen
          BY <2>1, <2>7 DEF Deliver
    <3>2. acked' = acked \/ (pending[r].code = "already" /\ acked' = acked \cup {req[r]})
          BY <2>1, <2>7 DEF Deliver
    <3>3. pending[r].code = "already" => Settles(DurableHistory, req[r])
          BY <2>1 DEF Local, Found
    <3> QED BY <2>4, <3>1, <3>2, <3>3 DEF Local
  <2> QED BY <2>5, <2>6, <2>7
<1> QED BY <1>1, <1>2, <1>3

\* A search of the active WAL: an identity it does not hold can be in the
\* published generation only as part of the checkpoint.
LEMMA SearchContent ==
    ASSUME Coherent, Control', NEW r \in Runtimes, Lookup(r) \/ Relook(r)
    PROVE  Content'
<1> USE Unfold DEF Control
<1>1. /\ lock = r /\ stage[r] \in {"lookup", "relook"}
      /\ UNCHANGED <<lock, ckpt, ledger, prior, req, body, gen, root, acked>>
      BY DEF Lookup, Relook, Holds
<1>2. PICK missing \in {"receipts", "idle"}, found \in {"continue", "corruption"} :
          Search(r, missing, found)
      BY DEF Lookup, Relook
<1>3. /\ DurableHistory \in Seq(Transaction) /\ History \in Seq(Transaction)
      /\ gen[r] \in Seq(Transaction) /\ IsPrefixOf(DurableHistory, History)
      /\ IsPrefixOf(gen[r], DurableHistory) /\ IsPrefixOf(gen[r], History)
  <2>1. /\ DurableHistory \in Seq(Transaction) /\ History \in Seq(Transaction)
        /\ IsPrefixOf(DurableHistory, History)
        BY LogShape
  <2>2. gen[r] \in Seq(Transaction) /\ IsPrefixOf(gen[r], DurableHistory)
        BY DEF TypeOK, Local
  <2>3. IsPrefixOf(gen[r], History)
        BY <2>1, <2>2, PrefixFacts
  <2> QED BY <2>1, <2>2, <2>3
<1>4. CASE torn
  <2>1. Conclude(r, "idle", "recovery-required") /\ UNCHANGED <<wal, dirty>>
        BY <1>2, <1>4 DEF Search
  <2>2. DurableHistory' = DurableHistory
        BY <1>1, <2>1, QuietLog
  <2>3. Local(r)' /\ OthersStay(r)
        BY <1>1, <1>3, <2>1, <2>2, ConcludeLocal DEF OthersStay
  <2> QED BY <1>1, <2>1, <2>3, QuietContent
<1>5. CASE ~torn
  <2>1. SyncWal
        BY <1>2, <1>5 DEF Search
  <2>2. DurableHistory' = History
        BY <1>1, <2>1, SyncedLog
  <2>3. CASE ~Has(Frames, req[r].mid)
    <3>1. Conclude(r, missing, found)
          BY <1>2, <1>5, <2>3 DEF Search, Settles, Has
    <3>2. \A i \in DOMAIN gen[r] : gen[r][i].mid = req[r].mid => i =< Len(ckpt)
      <4> SUFFICES ASSUME NEW i \in DOMAIN gen[r], gen[r][i].mid = req[r].mid, i > Len(ckpt)
                   PROVE  FALSE
        <5>1. ckpt \in Seq(Transaction)
              BY DEF TypeOK
        <5>2. Len(ckpt) \in Nat /\ \A i \in DOMAIN gen[r] : i \in Nat
              BY <5>1, <1>3
        <5> QED BY <5>2
      <4>1. i \in DOMAIN History /\ History[i] = gen[r][i]
        <5>1. DOMAIN gen[r] = 1..Len(gen[r]) /\ DOMAIN History = 1..Len(History)
              BY <1>3
        <5> QED BY <1>3, <5>1 DEF IsPrefixOf
      <4>2. i - Len(ckpt) \in DOMAIN Frames /\ Frames[i - Len(ckpt)] = gen[r][i]
            BY <4>1, FramesInHistory
      <4> QED BY <2>3, <4>2 DEF Has
    <3>3. Local(r)' /\ OthersStay(r)
          BY <1>1, <1>3, <2>2, <3>1, <3>2, ConcludeLocal DEF OthersStay
    <3> QED BY <1>1, <2>1, <3>3, SyncContent
  <2>4. CASE Settles(Frames, req[r])
    <3>1. Conclude(r, "effects", "continue")
          BY <1>2, <1>5, <2>4 DEF Search, Settles, Has
    <3>2. Settles(DurableHistory', req[r])
          BY <2>2, <2>4, FramesInHistory
    <3>3. Local(r)' /\ OthersStay(r)
          BY <1>1, <1>3, <2>2, <3>1, <3>2, ConcludeLocal DEF OthersStay
    <3> QED BY <1>1, <2>1, <3>3, SyncContent
  <2>5. CASE Has(Frames, req[r].mid) /\ ~Settles(Frames, req[r])
    <3>1. Conclude(r, "idle", "corruption")
          BY <1>2, <1>5, <2>5 DEF Search
    <3>3. Local(r)' /\ OthersStay(r)
          BY <1>1, <1>3, <2>2, <3>1, ConcludeLocal DEF OthersStay
    <3> QED BY <1>1, <2>1, <3>3, SyncContent
  <2> QED BY <2>3, <2>4, <2>5
<1> QED BY <1>4, <1>5

\* The effects and the receipts of a committed mutation; after the receipts,
\* an identity that was not found is new to the published generation.
LEMMA FoundContent ==
    ASSUME Coherent, Control', NEW r \in Runtimes, ResolveEffects(r) \/ LookupReceipts(r)
    PROVE  Content'
<1> USE Unfold DEF Control
<1>1. /\ lock = r /\ lock' = lock /\ prior' = prior
      /\ UNCHANGED <<ckpt, ledger, wal, dirty, req, body, gen, root, acked>>
      BY DEF ResolveEffects, LookupReceipts, Holds, disk
<1>2. /\ DurableHistory \in Seq(Transaction) /\ gen[r] \in Seq(Transaction)
      /\ ckpt \in Seq(Transaction) /\ IsPrefixOf(gen[r], DurableHistory)
      /\ DurableHistory' = DurableHistory
      BY <1>1, LogShape, QuietLog DEF TypeOK, Local
<1>3. ASSUME NEW next \in {"idle", "prepare"}, NEW code \in {"recovery-required", "continue",
                 "corruption", "already"}, Conclude(r, next, code),
             next = "prepare" => ~Has(gen[r], req[r].mid),
             code = "already" => Settles(DurableHistory, req[r])
      PROVE  Content'
  <2>1. Local(r)' /\ OthersStay(r)
        BY <1>1, <1>2, <1>3, ConcludeLocal DEF OthersStay
  <2> QED BY <1>1, <2>1, QuietContent
<1>4. CASE ResolveEffects(r)
  <2>1. Settles(DurableHistory, req[r])
        BY <1>4 DEF ResolveEffects, Holds, Local, Found
  <2>2. PICK code \in {"recovery-required", "corruption", "already"} : Conclude(r, "idle", code)
        BY <1>4 DEF ResolveEffects
  <2> QED BY <1>3, <2>1, <2>2
<1>5. CASE LookupReceipts(r)
  <2>1. ledger = Entries(ckpt)
        BY DEF Shared, LedgerMatchesCheckpoint
  <2>2. /\ IsPrefixOf(ckpt, DurableHistory)
        BY ConcatPrefix DEF DurableHistory, TypeOK
  <2>3. CASE \A tx \in ledger : tx.mid # req[r].mid
    <3>1. Conclude(r, "prepare", "continue")
          BY <1>5, <2>3 DEF LookupReceipts
    <3>2. ASSUME NEW i \in DOMAIN gen[r], gen[r][i].mid = req[r].mid PROVE FALSE
      <4>1. i =< Len(ckpt)
            BY <1>5, <3>2 DEF LookupReceipts, Holds, Local, Searched
      <4>2. i \in DOMAIN ckpt /\ ckpt[i] = DurableHistory[i] /\ gen[r][i] = DurableHistory[i]
            BY <1>2, <2>2, <4>1 DEF IsPrefixOf
      <4>3. ckpt[i] \in ledger
            BY <2>1, <4>2 DEF Entries
      <4> QED BY <2>3, <3>2, <4>2, <4>3
    <3> QED BY <1>3, <3>1, <3>2 DEF Has
  <2>4. CASE \E tx \in ledger : tx.mid = req[r].mid
    <3>1. PICK tx \in ledger : /\ tx.mid = req[r].mid
              /\ CASE tx.intent # req[r].intent -> Conclude(r, "idle", "corruption")
                   [] tx.intent = req[r].intent /\ tx.body \in Large \ objects
                                                -> Conclude(r, "idle", "recovery-required")
                   [] OTHER                     -> Conclude(r, "idle", "already")
          BY <1>5, <2>4 DEF LookupReceipts
    <3>2. CASE tx.intent # req[r].intent
          BY <1>3, <3>1, <3>2
    <3>3. CASE tx.intent = req[r].intent
      <4>1. PICK i \in DOMAIN ckpt : ckpt[i] = tx
            BY <2>1 DEF Entries
      <4>2. i \in DOMAIN DurableHistory /\ DurableHistory[i] = tx
            BY <1>2, <2>2, <4>1 DEF IsPrefixOf
      <4>3. Settles(DurableHistory, req[r])
            BY <3>1, <3>3, <4>2 DEF Settles
      <4> QED BY <1>3, <3>1, <3>3, <4>3
    <3> QED BY <3>2, <3>3
  <2> QED BY <2>3, <2>4
<1> QED BY <1>4, <1>5

\* The stages that run without writer.lock.
LEMMA UnlockedContent ==
    ASSUME Coherent, Control', NEW r \in Runtimes, Prepare(r) \/ Measure(r) \/ Observe(r)
    PROVE  Content'
<1> USE Unfold DEF Control
<1>1. /\ stage[r] \in {"prepare", "measure", "observe"}
      /\ UNCHANGED <<lock, ckpt, ledger, wal, dirty, prior, gen, acked>>
      BY DEF Prepare, Measure, Observe, disk
<1>2. CASE \E code : Settle(r, code)
      BY <1>1, <1>2, SettleContent
<1>3. CASE ~\E code : Settle(r, code)
  <2>1. /\ UNCHANGED <<req, pending, root>>
        /\ \A p \in Runtimes \ {r} : body'[p] = body[p]
        BY <1>3 DEF Prepare, Measure, Observe, TypeOK
  <2>2. PICK next \in {"measure", "install", "commit", "rotate"} : Enter(r, next)
        BY <1>3 DEF Prepare, Measure, Observe
  <2>3. next # "rotate" => stage[r] \in {"prepare", "measure"}
    <3>1. CASE Prepare(r) \/ Measure(r)
          BY <3>1 DEF Prepare, Measure
    <3>2. CASE Observe(r)
      <4>1. Enter(r, "rotate") \/ \E code : Settle(r, code)
            BY <3>2 DEF Observe
      <4>2. stage'[r] = "rotate" /\ stage'[r] = next
            BY <1>3, <2>2, <4>1 DEF Enter, TypeOK
      <4> QED BY <4>2
    <3> QED BY <3>1, <3>2
  <2>4. stage'[r] = next /\ OthersStay(r)
        BY <1>1, <2>1, <2>2 DEF Enter, OthersStay, TypeOK
  <2>5. DurableHistory' = DurableHistory
        BY <1>1, QuietLog
  <2>6. Local(r)'
        BY <1>1, <2>1, <2>3, <2>4, <2>5 DEF Local, Searched, Unused, Found, Settles, Has, IsPrefixOf
  <2> QED BY <1>1, <2>4, <2>6, QuietContent
<1> QED BY <1>2, <1>3

\* A mutation between its preparation and its receipt.
LEMMA AppendContent ==
    ASSUME Coherent, Control', NEW r \in Runtimes,
           Install(r) \/ Commit(r) \/ FinishWrite(r) \/ SyncWrite(r)
    PROVE  Content'
<1> USE Unfold DEF Control
<1>1. /\ lock = r /\ stage[r] \in {"install", "commit", "writing", "written"}
      /\ lock' = lock /\ ckpt' = ckpt /\ ledger' = ledger /\ prior' = prior
      /\ UNCHANGED <<req, body, gen, root, acked>>
      BY DEF Install, Commit, FinishWrite, SyncWrite, Holds, disk
<1>2. /\ DurableHistory \in Seq(Transaction) /\ History \in Seq(Transaction)
      /\ gen[r] \in Seq(Transaction) /\ dirty \in Seq(Transaction) /\ ckpt \in Seq(Transaction)
      /\ IsPrefixOf(DurableHistory, History)
      /\ IsPrefixOf(gen[r], DurableHistory) /\ IsPrefixOf(gen[r], History)
  <2>1. /\ DurableHistory \in Seq(Transaction) /\ History \in Seq(Transaction)
        /\ IsPrefixOf(DurableHistory, History)
        BY LogShape
  <2>2. gen[r] \in Seq(Transaction) /\ IsPrefixOf(gen[r], DurableHistory)
        BY DEF TypeOK, Local
  <2>3. IsPrefixOf(gen[r], History)
        BY <2>1, <2>2, PrefixFacts
  <2>4. dirty \in Seq(Transaction) /\ ckpt \in Seq(Transaction)
        BY DEF TypeOK
  <2> QED BY <2>1, <2>2, <2>3, <2>4
<1>3. ~Has(gen[r], req[r].mid) /\ Tx(r) \in Transaction /\ req[r] \in Requests /\ prior = None
      BY <1>1, MutationCarries DEF Local, Unused
<1>4. Tx(r).mid = req[r].mid /\ Tx(r).intent = req[r].intent
      BY DEF Tx
<1>5. ASSUME NEW next, NEW code \in {"recovery-required", "continue", "stale-base"},
             next \in {"idle", "commit", "relook"},
             Conclude(r, next, code), UNCHANGED <<wal, dirty>>
      PROVE  Content'
  <2>1. DurableHistory' = DurableHistory
        BY <1>1, <1>5, QuietLog
  <2>2. Local(r)' /\ OthersStay(r)
        BY <1>1, <1>2, <1>3, <1>5, <2>1, ConcludeLocal DEF OthersStay
  <2> QED BY <1>1, <1>5, <2>2, QuietContent
<1>6. CASE Install(r)
      BY <1>5, <1>6 DEF Install
<1>7. CASE SyncWrite(r)
  <2>1. SyncWal /\ Conclude(r, "idle", "committed") /\ stage[r] = "written"
        BY <1>7 DEF SyncWrite, Holds
  <2>2. DurableHistory' = History /\ dirty' = << >>
        BY <1>1, <2>1, SyncedLog
  <2>3. History = Append(gen[r], Tx(r))
    <3>1. dirty = <<Tx(r)>> /\ gen[r] = DurableHistory
          BY <2>1 DEF Local
    <3>2. History = DurableHistory \o <<Tx(r)>>
          BY <3>1, LogShape
    <3> DEFINE tx == Tx(r)
    <3>3. tx \in Transaction
          BY <1>3
    <3> HIDE DEF tx
    <3>4. gen[r] \o <<tx>> = Append(gen[r], tx)
          BY <1>2, <3>3
    <3> QED BY <3>1, <3>2, <3>4 DEF tx
  <2>4. Local(r)' /\ OthersStay(r)
        BY <1>1, <1>2, <1>3, <2>1, <2>2, <2>3, ConcludeLocal DEF OthersStay
  <2> QED BY <1>1, <2>1, <2>4, SyncContent
<1>8. CASE FinishWrite(r)
  <2>1. /\ dirty' = Append(dirty, Tx(r)) /\ wal' = wal /\ stage[r] = "writing"
        /\ stage' = [stage EXCEPT ![r] = "written"] /\ pending' = pending
        BY <1>8 DEF FinishWrite, Holds
  <2>2. dirty = << >> /\ gen[r] = DurableHistory
        BY <2>1 DEF Local
  <2>3. dirty' = <<Tx(r)>> /\ DurableHistory' = DurableHistory
        BY <1>1, <2>1, <2>2 DEF DurableHistory
  <2>4. History = DurableHistory
    <3>1. History = DurableHistory \o << >>
          BY <2>2, LogShape
    <3> QED BY <1>2, <3>1, ConcatEmpty
  <2>5. History' = Append(History, Tx(r))
    <3>1. wal \in Seq(Transaction) /\ Frames \in Seq(Transaction)
          BY LogTyped DEF TypeOK
    <3>2. wal \o Append(dirty, Tx(r)) = Append(wal \o dirty, Tx(r))
          BY <1>2, <1>3, <3>1, ConcatAppend
    <3>3. Frames' = Append(Frames, Tx(r))
          BY <2>1, <3>2 DEF Frames
    <3>4. ckpt \o Append(Frames, Tx(r)) = Append(ckpt \o Frames, Tx(r))
          BY <1>2, <1>3, <3>1, ConcatAppend
    <3> QED BY <1>1, <3>3, <3>4 DEF History
  <2>6. ~Has(History, req[r].mid)
        BY <1>3, <2>2, <2>4
  <2>7. CommittedOnce'
    <3> DEFINE e == Tx(r)
    <3>1. e \in Transaction /\ e.mid = req[r].mid /\ History' = Append(History, e)
          BY <1>3, <1>4, <2>5
    <3> HIDE DEF e
    <3>2. /\ DOMAIN History' = 1..(Len(History) + 1)
          /\ \A i \in 1..Len(History) : History'[i] = History[i] /\ History[i].mid # req[r].mid
          /\ History'[Len(History) + 1] = e
          BY <1>2, <2>6, <3>1, AppendAt DEF Has
    <3>3. \A i, j \in 1..Len(History) : History[i].mid = History[j].mid => i = j
          BY <1>2 DEF Shared, CommittedOnce
    <3> SUFFICES ASSUME NEW i \in DOMAIN History', NEW j \in DOMAIN History',
                        History'[i].mid = History'[j].mid
                 PROVE  i = j
        BY DEF CommittedOnce
    <3>4. CASE i \in 1..Len(History) /\ j \in 1..Len(History)
          BY <3>2, <3>3, <3>4
    <3>5. CASE i = Len(History) + 1 \/ j = Len(History) + 1
          BY <1>2, <3>1, <3>2, <3>5
    <3> QED BY <1>2, <3>2, <3>4, <3>5
  <2>8. Shared'
    <3>1. AckedDurable' /\ LedgerMatchesCheckpoint'
          BY <1>1, <2>3 DEF Shared, AckedDurable, LedgerMatchesCheckpoint, Entries
    <3>2. RevertIsHarmless' /\ PriorIsSound'
          BY <1>1, <1>3 DEF RevertIsHarmless, PriorIsSound
    <3>3. OneDirtyFrame'
          BY <2>3 DEF OneDirtyFrame
    <3> QED BY <2>7, <3>1, <3>2, <3>3 DEF Shared
  <2>9. stage'[r] = "written" /\ OthersStay(r)
        BY <1>1, <2>1 DEF OthersStay, TypeOK
  <2>10. Local(r)'
        BY <1>1, <1>3, <2>1, <2>2, <2>3, <2>9
           DEF Local, Searched, Unused, Found, Has, IsPrefixOf, Tx
  <2>11. ASSUME NEW p \in Runtimes \ {r} PROVE Local(p)'
    <3>1. IsPrefixOf(DurableHistory, DurableHistory') /\ Len(ckpt) =< Len(ckpt')
          BY <1>1, <1>2, <2>3 DEF IsPrefixOf
    <3> QED BY <1>1, <2>9, <3>1, OtherKeeps DEF OthersStay
  <2>12. (\A p \in Runtimes : Local(p))'
        BY <2>10, <2>11
  <2>13. (Content <=> Shared /\ \A p \in Runtimes : Local(p))'
        BY ContentSplits, PTL
  <2> QED BY <2>8, <2>12, <2>13
<1>9. CASE Commit(r)
  <2>1. CASE UNCHANGED <<wal, dirty>> /\ \E next \in {"idle", "relook"} :
                 \E code \in {"recovery-required", "continue", "stale-base"} : Conclude(r, next, code)
        BY <1>5, <2>1
  <2>2. CASE \E i \in DOMAIN Frames : Frames[i] = Tx(r) /\ Conclude(r, "idle", "already") /\ SyncWal
    <3>1. PICK i \in DOMAIN Frames : Frames[i] = Tx(r)
          BY <2>2
    <3>2. Settles(Frames, req[r])
          BY <1>4, <3>1 DEF Settles
    <3>3. DurableHistory' = History /\ Settles(DurableHistory', req[r])
          BY <1>1, <2>2, <3>2, SyncedLog, FramesInHistory
    <3>4. Local(r)' /\ OthersStay(r)
          BY <1>1, <1>2, <1>3, <2>2, <3>3, ConcludeLocal DEF OthersStay
    <3> QED BY <1>1, <2>2, <3>4, SyncContent
  <2>3. CASE /\ gen[r] = History /\ stage' = [stage EXCEPT ![r] = "writing"]
             /\ UNCHANGED <<wal, dirty, pending>>
    <3>1. dirty = << >> /\ gen[r] = DurableHistory
          BY <2>3, PublishedIsWhole
    <3>2. DurableHistory' = DurableHistory
          BY <1>1, <2>3, QuietLog
    <3>3. stage'[r] = "writing" /\ OthersStay(r)
          BY <1>1, <2>3 DEF OthersStay, TypeOK
    <3>4. Local(r)'
          BY <1>1, <1>3, <2>3, <3>1, <3>2, <3>3
             DEF Local, Searched, Unused, Found, Has, IsPrefixOf
    <3> QED BY <1>1, <2>3, <3>3, <3>4, QuietContent
  <2> QED BY <1>9, <2>1, <2>2, <2>3 DEF Commit
<1> QED BY <1>6, <1>7, <1>8, <1>9

LEMMA RecoveryContent ==
    ASSUME Coherent, Control', NEW r \in Runtimes, RepairTail(r) \/ Reconstruct(r)
    PROVE  Content'
<1> USE Unfold DEF Control
<1>1. /\ lock = r /\ stage[r] = "recover" /\ lock' = lock /\ ckpt' = ckpt /\ ledger' = ledger
      /\ prior' = prior /\ UNCHANGED <<req, body, gen, acked>>
      BY DEF RepairTail, Reconstruct, Holds, flow
<1>2. /\ DurableHistory \in Seq(Transaction) /\ History \in Seq(Transaction)
      /\ gen[r] \in Seq(Transaction)
      /\ IsPrefixOf(gen[r], DurableHistory) /\ IsPrefixOf(gen[r], History)
  <2>1. /\ DurableHistory \in Seq(Transaction) /\ History \in Seq(Transaction)
        /\ IsPrefixOf(DurableHistory, History)
        BY LogShape
  <2>2. gen[r] \in Seq(Transaction) /\ IsPrefixOf(gen[r], DurableHistory)
        BY DEF TypeOK, Local
  <2>3. IsPrefixOf(gen[r], History)
        BY <2>1, <2>2, PrefixFacts
  <2> QED BY <2>1, <2>2, <2>3
<1>3. CASE RepairTail(r)
  <2>1. SyncWal /\ UNCHANGED <<stage, pending, root>>
        BY <1>3 DEF RepairTail, flow
  <2>2. DurableHistory' = History
        BY <1>1, <2>1, SyncedLog
  <2>3. Local(r)'
        BY <1>1, <1>2, <2>1, <2>2 DEF Local, Searched, Unused, Found, IsPrefixOf
  <2>4. OthersStay(r)
        BY <1>1, <2>1 DEF OthersStay
  <2> QED BY <1>1, <2>1, <2>3, <2>4, SyncContent
<1>4. CASE Reconstruct(r)
  <2>1. CASE Conclude(r, "idle", "recovery-required") /\ UNCHANGED <<wal, dirty, root>>
    <3>1. DurableHistory' = DurableHistory
          BY <1>1, <2>1, QuietLog
    <3>2. Local(r)' /\ OthersStay(r)
          BY <1>1, <1>2, <2>1, <3>1, ConcludeLocal DEF OthersStay
    <3> QED BY <1>1, <2>1, <3>2, QuietContent
  <2>2. CASE SyncWal /\ root' = [root EXCEPT ![r] = History] /\ Conclude(r, "idle", "recovered")
    <3>1. DurableHistory' = History
          BY <1>1, <2>2, SyncedLog
    <3>2. root'[r] = History /\ \A p \in Runtimes \ {r} : root'[p] = root[p]
          BY <2>2 DEF TypeOK
    <3>3. Local(r)' /\ OthersStay(r)
          BY <1>1, <1>2, <2>2, <3>1, <3>2, ConcludeLocal DEF OthersStay
    <3> QED BY <1>1, <2>2, <3>3, SyncContent
  <2> QED BY <1>4, <2>1, <2>2 DEF Reconstruct
<1> QED BY <1>3, <1>4

\* A rotation moves the whole log into the checkpoint and its receipts, and
\* leaves the old lineage ending where the new one begins.
LEMMA RotationContent ==
    ASSUME Coherent, Control', NEW r \in Runtimes,
           Rotate(r) \/ ConfirmSwitch(r) \/ SwitchUnconfirmed(r)
    PROVE  Content'
<1> USE Unfold DEF Control
<1>1. /\ lock = r /\ stage[r] \in {"rotate", "switched"} /\ lock' = lock
      /\ UNCHANGED <<req, body, gen, root, acked>>
      BY DEF Rotate, ConfirmSwitch, SwitchUnconfirmed, Holds, disk
<1>2. /\ DurableHistory \in Seq(Transaction) /\ History \in Seq(Transaction)
      /\ gen[r] \in Seq(Transaction) /\ ckpt \in Seq(Transaction) /\ Frames \in Seq(Transaction)
      /\ IsPrefixOf(gen[r], DurableHistory)
      BY LogShape DEF TypeOK, Local
<1>3. ASSUME NEW next \in {"idle", "gc"},
             NEW code \in {"recovery-required", "rotated", "cleanup-pending", "unconfirmed"},
             Conclude(r, next, code), UNCHANGED <<ckpt, ledger, wal, dirty>>,
             prior' \in {prior, None}
      PROVE  Content'
  <2>1. DurableHistory' = DurableHistory
        BY <1>3, QuietLog
  <2>2. Local(r)' /\ OthersStay(r)
        BY <1>1, <1>2, <1>3, <2>1, ConcludeLocal DEF OthersStay
  <2> QED BY <1>1, <1>3, <2>2, QuietContent
<1>4. CASE ConfirmSwitch(r)
      BY <1>3, <1>4 DEF ConfirmSwitch
<1>5. CASE SwitchUnconfirmed(r)
      BY <1>3, <1>5 DEF SwitchUnconfirmed, disk
<1>6. CASE Rotate(r) /\ gen[r] # History
      BY <1>3, <1>6 DEF Rotate
<1>7. CASE Rotate(r) /\ gen[r] = History
  <2>1. /\ ckpt' = History /\ ledger' = ledger \cup Entries(Frames)
        /\ wal' = << >> /\ dirty' = << >>
        /\ prior' = [head |-> head, ckpt |-> ckpt, ledger |-> ledger, wal |-> Frames, torn |-> torn]
        /\ stage' = [stage EXCEPT ![r] = "switched"] /\ pending' = pending
        BY <1>7 DEF Rotate
  <2>2. DurableHistory = History
        BY <1>7, PublishedIsWhole
  <2>3. Frames' = << >>
    <3>1. << >> \in Seq(Transaction)
          OBVIOUS
    <3>2. Frames' = << >> \o << >>
          BY <2>1 DEF Frames
    <3> QED BY <3>1, <3>2, ConcatEmpty
  <2>4. History' = History /\ DurableHistory' = History
        BY <1>2, <2>1, <2>3, ConcatEmpty DEF History, DurableHistory
  <2>5. Shared'
    <3>1. CommittedOnce' /\ AckedDurable'
          BY <1>1, <2>2, <2>4 DEF Shared, CommittedOnce, AckedDurable
    <3>2. ledger = Entries(ckpt) /\ Entries(History) = Entries(ckpt) \cup Entries(Frames)
          BY LogShape DEF Shared, LedgerMatchesCheckpoint
    <3>3. LedgerMatchesCheckpoint' /\ PriorIsSound'
          BY <2>1, <3>2 DEF LedgerMatchesCheckpoint, PriorIsSound, Entries
    <3>4. RevertIsHarmless'
      <4>1. prior'.ckpt = ckpt /\ prior'.wal = Frames /\ prior'.ledger = ledger
            BY <2>1
      <4>2. prior'.ckpt \o prior'.wal = ckpt'
            BY <2>1, <4>1 DEF History
      <4> QED BY <2>1, <2>3, <4>1, <4>2 DEF RevertIsHarmless, Entries
    <3>5. OneDirtyFrame'
          BY <2>1 DEF OneDirtyFrame
    <3> QED BY <3>1, <3>3, <3>4, <3>5 DEF Shared
  <2>6. stage'[r] = "switched" /\ OthersStay(r)
        BY <1>1, <2>1 DEF OthersStay, TypeOK
  <2>7. Local(r)'
        BY <1>1, <1>2, <2>1, <2>2, <2>4, <2>6 DEF Local, Searched, Unused, Found, IsPrefixOf
  <2>8. ASSUME NEW p \in Runtimes \ {r} PROVE Local(p)'
    <3>1. IsPrefixOf(DurableHistory, DurableHistory') /\ Len(ckpt) =< Len(ckpt')
          BY <1>2, <2>1, <2>2, <2>4, LogShape DEF IsPrefixOf
    <3> QED BY <1>1, <2>6, <3>1, OtherKeeps DEF OthersStay
  <2>9. (\A p \in Runtimes : Local(p))'
        BY <2>7, <2>8
  <2>10. (Content <=> Shared /\ \A p \in Runtimes : Local(p))'
        BY ContentSplits, PTL
  <2> QED BY <2>5, <2>9, <2>10
<1> QED BY <1>4, <1>5, <1>6, <1>7

\* Collection touches objects only; failing I/O touches no more than that.
LEMMA CollectionContent ==
    ASSUME Coherent, Control', NEW r \in Runtimes,
           Mark(r) \/ Unlink(r) \/ EndSweep(r) \/ StageFails(r)
    PROVE  Content'
<1> USE Unfold DEF Control
<1>1. /\ lock = r /\ lock' = lock
      /\ UNCHANGED <<ckpt, ledger, wal, dirty, prior, req, body, gen, root, acked>>
      BY DEF Mark, Unlink, EndSweep, StageFails, Holds, disk
<1>2. DurableHistory' = DurableHistory
      BY <1>1, QuietLog
<1>3. ASSUME NEW code \in {"authoritative", "collected", "maintenance", "recovery-required",
                           "refused"}, Conclude(r, "idle", code)
      PROVE  Content'
  <2>1. Local(r)' /\ OthersStay(r)
        BY <1>1, <1>2, <1>3, ConcludeLocal DEF OthersStay, Local
  <2> QED BY <1>1, <2>1, QuietContent
<1>4. ASSUME stage[r] \in {"gc", "sweep"}, stage'[r] = "sweep", pending' = pending,
             \A p \in Runtimes \ {r} : stage'[p] = stage[p]
      PROVE  Content'
  <2>1. OthersStay(r)
        BY <1>1, <1>4 DEF OthersStay
  <2>2. Local(r)'
        BY <1>1, <1>2, <1>4 DEF Local, Searched, Unused, Found, IsPrefixOf
  <2> QED BY <1>1, <2>1, <2>2, QuietContent
<1>5. CASE Mark(r)
  <2>1. Conclude(r, "idle", "authoritative")
        \/ (stage' = [stage EXCEPT ![r] = "sweep"] /\ UNCHANGED pending /\ stage[r] = "gc")
        BY <1>5 DEF Mark, Holds
  <2> QED BY <1>3, <1>4, <2>1 DEF TypeOK
<1>6. CASE Unlink(r)
      BY <1>4, <1>6 DEF Unlink, Holds
<1>7. CASE EndSweep(r)
      BY <1>3, <1>7 DEF EndSweep
<1>8. CASE StageFails(r)
      BY <1>3, <1>8 DEF StageFails, FailureCodes
<1> QED BY <1>5, <1>6, <1>7, <1>8

\* Death of some runtimes, when what a power loss keeps is still there and the
\* survivors see no change.
LEMMA DieContent ==
    ASSUME Coherent, Control', NEW gone \in SUBSET Runtimes, Die(gone), Shared',
           DurableHistory' = DurableHistory,
           gone # Runtimes => UNCHANGED <<ckpt, wal, dirty, prior>>
    PROVE  Content'
<1> USE Unfold DEF Control
<1>1. ASSUME NEW p \in gone PROVE Local(p)'
  <2>1. stage'[p] = "idle" /\ gen'[p] = << >> /\ lock' # p
        BY <1>1 DEF Die
  <2>2. DurableHistory' \in Seq(Transaction)
        BY LogTyped
  <2>3. IsPrefixOf(gen[p], DurableHistory)'
        BY <2>1, <2>2 DEF IsPrefixOf
  <2> QED BY <2>1, <2>3 DEF Local, Searched, Unused, Found
<1>2. ASSUME NEW p \in Runtimes \ gone PROVE Local(p)'
  <2>1. gone # Runtimes
        BY <1>2
  <2>2. UNCHANGED <<ckpt, wal, dirty, prior>>
        BY <2>1
  <2>3. IsPrefixOf(DurableHistory, DurableHistory')
        BY LogTyped DEF IsPrefixOf
  <2>4. Len(ckpt) =< Len(ckpt')
        BY <2>2 DEF TypeOK
  <2>5. /\ stage'[p] = stage[p] /\ pending'[p] = pending[p] /\ req'[p] = req[p]
        /\ body'[p] = body[p] /\ gen'[p] = gen[p] /\ root'[p] = root[p]
        /\ lock' = p => lock = p
        BY <1>2 DEF Die
  <2> QED BY <2>2, <2>3, <2>4, <2>5, OtherKeeps
<1>3. (\A p \in Runtimes : Local(p))'
      BY <1>1, <1>2
<1>4. (Content <=> Shared /\ \A p \in Runtimes : Local(p))'
      BY ContentSplits, PTL
<1> QED BY <1>3, <1>4

LEMMA CrashContent ==
    ASSUME Coherent, Control', (\E r \in Runtimes : Crash(r)) \/ LosePower \/ LoseRename
    PROVE  Content'
<1> USE Unfold DEF Control
<1>1. ASSUME NEW r \in Runtimes, Crash(r) PROVE Content'
  <2>1. Die({r}) /\ UNCHANGED <<ckpt, ledger, wal, dirty, prior, acked>>
        BY <1>1 DEF Crash
  <2>2. Shared' /\ DurableHistory' = DurableHistory
        BY <2>1, SharedQuiet, QuietLog
  <2> QED BY <2>1, <2>2, DieContent
<1>2. CASE LosePower
  <2>1. PICK kept \in 0..Len(dirty) : dirty' = SubSeq(dirty, 1, kept)
        BY <1>2 DEF LosePower
  <2>2. Die(Runtimes) /\ UNCHANGED <<ckpt, ledger, wal, prior, acked>>
        BY <1>2 DEF LosePower
  <2>3. DurableHistory' = DurableHistory
        BY <2>2 DEF DurableHistory
  <2>4. /\ dirty \in Seq(Transaction) /\ dirty' \in Seq(Transaction)
        /\ DurableHistory \in Seq(Transaction) /\ Len(dirty') = kept
        /\ \A i \in 1..kept : dirty'[i] = dirty[i]
    <3>1. dirty \in Seq(Transaction) /\ DurableHistory \in Seq(Transaction)
          BY LogTyped DEF TypeOK
    <3>2. ASSUME NEW s \in Seq(Transaction), NEW k \in 0..Len(s)
          PROVE  /\ SubSeq(s, 1, k) \in Seq(Transaction) /\ Len(SubSeq(s, 1, k)) = k
                 /\ \A i \in 1..k : SubSeq(s, 1, k)[i] = s[i]
          OBVIOUS
    <3> QED BY <2>1, <3>1, <3>2
  <2>5. /\ Len(History') =< Len(History) /\ Len(History') \in Nat /\ Len(History) \in Nat
        /\ \A i \in 1..Len(History') : History'[i] = History[i]
    <3>1. History = DurableHistory \o dirty /\ History' = DurableHistory \o dirty'
      <4>1. History = DurableHistory \o dirty
            BY LogShape
      <4>2. (TypeOK => History = DurableHistory \o dirty)'
            BY LogShape, PTL
      <4>3. TypeOK'
            OBVIOUS
      <4> QED BY <2>3, <4>1, <4>2, <4>3
    <3>2. /\ Len(History) = Len(DurableHistory) + Len(dirty)
          /\ Len(History') = Len(DurableHistory) + kept
          BY <2>4, <3>1, ConcatAt
    <3>3. ASSUME NEW i \in 1..Len(History') PROVE History'[i] = History[i]
      <4>1. CASE i =< Len(DurableHistory)
            BY <2>4, <3>1, <3>2, <4>1, ConcatAt
      <4>2. CASE i > Len(DurableHistory)
        <5> DEFINE k == i - Len(DurableHistory)
        <5>1. k \in 1..kept /\ i = Len(DurableHistory) + k /\ k \in 1..Len(dirty)
              BY <2>4, <3>2, <4>2
        <5>2. History'[i] = dirty'[k] /\ History[i] = dirty[k]
              BY <2>4, <3>1, <5>1, ConcatAt
        <5> QED BY <2>4, <5>1, <5>2
      <4> QED BY <2>4, <3>2, <4>1, <4>2
    <3> QED BY <2>4, <3>2, <3>3
  <2>6. CommittedOnce'
    <3>1. DOMAIN History = 1..Len(History) /\ DOMAIN History' = 1..Len(History')
          BY LogTyped
    <3>2. DOMAIN History' \subseteq DOMAIN History
          BY <2>5, <3>1
    <3> QED BY <2>5, <3>1, <3>2 DEF Shared, CommittedOnce
  <2>7. OneDirtyFrame'
        BY <2>4 DEF Shared, OneDirtyFrame
  <2>8. RevertIsHarmless' /\ PriorIsSound'
    <3>1. prior # None => dirty = << >> /\ wal = << >>
          BY LogShape DEF Shared, RevertIsHarmless, Frames, TypeOK
    <3>2. prior # None => dirty' = << >>
          BY <2>4, <3>1
    <3>3. prior # None => Frames' = << >>
          BY <2>2, <3>1, <3>2 DEF Shared, RevertIsHarmless, Frames
    <3> QED BY <2>2, <3>3 DEF Shared, RevertIsHarmless, PriorIsSound, Entries
  <2>9. Shared'
        BY <2>2, <2>3, <2>6, <2>7, <2>8
           DEF Shared, AckedDurable, LedgerMatchesCheckpoint, Entries
  <2> QED BY <2>2, <2>3, <2>9, DieContent
<1>3. CASE LoseRename
  <2>1. /\ Die(Runtimes) /\ prior # None /\ prior \in Lineage /\ acked' = acked
        /\ ckpt' = prior.ckpt /\ ledger' = prior.ledger /\ wal' = prior.wal
        /\ dirty' = << >> /\ prior' = None
        BY <1>3 DEF LoseRename, TypeOK
  <2>2. /\ Frames = << >> /\ prior.ckpt \o prior.wal = ckpt /\ prior.ledger = Entries(prior.ckpt)
        BY <2>1 DEF Shared, RevertIsHarmless, PriorIsSound
  <2>3. History = ckpt /\ DurableHistory = ckpt
    <3>1. ckpt \in Seq(Transaction) /\ wal \in Seq(Transaction) /\ dirty \in Seq(Transaction)
          BY DEF TypeOK
    <3>2. wal = << >>
      <4>1. Len(wal) + Len(dirty) = 0
            BY <2>2, <3>1, ConcatAt DEF Frames
      <4> QED BY <3>1, <4>1
    <3> QED BY <2>2, <3>1, <3>2, ConcatEmpty DEF History, DurableHistory
  <2>4. History' = ckpt /\ DurableHistory' = ckpt
    <3>1. prior.wal \in Seq(Transaction)
          BY <2>1 DEF Lineage
    <3>2. Frames' = prior.wal
          BY <2>1, <3>1, ConcatEmpty DEF Frames
    <3> QED BY <2>1, <2>2, <3>2 DEF History, DurableHistory
  <2>5. Shared'
    <3>1. CommittedOnce' /\ AckedDurable'
          BY <2>1, <2>3, <2>4 DEF Shared, CommittedOnce, AckedDurable
    <3>2. LedgerMatchesCheckpoint'
          BY <2>1, <2>2 DEF LedgerMatchesCheckpoint, Entries
    <3>3. RevertIsHarmless' /\ PriorIsSound'
          BY <2>1 DEF RevertIsHarmless, PriorIsSound
    <3>4. OneDirtyFrame'
          BY <2>1 DEF OneDirtyFrame
    <3> QED BY <3>1, <3>2, <3>3, <3>4 DEF Shared
  <2> QED BY <2>1, <2>3, <2>4, <2>5, DieContent
<1> QED BY <1>1, <1>2, <1>3

LEMMA CoherentInit == Init => Coherent
<1> SUFFICES ASSUME Init PROVE Content
    BY ControlInit DEF Coherent
<1>1. Control /\ TypeOK
      BY ControlInit DEF Control
<1>2. /\ ckpt = << >> /\ ledger = {} /\ dirty = << >> /\ prior = None /\ acked = {}
      /\ \A p \in Runtimes : stage[p] = "idle" /\ gen[p] = << >>
      BY DEF Init
<1>3. DurableHistory = << >> /\ History = << >>
  <2>1. << >> \in Seq(Transaction) /\ wal = << >>
        BY DEF Init
  <2> QED BY <1>2, <2>1, ConcatEmpty DEF History, DurableHistory, Frames
<1>4. Shared
      BY <1>2, <1>3 DEF Shared, CommittedOnce, AckedDurable, LedgerMatchesCheckpoint,
                        RevertIsHarmless, PriorIsSound, OneDirtyFrame, Entries
<1>5. ASSUME NEW p \in Runtimes PROVE Local(p)
      BY <1>2, <1>3, IdleLocal DEF IsPrefixOf
<1> QED BY <1>4, <1>5, ContentSplits

LEMMA CoherentNext == Coherent /\ [Next]_vars => Coherent'
<1> SUFFICES ASSUME Coherent, [Next]_vars PROVE Content'
    BY ControlNext DEF Coherent
<1>1. Control' /\ Control /\ \A p \in Runtimes : Local(p)
      BY ControlNext, Unfold
<1>2. ASSUME NEW r \in Runtimes, Step(r) PROVE Content'
      BY <1>1, <1>2, LockContent, ReleaseContent, SearchContent, FoundContent, UnlockedContent,
         AppendContent, RecoveryContent, RotationContent, CollectionContent DEF Step
<1>3. ASSUME NEW r \in Runtimes, Fail(r) PROVE Content'
      BY <1>1, <1>3, LockContent, ReleaseContent, CollectionContent, RotationContent, CrashContent
         DEF Fail
<1>4. ASSUME NEW r \in Runtimes, UNCHANGED <<ckpt, ledger, wal, dirty, prior, flow, acked>>,
             lock' = lock \/ lock' \notin Runtimes
      PROVE  Content'
  <2>1. OthersStay(r)
        BY <1>4 DEF OthersStay, flow
  <2>2. DurableHistory' = DurableHistory
        BY <1>4, QuietLog
  <2>3. Local(r)'
        BY <1>1, <1>4, <2>2 DEF flow, Local, Searched, Unused, Found, IsPrefixOf, Settles, Has, Tx
  <2> QED BY <1>1, <1>4, <2>1, <2>3, QuietContent DEF Control
<1>5. CASE ClearStaleLock \/ UNCHANGED vars
  <2>1. /\ UNCHANGED <<ckpt, ledger, wal, dirty, prior, flow, acked>>
        /\ lock' = lock \/ lock' \notin Runtimes
        BY <1>5 DEF ClearStaleLock, vars, disk
  <2>2. CASE \E r \in Runtimes : TRUE
        BY <1>4, <2>1, <2>2
  <2>3. CASE Runtimes = {}
    <3>1. Shared /\ TypeOK
          BY Unfold
    <3>2. Shared'
          BY <2>1, <3>1, SharedQuiet
    <3>3. (Content <=> Shared /\ \A p \in Runtimes : Local(p))'
          BY ContentSplits, PTL
    <3> QED BY <2>3, <3>2, <3>3
  <2> QED BY <2>2, <2>3
<1> QED BY <1>1, <1>2, <1>3, <1>5, CallContent, CrashContent DEF Next

-------------------------------------------------------------------------------
(* What follows *)

\* Coherent is an invariant: the runtimes' stages, the log, the receipts and
\* the checkpoint agree through every interleaving, crash and failing barrier.
THEOREM CoherentAlways == Spec => []Coherent
  BY CoherentInit, CoherentNext, PTL DEF Spec

\* A mutation identity commits at most once, over the active WAL and the
\* receipts of reclaimed segments together, whoever retries or races it.
THEOREM MutationsCommitOnce == Spec => []CommittedOnce
<1>1. Coherent => CommittedOnce
      BY DEF Coherent, Content
<1> QED BY <1>1, CoherentAlways, PTL

\* A mutation some caller was told is committed is in the part of the store a
\* power loss keeps, under the intent it was sent with.
THEOREM AcknowledgedIsDurable == Spec => []AckedDurable
<1>1. Coherent => AckedDurable
      BY DEF Coherent, Content
<1> QED BY <1>1, CoherentAlways, PTL

\* What a runtime serves is always a prefix of the durable history.
THEOREM ReadersSeeDurable == Spec => []PublishedIsDurable
<1>1. Coherent => PublishedIsDurable
      BY DEF Coherent, Content
<1> QED BY <1>1, CoherentAlways, PTL

\* The cumulative receipts are exactly those of the checkpointed history, and
\* a HEAD rename a power loss may undo loses none of it.
THEOREM RotationKeepsHistory == Spec => [](LedgerMatchesCheckpoint /\ RevertIsHarmless)
<1>1. Coherent => LedgerMatchesCheckpoint /\ RevertIsHarmless
      BY DEF Coherent, Content
<1> QED BY <1>1, CoherentAlways, PTL

\* A HEAD rename that a power loss may still undo changes nothing a caller can
\* see, however runtimes append to the store in the meantime.
THEOREM RevertsAreHarmless == Spec => []RevertIsHarmless
<1>1. Coherent => RevertIsHarmless
      BY DEF Coherent, Content
<1> QED BY <1>1, CoherentAlways, PTL

-------------------------------------------------------------------------------
(* DurableStore implements CommittedHistory: each step commits one         *)
(* mutation, publishes or answers from the whole durable log, forgets the  *)
(* views of runtimes that are gone, or changes nothing a caller or a       *)
(* reader can tell.                                                        *)

\* The steps of CommittedHistory, with the views that a step forgets being
\* those of runtimes it leaves closed.
Forgotten ==
    \E gone \in SUBSET Runtimes :
        /\ gen' = [r \in Runtimes |-> IF r \in gone THEN << >> ELSE gen[r]]
        /\ \A r \in gone : life'[r] = "closed"
        /\ UNCHANGED <<DurableHistory, acked>>

PromisedStep ==
    \/ UNCHANGED <<DurableHistory, gen, acked>>
    \/ Promise!Commit
    \/ Forgotten
    \/ \E r \in Runtimes :
        \/ Promise!Publish(r)
        \/ \E q \in Promise!Request : Promise!Answer(r, q)

-------------------------------------------------------------------------------
(* What each kind of step does to the durable log *)

\* A barrier over the active WAL commits the one frame that waits for it,
\* whose identity is new, or nothing.
LEMMA SyncPromised ==
    ASSUME Coherent, SyncWal, UNCHANGED <<ckpt, gen, acked>>
    PROVE  PromisedStep
<1> USE Unfold
<1>1. DurableHistory' = DurableHistory \o dirty /\ History = DurableHistory \o dirty
      BY SyncedLog, LogShape
<1>2. /\ dirty \in Seq(Transaction) /\ DurableHistory \in Seq(Transaction)
      /\ Len(dirty) \in {0, 1}
  <2>1. dirty \in Seq(Transaction) /\ DurableHistory \in Seq(Transaction)
        BY LogTyped DEF TypeOK
  <2>2. Len(dirty) =< 1
        BY DEF Shared, OneDirtyFrame
  <2>3. ASSUME NEW n \in Nat, n =< 1 PROVE n \in {0, 1}
        BY <2>3
  <2>4. Len(dirty) \in Nat
        BY <2>1
  <2> QED BY <2>1, <2>2, <2>3, <2>4
<1>3. CASE Len(dirty) = 0
  <2>1. dirty = << >>
        BY <1>2, <1>3
  <2>2. DurableHistory' = DurableHistory
        BY <1>1, <1>2, <2>1, ConcatEmpty
  <2> QED BY <2>2 DEF PromisedStep
<1>4. CASE Len(dirty) = 1
  <2>1. dirty[1] \in Transaction /\ dirty = Append(<< >>, dirty[1]) /\ << >> \in Seq(Transaction)
    <3>1. dirty[1] \in Transaction /\ << >> \in Seq(Transaction) /\ Len(<< >>) = 0
          BY <1>2, <1>4
    <3>2. /\ Append(<< >>, dirty[1]) \in Seq(Transaction)
          /\ Len(Append(<< >>, dirty[1])) = 1 /\ Append(<< >>, dirty[1])[1] = dirty[1]
          BY <3>1, AppendAt
    <3> QED BY <1>2, <1>4, <3>1, <3>2, SameSequence
  <2>2. DurableHistory' = Append(DurableHistory, dirty[1])
    <3>1. DurableHistory \o Append(<< >>, dirty[1]) = Append(DurableHistory \o << >>, dirty[1])
          BY <1>2, <2>1, ConcatAppend
    <3> QED BY <1>1, <1>2, <2>1, <3>1, ConcatEmpty
  <2>3. ~Has(DurableHistory, dirty[1].mid)
    <3>1. /\ Len(History) = Len(DurableHistory) + 1
          /\ History[Len(DurableHistory) + 1] = dirty[1]
          /\ \A i \in 1..Len(DurableHistory) : History[i] = DurableHistory[i]
      <4>1. /\ Len(DurableHistory \o dirty) = Len(DurableHistory) + Len(dirty)
            /\ \A i \in 1..Len(DurableHistory) : (DurableHistory \o dirty)[i] = DurableHistory[i]
            /\ \A i \in 1..Len(dirty) : (DurableHistory \o dirty)[Len(DurableHistory) + i] = dirty[i]
            BY <1>2, ConcatAt
      <4> QED BY <1>1, <1>4, <4>1
    <3>2. Len(DurableHistory) + 1 \in DOMAIN History /\ 1..Len(DurableHistory) \subseteq DOMAIN History
          BY <1>2, <3>1, LogTyped
    <3> QED BY <1>2, <3>1, <3>2 DEF Shared, CommittedOnce, Has
  <2>4. Promise!Commit
        BY <2>1, <2>2, <2>3 DEF Promise!Commit, Promise!Has, Promise!Transaction, Has, Transaction
  <2> QED BY <2>4 DEF PromisedStep
<1> QED BY <1>2, <1>3, <1>4

LEMMA QuietPromised ==
    ASSUME UNCHANGED <<ckpt, wal, gen, acked>>
    PROVE  PromisedStep
  BY DEF PromisedStep, DurableHistory

\* What a mutation that was found committed is answered from.
LEMMA AlreadyPromised ==
    ASSUME Coherent, NEW r \in Runtimes, stage[r] = "release", pending[r].code = "already",
           \E i \in 1..Len(gen[r]) : i =< Len(History) /\ History[i].mid = req[r].mid,
           UNCHANGED <<ckpt, wal, gen>>, acked' = acked \cup {req[r]}
    PROVE  PromisedStep
<1> USE Unfold
<1>1. Settles(DurableHistory, req[r]) /\ IsPrefixOf(gen[r], DurableHistory)
      BY DEF Local, Found
<1>2. req[r] \in Promise!Request
      BY ConstantsOK DEF Control, RequestCarried, Found, TypeOK, Promise!Request
<1>3. PICK i \in 1..Len(gen[r]) : i =< Len(History) /\ History[i].mid = req[r].mid
      OBVIOUS
<1>4. PICK j \in DOMAIN DurableHistory :
            DurableHistory[j].mid = req[r].mid /\ DurableHistory[j].intent = req[r].intent
      BY <1>1 DEF Settles
<1>5. /\ gen[r] \in Seq(Transaction) /\ DurableHistory \in Seq(Transaction)
      /\ History \in Seq(Transaction) /\ IsPrefixOf(DurableHistory, History)
      BY LogShape DEF TypeOK
<1>6. /\ i \in DOMAIN History /\ j \in DOMAIN History /\ History[j] = DurableHistory[j]
      /\ i \in DOMAIN gen[r] /\ gen[r][i] = DurableHistory[i] /\ History[i] = DurableHistory[i]
      BY <1>1, <1>3, <1>4, <1>5 DEF IsPrefixOf
<1>7. i = j
      BY <1>3, <1>4, <1>6 DEF Shared, CommittedOnce
<1>8. Promise!Settles(gen'[r], req[r])
      BY <1>4, <1>6, <1>7 DEF Promise!Settles
<1>9. Promise!Answer(r, req[r])
      BY <1>8 DEF Promise!Answer, DurableHistory
<1> QED BY <1>2, <1>9 DEF PromisedStep

LEMMA HeldSettles ==
    ASSUME NEW s, NEW r, NEW i \in DOMAIN s, s[i] = Tx(r)
    PROVE  Promise!Settles(s, req[r])
<1>1. s[i].mid = req[r].mid /\ s[i].intent = req[r].intent
      BY DEF Tx
<1> QED BY <1>1 DEF Promise!Settles

\* A committed mutation is published together with everything before it.
LEMMA CommittedPromised ==
    ASSUME Coherent, NEW r \in Runtimes, stage[r] = "release", pending[r].code = "committed",
           gen' = [gen EXCEPT ![r] = Append(@, Tx(r))],
           UNCHANGED <<ckpt, wal>>, acked' = acked \cup {req[r]}
    PROVE  PromisedStep
<1> USE Unfold
<1>1. DurableHistory = Append(gen[r], Tx(r)) /\ DurableHistory' = DurableHistory
      BY DEF Local, DurableHistory
<1>2. gen' = [gen EXCEPT ![r] = DurableHistory]
      BY <1>1
<1>3. gen[r] \in Seq(Transaction) /\ req[r] \in Promise!Request /\ DurableHistory \in Seq(Transaction)
      BY ConstantsOK, LogTyped DEF Control, RequestCarried, Unused, TypeOK, Promise!Request
<1>4. gen'[r] = DurableHistory
      BY <1>2 DEF TypeOK
<1>5. Len(gen[r]) + 1 \in DOMAIN DurableHistory /\ DurableHistory[Len(gen[r]) + 1] = Tx(r)
      BY <1>1, <1>3
<1>6. Promise!Settles(gen'[r], req[r])
  <2>1. Promise!Settles(DurableHistory, req[r])
        BY <1>5, HeldSettles
  <2> QED BY <2>1, <1>4
<1>7. Promise!Answer(r, req[r])
      BY <1>1, <1>2, <1>6 DEF Promise!Answer
<1> QED BY <1>3, <1>7 DEF PromisedStep

LEMMA ReleasePromised ==
    ASSUME Coherent, NEW r \in Runtimes, Release(r)
    PROVE  PromisedStep
<1> USE Unfold
<1>1. stage[r] = "release" /\ UNCHANGED <<ckpt, wal>> /\ DurableHistory' = DurableHistory
      BY DEF Release, Holds, DurableHistory
<1>2. CASE pending[r].next # "idle"
      BY <1>1, <1>2, QuietPromised DEF Release
<1>3. CASE pending[r].next = "idle"
  <2>1. Deliver(r)
        BY <1>3 DEF Release
  <2>2. CASE pending[r].code = "committed"
        BY <1>1, <2>1, <2>2, CommittedPromised DEF Deliver
  <2>3. CASE pending[r].code = "already"
    <3>1. \/ UNCHANGED <<gen, acked>>
          \/ /\ \E i \in 1..Len(gen[r]) : i =< Len(History) /\ History[i].mid = req[r].mid
             /\ acked' = acked \cup {req[r]} /\ UNCHANGED gen
          BY <2>1, <2>3 DEF Deliver
    <3> QED BY <1>1, <2>3, <3>1, AlreadyPromised, QuietPromised
  <2>4. CASE pending[r].code = "recovered"
    <3>1. gen' = [gen EXCEPT ![r] = DurableHistory] /\ UNCHANGED acked
          BY <1>1, <2>1, <2>4 DEF Deliver, Local
    <3>2. Promise!Publish(r)
          BY <1>1, <3>1 DEF Promise!Publish
    <3> QED BY <3>2 DEF PromisedStep
  <2>5. CASE pending[r].code \notin {"committed", "already", "recovered"}
    <3>1. UNCHANGED <<gen, acked>>
          BY <2>1, <2>5 DEF Deliver
    <3> QED BY <1>1, <3>1, QuietPromised
  <2> QED BY <2>2, <2>3, <2>4, <2>5
<1> QED BY <1>2, <1>3

\* A rotation moves the whole log into the checkpoint and loses none of it.
LEMMA RotatePromised ==
    ASSUME Coherent, NEW r \in Runtimes, Rotate(r)
    PROVE  PromisedStep
<1> USE Unfold
<1>1. CASE gen[r] # History
      BY <1>1, QuietPromised DEF Rotate
<1>2. CASE gen[r] = History
  <2>1. ckpt' = gen[r] /\ wal' = << >> /\ UNCHANGED <<gen, acked>>
        BY <1>2 DEF Rotate
  <2>2. gen[r] = DurableHistory /\ gen[r] \in Seq(Transaction)
        BY <1>2, PublishedIsWhole DEF TypeOK
  <2>3. DurableHistory' = DurableHistory
        BY <2>1, <2>2, ConcatEmpty DEF DurableHistory
  <2> QED BY <2>1, <2>3 DEF PromisedStep
<1> QED BY <1>1, <1>2

LEMMA DiePromised ==
    ASSUME NEW gone \in SUBSET Runtimes, Die(gone), UNCHANGED <<DurableHistory, acked>>
    PROVE  PromisedStep
<1>1. \A r \in gone : life'[r] = "closed"
      BY DEF Die
<1>2. Forgotten
      BY <1>1 DEF Die, Forgotten
<1> QED BY <1>2 DEF PromisedStep

LEMMA ClosePromised ==
    ASSUME Coherent, NEW r \in Runtimes, Close(r)
    PROVE  PromisedStep
<1> USE Unfold
<1>1. gen' = [p \in Runtimes |-> IF p \in {r} THEN << >> ELSE gen[p]] /\ life'[r] = "closed"
      BY DEF Close, TypeOK
<1>2. UNCHANGED <<DurableHistory, acked>>
      BY DEF Close, disk, DurableHistory
<1>3. {r} \in SUBSET Runtimes /\ \A p \in {r} : life'[p] = "closed"
      BY <1>1
<1>4. Forgotten
      BY ONLY <1>1, <1>2, <1>3 DEF Forgotten
<1> QED BY <1>4 DEF PromisedStep

\* A power loss keeps the durable log, even when it undoes a HEAD rename.
LEMMA CrashPromised ==
    ASSUME Coherent, (\E r \in Runtimes : Crash(r)) \/ LosePower \/ LoseRename
    PROVE  PromisedStep
<1> USE Unfold
<1>1. ASSUME NEW r \in Runtimes, Crash(r) PROVE PromisedStep
      BY <1>1, DiePromised DEF Crash, DurableHistory
<1>2. CASE LosePower
      BY <1>2, DiePromised DEF LosePower, DurableHistory
<1>3. CASE LoseRename
  <2>1. /\ Die(Runtimes) /\ acked' = acked /\ prior # None
        /\ DurableHistory' = prior.ckpt \o prior.wal
        BY <1>3 DEF LoseRename, DurableHistory
  <2>2. prior.ckpt \o prior.wal = ckpt /\ Frames = << >>
        BY <2>1 DEF Shared, RevertIsHarmless
  <2>3. wal = << >> /\ ckpt \in Seq(Transaction)
    <3>1. wal \in Seq(Transaction) /\ dirty \in Seq(Transaction) /\ ckpt \in Seq(Transaction)
          BY DEF TypeOK
    <3>2. Len(wal) + Len(dirty) = 0
          BY <2>2, <3>1, ConcatAt DEF Frames
    <3> QED BY <3>1, <3>2
  <2>4. DurableHistory' = DurableHistory
        BY <2>1, <2>2, <2>3, ConcatEmpty DEF DurableHistory
  <2> QED BY <2>1, <2>4, DiePromised
<1> QED BY <1>1, <1>2, <1>3

-------------------------------------------------------------------------------
(* Every step *)

\* The steps that leave the durable log, the published generations and the
\* answers alone.
LEMMA UnseenPromised ==
    ASSUME NEW r \in Runtimes,
           \/ Open(r) \/ BeginMutate(r) \/ BeginRecover(r) \/ BeginRotate(r)
           \/ BeginGc(r) \/ BeginMaintain(r)
           \/ Take(r) \/ TakeOnOldHead(r) \/ Busy(r) \/ TakeFails(r) \/ ReleaseFails(r)
           \/ ResolveEffects(r) \/ LookupReceipts(r) \/ Prepare(r) \/ Measure(r) \/ Install(r)
           \/ FinishWrite(r) \/ ConfirmSwitch(r) \/ SwitchUnconfirmed(r) \/ Observe(r)
           \/ Mark(r) \/ Unlink(r) \/ EndSweep(r) \/ StageFails(r)
    PROVE  PromisedStep
<1>1. UNCHANGED <<ckpt, wal, gen, acked>>
      BY DEF Open, BeginMutate, BeginRecover, BeginRotate, BeginGc, BeginMaintain, Begin,
             Take, TakeOnOldHead, Busy, TakeFails, ReleaseFails,
             ResolveEffects, LookupReceipts, Prepare, Measure, Install,
             FinishWrite, ConfirmSwitch, SwitchUnconfirmed, Observe,
             Mark, Unlink, EndSweep, StageFails, disk, flow
<1> QED BY <1>1, QuietPromised

\* The steps that may cross the WAL barriers.
LEMMA BarrierPromised ==
    ASSUME Coherent, NEW r \in Runtimes,
           Lookup(r) \/ Commit(r) \/ SyncWrite(r) \/ Relook(r) \/ RepairTail(r) \/ Reconstruct(r)
    PROVE  PromisedStep
<1>1. UNCHANGED <<ckpt, gen, acked>> /\ (SyncWal \/ UNCHANGED wal)
      BY DEF Lookup, Search, Commit, SyncWrite, Relook, RepairTail, Reconstruct, flow
<1> QED BY <1>1, SyncPromised, QuietPromised

LEMMA StepPromised == Coherent /\ [Next]_vars => PromisedStep
<1> SUFFICES ASSUME Coherent, [Next]_vars PROVE PromisedStep
    OBVIOUS
<1>1. ASSUME NEW r \in Runtimes, Call(r) PROVE PromisedStep
      BY <1>1, UnseenPromised, ClosePromised DEF Call
<1>2. ASSUME NEW r \in Runtimes, Step(r) PROVE PromisedStep
      BY <1>2, UnseenPromised, BarrierPromised, ReleasePromised, RotatePromised DEF Step
<1>3. ASSUME NEW r \in Runtimes, Fail(r) PROVE PromisedStep
      BY <1>3, UnseenPromised, CrashPromised DEF Fail
<1>4. CASE ClearStaleLock \/ UNCHANGED vars
      BY <1>4, QuietPromised DEF ClearStaleLock, vars, disk, flow
<1> QED BY <1>1, <1>2, <1>3, <1>4, CrashPromised DEF Next

-------------------------------------------------------------------------------
(* What follows *)

\* DurableStore implements the log that only grows: a mutation becomes durable
\* once and at the end, what is published is the whole durable log, and a
\* caller is answered from a view that holds its command.
THEOREM PromiseKept == Spec => KeepsPromise
<1>1. Init => Promise!Init
      BY DEF Init, Promise!Init, DurableHistory
<1>2. PromisedStep => [Promise!Next]_(Promise!vars)
      BY DEF PromisedStep, Forgotten, Promise!Next, Promise!Forget, Promise!vars
<1>3. Coherent /\ [Next]_vars => [Promise!Next]_(Promise!vars)
      BY <1>2, StepPromised
<1> QED BY <1>1, <1>3, CoherentAlways, PTL DEF Spec, KeepsPromise, Promise!Spec

\* While a runtime lives, no transaction leaves what it publishes: recovery,
\* a commit and a late answer all replace a generation by one it begins.
THEOREM PublishedOnlyGrows == Spec => PublishedNeverShrinks
<1>1. ASSUME Coherent, PromisedStep, NEW r \in Runtimes, life'[r] # "closed"
      PROVE  IsPrefixOf(gen[r], gen'[r])
  <2>1. TypeOK /\ IsPrefixOf(gen[r], DurableHistory) /\ gen[r] \in Seq(Transaction)
        BY <1>1, Unfold DEF Local, TypeOK
  <2>2. gen'[r] = gen[r] \/ gen'[r] = DurableHistory
        BY <1>1, <2>1 DEF PromisedStep, Forgotten, Promise!Commit, Promise!Publish, Promise!Answer, TypeOK
  <2> QED BY <2>1, <2>2 DEF IsPrefixOf
<1>2. Coherent /\ [Next]_vars =>
        [\A r \in Runtimes :
            life'[r] # "closed" =>
                /\ Len(gen[r]) =< Len(gen'[r])
                /\ \A i \in DOMAIN gen[r] : gen'[r][i] = gen[r][i]]_vars
  <2> SUFFICES ASSUME Coherent, [Next]_vars, NEW r \in Runtimes, life'[r] # "closed"
               PROVE  IsPrefixOf(gen[r], gen'[r])
      BY DEF IsPrefixOf
  <2> QED BY <1>1, StepPromised
<1> QED BY <1>2, CoherentAlways, PTL DEF Spec, PublishedNeverShrinks

HIDE ConstantsOK

-------------------------------------------------------------------------------
(* How a step moves the log, and whose state it touches *)

\* The log is left alone; a frame completes; a rotation captures the log; or
\* every process is gone.
Still == UNCHANGED <<head, ckpt>> /\ Frames' = Frames
Grown(r) ==
    /\ lock = r /\ stage[r] = "writing" /\ stage'[r] = "written"
    /\ UNCHANGED <<head, ckpt>> /\ Frames' = Append(Frames, Tx(r))
Moved(r) ==
    /\ lock = r /\ stage[r] = "rotate"
    /\ gen[r] = History /\ ckpt' = History /\ Frames' = << >> /\ head' = head + 1
Down ==
    \A p \in Runtimes : stage'[p] = "idle" /\ task'[p] = "none" /\ life'[p] = "closed"

\* The rest of the runtimes stand still.
StandStill(r) ==
    \A p \in Runtimes \ {r} :
        /\ life'[p] = life[p] /\ gen'[p] = gen[p] /\ task'[p] = task[p]
        /\ stage'[p] = stage[p] /\ req'[p] = req[p] /\ body'[p] = body[p]
        /\ seen'[p] = seen[p] /\ pending'[p] = pending[p] /\ cand'[p] = cand[p]

LEMMA SettleStands ==
    ASSUME TypeOK, NEW r \in Runtimes, NEW code, Settle(r, code),
           gen' = gen \/ \E g : gen' = [gen EXCEPT ![r] = g]
    PROVE  StandStill(r) /\ stage'[r] = "idle" /\ task'[r] = "none" /\ cand'[r] = {}
  BY DEF Settle, StandStill, TypeOK

LEMMA ConcludeStands ==
    ASSUME TypeOK, NEW r \in Runtimes, NEW next, NEW code, Conclude(r, next, code),
           UNCHANGED <<life, gen, task, req, body, seen>>,
           cand' = cand \/ \E c : cand' = [cand EXCEPT ![r] = c]
    PROVE  /\ StandStill(r)
           /\ stage'[r] = "release" /\ pending'[r] = [next |-> next, code |-> code]
  BY DEF Conclude, StandStill, TypeOK

LEMMA BeginStands ==
    ASSUME TypeOK, NEW r \in Runtimes,
           Open(r) \/ BeginMutate(r) \/ BeginRecover(r) \/ BeginRotate(r)
           \/ BeginGc(r) \/ BeginMaintain(r)
    PROVE  /\ StandStill(r) /\ UNCHANGED <<disk, life, gen, body, pending, root, cand, acked>>
           /\ stage'[r] \in {"lookup", "recover", "rotate", "gc", "observe"}
           /\ task[r] = "none" /\ task'[r] \in Operations
           /\ stage'[r] = "gc" => task'[r] = "gc"
           /\ task'[r] \in {"gc", "maintain"} => task'[r] \in Operations
  BY DEF Open, BeginMutate, BeginRecover, BeginRotate, BeginGc, BeginMaintain, Begin,
         StandStill, TypeOK

LEMMA CloseStands ==
    ASSUME Control, NEW r \in Runtimes, Close(r)
    PROVE  /\ StandStill(r) /\ life'[r] = "closed" /\ stage'[r] = "idle" /\ stage[r] = "idle"
           /\ UNCHANGED <<disk, task, stage, req, body, seen, pending, root, cand, acked>>
  BY DEF Close, StandStill, Control, TypeOK, IdleBetween

LEMMA DieStands ==
    ASSUME TypeOK, NEW gone \in SUBSET Runtimes, Die(gone)
    PROVE  /\ \A p \in gone : /\ stage'[p] = "idle" /\ life'[p] = "closed" /\ task'[p] = "none"
                              /\ gen'[p] = << >> /\ cand'[p] = {}
           /\ \A p \in Runtimes : gone = {p} => StandStill(p)
  BY DEF Die, StandStill

\* A step of one runtime leaves the others where they are.
LEMMA OthersStill ==
    ASSUME TypeOK, NEW r \in Runtimes, Call(r) \/ Step(r) \/ Fail(r)
    PROVE  StandStill(r)
<1> USE DEF StandStill, TypeOK
<1>1. CASE Call(r)
  <2>1. CASE Close(r)
        BY <2>1 DEF Close
  <2> QED BY <1>1, <2>1, BeginStands DEF Call
<1>2. CASE Take(r) \/ TakeOnOldHead(r) \/ Lookup(r) \/ Relook(r) \/ ResolveEffects(r)
           \/ LookupReceipts(r) \/ Install(r) \/ Commit(r) \/ FinishWrite(r) \/ SyncWrite(r)
  <2>1. UNCHANGED <<life, gen, task, req, body, seen, cand>>
        BY <1>2 DEF Take, TakeOnOldHead, Lookup, Relook, ResolveEffects, LookupReceipts, Install,
                    Commit, FinishWrite, SyncWrite, flow
  <2>2. \/ UNCHANGED <<stage, pending>>
        \/ \E next, code : Conclude(r, next, code)
        \/ (\E s : stage' = [stage EXCEPT ![r] = s]) /\ UNCHANGED pending
        BY <1>2 DEF Take, TakeOnOldHead, Lookup, Relook, Search, ResolveEffects, LookupReceipts, Install,
                    Commit, FinishWrite, SyncWrite, flow
  <2> QED BY <2>1, <2>2 DEF Conclude
<1>3. CASE RepairTail(r) \/ Reconstruct(r) \/ Rotate(r) \/ ConfirmSwitch(r) \/ SwitchUnconfirmed(r)
           \/ Mark(r) \/ Unlink(r) \/ EndSweep(r) \/ StageFails(r)
  <2>1. UNCHANGED <<life, gen, task, req, body, seen>>
        BY <1>3 DEF RepairTail, Reconstruct, Rotate, ConfirmSwitch, SwitchUnconfirmed, Mark, Unlink,
                    EndSweep, StageFails, flow
  <2>2. \/ UNCHANGED <<stage, pending>>
        \/ \E next, code : Conclude(r, next, code)
        \/ (\E s : stage' = [stage EXCEPT ![r] = s]) /\ UNCHANGED pending
        BY <1>3 DEF RepairTail, Reconstruct, Rotate, ConfirmSwitch, SwitchUnconfirmed, Mark, Unlink,
                    EndSweep, StageFails, flow
  <2>3. cand' = cand \/ \E c : cand' = [cand EXCEPT ![r] = c]
        BY <1>3 DEF RepairTail, Reconstruct, Rotate, ConfirmSwitch, SwitchUnconfirmed, Mark, Unlink,
                    EndSweep, StageFails, flow
  <2> QED BY <2>1, <2>2, <2>3 DEF Conclude
<1>4. CASE Busy(r) \/ TakeFails(r) \/ ReleaseFails(r)
      BY <1>4 DEF Busy, TakeFails, ReleaseFails, Settle
<1>5. CASE Prepare(r) \/ Measure(r) \/ Observe(r)
  <2>1. UNCHANGED gen
        BY <1>5 DEF Prepare, Measure, Observe
  <2>2. \/ \E code : Settle(r, code)
        \/ /\ \E next : Enter(r, next)
           /\ UNCHANGED <<life, task, req, pending, cand>>
           /\ body' = body \/ \E b : body' = [body EXCEPT ![r] = b]
        BY <1>5 DEF Prepare, Measure, Observe
  <2> QED BY <2>1, <2>2 DEF Settle, Enter
<1>6. CASE Release(r)
  <2>1. CASE pending[r].next = "idle"
    <3>1. \E code : Settle(r, code)
          BY <1>6, <2>1 DEF Release, Deliver
    <3>2. gen' = gen \/ \E g : gen' = [gen EXCEPT ![r] = g]
          BY <1>6, <2>1 DEF Release, Deliver
    <3> QED BY <3>1, <3>2 DEF Settle
  <2>2. CASE pending[r].next # "idle"
        BY <1>6, <2>2 DEF Release, Enter
  <2> QED BY <2>1, <2>2
<1>7. CASE Crash(r)
      BY <1>7 DEF Crash, Die
<1> QED BY <1>1, <1>2, <1>3, <1>4, <1>5, <1>6, <1>7 DEF Step, Fail

\* The log moves in three ways while processes live.
LEMMA LogMoves ==
    ASSUME Coherent, NEW r \in Runtimes, Call(r) \/ Step(r) \/ Fail(r)
    PROVE  Still \/ Grown(r) \/ Moved(r)
<1>1. TypeOK
      BY Unfold
<1>2. ASSUME SyncWal \/ UNCHANGED <<wal, dirty>>, UNCHANGED <<head, ckpt>> PROVE Still
      BY <1>1, <1>2, SyncedLog, QuietLog DEF Still
<1>3. CASE Lookup(r) \/ Relook(r) \/ Commit(r) \/ SyncWrite(r) \/ RepairTail(r) \/ Reconstruct(r)
      BY <1>2, <1>3 DEF Lookup, Relook, Search, Commit, SyncWrite, RepairTail, Reconstruct
<1>4. CASE FinishWrite(r)
  <2>1. wal \in Seq(Transaction) /\ dirty \in Seq(Transaction) /\ Tx(r) \in Transaction
    <3>1. req[r] \in Requests /\ body[r] \in Bodies
          BY <1>1, <1>4, Unfold DEF FinishWrite, Holds, Control, RequestCarried, Unused, Prepared, TypeOK
    <3> QED BY <1>1, <3>1, ConstantsOK DEF TypeOK, Tx, Transaction
  <2>2. Frames' = Append(Frames, Tx(r))
        BY <1>4, <2>1, ConcatAppend DEF FinishWrite, Frames
  <2> QED BY <1>1, <1>4, <2>2 DEF Grown, FinishWrite, Holds, TypeOK
<1>5. CASE Rotate(r)
  <2>1. CASE gen[r] # History
        BY <1>2, <1>5, <2>1 DEF Rotate
  <2>2. CASE gen[r] = History
    <3>1. Frames' = << >>
          BY <1>5, <2>2, ConcatEmpty DEF Rotate, Frames
    <3> QED BY <1>5, <2>2, <3>1 DEF Rotate, Holds, Moved
  <2> QED BY <2>1, <2>2
<1>6. CASE \/ Call(r) \/ Take(r) \/ TakeOnOldHead(r) \/ Busy(r) \/ TakeFails(r) \/ Release(r)
           \/ ReleaseFails(r) \/ ResolveEffects(r) \/ LookupReceipts(r) \/ Prepare(r)
           \/ Measure(r) \/ Install(r) \/ ConfirmSwitch(r) \/ SwitchUnconfirmed(r) \/ Observe(r)
           \/ Mark(r) \/ Unlink(r) \/ EndSweep(r) \/ StageFails(r) \/ Crash(r)
  <2>1. UNCHANGED <<head, ckpt, wal, dirty>>
        BY <1>6 DEF Call, Open, Close, BeginMutate, BeginRecover, BeginRotate, BeginGc, BeginMaintain,
                    Begin, Take, TakeOnOldHead, Busy, TakeFails, Release, ReleaseFails, ResolveEffects,
                    LookupReceipts, Prepare, Measure, Install, ConfirmSwitch, SwitchUnconfirmed,
                    Observe, Mark, Unlink, EndSweep, StageFails, Crash, disk
  <2> QED BY <1>2, <2>1
<1> QED BY <1>3, <1>4, <1>5, <1>6 DEF Step, Fail

\* What the three ways do to the history.
LEMMA HistoryMoves ==
    ASSUME Coherent, NEW r \in Runtimes
    PROVE  /\ Still => History' = History
           /\ Moved(r) => History' = History
           /\ Grown(r) => History' = Append(History, Tx(r)) /\ Tx(r) \in Transaction
                          /\ gen[r] = History
<1>1. /\ TypeOK /\ ckpt \in Seq(Transaction) /\ Frames \in Seq(Transaction)
      /\ History \in Seq(Transaction) /\ DurableHistory \in Seq(Transaction)
      BY Unfold, LogShape DEF TypeOK
<1>2. Still => History' = History
      BY DEF Still, History
<1>3. Moved(r) => History' = History
  <2>1. Moved(r) => History' = History \o << >>
        BY DEF Moved, History
  <2> QED BY <1>1, <2>1, ConcatEmpty
<1>4. ASSUME Grown(r) PROVE /\ History' = Append(History, Tx(r)) /\ Tx(r) \in Transaction
                            /\ gen[r] = History
  <2>1. req[r] \in Requests /\ body[r] \in Bodies
        BY <1>1, <1>4, Unfold DEF Grown, Control, RequestCarried, Unused, Prepared, TypeOK
  <2>2. Tx(r) \in Transaction
        BY <2>1, ConstantsOK DEF Tx, Transaction
  <2>3. dirty = << >> /\ gen[r] = DurableHistory
        BY <1>4, Unfold DEF Grown, Local
  <2>4. History = DurableHistory \o dirty
        BY <1>1, LogShape
  <2>5. gen[r] = History
        BY <1>1, <2>3, <2>4, ConcatEmpty
  <2>6. History' = Append(History, Tx(r))
        BY <1>1, <1>4, <2>2, ConcatAppend DEF Grown, History
  <2> QED BY <2>2, <2>5, <2>6
<1> QED BY <1>2, <1>3, <1>4

\* A step that is nobody's changes no more than writer.lock.
LEMMA NobodysStep ==
    ASSUME ClearStaleLock \/ UNCHANGED vars
    PROVE  UNCHANGED <<head, ckpt, ledger, wal, dirty, torn, prior, objects, flow, Frames, History>>
  BY DEF ClearStaleLock, vars, disk, Frames, History

LEMMA PowerStands ==
    ASSUME TypeOK, LosePower \/ LoseRename
    PROVE  Down /\ \A p \in Runtimes : cand'[p] = {}
  BY DieStands DEF LosePower, LoseRename, Down

-------------------------------------------------------------------------------
(* The envelope of the active WAL *)

Room(p) ==
    /\ stage[p] = "measure" /\ seen[p] # head => Len(gen[p]) =< Len(ckpt)
    /\ Sized(p) /\ gen[p] = History => Len(Frames) + 1 =< Envelope

LEMMA Lengths ==
    ASSUME Coherent
    PROVE  /\ Len(History) = Len(ckpt) + Len(Frames)
           /\ Len(History) \in Nat /\ Len(ckpt) \in Nat /\ Len(Frames) \in Nat
           /\ \A p \in Runtimes : Len(gen[p]) \in Nat /\ Len(gen[p]) =< Len(History)
<1>1. /\ ckpt \in Seq(Transaction) /\ Frames \in Seq(Transaction) /\ History \in Seq(Transaction)
      /\ DurableHistory \in Seq(Transaction) /\ dirty \in Seq(Transaction)
      /\ History = ckpt \o Frames /\ Len(History) = Len(DurableHistory) + Len(dirty)
      BY Unfold, LogShape DEF TypeOK
<1>2. Len(History) = Len(ckpt) + Len(Frames)
      BY <1>1, ConcatAt
<1>3. ASSUME NEW p \in Runtimes PROVE Len(gen[p]) \in Nat /\ Len(gen[p]) =< Len(History)
  <2>1. gen[p] \in Seq(Transaction) /\ Len(gen[p]) =< Len(DurableHistory)
        BY Unfold DEF Local, IsPrefixOf, TypeOK
  <2> QED BY <1>1, <2>1
<1> QED BY <1>1, <1>2, <1>3

\* A runtime that does not move keeps its room: a frame appended by another
\* makes its generation an old one, and a rotation empties the WAL.
LEMMA OtherRoom ==
    ASSUME Coherent, NEW r \in Runtimes, Still \/ Grown(r) \/ Moved(r), StandStill(r),
           NEW p \in Runtimes \ {r}, Room(p)
    PROVE  Room(p)'
<1>1. /\ gen'[p] = gen[p] /\ seen'[p] = seen[p] /\ (Sized(p)' <=> Sized(p))
      /\ stage'[p] = stage[p]
      BY DEF StandStill, Sized
<1>2. CASE Still
      BY <1>1, <1>2, HistoryMoves DEF Room, Still
<1>3. CASE Grown(r)
  <2>1. /\ Len(History') = Len(History) + 1
        /\ ckpt' = ckpt /\ head' = head
    <3>1. History' = Append(History, Tx(r)) /\ Tx(r) \in Transaction /\ History \in Seq(Transaction)
          BY <1>3, HistoryMoves, Unfold, LogTyped
    <3> QED BY <1>3, <3>1, AppendAt DEF Grown
  <2>2. gen'[p] # History'
        BY <1>1, <2>1, Lengths
  <2> QED BY <1>1, <2>1, <2>2 DEF Room
<1>4. CASE Moved(r)
  <2>1. Len(gen'[p]) =< Len(ckpt')
        BY <1>1, <1>4, Lengths DEF Moved
  <2>2. Len(Frames') + 1 =< Envelope
        BY <1>4, ConstantsOK DEF Moved
  <2> QED BY <2>1, <2>2 DEF Room
<1> QED BY <1>2, <1>3, <1>4

\* The look at the size, however old, leaves room for one frame.
LEMMA MeasuredRoom ==
    ASSUME Coherent, NEW r \in Runtimes, Room(r), Measure(r)
    PROVE  Room(r)'
<1> USE Unfold
<1>1. UNCHANGED <<head, ckpt, gen, Frames, History>>
      BY DEF Measure, disk, Frames, History
<1>2. CASE \E code : Settle(r, code)
  <2>1. stage'[r] = "idle"
        BY <1>2, SettleStands DEF Measure
  <2> QED BY <2>1 DEF Room, Sized
<1>3. ASSUME NEW size \in ObservedSizes(r), size + 1 =< Envelope, stage[r] = "measure",
             stage'[r] \in {"install", "commit"}, gen[r] = History
      PROVE  Len(Frames) + 1 =< Envelope
  <2>1. CASE seen[r] = head
    <3>1. PICK t \in {0, 1} : size = Len(Frames) + t
          BY <1>3, <2>1 DEF ObservedSizes
    <3> QED BY <1>3, <3>1, Lengths, ConstantsOK
  <2>2. CASE seen[r] # head
    <3>1. Len(History) =< Len(ckpt)
          BY <1>3, <2>2 DEF Room
    <3> QED BY <3>1, Lengths, ConstantsOK
  <2> QED BY <2>1, <2>2
<1>4. ASSUME NEW size \in ObservedSizes(r), ~(size + 1 > Envelope), NEW next \in {"install", "commit"},
             Enter(r, next), stage[r] = "measure"
      PROVE  Room(r)'
  <2>1. size \in Nat
        BY Lengths, ConstantsOK DEF ObservedSizes
  <2>2. stage'[r] = next
        BY <1>4 DEF Enter, TypeOK
  <2>3. gen[r] = History => Len(Frames) + 1 =< Envelope
        BY <1>3, <1>4, <2>1, <2>2, ConstantsOK
  <2> QED BY <1>1, <2>2, <2>3 DEF Room
<1> QED BY <1>2, <1>4 DEF Measure

\* What a runtime does itself.
LEMMA OwnRoom ==
    ASSUME Coherent, NEW r \in Runtimes, Room(r), Call(r) \/ Step(r) \/ Fail(r)
    PROVE  Room(r)'
<1> USE Unfold
<1>1. ASSUME stage'[r] \notin {"measure", "install", "commit", "writing", "release"} PROVE Room(r)'
      BY <1>1 DEF Room, Sized
<1>2. ASSUME NEW next, NEW code, Conclude(r, next, code), next # "commit" PROVE Room(r)'
  <2>1. stage'[r] = "release" /\ pending'[r].next # "commit"
        BY <1>2 DEF Conclude, TypeOK
  <2> QED BY <2>1 DEF Room, Sized
<1>3. ASSUME Sized(r), UNCHANGED <<ckpt, wal, dirty, gen>>, stage'[r] # "measure" PROVE Room(r)'
      BY <1>3, QuietLog DEF Room
<1>4. CASE Call(r) \/ Busy(r) \/ TakeFails(r) \/ ReleaseFails(r) \/ Crash(r)
  <2>1. stage'[r] \notin {"measure", "install", "commit", "writing", "release"}
    <3>1. CASE Call(r)
          BY <3>1, BeginStands, CloseStands DEF Call
    <3>2. CASE Busy(r) \/ TakeFails(r) \/ ReleaseFails(r)
          BY <3>2, SettleStands DEF Busy, TakeFails, ReleaseFails
    <3>3. CASE Crash(r)
          BY <3>3, DieStands DEF Crash
    <3> QED BY <1>4, <3>1, <3>2, <3>3
  <2> QED BY <1>1, <2>1
<1>5. CASE Release(r)
  <2>1. CASE pending[r].next = "idle"
    <3>1. stage'[r] = "idle"
          BY <1>5, <2>1 DEF Release, Deliver, Settle, TypeOK
    <3> QED BY <1>1, <3>1
  <2>2. CASE pending[r].next = "commit"
    <3>1. Sized(r) /\ stage'[r] = "commit" /\ UNCHANGED <<ckpt, wal, dirty, gen>>
          BY <1>5, <2>2 DEF Release, Enter, Sized, Holds, TypeOK
    <3> QED BY <1>3, <3>1
  <2>3. CASE pending[r].next \notin {"idle", "commit"}
    <3>1. stage'[r] \in {"receipts", "effects", "prepare", "relook", "gc"}
          BY <1>5, <2>3 DEF Release, Enter, Holds, Control, ReleaseFormed, TypeOK
    <3> QED BY <1>1, <3>1
  <2> QED BY <2>1, <2>2, <2>3
<1>6. CASE Take(r)
  <2>1. UNCHANGED <<head, ckpt, gen, seen, stage, pending, Frames, History>>
        BY <1>6 DEF Take, flow, Frames, History
  <2> QED BY <2>1 DEF Room, Sized
<1>7. CASE TakeOnOldHead(r) \/ Lookup(r) \/ Relook(r) \/ ResolveEffects(r) \/ LookupReceipts(r)
           \/ SyncWrite(r) \/ Reconstruct(r) \/ ConfirmSwitch(r) \/ SwitchUnconfirmed(r)
           \/ EndSweep(r) \/ StageFails(r)
  <2>1. \E next \in {"idle", "receipts", "effects", "prepare", "relook", "gc"} : \E code : Conclude(r, next, code)
        BY <1>7 DEF TakeOnOldHead, Lookup, Relook, Search, ResolveEffects, LookupReceipts, SyncWrite,
                    Reconstruct, ConfirmSwitch, SwitchUnconfirmed, EndSweep, StageFails
  <2> QED BY <1>2, <2>1
<1>8. CASE Prepare(r)
  <2>1. CASE \E code : Settle(r, code)
        BY <1>1, <1>8, <2>1, SettleStands DEF Prepare
  <2>2. CASE Enter(r, "measure")
    <3>1. stage'[r] = "measure" /\ seen'[r] = head /\ head' = head
          BY <1>8, <2>2 DEF Prepare, Enter, TypeOK, disk
    <3> QED BY <3>1 DEF Room, Sized
  <2> QED BY <1>8, <2>1, <2>2 DEF Prepare
<1>9. CASE Install(r)
  <2>1. Sized(r) /\ UNCHANGED <<ckpt, wal, dirty, gen>> /\ stage'[r] = "release"
        BY <1>9 DEF Install, Holds, Sized, Conclude, TypeOK
  <2> QED BY <1>3, <2>1
<1>10. CASE Commit(r)
  <2>1. CASE \E next \in {"idle", "relook"} : \E code : Conclude(r, next, code)
        BY <1>2, <2>1
  <2>2. CASE stage' = [stage EXCEPT ![r] = "writing"] /\ UNCHANGED <<wal, dirty>>
    <3>1. Sized(r) /\ UNCHANGED <<ckpt, wal, dirty, gen>> /\ stage'[r] = "writing"
          BY <1>10, <2>2 DEF Commit, Holds, Sized, TypeOK
    <3> QED BY <1>3, <3>1
  <2> QED BY <1>10, <2>1, <2>2 DEF Commit
<1>11. CASE FinishWrite(r) \/ RepairTail(r) \/ Rotate(r) \/ Observe(r) \/ Mark(r) \/ Unlink(r)
  <2>1. CASE \E next \in {"idle"} : \E code : Conclude(r, next, code)
        BY <1>2, <2>1
  <2>2. CASE stage'[r] \in {"written", "switched", "idle", "rotate", "sweep", "recover"}
        BY <1>1, <2>2
  <2>3. CASE FinishWrite(r) \/ RepairTail(r) \/ Unlink(r)
        BY <2>2, <2>3 DEF FinishWrite, RepairTail, Unlink, Holds, flow, TypeOK
  <2>4. CASE Rotate(r) \/ Mark(r)
        BY <2>1, <2>2, <2>4 DEF Rotate, Mark, TypeOK
  <2>5. CASE Observe(r)
        BY <2>2, <2>5 DEF Observe, Enter, Settle, TypeOK
  <2> QED BY <1>11, <2>3, <2>4, <2>5
<1> QED BY <1>4, <1>5, <1>6, <1>7, <1>8, <1>9, <1>10, <1>11, MeasuredRoom DEF Step, Fail

LEMMA BoundedInit == Init => Bounded
<1> SUFFICES ASSUME Init PROVE Bounded
    OBVIOUS
<1>1. Frames = << >> /\ Len(<< >>) = 0
      BY ConcatEmpty DEF Init, Frames
<1>2. \A p \in Runtimes : stage[p] = "idle"
      BY DEF Init
<1> QED BY <1>1, <1>2, ConstantsOK DEF Init, Bounded, EnvelopeRespected, RoomKept, Sized, PriorFits

LEMMA BoundedNext == Coherent /\ Bounded /\ [Next]_vars => Bounded'
<1> SUFFICES ASSUME Coherent, Bounded, [Next]_vars PROVE Bounded'
    OBVIOUS
<1> USE Unfold
<1>1. \A p \in Runtimes : Room(p)
      BY DEF Bounded, RoomKept, Room
<1>2. ASSUME (\A p \in Runtimes : Room(p))' PROVE RoomKept'
      BY <1>2 DEF RoomKept, Room
<1>3. ASSUME NEW r \in Runtimes, Call(r) \/ Step(r) \/ Fail(r) PROVE Bounded'
  <2>1. (Still \/ Grown(r) \/ Moved(r)) /\ StandStill(r)
        BY <1>3, LogMoves, OthersStill
  <2>2. RoomKept'
    <3>1. ASSUME NEW p \in Runtimes PROVE Room(p)'
          BY <1>1, <1>3, <2>1, OtherRoom, OwnRoom
    <3> QED BY <1>2, <3>1
  <2>3. EnvelopeRespected'
    <3>1. CASE Still
          BY <3>1 DEF Still, Bounded, EnvelopeRespected
    <3>2. CASE Grown(r)
      <4>1. gen[r] = History /\ Tx(r) \in Transaction
            BY <3>2, HistoryMoves
      <4>2. Sized(r) /\ Frames' = Append(Frames, Tx(r)) /\ Frames \in Seq(Transaction)
            BY <3>2, LogTyped DEF Grown, Sized
      <4>3. Len(Frames') = Len(Frames) + 1
            BY <4>1, <4>2, AppendAt
      <4> QED BY <1>1, <4>1, <4>2, <4>3 DEF Room, EnvelopeRespected
    <3>3. CASE Moved(r)
          BY <3>3, ConstantsOK DEF Moved, EnvelopeRespected
    <3> QED BY <2>1, <3>1, <3>2, <3>3
  <2>4. PriorFits'
    <3>1. prior' \in {prior, None} \/ (Rotate(r) /\ gen[r] = History)
          BY <1>3 DEF Call, Step, Fail, Open, Close, BeginMutate, BeginRecover, BeginRotate, BeginGc,
                      BeginMaintain, Begin, Take, TakeOnOldHead, Busy, TakeFails, Release, ReleaseFails,
                      Lookup, ResolveEffects, LookupReceipts, Prepare, Measure, Install, Commit,
                      FinishWrite, SyncWrite, Relook, RepairTail, Reconstruct, Rotate, ConfirmSwitch,
                      SwitchUnconfirmed, Observe, Mark, Unlink, EndSweep, StageFails, Crash, disk
    <3>2. Rotate(r) /\ gen[r] = History => prior'.wal = Frames
          BY DEF Rotate
    <3> QED BY <3>1, <3>2 DEF Bounded, PriorFits, EnvelopeRespected
  <2> QED BY <2>2, <2>3, <2>4 DEF Bounded
<1>4. CASE LosePower \/ LoseRename
  <2>1. RoomKept'
    <3>1. \A p \in Runtimes : stage'[p] = "idle"
          BY <1>4, PowerStands DEF Down
    <3> QED BY <3>1 DEF RoomKept, Sized
  <2>2. CASE LosePower
    <3>1. PICK kept \in 0..Len(dirty) : dirty' = SubSeq(dirty, 1, kept)
          BY <2>2 DEF LosePower
    <3>2. wal' = wal /\ prior' = prior /\ wal \in Seq(Transaction) /\ dirty \in Seq(Transaction)
          BY <2>2 DEF LosePower, TypeOK
    <3>3. dirty' \in Seq(Transaction) /\ Len(dirty') = kept
      <4>1. ASSUME NEW s \in Seq(Transaction), NEW k \in 0..Len(s)
            PROVE  SubSeq(s, 1, k) \in Seq(Transaction) /\ Len(SubSeq(s, 1, k)) = k
            OBVIOUS
      <4> QED BY <3>1, <3>2, <4>1
    <3>4. Len(Frames') = Len(wal) + kept /\ Len(Frames) = Len(wal) + Len(dirty)
          BY <3>2, <3>3, ConcatAt DEF Frames
    <3>5. EnvelopeRespected'
          BY <3>1, <3>2, <3>4, ConstantsOK DEF Bounded, EnvelopeRespected
    <3> QED BY <2>1, <3>2, <3>5 DEF Bounded, PriorFits
  <2>3. CASE LoseRename
    <3>1. /\ prior # None /\ prior \in Lineage /\ wal' = prior.wal /\ dirty' = << >> /\ prior' = None
          BY <2>3 DEF LoseRename, TypeOK
    <3>2. Frames' = prior.wal
          BY <3>1, ConcatEmpty DEF Frames, Lineage
    <3> QED BY <2>1, <3>1, <3>2 DEF Bounded, EnvelopeRespected, PriorFits
  <2> QED BY <1>4, <2>2, <2>3
<1>5. CASE ClearStaleLock \/ UNCHANGED vars
  <2>1. UNCHANGED <<head, ckpt, prior, Frames, History, gen, seen, stage, pending>>
        BY <1>5, NobodysStep DEF flow
  <2> QED BY <2>1 DEF Bounded, EnvelopeRespected, RoomKept, Sized, PriorFits
<1> QED BY <1>3, <1>4, <1>5 DEF Next

LEMMA BoundedAlways == Spec => []Bounded
  BY BoundedInit, BoundedNext, CoherentAlways, PTL DEF Spec

\* The active WAL never outgrows its envelope, for any number of runtimes,
\* although its size is looked at without the lock, stages before the append:
\* whatever was appended since makes the append's base an old one.
THEOREM WalStaysBounded == Spec => []EnvelopeRespected
<1>1. Bounded => EnvelopeRespected
      BY DEF Bounded
<1> QED BY <1>1, BoundedAlways, PTL

-------------------------------------------------------------------------------
(* Corruption answers *)

Explained(p) ==
    /\ Met(p) \/ Corrupted(p) => req[p] # None /\ Has(History, req[p].mid)
    /\ Corrupted(p) /\ Settles(History, req[p]) => ~Has(Frames, req[p].mid)

\* What the active WAL and the receipts say of an identity, the history says.
LEMMA FramesTell ==
    ASSUME Coherent, NEW q
    PROVE  /\ Has(Frames, q.mid) => Has(History, q.mid)
           /\ Has(Frames, q.mid) /\ Settles(History, q) => Settles(Frames, q)
           /\ Settles(DurableHistory, q) => Has(History, q.mid)
<1> USE Unfold
<1>1. /\ DOMAIN Frames = 1..Len(Frames) /\ DOMAIN History = 1..Len(History)
      /\ \A i \in DOMAIN Frames : Len(ckpt) + i \in DOMAIN History
                                  /\ History[Len(ckpt) + i] = Frames[i]
      BY LogTyped, FramesInHistory
<1>2. Has(Frames, q.mid) => Has(History, q.mid)
      BY <1>1 DEF Has
<1>3. ASSUME Has(Frames, q.mid), Settles(History, q) PROVE Settles(Frames, q)
  <2>1. PICK i \in DOMAIN Frames : Frames[i].mid = q.mid
        BY <1>3 DEF Has
  <2>2. PICK j \in DOMAIN History : History[j].mid = q.mid /\ History[j].intent = q.intent
        BY <1>3 DEF Settles
  <2>3. Len(ckpt) + i = j
        BY <1>1, <2>1, <2>2 DEF Shared, CommittedOnce
  <2> QED BY <1>1, <2>1, <2>2, <2>3 DEF Settles
<1>4. Settles(DurableHistory, q) => Has(History, q.mid)
  <2>1. Settles(DurableHistory, q) => Settles(History, q)
        BY LogShape, PrefixFacts
  <2> QED BY <2>1 DEF Settles, Has
<1> QED BY <1>2, <1>3, <1>4

LEMMA ReceiptsTell ==
    ASSUME Coherent, NEW q, NEW tx \in ledger, tx.mid = q.mid
    PROVE  /\ Has(History, q.mid)
           /\ tx.intent # q.intent => ~Settles(History, q)
<1> USE Unfold
<1>1. PICK i \in DOMAIN ckpt : ckpt[i] = tx
      BY DEF Shared, LedgerMatchesCheckpoint, Entries
<1>2. i \in DOMAIN History /\ History[i] = tx
      BY <1>1, LogShape DEF IsPrefixOf, TypeOK
<1> QED BY <1>2 DEF Has, Settles, Shared, CommittedOnce

\* A runtime that does not move: only it can touch the log while it holds
\* writer.lock, and what is committed stays so.
LEMMA OtherExplained ==
    ASSUME Coherent, NEW r \in Runtimes, Still \/ Grown(r) \/ Moved(r), StandStill(r),
           NEW p \in Runtimes \ {r}, Explained(p)
    PROVE  Explained(p)'
<1> USE Unfold
<1>1. req'[p] = req[p] /\ (Met(p)' <=> Met(p)) /\ (Corrupted(p)' <=> Corrupted(p))
      BY DEF StandStill, Met, Corrupted
<1>2. Has(History, req[p].mid) => Has(History', req[p].mid)
  <2>1. History' = History \/ (\E tx \in Transaction : History' = Append(History, tx))
        BY HistoryMoves
  <2>2. History \in Seq(Transaction)
        BY LogTyped
  <2>3. ASSUME NEW tx \in Transaction, History' = Append(History, tx), Has(History, req[p].mid)
        PROVE  Has(History', req[p].mid)
    <3>1. PICK i \in 1..Len(History) : History[i].mid = req[p].mid
          BY <2>2, <2>3 DEF Has
    <3>2. i \in DOMAIN History' /\ History'[i] = History[i]
          BY <2>2, <2>3, <3>1, AppendAt
    <3> QED BY <3>1, <3>2 DEF Has
  <2> QED BY <2>1, <2>3
<1>3. Corrupted(p) => Still
  <2>1. Corrupted(p) => lock = p
        BY DEF Corrupted, Control, HeldByHolder, Held
  <2> QED BY <2>1 DEF Grown, Moved
<1>4. Corrupted(p) => History' = History /\ Frames' = Frames
      BY <1>3, HistoryMoves DEF Still
<1>5. (Met(p) \/ Corrupted(p)) /\ Has(History, req[p].mid) => Has(History', req'[p].mid)
      BY <1>1, <1>2
<1>6. Corrupted(p) /\ Settles(History', req'[p]) => ~Has(Frames', req'[p].mid)
      BY <1>1, <1>4 DEF Explained
<1> QED BY <1>1, <1>5, <1>6 DEF Explained, Has, Settles

\* The search of the active WAL, at a lookup or at the one a commit asked for.
LEMMA SearchExplained ==
    ASSUME Coherent, NEW r \in Runtimes, NEW missing, NEW code, Search(r, missing, code),
           req[r] # None, UNCHANGED <<ckpt, req>>,
           missing # "relook", code = "corruption" => Has(History, req[r].mid)
    PROVE  Explained(r)'
<1> USE Unfold
<1>1. SyncWal \/ UNCHANGED <<wal, dirty>>
      BY DEF Search
<1>2. History' = History /\ Frames' = Frames
      BY <1>1, SyncedLog, QuietLog
<1>3. PICK next, outcome :
          /\ Conclude(r, next, outcome) /\ next # "relook"
          /\ outcome = "corruption" =>
                 /\ Has(History, req[r].mid)
                 /\ Settles(History, req[r]) => ~Has(Frames, req[r].mid)
      BY FramesTell DEF Search
<1>4. stage'[r] = "release" /\ pending'[r] = [next |-> next, code |-> outcome]
      BY <1>3 DEF Conclude, TypeOK
<1> QED BY <1>2, <1>3, <1>4 DEF Explained, Met, Corrupted, Has, Settles

LEMMA OwnExplained ==
    ASSUME Coherent, NEW r \in Runtimes, Explained(r), Call(r) \/ Step(r) \/ Fail(r)
    PROVE  Explained(r)'
<1> USE Unfold
<1>1. ASSUME stage'[r] \notin {"relook", "release"} PROVE Explained(r)'
      BY <1>1 DEF Explained, Met, Corrupted
<1>2. ASSUME NEW next, NEW code, Conclude(r, next, code), next # "relook", code # "corruption"
      PROVE  Explained(r)'
  <2>1. stage'[r] = "release" /\ pending'[r] = [next |-> next, code |-> code]
        BY <1>2 DEF Conclude, TypeOK
  <2> QED BY <1>2, <2>1 DEF Explained, Met, Corrupted
<1>3. CASE Call(r) \/ Busy(r) \/ TakeFails(r) \/ ReleaseFails(r) \/ Crash(r)
  <2>1. CASE Call(r)
        BY <1>1, <2>1, BeginStands, CloseStands DEF Call
  <2>2. CASE Busy(r) \/ TakeFails(r) \/ ReleaseFails(r)
        BY <1>1, <2>2, SettleStands DEF Busy, TakeFails, ReleaseFails
  <2>3. CASE Crash(r)
        BY <1>1, <2>3, DieStands DEF Crash
  <2> QED BY <1>3, <2>1, <2>2, <2>3
<1>4. CASE Release(r)
  <2>1. CASE pending[r].next = "idle"
    <3>1. stage'[r] = "idle"
          BY <1>4, <2>1 DEF Release, Deliver, Settle, TypeOK
    <3> QED BY <1>1, <3>1
  <2>2. CASE pending[r].next = "relook"
    <3>1. Met(r) /\ stage'[r] = "relook" /\ UNCHANGED <<ckpt, wal, dirty, req>>
          BY <1>4, <2>2 DEF Release, Enter, Met, Holds, TypeOK
    <3> QED BY <3>1, QuietLog DEF Explained, Met, Corrupted
  <2>3. CASE pending[r].next \notin {"idle", "relook"}
    <3>1. stage'[r] = pending[r].next /\ pending[r].next # "release"
          BY <1>4, <2>3 DEF Release, Enter, Holds, Control, ReleaseFormed, TypeOK
    <3> QED BY <1>1, <2>3, <3>1
  <2> QED BY <2>1, <2>2, <2>3
<1>5. CASE Take(r) \/ RepairTail(r) \/ Unlink(r)
  <2>1. CASE Take(r)
    <3>1. UNCHANGED <<ckpt, wal, dirty, req, stage, pending>>
          BY <2>1 DEF Take, flow
    <3> QED BY <3>1, QuietLog DEF Explained, Met, Corrupted
  <2>2. CASE RepairTail(r) \/ Unlink(r)
        BY <1>1, <2>2 DEF RepairTail, Unlink, Holds, flow
  <2> QED BY <1>5, <2>1, <2>2
<1>6. CASE Lookup(r)
  <2>1. req[r] # None
        BY <1>6 DEF Lookup, Holds, Control, RequestCarried
  <2> QED BY <1>6, <2>1, SearchExplained DEF Lookup
<1>7. CASE Relook(r)
  <2>1. req[r] # None /\ Has(History, req[r].mid)
        BY <1>7 DEF Relook, Holds, Explained, Met
  <2> QED BY <1>7, <2>1, SearchExplained DEF Relook
<1>8. ASSUME NEW next, NEW code, Conclude(r, next, code), UNCHANGED <<ckpt, wal, dirty, req>>,
             req[r] # None, Has(History, req[r].mid),
             code = "corruption" /\ Settles(History, req[r]) => ~Has(Frames, req[r].mid)
      PROVE  Explained(r)'
  <2>1. stage'[r] = "release" /\ pending'[r] = [next |-> next, code |-> code]
        BY <1>8 DEF Conclude, TypeOK
  <2> QED BY <1>8, <2>1, QuietLog DEF Explained, Met, Corrupted
<1>9. CASE ResolveEffects(r)
  <2>1. /\ req[r] # None /\ Settles(DurableHistory, req[r]) /\ UNCHANGED <<ckpt, wal, dirty, req>>
        BY <1>9 DEF ResolveEffects, Holds, Local, Found, Control, RequestCarried, disk
  <2>2. CASE ~Has(Frames, req[r].mid) /\ Conclude(r, "idle", "corruption")
        BY <1>8, <2>1, <2>2, FramesTell
  <2> QED BY <1>2, <1>9, <2>2 DEF ResolveEffects
<1>10. CASE LookupReceipts(r)
  <2>1. req[r] # None /\ UNCHANGED <<ckpt, wal, dirty, req>>
        BY <1>10 DEF LookupReceipts, Holds, Searched, Control, RequestCarried, disk
  <2>2. ASSUME NEW tx \in ledger, tx.mid = req[r].mid, tx.intent # req[r].intent,
               Conclude(r, "idle", "corruption")
        PROVE  Explained(r)'
        BY <1>8, <2>1, <2>2, ReceiptsTell
  <2> QED BY <1>2, <1>10, <2>2 DEF LookupReceipts
<1>11. CASE Commit(r)
  <2>1. req[r] # None /\ UNCHANGED <<ckpt, req>>
        BY <1>11 DEF Commit, Holds, Unused, Control, RequestCarried
  <2>2. ASSUME NEW i \in DOMAIN Frames, Frames[i].mid = req[r].mid,
               Conclude(r, "relook", "continue"), UNCHANGED <<wal, dirty>>
        PROVE  Explained(r)'
    <3>1. Has(History, req[r].mid)
          BY <2>2, FramesTell DEF Has
    <3> QED BY <1>8, <2>1, <2>2, <3>1
  <2>3. CASE stage' = [stage EXCEPT ![r] = "writing"]
        BY <1>1, <2>3 DEF TypeOK
  <2> QED BY <1>2, <1>11, <2>2, <2>3 DEF Commit
<1>12. CASE \/ TakeOnOldHead(r) \/ Install(r) \/ SyncWrite(r) \/ Reconstruct(r) \/ ConfirmSwitch(r)
            \/ SwitchUnconfirmed(r) \/ EndSweep(r) \/ StageFails(r)
  <2>1. \E next \in {"idle", "commit", "gc"}, code \in Codes \ {"corruption"} : Conclude(r, next, code)
        BY <1>12 DEF TakeOnOldHead, Install, SyncWrite, Reconstruct, ConfirmSwitch, SwitchUnconfirmed,
                     EndSweep, StageFails, FailureCodes, Codes
  <2> QED BY <1>2, <2>1
<1>13. CASE Prepare(r) \/ Measure(r) \/ FinishWrite(r) \/ Rotate(r) \/ Observe(r) \/ Mark(r)
  <2>1. CASE stage'[r] \in {"idle", "measure", "install", "commit", "written", "switched", "rotate", "sweep"}
        BY <1>1, <2>1
  <2>2. CASE \E code \in {"recovery-required", "authoritative"} : Conclude(r, "idle", code)
        BY <1>2, <2>2
  <2>3. CASE Prepare(r) \/ Measure(r) \/ Observe(r)
        BY <2>1, <2>3 DEF Prepare, Measure, Observe, Enter, Settle, TypeOK
  <2>4. CASE FinishWrite(r) \/ Rotate(r) \/ Mark(r)
        BY <2>1, <2>2, <2>4 DEF FinishWrite, Rotate, Mark, TypeOK
  <2> QED BY <1>13, <2>3, <2>4
<1> QED BY <1>3, <1>4, <1>5, <1>6, <1>7, <1>9, <1>10, <1>11, <1>12, <1>13 DEF Step, Fail

LEMMA ExplainedNext == Coherent /\ CorruptionExplained /\ [Next]_vars => CorruptionExplained'
<1> SUFFICES ASSUME Coherent, CorruptionExplained, [Next]_vars PROVE CorruptionExplained'
    OBVIOUS
<1>1. \A p \in Runtimes : Explained(p)
      BY DEF CorruptionExplained, Explained
<1>2. ASSUME (\A p \in Runtimes : Explained(p))' PROVE CorruptionExplained'
      BY <1>2 DEF CorruptionExplained, Explained
<1>3. ASSUME NEW r \in Runtimes, Call(r) \/ Step(r) \/ Fail(r) PROVE CorruptionExplained'
  <2>1. TypeOK /\ (Still \/ Grown(r) \/ Moved(r)) /\ StandStill(r)
        BY <1>3, Unfold, LogMoves, OthersStill
  <2>2. ASSUME NEW p \in Runtimes PROVE Explained(p)'
        BY <1>1, <1>3, <2>1, OtherExplained, OwnExplained
  <2> QED BY <1>2, <2>2
<1>4. CASE LosePower \/ LoseRename
  <2>1. \A p \in Runtimes : stage'[p] = "idle"
        BY <1>4, Unfold, PowerStands DEF Down
  <2> QED BY <2>1 DEF CorruptionExplained, Met, Corrupted
<1>5. CASE ClearStaleLock \/ UNCHANGED vars
  <2>1. UNCHANGED <<Frames, History, req, stage, pending>>
        BY <1>5, NobodysStep DEF flow
  <2> QED BY <2>1 DEF CorruptionExplained, Met, Corrupted
<1> QED BY <1>3, <1>4, <1>5 DEF Next

\* A mutation answered with PERSISTENCE_CORRUPTION was committed, for any
\* number of runtimes; under the caller's own intent only when a rotation has
\* moved it out of the active WAL between two looks.
THEOREM CorruptionIsExplained == Spec => []OnlyRotationHides
<1>1. Init => CorruptionExplained
      BY DEF Init, CorruptionExplained, Met, Corrupted
<1>2. CorruptionExplained => OnlyRotationHides
      BY DEF CorruptionExplained, Corrupted, OnlyRotationHides
<1> QED BY <1>1, <1>2, ExplainedNext, CoherentAlways, PTL DEF Spec

-------------------------------------------------------------------------------
(* A runtime that is alone on its store *)

Current(p) ==
    /\ life[p] = "ready" /\ ~Doubtful(p) => gen[p] = History /\ ~torn
    /\ stage[p] = "written" => ~torn
    /\ Ending(p) /\ pending[p].code = "committed" => ~torn
    /\ Ending(p) /\ pending[p].code = "recovered" => dirty = << >> /\ ~torn

\* Which outcomes leave a runtime ready, and what the others make of it.
LEMMA SettledLife ==
    ASSUME TypeOK, NEW r \in Runtimes, NEW code, Settle(r, code)
    PROVE  /\ stage'[r] = "idle"
           /\ life'[r] = "ready" => /\ ~Demotes(task[r], code)
                                    /\ code = "recovered" \/ life[r] = "ready"
  BY DEF Settle, TypeOK

LEMMA DemotingCodes ==
    /\ \A kind : Demotes(kind, "recovery-required")
    /\ \A code : code # "recovered" => Demotes("open", code) /\ Demotes("recover", code)
    /\ \A kind : kind \notin {"open", "recover"} =>
            ~Demotes(kind, "rotated") /\ ~Demotes(kind, "cleanup-pending")
  BY DEF Demotes

\* A step that neither replaces what is published nor moves the log.
LEMMA PlainCurrent ==
    ASSUME NEW r \in Runtimes, Current(r), ~Doubtful(r), gen'[r] = gen[r], torn' = torn \/ torn' = FALSE,
           History' = History, life'[r] = "ready" => life[r] = "ready",
           stage'[r] # "written", Ending(r)' => pending'[r].code \notin {"committed", "recovered"}
    PROVE  Current(r)'
  BY DEF Current

LEMMA DeliverCurrent ==
    ASSUME Coherent, NEW r \in Runtimes, Current(r), Release(r), pending[r].next = "idle"
    PROVE  Current(r)'
<1> USE Unfold
<1>1. /\ Ending(r) /\ stage[r] = "release" /\ Deliver(r)
      /\ UNCHANGED <<ckpt, wal, dirty, torn>>
      BY DEF Ending, Release, Holds
<1>2. History' = History /\ DurableHistory' = DurableHistory
      BY <1>1, QuietLog
<1>3. ASSUME stage'[r] = "idle", life'[r] = "ready" => gen'[r] = History' /\ ~torn'
      PROVE  Current(r)'
      BY <1>3 DEF Current, Ending
<1>4. dirty = << >> => History = DurableHistory
      BY LogShape, ConcatEmpty
<1>5. CASE pending[r].code = "committed"
  <2>1. stage'[r] = "idle" /\ gen'[r] = Append(gen[r], Tx(r))
        BY <1>1, <1>5 DEF Deliver, Settle, TypeOK
  <2>2. dirty = << >> /\ DurableHistory = Append(gen[r], Tx(r)) /\ ~torn
        BY <1>1, <1>5 DEF Local, Current
  <2> QED BY <1>1, <1>2, <1>3, <1>4, <2>1, <2>2
<1>6. CASE pending[r].code = "recovered"
  <2>1. stage'[r] = "idle" /\ gen'[r] = root[r]
        BY <1>1, <1>6 DEF Deliver, Settle, TypeOK
  <2>2. dirty = << >> /\ root[r] = DurableHistory /\ ~torn
        BY <1>1, <1>6 DEF Local, Current
  <2> QED BY <1>1, <1>2, <1>3, <1>4, <2>1, <2>2
<1>7. CASE pending[r].code \notin {"committed", "recovered"}
  <2>1. /\ gen' = gen
        /\ Settle(r, pending[r].code) \/ Settle(r, "recovery-required")
        BY <1>1, <1>7 DEF Deliver
  <2>2. CASE Settle(r, "recovery-required")
        BY <1>3, <2>2, SettledLife, DemotingCodes
  <2>3. CASE Settle(r, pending[r].code)
    <3>1. life'[r] = "ready" => life[r] = "ready" /\ ~Doubtful(r)
          BY <1>1, <1>7, <2>3, SettledLife DEF Doubtful
    <3>2. stage'[r] = "idle"
          BY <2>3, SettledLife
    <3> QED BY <1>1, <1>2, <1>3, <2>1, <3>1, <3>2 DEF Current
  <2> QED BY <2>1, <2>2, <2>3
<1> QED BY <1>5, <1>6, <1>7

LEMMA OwnCurrent ==
    ASSUME Coherent, NEW r \in Runtimes, Current(r), Call(r) \/ Step(r) \/ Fail(r)
    PROVE  Current(r)'
<1> USE Unfold
<1>1. ASSUME SyncWal \/ UNCHANGED <<wal, dirty>>, UNCHANGED ckpt PROVE History' = History
      BY <1>1, SyncedLog, QuietLog
<1>2. ASSUME stage'[r] \in {"idle", "writing"}, life'[r] # "ready" \/ stage'[r] = "writing" PROVE Current(r)'
      BY <1>2 DEF Current, Ending, Doubtful
<1>3. ASSUME NEW next, NEW code, Conclude(r, next, code), code \notin {"committed", "recovered"},
             stage[r] \notin {"writing", "written", "release"}, UNCHANGED <<ckpt, torn, gen, life>>,
             SyncWal \/ UNCHANGED <<wal, dirty>>
      PROVE  Current(r)'
  <2>1. stage'[r] = "release" /\ pending'[r].code = code
        BY <1>3 DEF Conclude, TypeOK
  <2> QED BY <1>1, <1>3, <2>1, PlainCurrent DEF Doubtful, Ending
<1>4. CASE Call(r)
  <2>1. CASE Close(r)
        BY <1>2, <2>1, CloseStands
  <2>2. CASE Open(r) \/ BeginMutate(r) \/ BeginRecover(r) \/ BeginRotate(r) \/ BeginGc(r) \/ BeginMaintain(r)
    <3>1. /\ UNCHANGED <<ckpt, wal, dirty, torn, life, gen>>
          /\ stage'[r] \in {"lookup", "recover", "rotate", "gc", "observe"} /\ stage[r] = "idle"
          BY <2>2, BeginStands DEF disk, Control, IdleBetween
    <3> QED BY <3>1, PlainCurrent, QuietLog DEF Doubtful, Ending
  <2> QED BY <1>4, <2>1, <2>2 DEF Call
<1>5. CASE Busy(r) \/ TakeFails(r) \/ ((\E code : Settle(r, code)) /\ (Prepare(r) \/ Measure(r) \/ Observe(r)))
  <2>1. /\ \E code : code # "recovered" /\ Settle(r, code)
        /\ stage[r] \notin {"writing", "written", "release"} /\ UNCHANGED <<ckpt, wal, dirty, torn, gen>>
    <3>1. CASE Busy(r) \/ TakeFails(r)
          BY <3>1 DEF Busy, TakeFails, Waits, Scopes
    <3>2. CASE (\E code : Settle(r, code)) /\ (Prepare(r) \/ Measure(r) \/ Observe(r))
      <4>1. stage'[r] = "idle"
            BY <3>2, SettledLife
      <4>2. \E code \in {"refused", "recovery-required", "no-op"} : Settle(r, code)
            BY <3>2, <4>1 DEF Prepare, Measure, Observe, Enter, TypeOK
      <4> QED BY <3>2, <4>2 DEF Prepare, Measure, Observe, disk
    <3> QED BY <1>5, <3>1, <3>2
  <2>2. stage'[r] = "idle" /\ (life'[r] = "ready" => life[r] = "ready")
        BY <2>1, SettledLife
  <2> QED BY <2>1, <2>2, PlainCurrent, QuietLog DEF Doubtful, Ending
<1>6. CASE \/ Prepare(r) /\ Enter(r, "measure")
           \/ Measure(r) /\ \E next \in {"install", "commit"} : Enter(r, next)
           \/ Observe(r) /\ Enter(r, "rotate")
  <2>1. /\ stage[r] \in {"prepare", "measure", "observe"}
        /\ stage'[r] \in {"measure", "install", "commit", "rotate"}
        /\ UNCHANGED <<ckpt, wal, dirty, torn, gen>>
        BY <1>6 DEF Prepare, Measure, Observe, Enter, TypeOK, disk
  <2>2. life' = life
    <3>1. \A code : ~Settle(r, code)
          BY <2>1, SettledLife
    <3> QED BY <1>6, <3>1 DEF Prepare, Measure, Observe
  <2> QED BY <2>1, <2>2, PlainCurrent, QuietLog DEF Doubtful, Ending
<1>7. CASE Prepare(r) \/ Measure(r) \/ Observe(r)
      BY <1>5, <1>6, <1>7 DEF Prepare, Measure, Observe
<1>8. CASE Take(r) \/ RepairTail(r) \/ Unlink(r)
  <2>1. /\ stage[r] \in Scopes \cup {"sweep"} /\ stage' = stage /\ UNCHANGED <<ckpt, life, gen>>
        /\ SyncWal \/ UNCHANGED <<wal, dirty>>
        /\ torn' = torn \/ torn' = FALSE
        BY <1>8 DEF Take, RepairTail, Unlink, Waits, Holds, flow, Scopes
  <2>2. ~Doubtful(r) /\ ~Ending(r)' /\ stage'[r] # "written"
        BY <2>1 DEF Scopes, Doubtful, Ending
  <2>3. History' = History /\ gen'[r] = gen[r] /\ life'[r] = life[r]
        BY <1>1, <2>1
  <2> QED BY <2>1, <2>2, <2>3, PlainCurrent
<1>9. CASE Release(r)
  <2>1. CASE pending[r].next # "idle"
    <3>1. /\ ~Doubtful(r) /\ UNCHANGED <<ckpt, wal, dirty, torn, gen, life>>
          /\ stage'[r] \notin {"written", "release"}
          BY <1>9, <2>1 DEF Release, Holds, Enter, Doubtful, Ending, Control, ReleaseFormed, TypeOK
    <3> QED BY <3>1, PlainCurrent, QuietLog DEF Ending
  <2> QED BY <1>9, <2>1, DeliverCurrent
<1>10. CASE ReleaseFails(r)
  <2>1. stage[r] = "release" /\ UNCHANGED <<ckpt, wal, dirty, torn, gen>>
        BY <1>10 DEF ReleaseFails, Holds
  <2>2. CASE Settle(r, "recovery-required")
        BY <1>2, <2>2, SettledLife, DemotingCodes
  <2>3. CASE pending[r].code \in {"rotated", "cleanup-pending"} /\ Settle(r, "cleanup-pending")
    <3>1. stage'[r] = "idle" /\ (life'[r] = "ready" => life[r] = "ready" /\ ~Demotes(task[r], "cleanup-pending"))
          BY <2>3, SettledLife
    <3>2. CASE life'[r] = "ready"
      <4>1. task[r] \notin {"open", "recover"}
            BY <3>1, <3>2, DemotingCodes
      <4>2. ~Doubtful(r)
            BY <2>1, <2>3, <4>1, DemotingCodes DEF Doubtful
      <4> QED BY <2>1, <3>1, <3>2, <4>2, PlainCurrent, QuietLog DEF Ending
    <3> QED BY <1>2, <3>1, <3>2
  <2> QED BY <1>10, <2>2, <2>3 DEF ReleaseFails
<1>11. CASE \/ TakeOnOldHead(r) \/ Lookup(r) \/ Relook(r) \/ ResolveEffects(r) \/ LookupReceipts(r) \/ Install(r)
            \/ ConfirmSwitch(r) \/ SwitchUnconfirmed(r) \/ EndSweep(r)
  <2>1. \E next \in Stages, code \in Codes \ {"committed", "recovered"} : Conclude(r, next, code)
        BY <1>11 DEF TakeOnOldHead, Lookup, Relook, Search, ResolveEffects, LookupReceipts, Install, ConfirmSwitch,
                     SwitchUnconfirmed, EndSweep, Codes, Stages, Scopes, Held, Unlocked
  <2>2. /\ stage[r] \notin {"writing", "written", "release"} /\ UNCHANGED <<ckpt, torn, gen, life>>
        /\ SyncWal \/ UNCHANGED <<wal, dirty>>
        BY <1>11 DEF TakeOnOldHead, Lookup, Relook, Search, ResolveEffects, LookupReceipts, Install, ConfirmSwitch,
                     SwitchUnconfirmed, EndSweep, disk, Holds, Waits, Scopes
  <2> QED BY <1>3, <2>1, <2>2
<1>12. CASE Commit(r)
  <2>1. stage[r] = "commit" /\ UNCHANGED <<ckpt, gen, life>>
        BY <1>12 DEF Commit, Holds
  <2>2. CASE stage' = [stage EXCEPT ![r] = "writing"]
        BY <1>2, <2>2 DEF TypeOK
  <2>3. CASE /\ \E next : \E code \in {"recovery-required", "already", "continue", "stale-base"} : Conclude(r, next, code)
             /\ SyncWal \/ UNCHANGED <<wal, dirty>>
             /\ torn' = torn
        BY <1>3, <2>1, <2>3
  <2> QED BY <1>12, <2>2, <2>3 DEF Commit
<1>13. CASE FinishWrite(r)
  <2>1. stage'[r] = "written" /\ ~torn'
        BY <1>13 DEF FinishWrite, TypeOK
  <2> QED BY <2>1 DEF Current, Doubtful, Ending
<1>14. CASE SyncWrite(r)
  <2>1. /\ stage'[r] = "release" /\ pending'[r].next = "idle" /\ pending'[r].code = "committed"
        /\ stage[r] = "written" /\ torn' = torn
        BY <1>14 DEF SyncWrite, Conclude, Holds, TypeOK
  <2> QED BY <2>1 DEF Current, Doubtful, Ending
<1>15. CASE Reconstruct(r)
  <2>1. CASE Conclude(r, "idle", "recovery-required") /\ UNCHANGED <<wal, dirty>>
        BY <1>3, <1>15, <2>1 DEF Reconstruct, Holds
  <2>2. CASE ~torn /\ SyncWal /\ Conclude(r, "idle", "recovered")
    <3>1. /\ stage'[r] = "release" /\ pending'[r].next = "idle" /\ pending'[r].code = "recovered"
          /\ torn' = torn /\ dirty' = << >>
          BY <1>15, <2>2 DEF Reconstruct, Conclude, SyncWal, TypeOK
    <3> QED BY <2>2, <3>1 DEF Current, Doubtful, Ending
  <2> QED BY <1>15, <2>1, <2>2 DEF Reconstruct
<1>16. CASE Rotate(r)
  <2>1. stage[r] = "rotate" /\ UNCHANGED <<life, gen>>
        BY <1>16 DEF Rotate, Holds
  <2>2. CASE gen[r] # History
        BY <1>3, <1>16, <2>1, <2>2 DEF Rotate
  <2>3. CASE gen[r] = History
    <3>1. Moved(r) /\ torn' = FALSE /\ stage'[r] = "switched"
          BY <1>16, <2>3, ConcatEmpty DEF Rotate, Holds, Moved, Frames, TypeOK
    <3> QED BY <2>1, <3>1, HistoryMoves, PlainCurrent DEF Doubtful, Ending
  <2> QED BY <2>2, <2>3
<1>17. CASE Mark(r)
  <2>1. stage[r] = "gc" /\ UNCHANGED <<ckpt, wal, dirty, torn, life, gen>>
        BY <1>17 DEF Mark, Holds, disk
  <2>2. CASE stage' = [stage EXCEPT ![r] = "sweep"]
        BY <2>1, <2>2, PlainCurrent, QuietLog DEF Doubtful, Ending, TypeOK
  <2> QED BY <1>3, <1>17, <2>1, <2>2 DEF Mark
<1>18. CASE StageFails(r)
  <2>1. PICK code \in FailureCodes(stage[r]) : Conclude(r, "idle", code)
        BY <1>18 DEF StageFails
  <2>2. stage[r] # "release" /\ UNCHANGED <<ckpt, wal, dirty, torn, gen, life>>
        BY <1>18 DEF StageFails, Scopes
  <2>3. CASE stage[r] \in {"writing", "written"}
    <3>1. stage'[r] = "release" /\ pending'[r] = [next |-> "idle", code |-> "recovery-required"]
          BY <2>1, <2>3 DEF Conclude, FailureCodes, TypeOK
    <3> QED BY <3>1, DemotingCodes DEF Current, Doubtful, Ending
  <2>4. CASE stage[r] \notin {"writing", "written"}
    <3>1. code \notin {"committed", "recovered"}
          BY <2>1 DEF FailureCodes
    <3> QED BY <1>3, <2>1, <2>2, <2>4, <3>1
  <2> QED BY <2>3, <2>4
<1>19. CASE Crash(r)
      BY <1>2, <1>19, DieStands DEF Crash
<1> QED BY <1>4, <1>5, <1>7, <1>8, <1>9, <1>10, <1>11, <1>12, <1>13, <1>14, <1>15, <1>16, <1>17, <1>18, <1>19
        DEF Step, Fail

\* Alone on its store, a runtime that is ready and idle has published exactly
\* what the store holds: every outcome that leaves doubt demotes it.
THEOREM ReadyMeansCurrent ==
    ASSUME NEW only, Runtimes = {only}
    PROVE  Spec => []ReadyIsCurrent
<1>1. Whole <=> Current(only)
      BY DEF Whole, Current
<1>2. Init => Whole
  <2> SUFFICES ASSUME Init PROVE Current(only)
      BY <1>1
  <2> QED BY DEF Init, Current, Ending
<1>3. Coherent /\ Whole /\ [Next]_vars => Whole'
  <2> SUFFICES ASSUME Coherent, Current(only), [Next]_vars PROVE Current(only)'
      BY <1>1 DEF Whole, Current
  <2>1. ASSUME Call(only) \/ Step(only) \/ Fail(only) PROVE Current(only)'
        BY <2>1, OwnCurrent
  <2>2. CASE LosePower \/ LoseRename
    <3>1. stage'[only] = "idle" /\ life'[only] = "closed"
          BY <2>2, Unfold, PowerStands DEF Down
    <3> QED BY <3>1 DEF Current, Ending
  <2>3. CASE ClearStaleLock \/ UNCHANGED vars
    <3>1. UNCHANGED <<History, torn, dirty, life, gen, task, stage, pending>>
          BY <2>3, NobodysStep DEF flow
    <3> QED BY <3>1 DEF Current, Doubtful, Ending
  <2> QED BY <2>1, <2>2, <2>3 DEF Next
<1>4. Coherent /\ Whole => ReadyIsCurrent
      BY Unfold DEF Whole, ReadyIsCurrent, Control, IdleBetween, Doubtful, Ending
<1> QED BY <1>2, <1>3, <1>4, CoherentAlways, PTL DEF Spec

-------------------------------------------------------------------------------
(* Payload objects *)

\* Nobody collects, or nobody else is there while a collection runs.
Undisturbed == (\A p, q \in Runtimes : p = q) \/ Operations \cap {"gc", "maintain"} = {}

Supplied(p) ==
    /\ Installed(p) /\ body[p] \in Large => body[p] \in objects
    /\ stage[p] = "sweep" => cand[p] \cap Referenced = {}

Asked(p) ==
    /\ task[p] \in Operations \cup {"none"}
    /\ Collects(p) => Operations \cap {"gc", "maintain"} # {}

LEMMA ReferencedEntries ==
    ASSUME TypeOK
    PROVE  /\ Referenced \subseteq Bodies
           /\ (UNCHANGED <<ledger, Frames>> => Referenced' = Referenced)
  BY LogTyped DEF TypeOK, Referenced, Entries, Transaction

\* What a step may add to the references of the store: the body it appends.
LEMMA ReferencesMove ==
    ASSUME Coherent, NEW r \in Runtimes, Call(r) \/ Step(r) \/ Fail(r)
    PROVE  /\ Referenced' \subseteq Referenced \cup (IF FinishWrite(r) THEN {body[r]} \cap Large ELSE {})
           /\ stage[r] = "sweep" => Referenced' \subseteq Referenced
<1> USE Unfold
<1>1. ledger' = ledger \/ (Rotate(r) /\ gen[r] = History)
      BY DEF Call, Step, Fail, Open, Close, BeginMutate, BeginRecover, BeginRotate, BeginGc,
             BeginMaintain, Begin, Take, TakeOnOldHead, Busy, TakeFails, Release, ReleaseFails,
             Lookup, ResolveEffects, LookupReceipts, Prepare, Measure, Install, Commit,
             FinishWrite, SyncWrite, Relook, RepairTail, Reconstruct, Rotate, ConfirmSwitch,
             SwitchUnconfirmed, Observe, Mark, Unlink, EndSweep, StageFails, Crash, disk
<1>2. CASE Rotate(r) /\ gen[r] = History
  <2>1. ledger' = ledger \cup Entries(Frames) /\ Frames' = << >> /\ stage[r] = "rotate"
    <3>1. wal' = << >> /\ dirty' = << >>
          BY <1>2 DEF Rotate
    <3> QED BY <1>2, <3>1, ConcatEmpty DEF Rotate, Frames, Holds
  <2>2. Referenced' = Referenced
        BY <2>1 DEF Referenced, Entries
  <2> QED BY <2>1, <2>2
<1>3. CASE ledger' = ledger /\ ~(Rotate(r) /\ gen[r] = History)
  <2>1. CASE Still
        BY <1>3, <2>1, ReferencedEntries DEF Still
  <2>2. CASE Grown(r)
    <3>1. Frames' = Append(Frames, Tx(r)) /\ Tx(r) \in Transaction /\ Frames \in Seq(Transaction)
          /\ stage[r] = "writing"
          BY <2>2, HistoryMoves, LogTyped DEF Grown
    <3>2. Entries(Frames') \subseteq Entries(Frames) \cup {Tx(r)}
          BY <3>1, AppendAt DEF Entries
    <3>3. Referenced' \subseteq Referenced \cup ({body[r]} \cap Large)
          BY <1>3, <3>2 DEF Referenced, Tx
    <3>4. ~FinishWrite(r) => Referenced' \subseteq Referenced
      <4>1. ASSUME ~FinishWrite(r) PROVE dirty' \in {dirty, << >>} /\ (dirty' = dirty => wal' = wal)
                                         /\ (dirty' # dirty => SyncWal)
        <5>1. CASE Call(r) \/ Fail(r)
              BY <5>1 DEF Call, Fail, Open, Close, BeginMutate, BeginRecover, BeginRotate, BeginGc,
                  BeginMaintain, Begin, TakeFails, ReleaseFails, SwitchUnconfirmed, StageFails, Crash, disk
        <5>2. CASE Step(r)
              BY <3>1, <4>1, <5>2
                 DEF Step, Take, TakeOnOldHead, Busy, Release, Waits, Holds, Scopes,
                     Lookup, ResolveEffects, LookupReceipts, Prepare, Measure, Install, Commit,
                     SyncWrite, Relook, RepairTail, Reconstruct, Rotate, ConfirmSwitch, Observe, Mark,
                     Unlink, EndSweep
        <5> QED BY <5>1, <5>2
      <4>2. ASSUME ~FinishWrite(r) PROVE Frames' = Frames
        <5>1. UNCHANGED <<wal, dirty>> \/ SyncWal
              BY <4>1, <4>2
        <5>2. ckpt' = ckpt
              BY <2>2 DEF Grown
        <5> QED BY <5>1, <5>2, SyncedLog, QuietLog
      <4> QED BY <1>3, <4>2, ReferencedEntries
    <3> QED BY <3>1, <3>3, <3>4
  <2>3. CASE Moved(r)
    <3>1. Rotate(r)
      <4>1. head' # head /\ lock = r
            BY <2>3 DEF Moved, TypeOK
      <4> QED BY <4>1 DEF Call, Step, Fail, Open, Close, BeginMutate, BeginRecover, BeginRotate, BeginGc,
             BeginMaintain, Begin, Take, TakeOnOldHead, Busy, TakeFails, Release, ReleaseFails,
             Lookup, ResolveEffects, LookupReceipts, Prepare, Measure, Install, Commit,
             FinishWrite, SyncWrite, Relook, RepairTail, Reconstruct, ConfirmSwitch,
             SwitchUnconfirmed, Observe, Mark, Unlink, EndSweep, StageFails, Crash, disk
    <3> QED BY <1>3, <2>3, <3>1 DEF Moved
  <2> QED BY <2>1, <2>2, <2>3, LogMoves
<1> QED BY <1>1, <1>2, <1>3

\* Only a collection removes objects.
LEMMA ObjectsStay ==
    ASSUME NEW r \in Runtimes, Call(r) \/ Step(r) \/ Fail(r), ~Unlink(r)
    PROVE  objects \subseteq objects'
<1>1. CASE Call(r)
      BY <1>1 DEF Call, Open, Close, BeginMutate, BeginRecover, BeginRotate, BeginGc, BeginMaintain, Begin, disk
<1>2. CASE Step(r)
      BY <1>2 DEF Step, Take, TakeOnOldHead, Busy, Release, Lookup, ResolveEffects, LookupReceipts,
                  Prepare, Measure, Install, Commit, FinishWrite, SyncWrite, Relook, RepairTail,
                  Reconstruct, Rotate, ConfirmSwitch, Observe, Mark, EndSweep, disk
<1>3. CASE Fail(r)
      BY <1>3 DEF Fail, TakeFails, ReleaseFails, SwitchUnconfirmed, StageFails, Crash, disk
<1> QED BY <1>1, <1>2, <1>3

LEMMA OwnAsked ==
    ASSUME Coherent, NEW r \in Runtimes, Asked(r), Call(r) \/ Step(r) \/ Fail(r)
    PROVE  Asked(r)'
<1> USE Unfold
<1>1. CASE Call(r)
  <2>1. CASE Close(r)
        BY <2>1, CloseStands DEF Asked, Collects
  <2>2. CASE ~Close(r)
        BY <1>1, <2>2, BeginStands DEF Call, Asked, Collects
  <2> QED BY <2>1, <2>2
<1>2. CASE Busy(r) \/ TakeFails(r) \/ ReleaseFails(r) \/ Crash(r)
  <2>1. stage'[r] = "idle" /\ task'[r] = "none"
        BY <1>2, SettleStands, DieStands DEF Busy, TakeFails, ReleaseFails, Crash
  <2> QED BY <2>1 DEF Asked, Collects
<1>3. CASE Release(r)
  <2>1. CASE pending[r].next = "idle"
    <3>1. stage'[r] = "idle" /\ task'[r] = "none"
          BY <1>3, <2>1 DEF Release, Deliver, Settle, TypeOK
    <3> QED BY <3>1 DEF Asked, Collects
  <2>2. CASE pending[r].next # "idle"
    <3>1. stage'[r] = pending[r].next /\ task' = task /\ stage[r] = "release"
          /\ pending[r].next \notin {"sweep", "release"}
          BY <1>3, <2>2 DEF Release, Enter, Holds, Control, ReleaseFormed, TypeOK
    <3> QED BY <3>1 DEF Asked, Collects
  <2> QED BY <2>1, <2>2
<1>4. CASE ConfirmSwitch(r)
  <2>1. /\ stage'[r] = "release" /\ task' = task
        /\ pending'[r].next = "gc" => task[r] = "maintain"
        BY <1>4 DEF ConfirmSwitch, Conclude, TypeOK
  <2> QED BY <2>1 DEF Asked, Collects
<1>5. CASE Prepare(r) \/ Measure(r) \/ Observe(r)
  <2>1. stage'[r] \in {"idle", "measure", "install", "commit", "rotate"} /\ task'[r] \in {task[r], "none"}
        BY <1>5 DEF Prepare, Measure, Observe, Settle, Enter, TypeOK
  <2> QED BY <2>1 DEF Asked, Collects
<1>6. CASE \/ Take(r) \/ FinishWrite(r) \/ RepairTail(r) \/ Rotate(r) \/ Mark(r) \/ Unlink(r) \/ Commit(r)
  <2>1. task' = task
        BY <1>6 DEF Take, FinishWrite, RepairTail, Rotate, Mark, Unlink, Commit, flow
  <2>2. CASE \E next \in {"idle", "relook"} : \E code : Conclude(r, next, code)
        BY <2>1, <2>2 DEF Asked, Collects, Conclude, TypeOK
  <2>3. CASE UNCHANGED <<stage, pending>>
        BY <2>1, <2>3 DEF Asked, Collects
  <2>4. CASE \E s \in {"written", "switched", "writing"} : stage' = [stage EXCEPT ![r] = s]
        BY <2>1, <2>4 DEF Asked, Collects, TypeOK
  <2>5. CASE stage[r] = "gc" /\ stage' = [stage EXCEPT ![r] = "sweep"]
        BY <2>1, <2>5 DEF Asked, Collects, TypeOK
  <2> QED BY <1>6, <2>2, <2>3, <2>4, <2>5
             DEF Take, FinishWrite, RepairTail, Rotate, Mark, Unlink, Commit, flow, Holds
<1>7. CASE \/ TakeOnOldHead(r) \/ Lookup(r) \/ Relook(r) \/ ResolveEffects(r) \/ LookupReceipts(r)
           \/ Install(r) \/ SyncWrite(r) \/ Reconstruct(r) \/ SwitchUnconfirmed(r)
           \/ EndSweep(r) \/ StageFails(r)
  <2>1. \E next \in {"idle", "receipts", "effects", "prepare", "commit"} : \E code : Conclude(r, next, code)
        BY <1>7 DEF TakeOnOldHead, Lookup, Relook, Search, ResolveEffects, LookupReceipts, Install,
                    SyncWrite, Reconstruct, SwitchUnconfirmed, EndSweep, StageFails
  <2>2. task' = task
        BY <1>7 DEF TakeOnOldHead, Lookup, Relook, ResolveEffects, LookupReceipts, Install,
                    SyncWrite, Reconstruct, SwitchUnconfirmed, EndSweep, StageFails
  <2> QED BY <2>1, <2>2 DEF Asked, Collects, Conclude, TypeOK
<1> QED BY <1>1, <1>2, <1>3, <1>4, <1>5, <1>6, <1>7 DEF Step, Fail

LEMMA OwnSupplied ==
    ASSUME Coherent, ReferencesPresent, NEW r \in Runtimes, Supplied(r), Call(r) \/ Step(r) \/ Fail(r)
    PROVE  Supplied(r)' /\ ReferencesPresent'
<1> USE Unfold
<1>1. CASE Unlink(r)
  <2>1. PICK o \in cand[r] : objects' = objects \ {o} /\ cand' = [cand EXCEPT ![r] = @ \ {o}]
        BY <1>1 DEF Unlink
  <2>2. stage[r] = "sweep" /\ stage' = stage /\ cand'[r] \subseteq cand[r]
        BY <1>1, <2>1 DEF Unlink, Holds, TypeOK
  <2>3. Referenced' \subseteq Referenced
        BY <2>2, ReferencesMove
  <2> QED BY <2>1, <2>2, <2>3 DEF Supplied, Installed, ReferencesPresent
<1>2. CASE ~Unlink(r)
  <2>1. objects \subseteq objects'
        BY <1>2, ObjectsStay
  <2>2. ReferencesPresent'
    <3>1. FinishWrite(r) => Installed(r)
          BY DEF FinishWrite, Holds, Installed
    <3> QED BY <2>1, <3>1, ReferencesMove DEF Supplied, ReferencesPresent
  <2>3. ASSUME Installed(r), body'[r] = body[r], stage'[r] # "sweep" PROVE Supplied(r)'
        BY <2>1, <2>3 DEF Supplied
  <2>4. ASSUME ~Installed(r)', stage'[r] # "sweep" PROVE Supplied(r)'
        BY <2>4 DEF Supplied
  <2> SUFFICES Supplied(r)'
      BY <2>2
  <2>5. CASE stage'[r] = "sweep"
    <3>1. Mark(r)
      <4>1. stage[r] = "sweep" => ~Take(r) /\ ~RepairTail(r)
            BY DEF Take, RepairTail, Waits, Scopes, Holds
      <4>2. CASE Call(r)
            BY <2>5, <4>2, BeginStands, CloseStands DEF Call
      <4>3. CASE Busy(r) \/ TakeFails(r) \/ ReleaseFails(r) \/ Crash(r)
            BY <2>5, <4>3, SettleStands, DieStands DEF Busy, TakeFails, ReleaseFails, Crash
      <4>4. CASE Release(r)
        <5>1. CASE pending[r].next = "idle"
              BY <2>5, <4>4, <5>1 DEF Release, Deliver, Settle, TypeOK
        <5>2. CASE pending[r].next # "idle"
              BY <2>5, <4>4, <5>2 DEF Release, Enter, Holds, Control, ReleaseFormed, TypeOK
        <5> QED BY <5>1, <5>2
      <4>5. CASE Prepare(r) \/ Measure(r) \/ Observe(r)
            BY <2>5, <4>5 DEF Prepare, Measure, Observe, Settle, Enter, TypeOK
      <4>6. CASE FinishWrite(r) \/ Rotate(r) \/ Commit(r)
            BY <2>5, <4>6 DEF FinishWrite, Rotate, Commit, Conclude, TypeOK
      <4>7. CASE Take(r) \/ RepairTail(r)
            BY <2>5, <4>1, <4>7 DEF Take, RepairTail, flow
      <4>8. CASE \/ TakeOnOldHead(r) \/ Lookup(r) \/ Relook(r) \/ ResolveEffects(r) \/ LookupReceipts(r)
                 \/ Install(r) \/ SyncWrite(r) \/ Reconstruct(r) \/ SwitchUnconfirmed(r) \/ ConfirmSwitch(r)
                 \/ EndSweep(r) \/ StageFails(r)
        <5>1. \E next, code : Conclude(r, next, code)
              BY <4>8 DEF TakeOnOldHead, Lookup, Relook, Search, ResolveEffects, LookupReceipts, Install,
                          SyncWrite, Reconstruct, SwitchUnconfirmed, ConfirmSwitch, EndSweep, StageFails
        <5> QED BY <2>5, <5>1 DEF Conclude, TypeOK
      <4> QED BY <1>2, <4>2, <4>3, <4>4, <4>5, <4>6, <4>7, <4>8 DEF Step, Fail
    <3>2. cand'[r] = objects \ Referenced /\ UNCHANGED <<ledger, wal, dirty>>
          BY <2>5, <3>1 DEF Mark, Conclude, TypeOK, disk
    <3>3. Referenced' = Referenced
          BY <3>2 DEF Referenced, Frames, Entries
    <3> QED BY <2>5, <3>2, <3>3 DEF Supplied, Installed
  <2>6. CASE stage'[r] # "sweep"
    <3>1. CASE Install(r)
          BY <3>1 DEF Install, Supplied, Conclude, TypeOK
    <3>2. CASE Measure(r)
      <4>1. CASE stage'[r] # "commit"
        <5>1. ~Installed(r)'
              BY <3>2, <4>1 DEF Measure, Enter, Settle, Installed, TypeOK
        <5> QED BY <2>4, <2>6, <5>1
      <4>2. CASE stage'[r] = "commit"
        <5>1. body'[r] = body[r] /\ body[r] \notin Large
              BY <3>2, <4>2 DEF Measure, Enter, Settle, TypeOK
        <5> QED BY <2>6, <5>1 DEF Supplied
      <4> QED BY <4>1, <4>2
    <3>3. CASE Release(r)
      <4>1. CASE pending[r].next = "commit"
        <5>1. Installed(r) /\ body'[r] = body[r]
              BY <3>3, <4>1 DEF Release, Holds, Installed
        <5> QED BY <2>3, <2>6, <5>1
      <4>2. CASE pending[r].next = "idle"
        <5>1. stage'[r] = "idle"
              BY <3>3, <4>2 DEF Release, Deliver, Settle, TypeOK
        <5> QED BY <2>4, <5>1 DEF Installed
      <4>3. CASE pending[r].next \notin {"commit", "idle"}
        <5>1. stage'[r] \in {"receipts", "effects", "prepare", "relook", "gc"}
              BY <3>3, <4>3 DEF Release, Enter, Holds, Control, ReleaseFormed, TypeOK
        <5> QED BY <2>4, <5>1 DEF Installed
      <4> QED BY <4>1, <4>2, <4>3
    <3>4. CASE Take(r)
      <4>1. UNCHANGED <<stage, pending, body, ledger, wal, dirty, objects, cand>>
            BY <3>4 DEF Take, flow
      <4> QED BY <2>6, <4>1 DEF Supplied, Installed
    <3>5. CASE Commit(r) \/ FinishWrite(r)
      <4>1. Installed(r) /\ body' = body
            BY <3>5 DEF Commit, FinishWrite, Holds, Installed
      <4> QED BY <2>3, <2>6, <4>1
    <3>6. CASE Call(r) \/ Busy(r) \/ TakeFails(r) \/ ReleaseFails(r) \/ Crash(r)
      <4>1. CASE Call(r)
            BY <2>4, <2>6, <4>1, BeginStands, CloseStands DEF Call, Installed
      <4>2. CASE Busy(r) \/ TakeFails(r) \/ ReleaseFails(r) \/ Crash(r)
        <5>1. stage'[r] = "idle"
              BY <4>2, SettleStands, DieStands DEF Busy, TakeFails, ReleaseFails, Crash
        <5> QED BY <2>4, <5>1 DEF Installed
      <4> QED BY <3>6, <4>1, <4>2
    <3>7. CASE Prepare(r) \/ Observe(r) \/ RepairTail(r) \/ Rotate(r) \/ Mark(r)
      <4>1. CASE Prepare(r) \/ Observe(r)
            BY <2>4, <2>6, <4>1 DEF Prepare, Observe, Settle, Enter, Installed, TypeOK
      <4>2. CASE RepairTail(r)
            BY <2>4, <2>6, <4>2 DEF RepairTail, Holds, flow, Installed
      <4>3. CASE Rotate(r) \/ Mark(r)
            BY <2>4, <2>6, <4>3 DEF Rotate, Mark, Conclude, Installed, TypeOK
      <4> QED BY <3>7, <4>1, <4>2, <4>3
    <3>8. CASE \/ TakeOnOldHead(r) \/ Lookup(r) \/ Relook(r) \/ ResolveEffects(r) \/ LookupReceipts(r)
               \/ SyncWrite(r) \/ Reconstruct(r) \/ SwitchUnconfirmed(r) \/ ConfirmSwitch(r)
               \/ EndSweep(r) \/ StageFails(r)
      <4>1. \E next \in {"idle", "receipts", "effects", "prepare", "gc"} : \E code : Conclude(r, next, code)
            BY <3>8 DEF TakeOnOldHead, Lookup, Relook, Search, ResolveEffects, LookupReceipts,
                        SyncWrite, Reconstruct, SwitchUnconfirmed, ConfirmSwitch, EndSweep, StageFails
      <4>2. ~Installed(r)'
            BY <4>1 DEF Conclude, Installed, TypeOK
      <4> QED BY <2>4, <2>6, <4>2
    <3> QED BY <1>2, <3>1, <3>2, <3>3, <3>4, <3>5, <3>6, <3>7, <3>8 DEF Step, Fail
  <2> QED BY <2>5, <2>6
<1> QED BY <1>1, <1>2

\* Another runtime, when no collection can run beside it.
LEMMA OtherSupplied ==
    ASSUME Coherent, Undisturbed, NEW r \in Runtimes, Asked(r), Call(r) \/ Step(r) \/ Fail(r),
           NEW p \in Runtimes \ {r}, Supplied(p), Asked(p)
    PROVE  Supplied(p)' /\ Asked(p)'
<1>1. StandStill(r)
      BY Unfold, OthersStill
<1>2. Operations \cap {"gc", "maintain"} = {}
      BY DEF Undisturbed
<1>3. ~Collects(p) /\ ~Collects(r)
      BY <1>2 DEF Asked
<1>4. ~Unlink(r)
      BY <1>3 DEF Unlink, Holds, Collects
<1>5. objects \subseteq objects'
      BY <1>4, ObjectsStay
<1>6. Asked(p)'
      BY <1>1 DEF StandStill, Asked, Collects
<1>7. stage'[p] # "sweep"
      BY <1>1, <1>3 DEF StandStill, Collects
<1> QED BY <1>1, <1>5, <1>6, <1>7 DEF StandStill, Supplied, Installed

\* A power loss leaves fewer references than there were.
LEMMA PowerReferences ==
    ASSUME Coherent, LosePower \/ LoseRename
    PROVE  Referenced' \subseteq Referenced
<1> USE Unfold
<1>1. CASE LosePower
  <2>1. PICK kept \in 0..Len(dirty) : dirty' = SubSeq(dirty, 1, kept)
        BY <1>1 DEF LosePower
  <2>2. ledger' = ledger /\ wal' = wal /\ wal \in Seq(Transaction) /\ dirty \in Seq(Transaction)
        BY <1>1 DEF LosePower, TypeOK
  <2>3. dirty' \in Seq(Transaction) /\ Entries(dirty') \subseteq Entries(dirty)
    <3>1. ASSUME NEW s \in Seq(Transaction), NEW k \in 0..Len(s)
          PROVE  /\ SubSeq(s, 1, k) \in Seq(Transaction) /\ Len(SubSeq(s, 1, k)) = k
                 /\ \A i \in 1..k : SubSeq(s, 1, k)[i] = s[i]
          OBVIOUS
    <3> QED BY <2>1, <2>2, <3>1 DEF Entries
  <2>4. Entries(Frames) = Entries(wal) \cup Entries(dirty)
        BY <2>2, ConcatEntries DEF Frames
  <2>5. Entries(Frames') = Entries(wal) \cup Entries(dirty')
        BY <2>2, <2>3, ConcatEntries DEF Frames
  <2> QED BY <2>2, <2>3, <2>4, <2>5 DEF Referenced, Entries
<1>2. CASE LoseRename
  <2>1. /\ prior # None /\ prior \in Lineage /\ wal' = prior.wal /\ dirty' = << >> /\ ledger' = prior.ledger
        BY <1>2 DEF LoseRename, TypeOK
  <2>2. Frames' = prior.wal
        BY <2>1, ConcatEmpty DEF Frames, Lineage
  <2>3. ledger = prior.ledger \cup Entries(prior.wal)
        BY <2>1 DEF Shared, RevertIsHarmless
  <2> QED BY <2>1, <2>2, <2>3 DEF Referenced, Entries
<1> QED BY <1>1, <1>2

Provided == ReferencesPresent /\ \A p \in Runtimes : Supplied(p) /\ Asked(p)

LEMMA ProvidedNext == Undisturbed /\ Coherent /\ Provided /\ [Next]_vars => Provided'
<1> SUFFICES ASSUME Undisturbed, Coherent, Provided, [Next]_vars PROVE Provided'
    OBVIOUS
<1>1. ASSUME NEW r \in Runtimes, Call(r) \/ Step(r) \/ Fail(r) PROVE Provided'
  <2>1. Supplied(r)' /\ Asked(r)' /\ ReferencesPresent'
        BY <1>1, OwnSupplied, OwnAsked DEF Provided
  <2>2. ASSUME NEW p \in Runtimes \ {r} PROVE Supplied(p)' /\ Asked(p)'
        BY <1>1, <2>2, OtherSupplied DEF Provided
  <2> QED BY <2>1, <2>2 DEF Provided
<1>2. CASE LosePower \/ LoseRename
  <2>1. objects' = objects
        BY <1>2 DEF LosePower, LoseRename
  <2>2. \A p \in Runtimes : stage'[p] = "idle" /\ task'[p] = "none"
        BY <1>2, Unfold, PowerStands DEF Down
  <2> QED BY <1>2, <2>1, <2>2, PowerReferences
          DEF Provided, ReferencesPresent, Supplied, Asked, Installed, Collects
<1>3. CASE ClearStaleLock \/ UNCHANGED vars
  <2>1. UNCHANGED <<ledger, objects, Frames, body, task, stage, pending, cand>>
        BY <1>3, NobodysStep DEF flow
  <2> QED BY <2>1 DEF Provided, ReferencesPresent, Referenced, Entries, Supplied, Asked, Installed, Collects
<1> QED BY <1>1, <1>2, <1>3 DEF Next

\* Recovery and collection find every object they look for, when a runtime is
\* alone on its store and when nobody collects: a collection beside another
\* runtime's installed but uncommitted object is what it takes to lose one.
THEOREM ReferencesStay ==
    ASSUME (\A p, q \in Runtimes : p = q) \/ Operations \cap {"gc", "maintain"} = {}
    PROVE  Spec => []ReferencesPresent
<1>1. Undisturbed
      BY DEF Undisturbed
<1>2. Init => Provided
  <2> SUFFICES ASSUME Init PROVE Provided
      OBVIOUS
  <2>1. Frames = << >> /\ ledger = {}
        BY ConcatEmpty DEF Init, Frames
  <2>2. Referenced = {}
        BY <2>1 DEF Referenced, Entries
  <2> QED BY <2>2 DEF Init, Provided, ReferencesPresent, Supplied, Asked, Installed, Collects
<1>3. Coherent /\ Provided /\ [Next]_vars => Provided'
      BY <1>1, ProvidedNext
<1>4. Provided => ReferencesPresent
      BY DEF Provided
<1> QED BY <1>2, <1>3, <1>4, CoherentAlways, PTL DEF Spec
===============================================================================
