------------------------ MODULE CommittedHistory_proofs ------------------------
(***************************************************************************)
(* What CommittedHistory promises holds for every set of runtimes,         *)
(* identities, intents and bodies.                                         *)
(***************************************************************************)
EXTENDS CommittedHistory, TLAPS

Inv == TypeOK /\ CommittedOnce /\ AckedCommitted /\ ViewsAreCommitted

\* Appending keeps what a log already settled.
LEMMA AppendKeeps ==
    ASSUME NEW s \in Seq(Transaction), NEW tx \in Transaction
    PROVE  /\ Append(s, tx) \in Seq(Transaction)
           /\ Len(Append(s, tx)) = Len(s) + 1
           /\ \A i \in DOMAIN s : Append(s, tx)[i] = s[i]
           /\ Append(s, tx)[Len(s) + 1] = tx
           /\ \A q \in Request : Settles(s, q) => Settles(Append(s, tx), q)
  BY DEF Settles

LEMMA InitInv == Init => Inv
  BY DEF Init, Inv, TypeOK, CommittedOnce, AckedCommitted, ViewsAreCommitted

LEMMA NextInv == Inv /\ [Next]_vars => Inv'
<1> SUFFICES ASSUME Inv, [Next]_vars PROVE Inv'
    OBVIOUS
<1> USE DEF Inv, TypeOK
<1>1. CASE Commit
  <2>1. PICK tx \in Transaction :
            ~Has(log, tx.mid) /\ log' = Append(log, tx) /\ UNCHANGED <<view, acked>>
        BY <1>1 DEF Commit
  <2>2. TypeOK'
        BY <2>1
  <2>3. CommittedOnce'
        BY <2>1, AppendKeeps DEF CommittedOnce, Has
  <2>4. AckedCommitted'
        BY <2>1, AppendKeeps DEF AckedCommitted
  <2>5. ViewsAreCommitted'
        BY <2>1, AppendKeeps DEF ViewsAreCommitted
  <2> QED BY <2>2, <2>3, <2>4, <2>5
<1>2. CASE Forget
      BY <1>2 DEF Forget, CommittedOnce, AckedCommitted, ViewsAreCommitted
<1>3. ASSUME NEW r \in Runtimes, Publish(r) PROVE Inv'
      BY <1>3 DEF Publish, CommittedOnce, AckedCommitted, ViewsAreCommitted
<1>4. ASSUME NEW r \in Runtimes, NEW q \in Request, Answer(r, q) PROVE Inv'
  <2>1. TypeOK' /\ CommittedOnce' /\ ViewsAreCommitted'
        BY <1>4 DEF Answer, CommittedOnce, ViewsAreCommitted
  <2>2. Settles(log, q)
        BY <1>4, <2>1 DEF Answer, ViewsAreCommitted, Settles
  <2>3. AckedCommitted'
        BY <1>4, <2>2 DEF Answer, AckedCommitted
  <2> QED BY <2>1, <2>3
<1>5. CASE UNCHANGED vars
      BY <1>5 DEF vars, CommittedOnce, AckedCommitted, ViewsAreCommitted, Settles
<1> QED BY <1>1, <1>2, <1>3, <1>4, <1>5 DEF Next

\* An acknowledged command is in the log, no identity is committed twice, and
\* every published view is a prefix of the log, in every history the store
\* promises.
THEOREM PromiseHolds == Spec => [](CommittedOnce /\ AckedCommitted /\ ViewsAreCommitted)
<1>1. Inv => CommittedOnce /\ AckedCommitted /\ ViewsAreCommitted
      BY DEF Inv
<1> QED BY InitInv, NextInv, <1>1, PTL DEF Spec
===============================================================================
