---------------------------- MODULE MCDurableStore ----------------------------
(* Instances of DurableStore small enough for TLC. *)
EXTENDS DurableStoreInvariant, TLC

CONSTANTS r1, r2, m1, m2, m3, i1, i2, b1, b2

Request(m, i) == [mid |-> m, intent |-> i]

OneIdentity == {Request(m1, i1)}

\* Distinct identities, one intent each.
TwoIdentities == {Request(m1, i1), Request(m2, i1)}

\* The first identity is also reused with another intent.
Reuse == TwoIdentities \cup {Request(m1, i2)}
ReuseOfThree == Reuse \cup {Request(m3, i1)}

\* Runtimes run the same code.
Symmetry == Permutations(Runtimes)
===============================================================================
