---------------------------- MODULE MCMaintenance ----------------------------
(* An instance of Maintenance small enough for TLC. *)
EXTENDS Maintenance

\* One operation carries its payload, and two refer to one object.
FourObjects == [id \in Ids |-> IF id = 2 THEN Inline ELSE IF id = 4 THEN 1 ELSE id]

\* All segments of up to two of three identities, and longer ones that repeat
\* an identity within or over runs, or need several passes, or more file
\* numbers than there are.
SomeWals ==
    UNION {[1..n -> {1, 2, 3}] : n \in 0..2} \cup
    {<<1, 2, 3>>, <<3, 1, 2>>, <<2, 3, 2>>, <<1, 1, 3>>,
     <<4, 2, 3, 1>>, <<1, 3, 4, 3>>, <<3, 1, 5, 2, 4>>, <<5, 1, 2, 3, 4>>, <<1, 2, 3, 4, 1>>, <<1, 2, 3, 4, 5, 6>>}
===============================================================================
