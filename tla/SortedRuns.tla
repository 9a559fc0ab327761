------------------------------- MODULE SortedRuns -------------------------------
(***************************************************************************)
(* What the two identity indexes of a recovery have in common: records     *)
(* spilled to sorted run files, runs merged a few at a time, generation    *)
(* after generation, within a byte allowance; and the call in progress,    *)
(* of which there is one at a time.                                        *)
(*                                                                         *)
(* A record is <<identity, transaction>>, identities are numbers in their  *)
(* order, and every record and the manifest count as one byte.             *)
(***************************************************************************)
EXTENDS Naturals, Sequences

CONSTANTS
    FanIn  \* MERGE_FANIN

ASSUME FanInOK == FanIn \in Nat \ {0, 1}

VARIABLES
    allowance,  \* indexDiskBytes
    call        \* the call of an index in progress, or what it returned

-------------------------------------------------------------------------------
(* Calls *)

At(stage) == call.at = stage
Go(stage) == call' = [call EXCEPT !.at = stage]
Return(answer) == call' = [call EXCEPT !.at = "returned", !.answer = answer]
Calling(op, record) == [op |-> op, at |-> op, record |-> record, answer |-> "none"]
Returned(op, answer) == At("returned") /\ call.op = op /\ call.answer = answer

-------------------------------------------------------------------------------
(* Files *)

NoFiles == [name \in {} |-> << >>]
Without(f, names) == [name \in DOMAIN f \ names |-> f[name]]
With(f, name, value) == [n \in DOMAIN f \cup {name} |-> IF n = name THEN value ELSE f[n]]

\* Of sizes numbered up to last.  This sum and the merge are recursive functions
\* without operator arguments, which the theorems can unfold.
Sizes(sizes, last) ==
    LET upTo[n \in 0..last] ==
            (IF n \in DOMAIN sizes THEN sizes[n] ELSE 0) + (IF n = 0 THEN 0 ELSE upTo[n - 1])
    IN  upTo[last]

SizeOf(runs) == Sizes([i \in DOMAIN runs |-> Len(runs[i])], Len(runs))
BytesIn(files, names) == Sizes([name \in DOMAIN files |-> Len(files[name])], names)

-------------------------------------------------------------------------------
(* The k-way merge.  Of the open inputs the one whose head is smallest is  *)
(* written next, and of equal heads the earliest.                          *)

\* By identity, or as the lines records are written as.
Before(order, r, s) == r[1] < s[1] \/ (order = "line" /\ r[1] = s[1] /\ r[2] < s[2])

Unread(runs, pos) == {i \in DOMAIN runs : pos[i] =< Len(runs[i])}

Leads(order, runs, pos, i) ==
    \A j \in Unread(runs, pos) \ {i} :
        \/ Before(order, runs[i][pos[i]], runs[j][pos[j]])
        \/ i < j /\ ~Before(order, runs[j][pos[j]], runs[i][pos[i]])

\* The head of the leading input is written, and that input advances.
Written(order, runs, done) ==
    LET lead == CHOOSE i \in Unread(runs, done.pos) : Leads(order, runs, done.pos, i)
    IN  [pos |-> [done.pos EXCEPT ![lead] = @ + 1],
         out |-> Append(done.out, runs[lead][done.pos[lead]])]

Merged(order, runs) ==
    LET step[n \in 0..SizeOf(runs)] ==
            IF n = 0 THEN [pos |-> [i \in DOMAIN runs |-> 1], out |-> << >>]
            ELSE Written(order, runs, step[n - 1])
    IN  step[SizeOf(runs)].out

\* A stable sort: records are merged one by one.
SortedRecords(order, records) == Merged(order, [i \in DOMAIN records |-> <<records[i]>>])

-------------------------------------------------------------------------------
(* Generations: the runs still to be merged in this pass, and its outputs. *)

FirstPass(runs) == [todo |-> runs, outputs |-> << >>]
MergeNeeded(pass, limit) == pass.outputs # << >> \/ Len(pass.todo) > limit
Group(pass) == SubSeq(pass.todo, 1, IF Len(pass.todo) < FanIn THEN Len(pass.todo) ELSE FanIn)
GroupSize(pass, owned) == Sizes([i \in DOMAIN Group(pass) |-> owned[Group(pass)[i]]], FanIn)

\* Mutant: a last group of one is left behind.
GroupDoneShort(pass, output) ==
    LET rest == SubSeq(pass.todo, Len(Group(pass)) + 1, Len(pass.todo))
        outputs == Append(pass.outputs, output)
    IN  IF Len(rest) =< 1 THEN FirstPass(outputs) ELSE [todo |-> rest, outputs |-> outputs]

\* The group has become one run.  A last group of one goes on as it is, and
\* then the outputs are the next generation.
GroupDone(pass, output) ==
    LET rest == SubSeq(pass.todo, Len(Group(pass)) + 1, Len(pass.todo))
        outputs == Append(pass.outputs, output)
    IN  IF Len(rest) =< 1 THEN FirstPass(outputs \o rest) ELSE [todo |-> rest, outputs |-> outputs]
===============================================================================
