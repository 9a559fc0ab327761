----------------------------- MODULE MCMemoryCore -----------------------------
(* Inputs for MemoryCore small enough for TLC. *)
EXTENDS Recall

CONSTANTS x, y, c1, c2

Draft(content, status, parent, pinned, expires) ==
    [content |-> content, status |-> status, parent |-> parent,
     pinned |-> pinned, expires |-> expires]

\* A candidate that expires, and a pinned note taken from a diary entry.
TwoDrafts == {Draft(x, "candidate", None, FALSE, TRUE), Draft(x, "active", 1, TRUE, FALSE)}

\* Another text, refused on pinned notes and allowed on them, and another parent.
Edits == {[content |-> y], [content |-> y, allowPinnedEdit |-> TRUE], [parent |-> 2]}

\* One foreign note and one entry, as portable records carry them.
ImportedNote == [id |-> 3, content |-> y, status |-> "active", parent |-> None,
                 pinned |-> FALSE, expires |-> FALSE]
OnePayload == {[notes |-> <<ImportedNote>>, diary |-> <<Entry(2, y)>>]}

\* From a note to a caller's node under a relation the graph does not know, and
\* from a note to its own diary entry, where the linker may want its edge.
TwoLinks == {[source |-> 21, target |-> 31, relation |-> "causes"],
             [source |-> 21, target |-> 11, relation |-> "supports"]}

\* Four linked notes: three of one text, one of them a candidate and one with
\* a date, under every choice of edges from a diamond, a loop and a shortcut.
Linked(id, content, status, expires) ==
    [id |-> id, content |-> content, status |-> status, parent |-> None, pinned |-> FALSE, expires |-> expires]
LinkedNotes == <<Linked(5, x, "active", FALSE), Linked(6, y, "candidate", FALSE),
                 Linked(7, y, "active", FALSE), Linked(8, y, "active", TRUE)>>
Arc(id, source, target, relation) ==
    [id |-> id, source |-> source, target |-> target, relation |-> relation]
Arcs == {Arc(5, 25, 26, "related_to"), Arc(3, 27, 25, "supports"), Arc(2, 26, 28, "related_to"),
         Arc(6, 28, 27, "supports"), Arc(9, 25, 28, "supports"), Arc(4, 26, 25, "related_to"),
         Arc(7, 27, 27, "supports")}
LinkedCores ==
    {[notes |-> LinkedNotes, diary |-> << >>,
      nodes |-> [i \in 1..4 |-> MirrorOfNote(LinkedNotes[i])], edges |-> ById(arcs)] : arcs \in SUBSET Arcs}

\* One seed or several, found by text and by identifier, one step or two, with
\* and without a cap, a limit, a direction and a relation.
Question(explicit, depth, maxNodes, limit, direction, allowed, all) ==
    [text |-> x, explicit |-> explicit, depth |-> depth, maxNodes |-> maxNodes, limit |-> limit,
     direction |-> direction, allowed |-> allowed, candidates |-> all, past |-> all]
Questions == {Question({}, 2, 8, 50, "both", STARTER_RELATIONS, TRUE),
              Question({}, 2, 2, 50, "both", STARTER_RELATIONS, TRUE),
              Question({}, 1, 8, 50, "out", STARTER_RELATIONS, TRUE),
              Question({7}, 2, 8, 2, "in", STARTER_RELATIONS, TRUE),
              Question({6, 7}, 2, 8, 50, "both", STARTER_RELATIONS, TRUE),
              Question({8}, 2, 8, 50, "both", {"related_to", "derived_from"}, FALSE)}
===============================================================================
