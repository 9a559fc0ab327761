------------------------------ MODULE MemoryCore ------------------------------
(***************************************************************************)
(* EtherMemoriesCore: memory notes, a diary and a mind graph in memory,    *)
(* kept in step by the foundation linker, with a lexical index built on    *)
(* demand.  Its operations are synchronous; saving, loading and portable   *)
(* import are asynchronous calls that others run in between.  The durable  *)
(* runtime executes the same operations on a detached core and records     *)
(* what changed: that difference and its replay are modelled here too.     *)
(*                                                                         *)
(* Collections are sequences, in the order of the maps that hold them.     *)
(* Identifiers are numbers, in the order of their strings.                 *)
(***************************************************************************)
EXTENDS Naturals, FiniteSets, Sequences, SequencesExt

CONSTANTS
    OwnNotes,       \* identifiers createId gives to notes
    OwnDiaries,     \* ... and to diary entries
    Drafts,         \* what addMemory is called with
    Texts,          \* what diary entries say
    Patches,        \* what updateMemory is called with
    Payloads,       \* what importPortableRecords is called with
    UserNodes,      \* nodes a caller adds to the graph
    UserEdges,      \* identifiers of the edges a caller adds
    Links,          \* what callers connect, and how
    Saved,          \* snapshots an earlier process may have left in the file
    Calls,          \* asynchronous calls in progress at one time
    MaxId,          \* bound: the greatest identifier of a note or an entry
    MaxOperations,  \* bound: operations begun
    None            \* no value

RecordIds == 1..MaxId

VARIABLES
    core,       \* the notes, diary, nodes and edges
    index,      \* the documents of the lexical index
    fresh,      \* the revisions the index was built at are still the current ones
    file,       \* the snapshot file
    calls,      \* the asynchronous calls
    used,       \* identifiers createId has given out
    operations  \* how many operations were begun

vars == <<core, index, fresh, file, calls, used, operations>>

-------------------------------------------------------------------------------
(* Collections *)

Ids(items) == {item.id : item \in ToSet(items)}
Get(items, id) == CHOOSE item \in ToSet(items) : item.id = id
Distinct(items) == \A i, j \in DOMAIN items : items[i].id = items[j].id => i = j

\* What is left, in order.  This and the other loops below are recursive
\* functions without operator arguments, which the theorems can unfold.
Remaining(items, gone) ==
    LET kept[n \in 0..Len(items)] ==
            IF n = 0 THEN << >>
            ELSE IF items[n] \in gone THEN kept[n - 1] ELSE Append(kept[n - 1], items[n])
    IN  kept[Len(items)]

Without(items, id) == Remaining(items, {item \in ToSet(items) : item.id = id})

\* Map.set: a key that exists keeps its place.
Put(items, item) ==
    IF item.id \in Ids(items)
    THEN [i \in DOMAIN items |-> IF items[i].id = item.id THEN item ELSE items[i]]
    ELSE Append(items, item)

PutAll(items, added) ==
    LET put[n \in 0..Len(added)] == IF n = 0 THEN items ELSE Put(put[n - 1], added[n])
    IN  put[Len(added)]

\* By rank.
InOrder(ids) ==
    [rank \in 1..Cardinality(ids) |->
        CHOOSE id \in ids : Cardinality({other \in ids : other < id}) = rank - 1]

-------------------------------------------------------------------------------
(* The mind graph *)

\* "diary:..." comes before "memory:...".
DiaryNode(id) == (MaxId + 1) + id
MemoryNode(id) == 2 * (MaxId + 1) + id
DiaryNodes == {DiaryNode(id) : id \in RecordIds}
MemoryNodes == {MemoryNode(id) : id \in RecordIds}
Node(id, label, status) == [id |-> id, label |-> label, status |-> status]
Placeholder(id) == Node(id, None, None)

STARTER_RELATIONS == {"related_to", "derived_from", "supports"}
Normalized(relation) == IF relation \in STARTER_RELATIONS THEN relation ELSE "related_to"

EnsureNode(c, node) == [c EXCEPT !.nodes = Put(@, node)]
AddNode(c, node) == IF node.id \in Ids(c.nodes) THEN c ELSE EnsureNode(c, node)

\* Mutant: a second edge between the same endpoints.
CanAddEdgeTwice(c, id, source, target) ==
    /\ {source, target} \subseteq Ids(c.nodes)
    /\ id \notin Ids(c.edges)

CanAddEdge(c, id, source, target) ==
    /\ {source, target} \subseteq Ids(c.nodes)
    /\ id \notin Ids(c.edges)
    /\ \A e \in ToSet(c.edges) : <<e.source, e.target>> # <<source, target>>

\* A refused edge changes nothing.
AddEdgeWithId(c, id, source, target, relation) ==
    IF CanAddEdge(c, id, source, target)
    THEN [c EXCEPT !.edges = Append(@, [id |-> id, source |-> source, target |-> target,
                                        relation |-> Normalized(relation)])]
    ELSE c

NewEdge(c) ==
    LET taken == Ids(c.edges) \cup UserEdges
    IN  CHOOSE n \in 1..(Cardinality(taken) + 1) : n \notin taken
AddEdge(c, source, target, relation) == AddEdgeWithId(c, NewEdge(c), source, target, relation)

RemoveNode(c, id) ==
    [c EXCEPT !.nodes = Without(@, id),
              !.edges = Remaining(@, {e \in ToSet(@) : id \in {e.source, e.target}})]

-------------------------------------------------------------------------------
(* Notes and diary, with the foundation linker *)

MirrorOfNote(note) == Node(MemoryNode(note.id), note.content, note.status)
MirrorOfEntry(entry) == Node(DiaryNode(entry.id), entry.content, None)

LinkNote(c, note) ==
    LET noded == EnsureNode(c, MirrorOfNote(note))
        parent == DiaryNode(note.parent)
    IN  IF note.parent = None
        THEN noded
        ELSE AddEdge(AddNode(noded, Placeholder(parent)),
                     MemoryNode(note.id), parent, "derived_from")
LinkDiary(c, entry) == EnsureNode(c, MirrorOfEntry(entry))

LinkNotes(c, notes) ==
    LET linked[n \in 0..Len(notes)] == IF n = 0 THEN c ELSE LinkNote(linked[n - 1], notes[n])
    IN  linked[Len(notes)]
LinkEntries(c, entries) ==
    LET linked[n \in 0..Len(entries)] == IF n = 0 THEN c ELSE LinkDiary(linked[n - 1], entries[n])
    IN  linked[Len(entries)]

\* addMemory, updateMemory and promoteCandidate, once the note is made.
PutNote(c, note) == LinkNote([c EXCEPT !.notes = Put(@, note)], note)
DeleteMemory(c, id) == RemoveNode([c EXCEPT !.notes = Without(@, id)], MemoryNode(id))

\* In the order of the notes.
Purged(c, ids) ==
    LET left[n \in 0..Len(c.notes)] ==
            IF n = 0 THEN c
            ELSE IF c.notes[n].id \in ids THEN DeleteMemory(left[n - 1], c.notes[n].id) ELSE left[n - 1]
    IN  left[Len(c.notes)]

PutEntry(c, entry) == LinkDiary([c EXCEPT !.diary = Put(@, entry)], entry)
DeleteDiary(c, id) == RemoveNode([c EXCEPT !.diary = Without(@, id)], DiaryNode(id))

NewNote(id, draft) == [field \in DOMAIN draft \cup {"id"} |-> IF field = "id" THEN id ELSE draft[field]]
Entry(id, text) == [id |-> id, content |-> text]

Editable(note, patch) == note.pinned /\ "content" \in DOMAIN patch => "allowPinnedEdit" \in DOMAIN patch
Patched(note, patch) ==
    [field \in DOMAIN note |-> IF field \in DOMAIN patch THEN patch[field] ELSE note[field]]

-------------------------------------------------------------------------------
(* Snapshots *)

Empty == [notes |-> << >>, diary |-> << >>, nodes |-> << >>, edges |-> << >>]

Ends(edge) == <<edge.source, edge.target>>

\* prepareSnapshot accepts it.
Accepted(s) ==
    /\ Distinct(s.notes) /\ Distinct(s.diary) /\ Distinct(s.nodes) /\ Distinct(s.edges)
    /\ \A e \in ToSet(s.edges) : {e.source, e.target} \subseteq Ids(s.nodes)
    /\ \A i, j \in DOMAIN s.edges : Ends(s.edges[i]) = Ends(s.edges[j]) => i = j

WithNodes(c, nodes) ==
    LET added[n \in 0..Len(nodes)] == IF n = 0 THEN c ELSE AddNode(added[n - 1], nodes[n])
    IN  added[Len(nodes)]
WithEdges(c, edges) ==
    LET added[n \in 0..Len(edges)] ==
            IF n = 0 THEN c
            ELSE AddEdgeWithId(added[n - 1], edges[n].id, edges[n].source, edges[n].target, edges[n].relation)
    IN  added[Len(edges)]

\* commitSnapshot: whatever the core held is replaced.
Committed(s) ==
    WithEdges(WithNodes([s EXCEPT !.nodes = << >>, !.edges = << >>], s.nodes), s.edges)

\* Notes and entries have their node, as they are now, and no other memory
\* node is left; a diary node without an entry is a placeholder.
Mirrors(s) ==
    LET nodes == ToSet(s.nodes)
    IN  /\ {n \in nodes : n.id \in MemoryNodes} = {MirrorOfNote(note) : note \in ToSet(s.notes)}
        /\ {MirrorOfEntry(entry) : entry \in ToSet(s.diary)} \subseteq nodes
        /\ \A n \in nodes : n.id \in DiaryNodes =>
                n.id \in {DiaryNode(entry.id) : entry \in ToSet(s.diary)} \/ n = Placeholder(n.id)

NoteFields == {"id", "content", "status", "parent", "pinned", "expires"}
Parents == {None} \cup RecordIds
IsNote(note) == DOMAIN note = NoteFields /\ note.id \in RecordIds /\ note.parent \in Parents
IsEntry(entry) == DOMAIN entry = {"id", "content"} /\ entry.id \in RecordIds
IsEdge(e) ==
    /\ e = [id |-> e.id, source |-> e.source, target |-> e.target, relation |-> e.relation]
    /\ e.relation \in STARTER_RELATIONS /\ e.id \in Nat

\* A core as the program makes it, and so a snapshot as it saves it.
Formed(s) ==
    /\ s = [notes |-> s.notes, diary |-> s.diary, nodes |-> s.nodes, edges |-> s.edges]
    /\ \A collection \in DOMAIN s : s[collection] \in Seq(ToSet(s[collection]))
    /\ \A note \in ToSet(s.notes) : IsNote(note)
    /\ \A entry \in ToSet(s.diary) : IsEntry(entry)
    /\ \A e \in ToSet(s.edges) : IsEdge(e)
Sound(s) == Formed(s) /\ Accepted(s) /\ Mirrors(s)
-------------------------------------------------------------------------------
(* The effects of a mutation, and their replay *)

Removal(type, id) == [type |-> type, id |-> id]
Postimage(type, item) == [type |-> type, id |-> item.id, item |-> item]

Removals(type, before, after) ==
    LET ids == InOrder(Ids(before) \ Ids(after))
    IN  [i \in DOMAIN ids |-> Removal(type, ids[i])]

Puts(type, before, after) ==
    LET ids == InOrder({item.id : item \in ToSet(after) \ ToSet(before)})
    IN  [i \in DOMAIN ids |-> Postimage(type, Get(after, ids[i]))]

\* Mutant: nodes are removed before their edges.
EffectsNodesFirst(before, after) ==
    Removals("notes", before.notes, after.notes) \o Puts("notes", before.notes, after.notes)
    \o Removals("diary", before.diary, after.diary) \o Puts("diary", before.diary, after.diary)
    \o Removals("nodes", before.nodes, after.nodes) \o Removals("edges", before.edges, after.edges)
    \o Puts("nodes", before.nodes, after.nodes) \o Puts("edges", before.edges, after.edges)

\* prepareCoreMutation.
Effects(before, after) ==
    Removals("notes", before.notes, after.notes) \o Puts("notes", before.notes, after.notes)
    \o Removals("diary", before.diary, after.diary) \o Puts("diary", before.diary, after.diary)
    \o Removals("edges", before.edges, after.edges) \o Removals("nodes", before.nodes, after.nodes)
    \o Puts("nodes", before.nodes, after.nodes) \o Puts("edges", before.edges, after.edges)

\* What reduceProduction does with one effect.
Missing(c, effect) == "item" \notin DOMAIN effect /\ effect.id \notin Ids(c[effect.type])
Applied(c, effect) ==
    LET normal == IF effect.type = "edges"
                  THEN [effect.item EXCEPT !.relation = Normalized(@)] ELSE effect.item
    IN  CASE "item" \in DOMAIN effect -> [c EXCEPT ![effect.type] = Put(@, normal)]
          [] "item" \notin DOMAIN effect /\ effect.type = "nodes" -> RemoveNode(c, effect.id)
          [] OTHER -> [c EXCEPT ![effect.type] = Without(@, effect.id)]

\* Removing what is absent is an error, after which nothing is applied.
Reduced(replay, effect) ==
    IF replay.missing \/ Missing(replay.core, effect)
    THEN [replay EXCEPT !.missing = TRUE]
    ELSE [replay EXCEPT !.core = Applied(@, effect)]

Replay(replay, effects) ==
    LET reached[n \in 0..Len(effects)] ==
            IF n = 0 THEN replay ELSE Reduced(reached[n - 1], effects[n])
    IN  reached[Len(effects)]
Replayed(c, effects) == Replay([core |-> c, missing |-> FALSE], effects)

-------------------------------------------------------------------------------
(* Operations *)

Begin == operations < MaxOperations /\ operations' = operations + 1

\* The core changes, and with it the revisions of these collections.
Become(c, revised) ==
    /\ core' = c
    /\ fresh' = [collection \in DOMAIN fresh |-> fresh[collection] /\ collection \notin revised]
    /\ UNCHANGED <<index, file>>

AddMemory ==
    /\ Begin
    /\ \E id \in OwnNotes \ used.notes, draft \in Drafts :
        /\ Become(PutNote(core, NewNote(id, draft)), {"notes"})
        /\ used' = [used EXCEPT !.notes = @ \cup {id}]
    /\ UNCHANGED calls

\* What the analysis of a text is committed as: its summary, as a candidate.
Candidate(text, parent) ==
    [content |-> text, status |-> "candidate", parent |-> parent, pinned |-> FALSE, expires |-> FALSE]

\* condense: with the entry the text was taken from, or without one.
Condense ==
    /\ Begin
    /\ \E id \in OwnNotes \ used.notes, text \in Texts, parent \in {None} \cup Ids(core.diary) :
        /\ Become(PutNote(core, NewNote(id, Candidate(text, parent))), {"notes"})
        /\ used' = [used EXCEPT !.notes = @ \cup {id}]
    /\ UNCHANGED calls

\* Mutant: an edit does not count as a revision.
UpdateMemoryUnrevised ==
    /\ Begin
    /\ \E note \in ToSet(core.notes), patch \in Patches :
        /\ Editable(note, patch)
        /\ Become(PutNote(core, Patched(note, patch)), {})
    /\ UNCHANGED <<calls, used>>

UpdateMemory ==
    /\ Begin
    /\ \E note \in ToSet(core.notes), patch \in Patches :
        /\ Editable(note, patch)
        /\ Become(PutNote(core, Patched(note, patch)), {"notes"})
    /\ UNCHANGED <<calls, used>>

PromoteCandidate ==
    /\ Begin
    /\ \E note \in ToSet(core.notes) :
        Become(PutNote(core, [note EXCEPT !.status = "active"]), {"notes"})
    /\ UNCHANGED <<calls, used>>

DeleteMemoryById ==
    /\ Begin
    /\ \E id \in Ids(core.notes) : Become(DeleteMemory(core, id), {"notes"})
    /\ UNCHANGED <<calls, used>>

\* Mutant: the notes are purged by MemoryNotes alone, and the graph is not told.
PurgeExpiredUnlinked ==
    /\ Begin
    /\ \E force \in BOOLEAN :
        LET due == {note.id : note \in {n \in ToSet(core.notes) : n.expires /\ (~n.pinned \/ force)}}
        IN  \E ids \in SUBSET due \ {{}} :
                Become([core EXCEPT !.notes = Remaining(@, {note \in ToSet(@) : note.id \in ids})], {"notes"})
    /\ UNCHANGED <<calls, used>>

\* Any of the dates may have passed by now.
PurgeExpired ==
    /\ Begin
    /\ \E force \in BOOLEAN :
        LET due == {note.id : note \in {n \in ToSet(core.notes) : n.expires /\ (~n.pinned \/ force)}}
        IN  \E ids \in SUBSET due \ {{}} :
                Become(Purged(core, ids), {"notes"})
    /\ UNCHANGED <<calls, used>>

AddDiaryEntry ==
    /\ Begin
    /\ \E id \in OwnDiaries \ used.diary, text \in Texts :
        /\ Become(PutEntry(core, Entry(id, text)), {"diary"})
        /\ used' = [used EXCEPT !.diary = @ \cup {id}]
    /\ UNCHANGED calls

UpdateDiary ==
    /\ Begin
    /\ \E id \in Ids(core.diary), text \in Texts :
        Become(PutEntry(core, Entry(id, text)), {"diary"})
    /\ UNCHANGED <<calls, used>>

DeleteDiaryById ==
    /\ Begin
    /\ \E id \in Ids(core.diary) : Become(DeleteDiary(core, id), {"diary"})
    /\ UNCHANGED <<calls, used>>

\* Callers use the graph too.
AddUserNode ==
    /\ Begin
    /\ \E id \in UserNodes : Become(AddNode(core, Placeholder(id)), {})
    /\ UNCHANGED <<calls, used>>

AddUserEdge ==
    /\ Begin
    /\ \E id \in UserEdges, link \in Links :
        Become(AddEdgeWithId(core, id, link.source, link.target, link.relation), {})
    /\ UNCHANGED <<calls, used>>

-------------------------------------------------------------------------------
(* The lexical index *)

Documents(items) == {<<item.id, item.content>> : item \in ToSet(items)}

\* ensureFresh, before every query.
Query ==
    /\ index' = [collection \in DOMAIN index |->
                    IF fresh[collection] THEN index[collection] ELSE Documents(core[collection])]
    /\ fresh' = [collection \in DOMAIN fresh |-> TRUE]
    /\ UNCHANGED <<core, file, calls, used, operations>>

-------------------------------------------------------------------------------
(* Asynchronous calls *)

Idle == [kind |-> "idle"]
Call(c, call) == calls' = [calls EXCEPT ![c] = call]

\* importData of an accepted snapshot.
ImportData(s) ==
    IF Accepted(s)
    THEN Become(Committed(s), {"notes", "diary"})
    ELSE UNCHANGED <<core, index, fresh, file>>

\* A value that cannot be cloned stops commitSnapshot anywhere, and what was
\* exported before is committed over it.
ImportDataFails ==
    /\ Begin
    /\ ImportData(core)
    /\ UNCHANGED <<calls, used>>

BeginSave(c) ==
    /\ Begin /\ calls[c] = Idle
    /\ Call(c, [kind |-> "save", snapshot |-> core])
    /\ UNCHANGED <<core, index, fresh, file, used>>

\* The temporary file is renamed, or something failed before.
FinishSave(c) ==
    /\ calls[c].kind = "save"
    /\ file' = calls[c].snapshot
    /\ Call(c, Idle)
    /\ UNCHANGED <<core, index, fresh, used, operations>>

SaveFails(c) ==
    /\ calls[c].kind = "save"
    /\ Call(c, Idle)
    /\ UNCHANGED <<core, index, fresh, file, used, operations>>

\* The file is read, and imported when the call continues.
BeginLoad(c) ==
    /\ Begin /\ calls[c] = Idle /\ file # None
    /\ Call(c, [kind |-> "load", snapshot |-> file])
    /\ UNCHANGED <<core, index, fresh, file, used>>

FinishLoad(c) ==
    /\ calls[c].kind = "load"
    /\ ImportData(calls[c].snapshot)
    /\ Call(c, Idle)
    /\ UNCHANGED <<used, operations>>

\* The identifiers that exist are captured now.
BeginImport(c) ==
    /\ Begin /\ calls[c] = Idle
    /\ \E payload \in Payloads :
        Call(c, [kind |-> "import", payload |-> payload,
                 blocked |-> \/ Ids(payload.notes) \cap Ids(core.notes) # {}
                             \/ Ids(payload.diary) \cap Ids(core.diary) # {}])
    /\ UNCHANGED <<core, index, fresh, file, used>>

\* replaceAll of what is there now followed by what was prepared, and links.
Imported(payload) ==
    LET put == [core EXCEPT !.notes = PutAll(@, payload.notes), !.diary = PutAll(@, payload.diary)]
    IN  LinkEntries(LinkNotes(put, payload.notes), payload.diary)

FinishImport(c) ==
    /\ calls[c].kind = "import"
    /\ IF calls[c].blocked
       THEN UNCHANGED <<core, index, fresh, file>>
       ELSE Become(Imported(calls[c].payload), {"notes", "diary"})
    /\ Call(c, Idle)
    /\ UNCHANGED <<used, operations>>

\* The process ends and another one starts from nothing.
Restart ==
    /\ Begin
    /\ core' = Empty /\ calls' = [c \in Calls |-> Idle]
    /\ index' = [notes |-> {}, diary |-> {}]
    /\ fresh' = [notes |-> FALSE, diary |-> FALSE]
    /\ UNCHANGED <<file, used>>

-------------------------------------------------------------------------------
ASSUME CoreConstantsOK ==
    /\ MaxOperations \in Nat \ {0} /\ MaxId \in Nat \ {0}
    /\ OwnNotes \subseteq RecordIds /\ OwnDiaries \subseteq RecordIds
    /\ UserNodes \cap (DiaryNodes \cup MemoryNodes) = {} /\ UserEdges \subseteq Nat /\ IsFiniteSet(UserEdges)

\* Callers name fields that notes have, and entries by their identifiers.
ASSUME CallersOK ==
    /\ \A draft \in Drafts : DOMAIN draft = NoteFields \ {"id"} /\ draft.parent \in Parents
    /\ \A patch \in Patches :
        "id" \notin DOMAIN patch /\ ("parent" \in DOMAIN patch => patch.parent \in Parents)

\* validateRecord refuses identifiers that occur twice.
ASSUME PayloadsOK ==
    \A payload \in Payloads :
        /\ payload.notes \in Seq(ToSet(payload.notes)) /\ payload.diary \in Seq(ToSet(payload.diary))
        /\ Distinct(payload.notes) /\ \A note \in ToSet(payload.notes) : IsNote(note)
        /\ Distinct(payload.diary) /\ \A entry \in ToSet(payload.diary) : IsEntry(entry)

\* An earlier process saved what this one would.
ASSUME SavedOK == \A s \in Saved : Sound(s)

Init ==
    /\ core = Empty
    /\ index = [notes |-> {}, diary |-> {}]
    /\ fresh = [notes |-> FALSE, diary |-> FALSE]
    /\ \/ file = None /\ operations = 0
       \/ file \in Saved /\ operations = MaxOperations - 1
    /\ calls = [c \in Calls |-> Idle]
    /\ used = [notes |-> {}, diary |-> {}]

Next ==
    \/ AddMemory \/ Condense \/ UpdateMemory \/ PromoteCandidate
    \/ DeleteMemoryById \/ PurgeExpired
    \/ AddDiaryEntry \/ UpdateDiary \/ DeleteDiaryById
    \/ AddUserNode \/ AddUserEdge
    \/ Query
    \/ ImportDataFails \/ Restart
    \/ \E c \in Calls :
        \/ BeginSave(c) \/ FinishSave(c) \/ SaveFails(c)
        \/ BeginLoad(c) \/ FinishLoad(c)
        \/ BeginImport(c) \/ FinishImport(c)

Spec == Init /\ [][Next]_vars

-------------------------------------------------------------------------------
(* Properties *)

\* The linker keeps the graph in step with what it mirrors: notes and entries
\* have their node, as they are now, and no other memory node is left; a diary
\* node without an entry is a placeholder a note's provenance asked for.
NodesMirrorNotes == Mirrors(core)

\* Whatever state is reached, its export is accepted by an import and gives it
\* back: this is what saves, durable checkpoints and rollbacks rest on.
RestoreIsExact == Accepted(core) /\ Committed(core) = core

\* An index that claims to be built at the current revision is one of the
\* current content.
IndexAgrees ==
    \A collection \in DOMAIN fresh :
        fresh[collection] => index[collection] = Documents(core[collection])

\* What one durable mutation may make of the core.
Outcomes(c) ==
    {PutNote(c, NewNote(id, draft)) : id \in OwnNotes \ used.notes, draft \in Drafts}
    \cup {PutNote(c, Patched(edit[1], edit[2])) :
             edit \in {e \in ToSet(c.notes) \X Patches : Editable(e[1], e[2])}}
    \cup {DeleteMemory(c, id) : id \in Ids(c.notes)}
    \cup {PutEntry(c, Entry(id, text)) : id \in (OwnDiaries \ used.diary) \cup Ids(c.diary), text \in Texts}
    \cup {DeleteDiary(c, id) : id \in Ids(c.diary)}
    \cup {AddEdgeWithId(c, id, link.source, link.target, link.relation) : id \in UserEdges, link \in Links}

\* Replaying the recorded effects of any mutation meets no missing target and
\* gives what the live runtime publishes, in the same order; only two nodes
\* that are new at once may change places.
EffectsReproduce ==
    \A after \in Outcomes(core) :
        LET replayed == Replayed(core, Effects(core, after))
        IN  /\ ~replayed.missing
            /\ [replayed.core EXCEPT !.nodes = ToSet(@)] = [after EXCEPT !.nodes = ToSet(@)]
            /\ Cardinality(Ids(after.nodes) \ Ids(core.nodes)) < 2 => replayed.core = after

\* A portable import never replaces a note that exists, whatever ran since it
\* began.
ImportKeepsExisting ==
    [][\A c \in Calls : FinishImport(c) =>
        \A note \in ToSet(core.notes) : note \in ToSet(core'.notes)]_vars
===============================================================================
