-------------------------------- MODULE Recall --------------------------------
(***************************************************************************)
(* Recall over a core: the capped walk of the mind graph around a note,    *)
(* and the query that ranks direct matches and adds the notes the walk     *)
(* finds.  Both only read.  Texts match when they are equal; importance,   *)
(* confidence and times are left out: they are the same for every note.    *)
(***************************************************************************)
EXTENDS MemoryCore

CONSTANT Recalls    \* the queries asked

-------------------------------------------------------------------------------
(* The walk: getRecallNeighbors *)

\* What an edge of the allowed relations leads to from n.
Outgoing(q, e, n) == q.direction # "in" /\ e.source = n
Incoming(q, e, n) == q.direction # "out" /\ e.target = n
Candidates(c, q, n) ==
    {e \in ToSet(c.edges) : e.relation \in q.allowed /\ (Outgoing(q, e, n) \/ Incoming(q, e, n))}
Neighbor(q, e, n) == IF q.direction # "in" /\ e.source = n THEN e.target ELSE e.source

ById(edges) == SetToSortSeq(edges, LAMBDA e, f : e.id < f.id)

\* comparePathIds, on paths as sequences of edge identifiers.
Precedes(path, other) ==
    \E i \in DOMAIN path :
        /\ i \in DOMAIN other /\ path[i] < other[i]
        /\ \A j \in 1..(i - 1) : path[j] = other[j]

PathTo(walk, n) == IF n \in DOMAIN walk.paths THEN walk.paths[n] ELSE << >>

\* Mutant: the first path found is kept.
FollowFirst(q, walk, n, e) ==
    LET neighbor == Neighbor(q, e, n)
        paths == (neighbor :> Append(PathTo(walk, n), e.id)) @@ walk.paths
    IN  IF walk.full \/ neighbor \in DOMAIN walk.paths
        THEN walk
        ELSE [walk EXCEPT !.paths = paths, !.next = @ \cup {neighbor},
                          !.full = Cardinality(DOMAIN paths \ {walk.root}) >= q.maxNodes]

\* One candidate edge of n.  A node that has a path gets a better one only of
\* the same length; nothing is followed once the cap is reached.
Follow(q, walk, n, e) ==
    LET neighbor == Neighbor(q, e, n)
        path == Append(PathTo(walk, n), e.id)
        paths == (neighbor :> path) @@ walk.paths
        known == neighbor \in DOMAIN walk.paths
        better == known /\ Len(path) = Len(walk.paths[neighbor]) /\ Precedes(path, walk.paths[neighbor])
    IN  CASE walk.full \/ (known /\ ~better) -> walk
          [] ~walk.full /\ better -> [walk EXCEPT !.paths = paths]
          [] OTHER -> [walk EXCEPT !.paths = paths, !.next = @ \cup {neighbor},
                                   !.full = Cardinality(DOMAIN paths \ {walk.root}) >= q.maxNodes]

\* The frontier in the order of its identifiers, the edges of each in theirs.
Level(c, q, walk) ==
    LET Expand(w, n) == FoldLeft(LAMBDA v, e : Follow(q, v, n, e), w, ById(Candidates(c, q, n)))
    IN  FoldLeft(Expand, [walk EXCEPT !.next = {}], InOrder(walk.next))

\* The path to every node found.
RecallNeighbors(c, q, id) ==
    LET start == [root |-> id, paths |-> << >>, next |-> {id}, full |-> FALSE]
        walk == CASE id \notin Ids(c.nodes) \/ q.depth = 0 \/ q.maxNodes = 0 -> start
                  [] q.depth = 1 -> Level(c, q, start)
                  [] OTHER -> Level(c, q, Level(c, q, start))
    IN  [n \in DOMAIN walk.paths \ {id} |-> walk.paths[n]]

-------------------------------------------------------------------------------
(* The query *)

Passes(q, note) == (q.candidates \/ note.status # "candidate") /\ (q.past \/ ~note.expires)

\* What makeMatch is given, in 1600ths: 0.9 and 0.02 for the one token hit, and
\* nothing for a note that is asked for by its identifier, as query never reads
\* the weight of that class.
Weight == [explicit_id |-> 0, exact_phrase |-> 1472]

\* What makeMatch adds for importance and confidence, both 0.5: 0.0375.
Base == 60
Match(id, class, given, seed) == [id |-> id, class |-> class, score |-> given + Base, seed |-> seed]
Rank == [explicit_id |-> 6, exact_phrase |-> 5, graph_only |-> 1]

\* compareMatches.
Better(a, b) ==
    \/ Rank[a.class] > Rank[b.class]
    \/ Rank[a.class] = Rank[b.class] /\ a.score > b.score
    \/ Rank[a.class] = Rank[b.class] /\ a.score = b.score /\ a.id < b.id
    \/ Rank[a.class] = Rank[b.class] /\ a.score = b.score /\ a.id = b.id /\ a.seed < b.seed

Ranked(matches) == SetToSortSeq(matches, Better)
Limited(s, limit) == SubSeq(s, 1, IF Len(s) < limit THEN Len(s) ELSE limit)

\* The better of what is known of a note and what is new.
Offer(matches, match) ==
    LET known == {m \in matches : m.id = match.id}
    IN  IF \A m \in known : Better(match, m) THEN (matches \ known) \cup {match} ELSE matches

\* A note asked for by its identifier stays of that class whatever its text: the
\* class ranks higher, though the score is the lower one.
Direct(c, q) ==
    LET Class(note) == IF note.id \in q.explicit THEN "explicit_id" ELSE "exact_phrase"
    IN  {Match(note.id, Class(note), Weight[Class(note)], 0) :
            note \in {n \in ToSet(c.notes) : Passes(q, n) /\ (n.id \in q.explicit \/ n.content = q.text)}}

\* What a note within reach is given: half the score of the seed one step away,
\* a quarter two steps away.
Faded(seed, path) == seed.score \div (2 * Len(path))

\* What the walk around one seed adds.
FromSeed(c, q, direct, matches, seed) ==
    LET paths == RecallNeighbors(c, q, MemoryNode(seed.id))
        found == {n \in ToSet(c.notes) : /\ MemoryNode(n.id) \in DOMAIN paths
                                         /\ n.id \notin direct /\ Passes(q, n)
                                         /\ Len(paths[MemoryNode(n.id)]) =< q.depth}
        Offered(note) == Match(note.id, "graph_only", Faded(seed, paths[MemoryNode(note.id)]), seed.id)
    IN  FoldLeft(Offer, matches, SetToSeq({Offered(note) : note \in found}))

Recalled(c, q) ==
    LET direct == Direct(c, q)
        ids == {m.id : m \in direct}
        seeds == Limited(Ranked(direct), q.limit)
    IN  Limited(Ranked(FoldLeft(LAMBDA matches, seed : FromSeed(c, q, ids, matches, seed), direct, seeds)),
                q.limit)

-------------------------------------------------------------------------------
(* Properties *)

\* The shortest paths of at most q.depth edges from id to m.
Shortest(c, q, id, m) ==
    LET one == {<<e.id>> : e \in {x \in Candidates(c, q, id) : Neighbor(q, x, id) = m}}
        two == UNION {LET middle == Neighbor(q, e, id)
                      IN  {<<e.id, f.id>> : f \in {x \in Candidates(c, q, middle) : Neighbor(q, x, middle) = m}} :
                        e \in Candidates(c, q, id)}
    IN  CASE q.depth = 0 -> {}
          [] q.depth > 0 /\ one # {} -> one
          [] q.depth = 2 /\ one = {} -> two
          [] OTHER -> {}

Looped(c, q, id) == \E e \in Candidates(c, q, id) : Neighbor(q, e, id) = id

\* The walk finds as many nodes as the cap allows, the nearest ones, each on a
\* shortest path, and below the cap on the least of them.
WalkIsExact(c, q, id) ==
    LET shortest == [m \in Ids(c.nodes) \ {id} |-> Shortest(c, q, id, m)]
        within == {m \in DOMAIN shortest : shortest[m] # {}}
        found == RecallNeighbors(c, q, id)
        far == {m \in within : \A path \in shortest[m] : Len(path) = 2}
    IN  /\ DOMAIN found \subseteq within
        /\ Cardinality(DOMAIN found) = IF Cardinality(within) < q.maxNodes THEN Cardinality(within) ELSE q.maxNodes
        /\ DOMAIN found \cap far # {} => within \ far \subseteq DOMAIN found
        /\ \A m \in DOMAIN found :
            /\ found[m] \in shortest[m]
            /\ Cardinality(within) < q.maxNodes => ~\E path \in shortest[m] : Precedes(path, found[m])

\* Every note that passes is recalled once: the direct matches, and whatever is
\* within reach of one of them, under the seed that gives it most: a phrase two
\* steps away gives more than an identifier one step away.
QueryIsExact(c, q) ==
    LET all == Recalled(c, [q EXCEPT !.limit = 50])
        direct == Direct(c, q)
        Offers(note) ==
            {<<Faded(seed, path), seed.id>> : <<seed, path>> \in
                UNION {{seed} \X Shortest(c, q, MemoryNode(seed.id), MemoryNode(note.id)) : seed \in direct}}
        hits == {note \in ToSet(c.notes) : Passes(q, note) /\ note.id \notin Ids(Ranked(direct)) /\ Offers(note) # {}}
        Best(note) == CHOOSE offer \in Offers(note) :
                        \A other \in Offers(note) : other[1] < offer[1] \/ (other[1] = offer[1] /\ other[2] >= offer[2])
    IN  /\ Recalled(c, q) = Limited(all, q.limit)
        /\ q.maxNodes > Len(c.nodes) =>
            ToSet(all) = direct \cup {Match(note.id, "graph_only", Best(note)[1], Best(note)[2]) : note \in hits}

\* Recall finds what the graph and the notes say it should, on every core that
\* is reached, for starting nodes without an edge to themselves.
RecallIsExact ==
    fresh.notes /\ fresh.diary =>
        \A q \in Recalls :
            LET seeds == {MemoryNode(seed.id) : seed \in Direct(core, q)}
            IN  /\ \A id \in seeds : ~Looped(core, q, id) => WalkIsExact(core, q, id)
                /\ (\A id \in seeds : ~Looped(core, q, id)) => QueryIsExact(core, q)
===============================================================================
