----------------------------- MODULE MCCatalogue -----------------------------
(***************************************************************************)
(* Instances of CatalogueGraphs for TLC.                                   *)
(***************************************************************************)
EXTENDS CatalogueGraphs

CONSTANTS c1, c2, a, b, d, i, j, x, y, z,   \* identifiers
          q1, q2, r1, r2, bare, up          \* routes

MCSafe   == {q1, q2, r1, r2, bare}
MCOccurs == [r \in {q1, q2, r1, r2, bare, up} |-> IF r = bare THEN 0 ELSE 1]

Artifact(id, container) == [id |-> id, container |-> container]
Rep(id, route, artifacts) ==
  [id |-> id, route |-> route, artifacts |-> artifacts, segments |-> <<>>,
   index |-> None]
Item(id, route, reps) ==
  [id |-> id, route |-> route, rights |-> TRUE, representations |-> reps]
Graph(id, artifacts, items) ==
  [id |-> id, status |-> "complete", rights |-> TRUE, artifacts |-> artifacts, items |-> items,
   relations |-> <<[source |-> id, target |-> id]>>]

\* Good graphs of one item with one representation.
Plain(id, artifact, item, rep) ==
  Graph(id, <<Artifact(artifact, None)>>,
        <<Item(item, q1, <<Rep(rep, r1, <<artifact>>)>>)>>)

\* A representation that names its artifact twice.
Twice == Graph(c1, <<Artifact(a, None)>>, <<Item(i, q1, <<Rep(x, r1, <<a, a>>)>>)>>)

\* A representation with a segment index.
Indexed == Graph(c1, <<Artifact(a, None)>>,
                 <<Item(i, q1, <<[Rep(x, r1, <<a>>) EXCEPT !.index = q2]>>)>>)

OnDisk(graph) ==
  [graph |-> graph, canonical |-> TRUE, status |-> "complete",
   files |-> [r \in {q2} |->
                <<[representation |-> x, segment |-> [id |-> z, route |-> r2]]>>]]

\* Of the first collection two good readers, and one the database refuses; of
\* the second one whose artifacts contain each other, a good one, and one with
\* an identifier of the first.
ReaderOf(c, n) ==
  CASE c = c1 /\ n = 1 -> OnDisk(Plain(c1, a, i, x))
    [] c = c1 /\ n = 2 -> OnDisk(Indexed)
    [] c = c1 /\ n = 3 -> OnDisk(Twice)
    [] c = c2 /\ n = 1 -> OnDisk(Graph(c2, <<Artifact(b, d), Artifact(d, b)>>, <<>>))
    [] c = c2 /\ n = 2 -> OnDisk(Plain(c2, b, j, y))
    [] OTHER           -> OnDisk(Plain(c2, b, i, y))

\* (TLC enumerates an image once, and tests members of a subset anew each time.)
Names(readers) == {<<r[1], r[2]>> : r \in readers}

OnShelves      == [r \in Readers |-> ReaderOf(r[1], r[2])]
TypedReaders   == Names({r \in Readers : Typed(OnShelves[r])})
LoadedReaders  == Names({r \in TypedReaders : LoadsAs(OnShelves[r], r[1])})
StoredTogether ==
  {Chosen(key) : key \in {k \in Keys : Stores([r \in Chosen(k) |-> OnShelves[r].graph])}}

MCReader   == OnShelves
MCReadable == TypedReaders
MCValid    == LoadedReaders
MCStorable == StoredTogether

-----------------------------------------------------------------------------
(* Graphs of two items, and another graph they are stored with             *)

OneItems == {Item(id, route, reps) : id \in {i, j}, route \in {q1, q2},
               reps \in {<<>>} \union
                        {<<Rep(n, r, arts)>> : n \in {i, x, y}, r \in {r1, r2, bare},
                                               arts \in {<<>>, <<a>>, <<a, a>>, <<z>>}}}

Graphs == {Graph(c1, <<Artifact(a, None)>>, items) :
             items \in {<<>>} \union {<<m>> : m \in OneItems}
                       \union {<<m, n>> : m, n \in OneItems}}

Others == {Plain(c2, b, d, z), Plain(c2, b, i, z), Plain(c2, a, d, z)}

MCDrafts == {<<g, h>> : g \in Graphs, h \in Others}
=============================================================================
