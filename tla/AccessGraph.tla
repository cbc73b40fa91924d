----------------------------- MODULE AccessGraph -----------------------------
(***************************************************************************)
(* The typed access graph a reader publishes (access/reader_model.py), and *)
(* what the catalogue's database asks of it (access/catalogue.py).         *)
(*                                                                         *)
(* reader_model.py accepts a graph when a reader is made and again when    *)
(* the catalogue loads it; the tables of the database have constraints of  *)
(* their own.  Labels, citations, facets and limits are left out.          *)
(*                                                                         *)
(*   graph          [id, status, rights, artifacts, items, relations]      *)
(*   artifact       [id, container]                                        *)
(*   item           [id, route, rights, representations]                   *)
(*   representation [id, route, artifacts, segments, index]                *)
(*   segment        [id, route]                                            *)
(*   relation       [source, target]                                       *)
(*                                                                         *)
(* where artifacts, items, ... are sequences, and rights says whether      *)
(* there are any.                                                          *)
(***************************************************************************)
EXTENDS Naturals, Sequences, Functions

CONSTANTS
  None,       \* no container, no segment index, no access graph
  Safe,       \* the routes _validate_route accepts
  Occurs      \* Occurs[r]: how often the page of r has the fragment of r

\* The objects of the functions fs[k], each at the place <<k, its place in fs[k]>>.
Joined(fs) == [q \in UNION {{k} \X DOMAIN fs[k] : k \in DOMAIN fs} |-> fs[q[1]][q[2]]]

Representations(g) == Joined([i \in DOMAIN g.items |-> g.items[i].representations])

Segments(g) ==
  LET reps == Representations(g) IN Joined([p \in DOMAIN reps |-> reps[p].segments])

IdsOf(objects)    == [p \in DOMAIN objects |-> objects[p].id]
RoutesOf(objects) == [p \in DOMAIN objects |-> objects[p].route]

\* Whatever has an identifier.
Objects(g) ==
  [collection |-> <<g>>, artifacts |-> g.artifacts, items |-> g.items,
   representations |-> Representations(g), segments |-> Segments(g)]

\* Every identifier that is registered.
Ids(g) == IdsOf(Joined(Objects(g)))

ArtifactIds(g) == Range(IdsOf(g.artifacts))

Endpoints(g) == Range(Ids(g)) \ ArtifactIds(g)

-----------------------------------------------------------------------------
(* _access_document *)

Container(g, id) ==
  IF id = None THEN None
  ELSE (CHOOSE a \in Range(g.artifacts) : a.id = id).container

\* The n-th container of an artifact.
Up(g, id) ==
  LET above[n \in 0..Len(g.artifacts)] == IF n = 0 THEN id
                                          ELSE Container(g, above[n - 1])
  IN above

\* The walk from an artifact up its containers meets none of them twice.
NoCycle(g, a) ==
  LET above == Up(g, a.id)
  IN \A m, n \in DOMAIN above : m < n /\ above[n] # None => above[m] # above[n]

ArtifactsAccepted(g) ==
  /\ \A a \in Range(g.artifacts) :
       a.container = None \/ a.container \in ArtifactIds(g) \ {a.id}
  /\ \A a \in Range(g.artifacts) : NoCycle(g, a)

RepresentationAccepted(g, rep) ==
  /\ rep.route \in Safe
  /\ Range(rep.artifacts) \subseteq ArtifactIds(g)
  /\ \/ rep.index = None
     \/ rep.index \in Safe /\ rep.segments = <<>>

\* A plausible slip: an identifier is registered for its own kind alone.
ItemsAcceptedByKind(g) ==
  /\ IsInjective(IdsOf(g.items)) /\ IsInjective(RoutesOf(g.items))
  /\ \A item \in Range(g.items) :
       /\ IsInjective(IdsOf(item.representations))
       /\ IsInjective(RoutesOf(item.representations))
  /\ \A rep \in Range(Representations(g)) : RepresentationAccepted(g, rep)

\* Every identifier is registered once, every route of a kind used once.
ItemsAccepted(g) ==
  /\ IsInjective(Ids(g))
  /\ Range(RoutesOf(g.items)) \union Range(RoutesOf(Segments(g))) \subseteq Safe
  /\ IsInjective(RoutesOf(g.items))
  /\ IsInjective(RoutesOf(Representations(g)))
  /\ IsInjective(RoutesOf(Segments(g)))
  /\ \A rep \in Range(Representations(g)) : RepresentationAccepted(g, rep)

RelationsAccepted(g) ==
  \A r \in Range(g.relations) : {r.source, r.target} \subseteq Endpoints(g)

Accepted(g) == ItemsAccepted(g) /\ ArtifactsAccepted(g) /\ RelationsAccepted(g)

-----------------------------------------------------------------------------
(* A reader on disk: [graph, canonical, files, status], where files maps a   *)
(* route to the records of a segment index, [representation, segment]        *)

\* validate_access_indexes.
Naming(g, route) ==
  {rep.id : rep \in {x \in Range(Representations(g)) : x.index = route}}

IndexRoutes(g) == {rep.index : rep \in Range(Representations(g))} \ {None}

\* The segments of the indexes.
External(reader) ==
  LET records == Joined([route \in IndexRoutes(reader.graph) |-> reader.files[route]])
  IN [p \in DOMAIN records |-> records[p].segment]

IndexesAccepted(reader) ==
  LET g == reader.graph IN
  /\ IndexRoutes(g) \subseteq DOMAIN reader.files
  /\ \A route \in IndexRoutes(g) :
       \A record \in Range(reader.files[route]) :
          /\ record.representation \in Naming(g, route)
          /\ record.segment.route \in Safe
  /\ IsInjective(RoutesOf(Joined(<<Segments(g), External(reader)>>)))
  /\ IsInjective(Joined(<<Ids(g), IdsOf(External(reader))>>))

\* _load_reader_input: the reader has an access graph at all.
Typed(reader) == reader.graph # None

\* load_access_collection: the file is what the graph is written as.
Loads(reader) == reader.canonical /\ Accepted(reader.graph)

\* ... and the graph is valid, and is the one of this collection.
LoadsAs(reader, id) ==
  /\ Loads(reader)
  /\ IndexesAccepted(reader)
  /\ reader.graph.id = id
  /\ reader.graph.status = reader.status

-----------------------------------------------------------------------------
(* _build_database, of the graphs graphs[n]                                *)

\* _extract_representation.
Extractable(graphs) ==
  \A g \in Range(graphs) : \A rep \in Range(Representations(g)) : Occurs[rep.route] = 1

\* Whatever the graphs have of a kind.
OfKind(graphs, kind) == Joined([n \in DOMAIN graphs |-> Objects(graphs[n])[kind]])

\* The tables that have the identifier as their key, or as a unique column.
Tables == {"collection", "artifacts", "items", "representations"}

\* Whatever has rights in the graphs.
Owners(graphs) ==
  LET all == Joined(<<OfKind(graphs, "collection"), OfKind(graphs, "items")>>)
  IN Restrict(all, {p \in DOMAIN all : all[p].rights})

\* The keys, the unique columns and the references of the tables.
Constraints(graphs) ==
  /\ \A kind \in Tables : IsInjective(IdsOf(OfKind(graphs, kind)))
  /\ IsInjective(IdsOf(Owners(graphs)))
  /\ \A rep \in Range(OfKind(graphs, "representations")) :
       /\ IsInjective(rep.artifacts)
       /\ Range(rep.artifacts) \subseteq Range(IdsOf(OfKind(graphs, "artifacts")))

Stores(graphs) == Constraints(graphs) /\ Extractable(graphs)

-----------------------------------------------------------------------------
(* None of the reasons for which the database may refuse accepted graphs   *)

\* The graphs have no identifier in common.
Apart(graphs) ==
  \A m, n \in DOMAIN graphs :
     m # n => Range(Ids(graphs[m])) \intersect Range(Ids(graphs[n])) = {}

\* No representation names an artifact twice.  (reader_model.py allows it, the
\* database does not.)
NamedOnce(graphs) ==
  \A g \in Range(graphs) : \A rep \in Range(Representations(g)) :
     IsInjective(rep.artifacts)

Faultless(graphs) == NamedOnce(graphs) /\ Extractable(graphs) /\ Apart(graphs)
=============================================================================
