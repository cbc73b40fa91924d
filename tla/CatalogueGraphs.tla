--------------------------- MODULE CatalogueGraphs ---------------------------
(***************************************************************************)
(* The catalogue of readers with access graphs: Catalogue, where what a    *)
(* reader is good for is what AccessGraph says of it.                      *)
(***************************************************************************)
EXTENDS Catalogue, AccessGraph

CONSTANTS
  Reader,   \* Reader[r]: what the reader r has on disk
  Drafts    \* graphs that may come to be stored together

\* The graphs of the readers rs.
GraphsOf(rs) == [r \in rs |-> Reader[r].graph]

\* _load_reader_input, _build_database.
ASSUME GraphsAssumption ==
  /\ Readable = {r \in Readers : Typed(Reader[r])}
  /\ Valid = {r \in Readable : LoadsAs(Reader[r], r[1])}
  /\ Storable = {Chosen(key) : key \in {k \in Keys : Stores(GraphsOf(Chosen(k)))}}

DraftsFit ==
  \A graphs \in Drafts :
    (\A n \in DOMAIN graphs : Accepted(graphs[n])) /\ Faultless(graphs) => Stores(graphs)

\* What reader_model.py accepts the database takes, as long as no
\* representation names an artifact twice, the collections have no identifier
\* in common and every representation is found in its page once; so a build
\* that has read valid readers fails for no other reason (_build_database).
DatabaseTakesAccepted ==
  /\ DraftsFit
  /\ \A p \in Builders :
       LET rs == Chosen(build[p].key)
       IN build[p].pc = "reading" /\ build[p].todo = {} =>
            rs \in Storable \/ ~ Faultless(GraphsOf(rs))
=============================================================================
