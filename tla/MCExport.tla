------------------------------ MODULE MCExport ------------------------------
(* Instances of Export for TLC. *)
EXTENDS Export, TLC

CONSTANTS manifest, meta, log, note, warc, extra, s

\* Exports are interchangeable.
ExporterSymmetry == Permutations(Exporters)

MCFiles  == {manifest, meta, log, note, warc, extra}
MCSealed == {meta, log, note, warc}
MCWalk   == <<manifest, meta, log, note, warc, extra>>

At(source, part, ext) ==
  [source |-> source, part |-> part, nested |-> FALSE, ext |-> ext,
   named |-> FALSE, hidden |-> part \in {"logs", "private"}]

MCPath ==
  [f \in MCFiles |->
     CASE f = note  -> [At(NoSource, "logs", "other") EXCEPT !.named = TRUE]
       [] f = warc  -> At(s, "warc", "warc")
       [] f = log   -> At(s, "logs", "other")
       [] f = extra -> At(s, "mirror", "other")
       [] OTHER     -> At(NoSource, "metadata", "other")]

MCSourceKind == [x \in {s} |-> "web"]
MCBaseName   == [f \in MCFiles |-> f]

\* A request and its answer.
MCWarc == [f \in MCFiles |-> [gz |-> TRUE, members |-> <<<<NoPage>>, <<"a">>>>]]

-----------------------------------------------------------------------------
(* Every WARC of at most two members of at most two records.               *)

Upto(S) == {<<>>} \union {<<x>> : x \in S} \union {<<x, y>> : x, y \in S}

Members2 == Upto({NoPage, "a"}) \union {<<"a", "b">>}

SmallWarcs == {[gz |-> TRUE, members |-> ms] : ms \in Upto(Members2)}
              \union {[gz |-> FALSE, members |-> <<m>>] : m \in Members2}

SmallArchives == {[f \in {"x"} |-> w] : w \in SmallWarcs}
                 \union {[f \in {"x", "y"} |-> IF f = "x" THEN v ELSE w] :
                           v, w \in SmallWarcs}

\* An index that is made has a line for every page, whose range is the page's
\* and no other's; and one is made whenever that is possible.
EveryIndexExact ==
  \A warcs \in SmallArchives :
    Indexable(warcs) <=> Pages(warcs) # {} /\ Apart(warcs)

\* The index of a package that is published is such an index: it finds every
\* page of the archive by a range of its own (_parse_warc_data, _indexed_record).
IndexIsExact ==
  /\ EveryIndexExact
  /\ Published /\ dest.kind = "wacz" =>
       LET warcs == Warcs(DOMAIN dest.holds.members.archive)
       IN /\ dest.holds.members.index = {Line(warcs, p) : p \in Pages(warcs)}
          /\ Apart(warcs)
=============================================================================
