-------------------------------- MODULE Wacz --------------------------------
(***************************************************************************)
(* A WACZ package, its index and its validation (access/wacz.py).          *)
(*                                                                         *)
(* A WARC is [gz, members]: the members of a .warc.gz, each a sequence of  *)
(* records; a plain WARC is one member.  A record is the URL and time it   *)
(* answers for, or NoPage (a request, a warcinfo, a dns record).  What is  *)
(* not such a sequence of records is no WARC at all and makes the export   *)
(* fail; that is left out.                                                 *)
(***************************************************************************)
EXTENDS Naturals, FiniteSets, Sequences

CONSTANT NoPage

-----------------------------------------------------------------------------
(* The index                                                               *)

\* The byte range at which the n-th record of the m-th member is recorded:
\* _warc_records and _parse_warc_data know a member of a .warc.gz, and a record
\* of a plain WARC.
Span(warc, m, n) == IF warc.gz THEN m ELSE n

\* The records of a range.
RecordsAt(warc, at) ==
  IF warc.gz THEN warc.members[at] ELSE <<warc.members[1][at]>>

\* Those that _parse_warc_data does not skip.
PagesAmong(records) == {n \in DOMAIN records : records[n] # NoPage}

\* All the pages of the WARCs warcs, a function of archive names.
Places(warcs) ==
  UNION {UNION {{<<f, m, n>> : n \in DOMAIN warcs[f].members[m]} :
                  m \in DOMAIN warcs[f].members} : f \in DOMAIN warcs}

Pages(warcs) == {p \in Places(warcs) : warcs[p[1]].members[p[2]][p[3]] # NoPage}

\* The line of the index for a page.
Line(warcs, p) == [file |-> p[1], at |-> Span(warcs[p[1]], p[2], p[3]),
                   page |-> warcs[p[1]].members[p[2]][p[3]]]

Index(warcs) == {Line(warcs, p) : p \in Pages(warcs)}

\* A plausible slip: one of the pages of the range is taken.
ResolvesSome(line, warcs) ==
  LET records == RecordsAt(warcs[line.file], line.at)
  IN \E n \in PagesAmong(records) : records[n] = line.page

\* _indexed_record: the range has one page, and it is this line's.
Resolves(line, warcs) ==
  LET records == RecordsAt(warcs[line.file], line.at)
  IN \E n \in DOMAIN records :
       PagesAmong(records) = {n} /\ records[n] = line.page

\* An index is made of these WARCs and stands its own validation.
Indexable(warcs) ==
  /\ Pages(warcs) # {}
  /\ \A line \in Index(warcs) : Resolves(line, warcs)

\* A plain WARC is one member.
IsWarc(warc) == warc.gz \/ DOMAIN warc.members = {1}

\* The range of a page is no other page's.
RangeOf(warcs, p) == <<p[1], Span(warcs[p[1]], p[2], p[3])>>

Apart(warcs) ==
  \A p, q \in Pages(warcs) : RangeOf(warcs, p) = RangeOf(warcs, q) => p = q

-----------------------------------------------------------------------------
(* The package: what the members hold; resources is what datapackage.json   *)
(* lists, seal what datapackage-digest.json vouches for                     *)

Members(archive, index) ==
  [archive |-> archive, index |-> index, pages |-> "written"]

\* create_wacz.
Package(archive, index) ==
  LET members == Members(archive, index)
  IN [members |-> members, resources |-> members, seal |-> members]

\* _validate_cdx.
IndexValid(members, warcs) ==
  \A line \in members.index :
    line.file \in DOMAIN members.archive /\ Resolves(line, warcs)

\* validate_wacz; the WARCs of the archive are those of the contents.
WaczValid(package, warcs) ==
  /\ package.seal = package.resources
  /\ package.resources = package.members
  /\ DOMAIN package.members.archive # {}
  /\ package.members.pages = "written"
  /\ IndexValid(package.members, warcs)

\* External: packages in which one member differs.
WaczFaults(package, archives) ==
  LET Forged == {[package.members EXCEPT !.archive = x] : x \in archives}
                \union {[package.members EXCEPT !.index = @ \ {x}] :
                          x \in package.members.index}
                \union {[package.members EXCEPT !.pages = "tampered"]}
  IN {[package EXCEPT !.members = x] : x \in Forged}
     \union {[package EXCEPT !.resources = x] : x \in Forged}
     \union {[package EXCEPT !.seal = x] : x \in Forged}
=============================================================================
