----------------------------- MODULE ExportProofs -----------------------------
(***************************************************************************)
(* Proofs about Export: what is published is the capture, shows every      *)
(* change, and is never replaced; for any capture, any number of exports   *)
(* and any number of edits.                                                *)
(***************************************************************************)
EXTENDS MCExport, TLAPS, FiniteSetTheorems

-----------------------------------------------------------------------------
(* Faults *)

LEMMA AlteredDiffers ==
  ASSUME NEW f, NEW g \in Altered(f),
         Stray \notin DOMAIN f, \A x \in DOMAIN f : f[x] # Tampered
  PROVE  g # f
<1>1. CASE \E x \in DOMAIN f \union {Stray} : g = With(f, x, Tampered)
  <2>1. PICK x \in DOMAIN f \union {Stray} : g = With(f, x, Tampered)
    BY <1>1
  <2>2. x \in DOMAIN g /\ g[x] = Tampered
    BY <2>1 DEF With
  <2> QED  BY <2>1, <2>2
<1>2. CASE \E x \in DOMAIN f : g = Without(f, x)
  <2>1. PICK x \in DOMAIN f : g = Without(f, x)
    BY <1>2
  <2>2. x \notin DOMAIN g
    BY <2>1 DEF Without, Restrict
  <2> QED  BY <2>1, <2>2
<1> QED  BY <1>1, <1>2 DEF Altered

\* A bag of which one file is another is no valid bag.
THEOREM BagFaultsShow ==
  ASSUME NEW data, NEW bag \in BagFaults(Bag(data)),
         Stray \notin DOMAIN data, \A f \in DOMAIN data : data[f] # Tampered
  PROVE  ~ BagValid(bag)
<1> DEFINE made == Bag(data)
<1>1. /\ made.data = data /\ made.plain = [t \in Plain |-> "written"]
      /\ made.payload = [a \in Algorithms |-> data]
      /\ made.tag = [a \in Algorithms |->
                       [plain |-> made.plain, payload |-> made.payload]]
      /\ DOMAIN made = {"data", "plain", "payload", "tag"}
  BY DEF Bag
<1>2. \A m \in Altered(data) : m # data
  BY AlteredDiffers
<1> HIDE DEF made
<1>3. ASSUME NEW m \in Entries(made.plain)
      PROVE  \/ DOMAIN m # Plain
             \/ \E t \in Plain : m[t] # "written"
  <2>1. CASE \E x \in Plain : m = With(made.plain, x, Tampered)
    BY <1>1, <2>1, ContentsAssumption DEF With
  <2>2. CASE \E x \in Plain : m = Without(made.plain, x)
    BY <1>1, <2>2 DEF Without, Restrict
  <2> QED  BY <1>1, <2>1, <2>2 DEF Entries
<1>4. CASE \E d \in Altered(data) : bag = [made EXCEPT !.data = d]
  <2>1. PICK d \in Altered(data) : bag = [made EXCEPT !.data = d]
    BY <1>4
  <2>2. bag.data = d /\ bag.payload = made.payload
    BY <1>1, <2>1
  <2>3. "sha256" \in DOMAIN bag.payload /\ ~ Lists(bag.payload["sha256"], bag.data)
    BY <1>1, <1>2, <2>2 DEF Lists, Algorithms
  <2> QED  BY <2>3 DEF BagValid
<1>5. CASE \E p \in Entries(made.plain) : bag = [made EXCEPT !.plain = p]
  <2>1. PICK p \in Entries(made.plain) : bag = [made EXCEPT !.plain = p]
    BY <1>5
  <2>2. bag.plain = p /\ bag.tag = made.tag
    BY <1>1, <2>1
  <2>3. "sha256" \in DOMAIN bag.tag /\ bag.tag["sha256"].plain = made.plain
    BY <1>1, <2>2 DEF Algorithms
  <2>4. ~ Holds(bag.tag["sha256"].plain, bag.plain)
    <3>1. \/ \E t \in Plain : t \notin DOMAIN p
          \/ \E t \in DOMAIN p : t \notin Plain
          \/ \E t \in Plain : p[t] # "written"
      BY <1>3
    <3>2. DOMAIN made.plain = Plain
      BY <1>1
    <3>3. DOMAIN p \subseteq Plain
      BY <2>1, <3>2 DEF Entries, With, Without, Restrict
    <3> QED  BY <1>1, <2>2, <2>3, <3>1, <3>2, <3>3 DEF Holds
  <2> QED  BY <2>3, <2>4 DEF BagValid
<1>6. CASE \E a \in Algorithms : bag = [made EXCEPT !.payload = Without(@, a)]
  <2>1. PICK a \in Algorithms : bag = [made EXCEPT !.payload = Without(@, a)]
    BY <1>6
  <2>2. bag.payload = Without(made.payload, a) /\ bag.tag = made.tag
    BY <1>1, <2>1
  <2>3. a \notin DOMAIN bag.payload
    BY <2>2 DEF Without, Restrict
  <2>4. a \in DOMAIN bag.tag /\ bag.tag[a].payload = made.payload /\ a \in DOMAIN made.payload
    BY <1>1, <2>2
  <2> QED  BY <2>3, <2>4 DEF BagValid, Holds
<1>7. CASE \E a \in Algorithms, m \in Altered(data) : bag = [made EXCEPT !.payload[a] = m]
  <2>1. PICK a \in Algorithms, m \in Altered(data) : bag = [made EXCEPT !.payload[a] = m]
    BY <1>7
  <2>2. bag.payload = [made.payload EXCEPT ![a] = m] /\ bag.data = data
    BY <1>1, <2>1
  <2>3. a \in DOMAIN bag.payload /\ ~ Lists(bag.payload[a], bag.data)
    BY <1>1, <1>2, <2>2 DEF Lists
  <2> QED  BY <2>3 DEF BagValid
<1>8. CASE \E a \in Algorithms, m \in Entries(made.plain) :
             bag = [made EXCEPT !.tag[a].plain = m]
  <2>1. PICK a \in Algorithms, m \in Entries(made.plain) :
               bag = [made EXCEPT !.tag[a].plain = m]
    BY <1>8
  <2>2. /\ bag.tag = [made.tag EXCEPT ![a] = [made.tag[a] EXCEPT !.plain = m]]
        /\ bag.plain = made.plain
    BY <1>1, <2>1
  <2>3. DOMAIN bag.tag = Algorithms /\ bag.tag[a].plain = m
    BY <1>1, <2>2
  <2>4. CASE DOMAIN m # Plain
    <3>1. PICK b \in Algorithms : b # a
      BY DEF Algorithms
    <3>2. bag.tag[b].plain = made.plain
      BY <1>1, <2>2, <3>1
    <3> QED  BY <1>1, <2>3, <2>4, <3>1, <3>2 DEF BagValid
  <2>5. CASE DOMAIN m = Plain /\ \E t \in Plain : m[t] # "written"
    <3>1. ~ Holds(m, bag.plain)
      BY <1>1, <2>2, <2>5 DEF Holds
    <3> QED  BY <2>3, <3>1 DEF BagValid
  <2> QED  BY <1>3, <2>4, <2>5
<1>9. CASE \E a, b \in Algorithms : bag = [made EXCEPT !.tag[a].payload = Without(@, b)]
  <2>1. PICK a \in Algorithms, b \in Algorithms :
               bag = [made EXCEPT !.tag[a].payload = Without(@, b)]
    BY <1>9
  <2>2. /\ bag.tag = [made.tag EXCEPT ![a] =
                        [made.tag[a] EXCEPT !.payload = Without(made.tag[a].payload, b)]]
        /\ bag.payload = made.payload
        /\ made.tag[a].payload = made.payload
    BY <1>1, <2>1
  <2>3. a \in DOMAIN bag.tag /\ bag.tag[a].payload = Without(made.payload, b)
    <3>1. bag.tag[a] = [made.tag[a] EXCEPT !.payload = Without(made.payload, b)]
      BY <1>1, <2>2
    <3>2. made.tag[a] = [plain |-> made.plain, payload |-> made.payload]
      BY <1>1
    <3> QED  BY <1>1, <2>2, <3>1, <3>2
  <2>4. b \in DOMAIN bag.payload /\ b \notin DOMAIN bag.tag[a].payload
    BY <1>1, <2>2, <2>3 DEF Without, Restrict
  <2> QED  BY <2>3, <2>4 DEF BagValid
<1> QED
  <2>1. /\ bag \in BagFaults(made) /\ made.data = data
    BY <1>1 DEF made
  <2> QED  BY <2>1, <1>4, <1>5, <1>6, <1>7, <1>8, <1>9 DEF BagFaults

\* A package of which one member is another is no valid package, whatever the
\* records of its WARCs are.
THEOREM WaczFaultsShow ==
  ASSUME NEW archive, NEW index, NEW warcs,
         NEW package \in WaczFaults(Package(archive, index), Altered(archive)),
         Stray \notin DOMAIN archive, \A f \in DOMAIN archive : archive[f] # Tampered
  PROVE  ~ WaczValid(package, warcs)
<1> DEFINE members == Members(archive, index)
           made == Package(archive, index)
           Forged == {[made.members EXCEPT !.archive = x] : x \in Altered(archive)}
                     \union {[made.members EXCEPT !.index = @ \ {x}] :
                               x \in made.members.index}
                     \union {[made.members EXCEPT !.pages = "tampered"]}
<1>1. made = [members |-> members, resources |-> members, seal |-> members]
  BY DEF Package
<1>2. ASSUME NEW x \in Forged
      PROVE  x # members
  <2>1. \A y \in Altered(archive) : y # archive
    BY AlteredDiffers
  <2>2. /\ members.archive = archive /\ members.index = index
        /\ members.pages = "written" /\ DOMAIN members = {"archive", "index", "pages"}
    BY DEF Members
  <2> HIDE DEF members
  <2>3. CASE \E y \in Altered(archive) : x = [members EXCEPT !.archive = y]
    BY <2>1, <2>2, <2>3
  <2>4. CASE \E y \in members.index : x = [members EXCEPT !.index = members.index \ {y}]
    BY <2>2, <2>4
  <2>5. CASE x = [members EXCEPT !.pages = "tampered"]
    BY <2>2, <2>5
  <2> QED  BY <1>1, <2>3, <2>4, <2>5
<1>3. PICK x \in Forged : \/ package = [made EXCEPT !.members = x]
                          \/ package = [made EXCEPT !.resources = x]
                          \/ package = [made EXCEPT !.seal = x]
  BY DEF WaczFaults
<1>4. x # members
  BY <1>2, <1>3
<1> HIDE DEF members, Forged, made
<1> QED  BY <1>1, <1>3, <1>4 DEF WaczValid

-----------------------------------------------------------------------------
(* The index of a WACZ *)

LEMMA PagesAre ==
  ASSUME NEW warcs
  PROVE  \A p : p \in Pages(warcs) <=>
           \E f \in DOMAIN warcs : \E m \in DOMAIN warcs[f].members :
             \E n \in DOMAIN warcs[f].members[m] :
               p = <<f, m, n>> /\ warcs[f].members[m][n] # NoPage
<1>1. \A p : p \in Places(warcs) <=>
        \E f \in DOMAIN warcs : \E m \in DOMAIN warcs[f].members :
          \E n \in DOMAIN warcs[f].members[m] : p = <<f, m, n>>
  BY DEF Places
<1> QED  BY <1>1 DEF Pages

\* Every line finds its page by its range just when no two pages share one.
LEMMA ResolvesWhenApart ==
  ASSUME NEW warcs, \A f \in DOMAIN warcs : IsWarc(warcs[f])
  PROVE  (\A line \in Index(warcs) : Resolves(line, warcs)) <=> Apart(warcs)
<1>1. ASSUME \A line \in Index(warcs) : Resolves(line, warcs),
             NEW p \in Pages(warcs), NEW q \in Pages(warcs),
             RangeOf(warcs, p) = RangeOf(warcs, q)
      PROVE  p = q
  <2>1. PICK f, m, n :
          /\ f \in DOMAIN warcs /\ m \in DOMAIN warcs[f].members
          /\ n \in DOMAIN warcs[f].members[m]
          /\ p = <<f, m, n>> /\ warcs[f].members[m][n] # NoPage
    BY PagesAre
  <2>2. PICK g, k, l :
          /\ g \in DOMAIN warcs /\ k \in DOMAIN warcs[g].members
          /\ l \in DOMAIN warcs[g].members[k]
          /\ q = <<g, k, l>> /\ warcs[g].members[k][l] # NoPage
    BY PagesAre
  <2>3. f = g /\ Span(warcs[f], m, n) = Span(warcs[f], k, l)
    BY <1>1, <2>1, <2>2 DEF RangeOf
  <2>4. CASE warcs[f].gz
    <3>1. m = k
      BY <2>3, <2>4 DEF Span
    <3>2. Resolves(Line(warcs, p), warcs)
      BY <1>1 DEF Index
    <3>3. Line(warcs, p).file = f /\ Line(warcs, p).at = m
      BY <2>1, <2>4 DEF Line, Span
    <3>4. PICK r : PagesAmong(warcs[f].members[m]) = {r}
      BY <2>4, <3>2, <3>3 DEF Resolves, RecordsAt
    <3>5. n = r /\ l = r
      BY <2>1, <2>2, <2>3, <3>1, <3>4 DEF PagesAmong
    <3> QED  BY <2>1, <2>2, <2>3, <3>1, <3>5
  <2>5. CASE ~ warcs[f].gz
    <3>1. n = l /\ m = 1 /\ k = 1
      BY <2>1, <2>2, <2>3, <2>5 DEF Span, IsWarc
    <3> QED  BY <2>1, <2>2, <2>3, <3>1
  <2> QED  BY <2>4, <2>5
<1>2. ASSUME Apart(warcs), NEW line \in Index(warcs)
      PROVE  Resolves(line, warcs)
  <2>1. PICK p \in Pages(warcs) : line = Line(warcs, p)
    BY DEF Index
  <2>2. PICK f, m, n :
          /\ f \in DOMAIN warcs /\ m \in DOMAIN warcs[f].members
          /\ n \in DOMAIN warcs[f].members[m]
          /\ p = <<f, m, n>> /\ warcs[f].members[m][n] # NoPage
    BY PagesAre
  <2>3. /\ line.file = f /\ line.at = Span(warcs[f], m, n)
        /\ line.page = warcs[f].members[m][n]
    BY <2>1, <2>2 DEF Line
  <2>4. CASE warcs[f].gz
    <3> DEFINE records == warcs[f].members[m]
    <3>1. RecordsAt(warcs[line.file], line.at) = records
      BY <2>3, <2>4 DEF RecordsAt, Span
    <3>2. ASSUME NEW k \in PagesAmong(records)
          PROVE  k = n
      <4>1. k \in DOMAIN records /\ records[k] # NoPage
        BY <3>2 DEF PagesAmong
      <4>2. <<f, m, k>> \in Pages(warcs)
        BY <2>2, <4>1, PagesAre
      <4>3. RangeOf(warcs, <<f, m, k>>) = RangeOf(warcs, p)
        BY <2>2, <2>4 DEF RangeOf, Span
      <4>4. <<f, m, k>> = p
        BY <1>2, <4>2, <4>3 DEF Apart
      <4> QED  BY <2>2, <4>4
    <3>3. n \in PagesAmong(records)
      BY <2>2 DEF PagesAmong
    <3> QED  BY <2>2, <2>3, <3>1, <3>2, <3>3 DEF Resolves
  <2>5. CASE ~ warcs[f].gz
    <3> DEFINE records == <<warcs[f].members[1][n]>>
    <3>1. m = 1
      BY <2>2, <2>5 DEF IsWarc
    <3>2. RecordsAt(warcs[line.file], line.at) = records
      BY <2>3, <2>5 DEF RecordsAt, Span
    <3>3. DOMAIN records = {1} /\ records[1] = line.page /\ records[1] # NoPage
      BY <2>2, <2>3, <3>1
    <3> HIDE DEF records
    <3>4. PagesAmong(records) = {1}
      BY <3>3 DEF PagesAmong
    <3> QED  BY <3>2, <3>3, <3>4 DEF Resolves
  <2> QED  BY <2>4, <2>5
<1> QED  BY <1>1, <1>2 DEF Apart

\* For any WARCs with any records: an index is made just when there is a page,
\* and no two of them share a range.
THEOREM IndexedWhenApart ==
  ASSUME NEW warcs, \A f \in DOMAIN warcs : IsWarc(warcs[f])
  PROVE  Indexable(warcs) <=> Pages(warcs) # {} /\ Apart(warcs)
BY ResolvesWhenApart DEF Indexable

-----------------------------------------------------------------------------
(* The invariant *)

Pcs == {"idle", "verify", "label", "assert", "copy", "confirm", "publish",
        "sync", "ended"}

RoleMaps == UNION {[files -> Roles] : files \in SUBSET Files}
Copies   == UNION {[files -> Nat] : files \in SUBSET Listed}

Exports == [pc : Pcs, kind : {"bag", "wacz"}, profile : Profiles, n : Nat \ {0},
            role : RoleMaps, label : Nat, got : Copies]

TypeOK ==
  /\ declared \in BOOLEAN /\ altered \in BOOLEAN /\ edits \in Nat
  /\ disk \in [Files -> Nat \union {Gone}]
  /\ export \in [Exporters -> Exports]

\* The file f is not as the capture was finalized with it.
Astray(f) == disk[f] # (IF f \in Listed THEN 0 ELSE Gone)

\* It takes an edit for a file to be astray, and two for two.
AstrayInv ==
  \A f, g \in Files : Astray(f) /\ Astray(g) =>
    edits >= (IF f = g THEN 1 ELSE 2)

\* The roles cover what the manifest lists, unless enough was altered.
CoveredBy(x) ==
  x.pc \in {"label", "assert", "copy", "confirm", "publish"} =>
    (edits < Enough => Listed \subseteq DOMAIN x.role)

\* While copies are made, every chosen file that was walked past has one; when
\* they are made, every chosen file; each is what the manifest lists.
CopiedSoFar(e) ==
  LET x == export[e] IN
  /\ x.pc \notin {"copy", "confirm", "publish"} => x.got = NoFiles
  /\ x.pc \in {"copy", "confirm", "publish"} =>
       /\ Permitted(e)
       /\ DOMAIN x.got \subseteq Chosen(e)
       /\ \A f \in DOMAIN x.got : x.got[f] = Digest(e, f)
       /\ \A m \in DOMAIN Walk :
            Walk[m] \in Chosen(e) /\ (x.pc = "copy" => m < x.n) =>
              Walk[m] \in DOMAIN x.got

Stands(e) == export[e].pc \in {"confirm", "publish"} => Valid(Product(e))

Sound(e) == CoveredBy(export[e]) /\ CopiedSoFar(e) /\ Stands(e)

ExportInv == \A e \in Exporters : Sound(e)

\* What is published, and not tampered with, was made by Make.
Made ==
  /\ dest = [kind |-> dest.kind, profile |-> dest.profile, label |-> dest.label,
             role |-> dest.role, holds |-> dest.holds]
  /\ dest.kind \in {"bag", "wacz"}
  /\ Payload \in Copies
  /\ dest.kind = "bag" => dest.holds = Bag(Payload)
  /\ dest.kind = "wacz" =>
       dest.holds = Package(Payload, Index(Warcs(DOMAIN Payload)))

DestInv == Published => Made

Inv == /\ TypeOK /\ AstrayInv /\ ExportInv /\ DestInv
       /\ ExportIsTheCapture /\ TamperingShows

-----------------------------------------------------------------------------
(* One export *)

LEMMA WalkFacts ==
  /\ Cardinality(Files) \in Nat /\ DOMAIN Walk = 1..Cardinality(Files)
  /\ \A m \in DOMAIN Walk : Walk[m] \in Files
BY FilesAssumption, FS_CardinalityType

LEMMA ExportFields ==
  ASSUME TypeOK, NEW e \in Exporters
  PROVE  /\ export[e] \in Exports
         /\ export[e].pc \in Pcs /\ export[e].kind \in {"bag", "wacz"}
         /\ export[e].profile \in Profiles /\ export[e].n \in Nat \ {0}
         /\ export[e].role \in RoleMaps /\ export[e].label \in Nat
         /\ export[e].got \in Copies
         /\ export[e] = [pc |-> export[e].pc, kind |-> export[e].kind,
                         profile |-> export[e].profile, n |-> export[e].n,
                         role |-> export[e].role, label |-> export[e].label,
                         got |-> export[e].got]
BY DEF TypeOK, Exports

LEMMA PcsHas ==
  /\ "label" \in Pcs /\ "assert" \in Pcs /\ "copy" \in Pcs /\ "confirm" \in Pcs
  /\ "verify" \in Pcs /\ "publish" \in Pcs /\ "sync" \in Pcs /\ "ended" \in Pcs
BY DEF Pcs

LEMMA IdleFields ==
  /\ NoFiles \in RoleMaps /\ NoFiles \in Copies
  /\ Idle \in Exports
  /\ Idle.got = NoFiles
<1>1. NoFiles \in [{} -> Roles] /\ NoFiles \in [{} -> Nat]
  BY DEF NoFiles
<1>2. NoFiles \in RoleMaps /\ NoFiles \in Copies
  BY <1>1 DEF RoleMaps, Copies
<1> QED  BY <1>2 DEF Idle, Exports, Pcs, Profiles

LEMMA SetStep ==
  ASSUME TypeOK, NEW e \in Exporters, NEW x, Set(e, x)
  PROVE  /\ export'[e] = x
         /\ \A d \in Exporters \ {e} : export'[d] = export[d]
         /\ x \in Exports => export' \in [Exporters -> Exports]
         /\ declared' = declared /\ disk' = disk /\ edits' = edits
BY DEF Set, TypeOK

\* What an export chooses, and what it makes of its copies, does not hang on
\* where it is.
LEMMA SameChoice ==
  ASSUME NEW e,
         export'[e].kind = export[e].kind, export'[e].profile = export[e].profile,
         export'[e].role = export[e].role, export'[e].label = export[e].label
  PROVE  /\ Chosen(e)' = Chosen(e)
         /\ Permitted(e)' <=> Permitted(e)
         /\ \A f : Digest(e, f)' = Digest(e, f)
         /\ export'[e].got = export[e].got => Product(e)' = Product(e)
<1>1. Chosen(e)' = Chosen(e)
  BY DEF Chosen
<1>2. Permitted(e)' <=> Permitted(e)
  BY <1>1 DEF Permitted
<1>3. \A f : Digest(e, f)' = Digest(e, f)
  BY DEF Digest
<1>4. export'[e].got = export[e].got => Product(e)' = Product(e)
  BY DEF Product
<1> QED  BY <1>1, <1>2, <1>3, <1>4

\* An export that does not step stays sound.
LEMMA Standing ==
  ASSUME NEW e, Sound(e), export'[e] = export[e],
         declared' = declared, edits \in Nat, edits' \in Nat, edits' >= edits
  PROVE  Sound(e)'
<1>1. CoveredBy(export[e])'
  BY DEF Sound, CoveredBy, Enough
<1>2. CopiedSoFar(e)'
  BY SameChoice DEF Sound, CopiedSoFar
<1>3. Stands(e)'
  BY SameChoice DEF Sound, Stands
<1> QED  BY <1>1, <1>2, <1>3 DEF Sound

\* One that begins anew, or is over, is sound.
LEMMA Restarted ==
  ASSUME NEW e, export'[e].pc \in {"idle", "verify", "sync", "ended"},
         export'[e].got = NoFiles
  PROVE  Sound(e)'
BY DEF Sound, CoveredBy, CopiedSoFar, Stands

LEMMA RefuseStep ==
  ASSUME TypeOK, NEW e \in Exporters, Refuse(e)
  PROVE  export'[e] \in Exports /\ Sound(e)'
<1>1. export'[e] = [Idle EXCEPT !.pc = "ended"]
  BY SetStep DEF Refuse
<1> QED  BY <1>1, IdleFields, Restarted DEF Exports, Pcs

\* One whose place alone changes, and not while it copies.
LEMMA MovedOn ==
  ASSUME TypeOK, NEW e \in Exporters, Sound(e), NEW pc \in Pcs, NEW n \in Nat \ {0},
         Set(e, [export[e] EXCEPT !.pc = pc, !.n = n]),
         \/ pc = export[e].pc /\ pc # "copy"
         \/ export[e].pc = "confirm" /\ pc = "publish"
  PROVE  export'[e] \in Exports /\ Sound(e)'
<1>1. export'[e] = [export[e] EXCEPT !.pc = pc, !.n = n]
  BY SetStep
<1>2. /\ export'[e] \in Exports
      /\ export'[e].kind = export[e].kind /\ export'[e].profile = export[e].profile
      /\ export'[e].role = export[e].role /\ export'[e].label = export[e].label
      /\ export'[e].got = export[e].got /\ export'[e].pc = pc /\ export'[e].n = n
  BY <1>1, ExportFields DEF Exports
<1>3. declared' = declared /\ edits' = edits
  BY SetStep
<1>4. CoveredBy(export[e])'
  BY <1>2, <1>3 DEF Sound, CoveredBy, Enough
<1>5. CopiedSoFar(e)'
  BY <1>2, SameChoice DEF Sound, CopiedSoFar
<1>6. Stands(e)'
  BY <1>2, SameChoice DEF Sound, Stands
<1> QED  BY <1>2, <1>4, <1>5, <1>6 DEF Sound

LEMMA RolesTyped ==
  \A p : WrittenRole(p) \in Roles /\ InferredRole(p) \in Roles
BY DEF WrittenRole, InferredRole, MirrorRole, Roles

\* When roles are read, a listed file is left out only if it is gone, and
\* capture.json is not what it was if they are declared.
LEMMA ReadRolesStep ==
  ASSUME TypeOK, AstrayInv, NEW e \in Exporters, Sound(e), ReadRoles(e)
  PROVE  export'[e] \in Exports /\ Sound(e)'
<1> DEFINE Written == [f \in Listed |-> WrittenRole(Path[f])]
           Inferred == [f \in Present |-> InferredRole(Path[f])]
<1>1. export[e].pc = "verify" /\ export[e].got = NoFiles
  BY DEF ReadRoles, Verified, Sound, CopiedSoFar
<1>2. Meta \in Listed /\ Listed \subseteq Files /\ Present \subseteq Files
  BY FilesAssumption DEF Listed, Present
<1>3. PICK role :
        /\ Set(e, [export[e] EXCEPT !.pc = "label", !.role = role])
        /\ \/ declared /\ disk[Meta] = 0 /\ role = Written
           \/ declared /\ disk[Meta] # 0 /\ role \in Declarable(Present)
           \/ ~ declared /\ role = Inferred
  BY DEF ReadRoles
<1>4. role \in RoleMaps
  <2>1. Written \in [Listed -> Roles] /\ Inferred \in [Present -> Roles]
    BY RolesTyped
  <2> HIDE DEF Written, Inferred
  <2> QED  BY <1>2, <1>3, <2>1 DEF RoleMaps, Declarable
<1>5. edits < Enough => Listed \subseteq DOMAIN role
  <2> SUFFICES ASSUME edits < Enough, NEW f \in Listed, f \notin DOMAIN role
               PROVE  FALSE
    OBVIOUS
  <2>1. DOMAIN role = Present /\ (declared => disk[Meta] # 0)
    BY <1>3 DEF Declarable
  <2>2. disk[f] = Gone /\ Astray(f)
    BY <1>2, <2>1, ContentsAssumption DEF Present, Astray
  <2>3. disk[Meta] # Gone
    BY DEF ReadRoles
  <2>4. declared => Astray(Meta) /\ Meta # f
    BY <1>2, <2>1, <2>2, <2>3 DEF Astray
  <2>5. edits \in Nat /\ edits >= 1 /\ (declared => edits >= 2)
    BY <1>2, <2>2, <2>4 DEF AstrayInv, TypeOK
  <2> QED  BY <2>5 DEF Enough
<1>6. export'[e] = [export[e] EXCEPT !.pc = "label", !.role = role]
  BY <1>3, SetStep
<1>7. /\ export'[e].pc = "label" /\ export'[e].role = role
      /\ export'[e].got = NoFiles /\ export'[e] \in Exports
  BY <1>1, <1>4, <1>6, ExportFields DEF Exports, Pcs
<1>8. CoveredBy(export[e])'
  BY <1>3, <1>5, <1>7, SetStep DEF CoveredBy, Enough
<1> QED  BY <1>7, <1>8 DEF Sound, CopiedSoFar, Stands

LEMMA LabelStep ==
  ASSUME TypeOK, NEW e \in Exporters, Sound(e), Label(e)
  PROVE  export'[e] \in Exports /\ Sound(e)'
<1> DEFINE one == 1
<1>0. one \in Nat \ {0}
  OBVIOUS
<1>1. /\ export[e].pc = "label" /\ disk[Manifest] # Gone
      /\ export'[e] = [export[e] EXCEPT !.pc = "assert", !.n = one, !.label = disk[Manifest]]
      /\ declared' = declared /\ edits' = edits
  BY SetStep DEF Label
<1> HIDE DEF one
<1>2. disk[Manifest] \in Nat
  BY <1>1, FilesAssumption DEF TypeOK
<1>3. /\ export'[e].pc = "assert" /\ export'[e].role = export[e].role
      /\ export'[e].got = export[e].got /\ export'[e] \in Exports
  BY <1>1, <1>2, <1>0, ExportFields, PcsHas DEF Exports
<1>4. CoveredBy(export[e])'
  BY <1>1, <1>3 DEF Sound, CoveredBy, Enough
<1> QED  BY <1>1, <1>3, <1>4 DEF Sound, CopiedSoFar, Stands

LEMMA SelectStep ==
  ASSUME TypeOK, NEW e \in Exporters, Sound(e), Select(e)
  PROVE  export'[e] \in Exports /\ Sound(e)'
<1> DEFINE one == 1
<1>0. one \in Nat \ {0}
  OBVIOUS
<1>1. /\ export[e].pc = "assert" /\ Permitted(e)
      /\ export'[e] = [export[e] EXCEPT !.pc = "copy", !.n = one]
      /\ declared' = declared /\ edits' = edits
  BY SetStep DEF Select, Verified
<1> HIDE DEF one
<1>2. /\ export'[e].pc = "copy" /\ export'[e].n = one /\ export'[e] \in Exports
      /\ export'[e].kind = export[e].kind /\ export'[e].profile = export[e].profile
      /\ export'[e].role = export[e].role /\ export'[e].label = export[e].label
      /\ export'[e].got = export[e].got
  BY <1>1, <1>0, ExportFields, PcsHas DEF Exports
<1>3. CoveredBy(export[e])'
  BY <1>1, <1>2 DEF Sound, CoveredBy, Enough
<1>4. CopiedSoFar(e)'
  <2>1. export'[e].got = NoFiles
    BY <1>1, <1>2 DEF Sound, CopiedSoFar
  <2>2. Permitted(e)'
    BY <1>1, <1>2, SameChoice
  <2>3. \A m \in DOMAIN Walk : ~ (m < one)
    BY WalkFacts DEF one
  <2>4. DOMAIN NoFiles = {}
    BY DEF NoFiles
  <2> QED  BY <1>2, <2>1, <2>2, <2>3, <2>4 DEF CopiedSoFar
<1> QED  BY <1>2, <1>3, <1>4 DEF Sound, Stands

\* A copy is made only of a listed file that is as the manifest has it.
LEMMA CopyStep ==
  ASSUME TypeOK, NEW e \in Exporters, Sound(e), Copy(e)
  PROVE  export'[e] \in Exports /\ Sound(e)'
<1> DEFINE f == NextFile(e)
           more == With(export[e].got, f, disk[f])
<1> DEFINE next == export[e].n + 1
<1>0. next \in Nat \ {0}
  <2>1. export[e].n \in Nat \ {0}
    BY ExportFields
  <2> QED  BY <2>1
<1>1. /\ export[e].pc = "copy" /\ export[e].n \in DOMAIN Walk
      /\ f \in Chosen(e) /\ disk[f] # Gone /\ disk[f] = Digest(e, f)
      /\ f = Walk[export[e].n]
      /\ export'[e] = [export[e] EXCEPT !.n = next, !.got = more]
      /\ declared' = declared /\ edits' = edits
  BY SetStep DEF Copy, Copying, Copied, NextFile
<1>2. f \in Listed /\ disk[f] \in Nat
  <2>1. f \in Files
    BY <1>1, WalkFacts
  <2>2. disk[f] \in Nat
    BY <1>1, <2>1 DEF TypeOK
  <2> QED  BY <1>1, <2>2 DEF Digest, Listed
<1>3. /\ DOMAIN more = DOMAIN export[e].got \union {f}
      /\ \A g \in DOMAIN export[e].got : g # f => more[g] = export[e].got[g]
      /\ more[f] = disk[f]
  BY DEF With
<1>4. more \in Copies
  <2>1. PICK files \in SUBSET Listed : export[e].got \in [files -> Nat]
    BY ExportFields DEF Copies
  <2>2. more \in [files \union {f} -> Nat]
    BY <1>2, <2>1 DEF With
  <2> HIDE DEF more, f
  <2> QED  BY <1>2, <2>1, <2>2 DEF Copies
<1> HIDE DEF more, f, next
<1>5. /\ export'[e].pc = "copy" /\ export'[e].n = next
      /\ export'[e].got = more /\ export'[e] \in Exports
      /\ export'[e].kind = export[e].kind /\ export'[e].profile = export[e].profile
      /\ export'[e].role = export[e].role /\ export'[e].label = export[e].label
  BY <1>1, <1>4, <1>0, ExportFields, PcsHas DEF Exports
<1>6. CoveredBy(export[e])'
  BY <1>1, <1>5 DEF Sound, CoveredBy, Enough
<1>7. CopiedSoFar(e)'
  <2>1. /\ Chosen(e)' = Chosen(e) /\ (Permitted(e)' <=> Permitted(e))
        /\ \A g : Digest(e, g)' = Digest(e, g)
    BY <1>5, SameChoice
  <2>2. /\ Permitted(e) /\ DOMAIN export[e].got \subseteq Chosen(e)
        /\ \A g \in DOMAIN export[e].got : export[e].got[g] = Digest(e, g)
        /\ \A m \in DOMAIN Walk :
             Walk[m] \in Chosen(e) /\ m < export[e].n => Walk[m] \in DOMAIN export[e].got
    BY <1>1 DEF Sound, CopiedSoFar
  <2>3. Permitted(e)' /\ DOMAIN more \subseteq Chosen(e)'
    BY <1>1, <1>3, <2>1, <2>2
  <2>4. ASSUME NEW g \in DOMAIN more
        PROVE  more[g] = Digest(e, g)'
    BY <1>1, <1>3, <2>1, <2>2
  <2>5. ASSUME NEW m \in DOMAIN Walk, Walk[m] \in Chosen(e)', m < next
        PROVE  Walk[m] \in DOMAIN more
    <3>1. m < export[e].n \/ m = export[e].n
      BY <1>1, <2>5, WalkFacts DEF next
    <3> QED  BY <1>1, <1>3, <2>1, <2>2, <2>5, <3>1
  <2> QED  BY <1>5, <2>3, <2>4, <2>5 DEF CopiedSoFar
<1> QED  BY <1>5, <1>6, <1>7 DEF Sound, Stands

LEMMA PassByStep ==
  ASSUME TypeOK, NEW e \in Exporters, Sound(e), PassBy(e)
  PROVE  export'[e] \in Exports /\ Sound(e)'
<1> DEFINE next == export[e].n + 1
<1>0. next \in Nat \ {0}
  <2>1. export[e].n \in Nat \ {0}
    BY ExportFields
  <2> QED  BY <2>1
<1>1. /\ export[e].pc = "copy" /\ export[e].n \in DOMAIN Walk
      /\ Walk[export[e].n] \notin Chosen(e)
      /\ export'[e] = [export[e] EXCEPT !.n = next]
      /\ declared' = declared /\ edits' = edits
  BY SetStep DEF PassBy, Copying, NextFile
<1> HIDE DEF next
<1>2. /\ export'[e].pc = "copy" /\ export'[e].n = next
      /\ export'[e].got = export[e].got /\ export'[e] \in Exports
      /\ export'[e].kind = export[e].kind /\ export'[e].profile = export[e].profile
      /\ export'[e].role = export[e].role /\ export'[e].label = export[e].label
  BY <1>1, <1>0, ExportFields, PcsHas DEF Exports
<1>3. CoveredBy(export[e])'
  BY <1>1, <1>2 DEF Sound, CoveredBy, Enough
<1>4. CopiedSoFar(e)'
  <2>1. /\ Chosen(e)' = Chosen(e) /\ (Permitted(e)' <=> Permitted(e))
        /\ \A g : Digest(e, g)' = Digest(e, g)
    BY <1>2, SameChoice
  <2>2. ASSUME NEW m \in DOMAIN Walk, Walk[m] \in Chosen(e), m < next
        PROVE  Walk[m] \in DOMAIN export[e].got
    <3>1. m < export[e].n
      BY <1>1, <2>2, WalkFacts DEF next
    <3> QED  BY <1>1, <2>2, <3>1 DEF Sound, CopiedSoFar
  <2> QED  BY <1>1, <1>2, <2>1, <2>2 DEF Sound, CopiedSoFar
<1> QED  BY <1>2, <1>3, <1>4 DEF Sound, Stands

\* When Make is reached all is copied, and Make validates it.
LEMMA MakeStep ==
  ASSUME TypeOK, NEW e \in Exporters, Sound(e), Make(e)
  PROVE  export'[e] \in Exports /\ Sound(e)'
<1> DEFINE one == 1
<1>0. one \in Nat \ {0}
  OBVIOUS
<1>1. /\ export[e].pc = "copy" /\ export[e].n \notin DOMAIN Walk /\ Valid(Product(e))
      /\ export'[e] = [export[e] EXCEPT !.pc = "confirm", !.n = one]
      /\ declared' = declared /\ edits' = edits
  BY SetStep DEF Make
<1> HIDE DEF one
<1>2. /\ export'[e].pc = "confirm" /\ export'[e].n = one /\ export'[e] \in Exports
      /\ export'[e].got = export[e].got
      /\ export'[e].kind = export[e].kind /\ export'[e].profile = export[e].profile
      /\ export'[e].role = export[e].role /\ export'[e].label = export[e].label
  BY <1>1, <1>0, ExportFields, PcsHas DEF Exports
<1>3. CoveredBy(export[e])'
  BY <1>1, <1>2 DEF Sound, CoveredBy, Enough
<1>4. CopiedSoFar(e)'
  <2>1. /\ Chosen(e)' = Chosen(e) /\ (Permitted(e)' <=> Permitted(e))
        /\ \A g : Digest(e, g)' = Digest(e, g)
    BY <1>2, SameChoice
  <2>2. \A m \in DOMAIN Walk : m < export[e].n
    <3>1. export[e].n \in Nat \ {0}
      BY ExportFields
    <3> QED  BY <1>1, <3>1, WalkFacts
  <2> QED  BY <1>1, <1>2, <2>1, <2>2 DEF Sound, CopiedSoFar
<1>5. Stands(e)'
  BY <1>1, <1>2, SameChoice DEF Stands
<1> QED  BY <1>2, <1>3, <1>4, <1>5 DEF Sound

LEMMA ExportingStep ==
  ASSUME TypeOK, AstrayInv, NEW e \in Exporters, Sound(e), Exporting(e)
  PROVE  /\ export'[e] \in Exports /\ Sound(e)'
         /\ \E x : Set(e, x)
<1>1. CASE \E kind \in {"bag", "wacz"}, profile \in Profiles : Start(e, kind, profile)
  <2>1. PICK kind \in {"bag", "wacz"}, profile \in Profiles : Start(e, kind, profile)
    BY <1>1
  <2>2. Set(e, [Idle EXCEPT !.pc = "verify", !.kind = kind, !.profile = profile])
    BY <2>1 DEF Start
  <2>3. export'[e] = [Idle EXCEPT !.pc = "verify", !.kind = kind, !.profile = profile]
    BY <2>2, SetStep
  <2>4. export'[e] \in Exports /\ export'[e].pc = "verify" /\ export'[e].got = NoFiles
    BY <2>3, IdleFields, PcsHas DEF Exports
  <2> QED  BY <2>2, <2>4, Restarted
<1>2. CASE Verify(e)
  <2> DEFINE next == export[e].n + 1
  <2>1. next \in Nat \ {0}
    <3>1. export[e].n \in Nat \ {0}
      BY ExportFields
    <3> QED  BY <3>1
  <2>2. /\ export[e].pc \in Verifying
        /\ Set(e, [export[e] EXCEPT !.n = next])
    BY <1>2 DEF Verify
  <2> HIDE DEF next
  <2>3. [export[e] EXCEPT !.n = next] = [export[e] EXCEPT !.pc = export[e].pc, !.n = next]
    BY ExportFields
  <2>4. export[e].pc # "copy" /\ export[e].pc \in Pcs
    BY <2>2, ExportFields DEF Verifying
  <2>5. Set(e, [export[e] EXCEPT !.pc = export[e].pc, !.n = next])
    BY <2>2, <2>3
  <2> QED  BY <2>1, <2>4, <2>5, MovedOn
<1>3. CASE Refuse(e)
  BY <1>3, RefuseStep DEF Refuse
<1>4. CASE ReadRoles(e)
  <2>1. \E x : Set(e, x)
    BY <1>4 DEF ReadRoles
  <2> QED  BY <1>4, <2>1, ReadRolesStep
<1>5. CASE Label(e)
  BY <1>5, LabelStep DEF Label
<1>6. CASE Select(e)
  BY <1>6, SelectStep DEF Select
<1>7. CASE Copy(e)
  BY <1>7, CopyStep DEF Copy, Copied
<1>8. CASE PassBy(e)
  BY <1>8, PassByStep DEF PassBy
<1>9. CASE Make(e)
  BY <1>9, MakeStep DEF Make
<1>10. CASE Confirm(e)
  <2>1. export[e].pc = "confirm" /\ Set(e, [export[e] EXCEPT !.pc = "publish"])
    BY <1>10 DEF Confirm, Verified
  <2>2. [export[e] EXCEPT !.pc = "publish"]
          = [export[e] EXCEPT !.pc = "publish", !.n = export[e].n]
    BY ExportFields
  <2>3. export[e].n \in Nat \ {0}
    BY ExportFields
  <2>4. Set(e, [export[e] EXCEPT !.pc = "publish", !.n = export[e].n])
    BY <2>1, <2>2
  <2> QED  BY <2>1, <2>3, <2>4, PcsHas, MovedOn
<1>11. CASE Publish(e)
  <2>1. Set(e, [Idle EXCEPT !.pc = "sync"])
    BY <1>11 DEF Publish
  <2>2. export'[e] = [Idle EXCEPT !.pc = "sync"]
    BY <2>1, SetStep
  <2>3. export'[e] \in Exports /\ export'[e].pc = "sync" /\ export'[e].got = NoFiles
    BY <2>2, IdleFields, PcsHas DEF Exports
  <2> QED  BY <2>1, <2>3, Restarted
<1>12. VerifyRefuses(e) \/ SelectRefuses(e) \/ CopyRefuses(e) \/ ConfirmRefuses(e)
          \/ PublishRefuses(e) \/ Sync(e) \/ Fail(e) => Refuse(e)
  BY DEF VerifyRefuses, SelectRefuses, CopyRefuses, ConfirmRefuses, PublishRefuses,
         Sync, Fail
<1> QED
  BY <1>1, <1>2, <1>3, <1>4, <1>5, <1>6, <1>7, <1>8, <1>9, <1>10, <1>11, <1>12
     DEF Exporting

-----------------------------------------------------------------------------
(* The capture, and all exports *)

\* An edit is one file's: the others are as they were.
LEMMA AstrayStep ==
  ASSUME TypeOK, AstrayInv, NEW f \in Files, Alter(f) \/ Restore(f)
  PROVE  /\ disk' \in [Files -> Nat \union {Gone}] /\ edits' \in Nat /\ edits' >= edits
         /\ AstrayInv'
<1>1. \A g \in Files \ {f} : disk'[g] = disk[g] /\ (Astray(g)' => Astray(g))
  BY DEF Alter, Restore, Edit, TypeOK, Astray
<1>2. CASE Alter(f)
  <2>1. /\ edits \in Nat /\ edits' = edits + 1
        /\ \/ disk' = [disk EXCEPT ![f] = edits + 1]
           \/ disk' = [disk EXCEPT ![f] = Gone]
    BY <1>2 DEF Alter, Edit, TypeOK
  <2>2. disk' \in [Files -> Nat \union {Gone}]
    BY <2>1 DEF TypeOK
  <2>3. ASSUME NEW g \in Files, NEW h \in Files, Astray(g)', Astray(h)'
        PROVE  edits' >= IF g = h THEN 1 ELSE 2
    <3>1. CASE g # h
      <4>1. \E k \in {g, h} : Astray(k)
        BY <1>1, <2>3, <3>1
      <4>2. edits >= 1
        BY <4>1 DEF AstrayInv
      <4> QED  BY <2>1, <3>1, <4>2
    <3> QED  BY <2>1, <3>1
  <2> QED  BY <2>1, <2>2, <2>3 DEF AstrayInv
<1>3. CASE Restore(f)
  <2>1. /\ edits' = edits /\ edits \in Nat
        /\ disk' = [disk EXCEPT ![f] = IF f \in Listed THEN 0 ELSE Gone]
    BY <1>3 DEF Restore, Edit, TypeOK
  <2>2. disk' \in [Files -> Nat \union {Gone}]
    BY <2>1 DEF TypeOK
  <2>3. ~ Astray(f)'
    BY <2>1, <2>2 DEF TypeOK, Astray
  <2>4. \A g \in Files : Astray(g)' => Astray(g)
    BY <1>1, <2>3
  <2> QED  BY <2>1, <2>2, <2>4 DEF AstrayInv
<1> QED  BY <1>2, <1>3

LEMMA SoundStep ==
  ASSUME TypeOK, AstrayInv, ExportInv, [Next]_vars
  PROVE  /\ (TypeOK /\ AstrayInv /\ ExportInv)'
         /\ declared' = declared /\ edits' >= edits
<1>0. edits \in Nat
  BY DEF TypeOK
<1>1. ASSUME NEW f \in Files, Alter(f) \/ Restore(f)
      PROVE  /\ (TypeOK /\ AstrayInv /\ ExportInv)'
             /\ declared' = declared /\ edits' >= edits
  <2>1. export' = export /\ declared' = declared /\ altered' = altered
    BY <1>1 DEF Alter, Restore, Edit
  <2>2. /\ disk' \in [Files -> Nat \union {Gone}] /\ edits' \in Nat /\ edits' >= edits
        /\ AstrayInv'
    BY <1>1, AstrayStep
  <2>3. TypeOK'
    BY <2>1, <2>2 DEF TypeOK
  <2>4. ExportInv'
    BY <1>0, <2>1, <2>2, Standing DEF ExportInv
  <2> QED  BY <2>1, <2>2, <2>3, <2>4
<1>2. ASSUME UNCHANGED <<declared, disk, edits, export>>, altered' \in BOOLEAN
      PROVE  /\ (TypeOK /\ AstrayInv /\ ExportInv)'
             /\ declared' = declared /\ edits' >= edits
  <2>1. TypeOK' /\ edits' >= edits
    BY <1>0, <1>2 DEF TypeOK
  <2>2. AstrayInv'
    BY <1>2 DEF AstrayInv, Astray
  <2>3. ExportInv'
    BY <1>0, <1>2, <2>1, Standing DEF ExportInv
  <2> QED  BY <1>2, <2>1, <2>2, <2>3
<1>3. ASSUME NEW e \in Exporters, Exporting(e)
      PROVE  /\ (TypeOK /\ AstrayInv /\ ExportInv)'
             /\ declared' = declared /\ edits' >= edits
  <2>1. export'[e] \in Exports /\ Sound(e)' /\ \E x : Set(e, x)
    BY <1>3, ExportingStep DEF ExportInv
  <2>2. PICK x : Set(e, x)
    BY <2>1
  <2>3. /\ export'[e] = x
        /\ \A d \in Exporters \ {e} : export'[d] = export[d]
        /\ x \in Exports => export' \in [Exporters -> Exports]
        /\ declared' = declared /\ disk' = disk /\ edits' = edits
    BY <2>2, SetStep
  <2>4. altered' \in BOOLEAN
    BY <1>3 DEF TypeOK, Exporting, Start, Verify, VerifyRefuses, ReadRoles, Label, Select,
                SelectRefuses, Copy, Copied, PassBy, CopyRefuses, Make, Confirm,
                ConfirmRefuses, Publish, PublishRefuses, Sync, Fail, Refuse
  <2>5. TypeOK'
    BY <2>1, <2>3, <2>4 DEF TypeOK
  <2>6. AstrayInv'
    BY <2>3 DEF AstrayInv, Astray
  <2>7. ASSUME NEW d \in Exporters
        PROVE  Sound(d)'
    <3>1. CASE d = e
      BY <2>1, <3>1
    <3>2. CASE d # e
      <4>1. export'[d] = export[d] /\ edits' \in Nat /\ edits' >= edits
        BY <1>0, <2>3, <3>2
      <4> QED  BY <1>0, <2>3, <4>1, Standing DEF ExportInv
    <3> QED  BY <3>1, <3>2
  <2> QED  BY <1>0, <2>3, <2>5, <2>6, <2>7 DEF ExportInv
<1>4. CASE Occupy \/ Tamper \/ UNCHANGED vars
  BY <1>2, <1>4 DEF Occupy, Tamper, vars, TypeOK
<1> QED  BY <1>1, <1>3, <1>4 DEF Next

-----------------------------------------------------------------------------
(* What is published *)

\* At Publish every file that was chosen is copied, and none else.
LEMMA AllCopied ==
  ASSUME TypeOK, NEW e \in Exporters, Sound(e), export[e].pc = "publish"
  PROVE  /\ DOMAIN export[e].got = Chosen(e)
         /\ DOMAIN export[e].got \subseteq Listed
         /\ \A f \in DOMAIN export[e].got : export[e].got[f] = Digest(e, f)
<1>1. /\ DOMAIN export[e].got \subseteq Chosen(e)
      /\ \A f \in DOMAIN export[e].got : export[e].got[f] = Digest(e, f)
      /\ \A m \in DOMAIN Walk : Walk[m] \in Chosen(e) => Walk[m] \in DOMAIN export[e].got
  BY DEF Sound, CopiedSoFar
<1>2. DOMAIN export[e].role \subseteq Files
  BY ExportFields DEF RoleMaps
<1>3. Chosen(e) \subseteq Files
  BY <1>2 DEF Chosen, Selected, PreservationWarcs
<1>4. \A f \in Files : \E m \in DOMAIN Walk : Walk[m] = f
  BY FilesAssumption
<1>5. DOMAIN export[e].got \subseteq Listed
  BY ExportFields DEF Copies
<1> QED  BY <1>1, <1>3, <1>4, <1>5

LEMMA PublishStep ==
  ASSUME TypeOK, NEW e \in Exporters, Sound(e), Publish(e)
  PROVE  /\ DestInv' /\ ExportIsTheCapture'
         /\ Valid(dest') /\ altered' = FALSE
<1> DEFINE x == export[e]
<1>1. /\ x.pc = "publish" /\ dest' = Product(e) /\ altered' = FALSE
      /\ declared' = declared /\ edits' = edits
  BY SetStep DEF Publish
<1>2. /\ DOMAIN x.got = Chosen(e) /\ DOMAIN x.got \subseteq Listed
      /\ \A f \in DOMAIN x.got : x.got[f] = Digest(e, f)
  BY <1>1, AllCopied
<1>3. /\ dest'.kind = x.kind /\ dest'.profile = x.profile /\ dest'.label = x.label
      /\ dest' = [kind |-> dest'.kind, profile |-> dest'.profile, label |-> dest'.label,
                  role |-> dest'.role, holds |-> dest'.holds]
      /\ x.kind = "bag" => dest'.holds = Bag(x.got)
      /\ x.kind = "wacz" => dest'.holds = Package(x.got, Index(Warcs(DOMAIN x.got)))
  BY <1>1 DEF Product
<1>4. x.kind \in {"bag", "wacz"} /\ x.got \in Copies /\ x.profile \in Profiles
  BY ExportFields
<1>5. Payload' = x.got
  <2>1. Bag(x.got).data = x.got
    BY DEF Bag
  <2>2. Package(x.got, Index(Warcs(DOMAIN x.got))).members.archive = x.got
    BY DEF Package, Members
  <2> QED  BY <1>3, <1>4, <2>1, <2>2 DEF Payload
<1>6. Made'
  <2> HIDE DEF x
  <2> QED  BY <1>3, <1>4, <1>5 DEF Made
<1>7. \A f \in DOMAIN x.got : x.got[f] = IF f = Manifest THEN x.label ELSE 0
  BY <1>2 DEF Digest, Listed
<1>8. ASSUME x.kind = "bag", x.profile = "private", edits < Enough
      PROVE  DOMAIN x.got = Listed
  <2>1. Listed \subseteq DOMAIN x.role
    BY <1>1, <1>8 DEF Sound, CoveredBy
  <2>2. Chosen(e) = DOMAIN x.role
    BY <1>8 DEF Chosen, Selected
  <2> QED  BY <1>2, <2>1, <2>2
<1>9. ASSUME x.profile = "public", NEW f \in DOMAIN x.got
      PROVE  ~ Confidential(f) /\ (Path[f].hidden => ShareableMetadata(Path[f]))
  <2>1. Permitted(e)
    BY <1>1 DEF Sound, CopiedSoFar
  <2>2. Chosen(e) \subseteq Selected("public", x.role, Path)
    BY <1>4, <1>9, <2>1 DEF Permitted, Chosen
  <2>3. Shareable(Path[f], x.role[f])
    BY <1>2, <2>2 DEF Selected
  <2> QED
    BY <2>3 DEF Shareable, ShareablePayload, ShareableMetadata, Confidential
<1>10. ExportIsTheCapture'
  <2>1. Enough' = Enough
    BY <1>1 DEF Enough
  <2>2. edits' = edits
    BY <1>1
  <2> HIDE DEF x
  <2> QED
    BY <1>2, <1>3, <1>5, <1>7, <1>8, <1>9, <2>1, <2>2 DEF ExportIsTheCapture, Confidential
<1>11. Valid(dest')
  BY <1>1 DEF Sound, Stands
<1> QED  BY <1>1, <1>6, <1>10, <1>11 DEF DestInv

LEMMA TamperStep ==
  ASSUME DestInv, Tamper
  PROVE  /\ DestInv' /\ ExportIsTheCapture'
         /\ ~ Valid(dest') /\ altered' = TRUE
<1>1. /\ Published /\ altered' = TRUE
      /\ \E holds \in Faults(dest) : dest' = [dest EXCEPT !.holds = holds]
  BY DEF Tamper, Published
<1>2. PICK holds \in Faults(dest) : dest' = [dest EXCEPT !.holds = holds]
  BY <1>1
<1>3. Made
  BY <1>1 DEF DestInv
<1>4. dest'.kind = dest.kind /\ dest'.holds = holds
  BY <1>2, <1>3 DEF Made
<1>5. Stray \notin DOMAIN Payload /\ \A f \in DOMAIN Payload : Payload[f] # Tampered
  <2>1. PICK files \in SUBSET Listed : Payload \in [files -> Nat]
    BY <1>3 DEF Made, Copies
  <2> HIDE DEF Payload
  <2> QED  BY <2>1, FilesAssumption, ContentsAssumption DEF Listed
<1>6. CASE dest.kind = "bag"
  <2>1. holds \in BagFaults(Bag(Payload))
    BY <1>2, <1>3, <1>6 DEF Faults, Made
  <2>2. ~ BagValid(holds)
    BY <1>5, <2>1, BagFaultsShow
  <2> QED  BY <1>1, <1>4, <1>6, <2>2 DEF Valid, DestInv, ExportIsTheCapture, Published
<1>7. CASE dest.kind = "wacz"
  <2> DEFINE index == Index(Warcs(DOMAIN Payload))
  <2>1. holds \in WaczFaults(Package(Payload, index), Altered(Payload))
    <3>1. holds \in WaczFaults(dest.holds, Altered(dest.holds.members.archive))
      BY <1>2, <1>7 DEF Faults
    <3>2. dest.holds.members.archive = Payload
      BY <1>7 DEF Payload
    <3>3. dest.holds = Package(Payload, index)
      BY <1>3, <1>7 DEF Made
    <3> QED  BY <3>1, <3>2, <3>3
  <2> HIDE DEF index
  <2>2. ~ WaczValid(holds, Warcs(DOMAIN holds.members.archive))
    BY <1>5, <2>1, WaczFaultsShow
  <2> QED  BY <1>1, <1>4, <1>7, <2>2 DEF Valid, DestInv, ExportIsTheCapture, Published
<1> QED  BY <1>3, <1>6, <1>7 DEF Made

LEMMA DestStays ==
  ASSUME TypeOK, DestInv, ExportIsTheCapture, TamperingShows,
         dest' = dest, altered' = altered,
         declared' = declared, edits' \in Nat, edits' >= edits
  PROVE  DestInv' /\ ExportIsTheCapture' /\ TamperingShows'
<1>1. Enough' = Enough /\ Enough \in Nat
  BY DEF Enough
<1>2. edits' < Enough => edits < Enough
  BY <1>1 DEF TypeOK
<1>3. (Published' <=> Published) /\ Payload' = Payload /\ (Made' <=> Made)
  BY DEF Published, Payload, Made
<1>4. ExportIsTheCapture'
  BY <1>1, <1>2, <1>3 DEF ExportIsTheCapture, Confidential
<1> QED  BY <1>3, <1>4 DEF DestInv, TamperingShows

LEMMA InvInductive ==
  /\ Init => Inv
  /\ Inv /\ [Next]_vars => Inv'
<1>1. ASSUME Init PROVE Inv
  <2>1. TypeOK
    BY <1>1, IdleFields DEF Init, TypeOK
  <2>2. AstrayInv
    BY <1>1 DEF Init, AstrayInv, Astray
  <2>3. ExportInv
    <3>1. ASSUME NEW e \in Exporters
          PROVE  export[e].pc = "idle" /\ export[e].got = NoFiles
      BY <1>1 DEF Init, Idle
    <3> QED  BY <3>1 DEF ExportInv, Sound, CoveredBy, CopiedSoFar, Stands
  <2>4. DestInv /\ ExportIsTheCapture /\ TamperingShows
    BY <1>1 DEF Init, DestInv, ExportIsTheCapture, TamperingShows, Published
  <2> QED  BY <2>1, <2>2, <2>3, <2>4 DEF Inv
<1>2. ASSUME Inv, [Next]_vars PROVE Inv'
  <2>1. /\ (TypeOK /\ AstrayInv /\ ExportInv)'
        /\ declared' = declared /\ edits' >= edits
    BY <1>2, SoundStep DEF Inv
  <2>2. edits' \in Nat
    BY <2>1 DEF TypeOK
  <2>3. CASE UNCHANGED <<dest, altered>>
    BY <1>2, <2>1, <2>2, <2>3, DestStays DEF Inv
  <2>4. CASE Occupy
    <3>1. dest' = Foreign
      BY <2>4 DEF Occupy
    <3> QED
      BY <2>1, <3>1 DEF Inv, DestInv, ExportIsTheCapture, TamperingShows, Published
  <2>5. CASE Tamper
    BY <1>2, <2>1, <2>5, TamperStep DEF Inv, TamperingShows
  <2>6. CASE \E e \in Exporters : Publish(e)
    BY <1>2, <2>1, <2>6, PublishStep DEF Inv, ExportInv, TamperingShows
  <2>7. UNCHANGED <<dest, altered>> \/ Occupy \/ Tamper \/ \E e \in Exporters : Publish(e)
    BY <1>2 DEF Next, vars, Alter, Restore, Edit, Exporting, Start, Verify, VerifyRefuses,
       ReadRoles, Label, Select, SelectRefuses, Copy, Copied, PassBy, CopyRefuses, Make,
       Confirm, ConfirmRefuses, PublishRefuses, Sync, Fail, Refuse
  <2> QED  BY <2>3, <2>4, <2>5, <2>6, <2>7
<1> QED  BY <1>1, <1>2

LEMMA Invariance == Spec => []Inv
<1>1. Init => Inv
  BY InvInductive
<1>2. Inv /\ [Next]_vars => Inv'
  BY InvInductive
<1> QED  BY <1>1, <1>2, PTL DEF Spec

\* For any capture, any number of exports and of edits: what is published is what
\* the capture was finalized with, as far as the profile selects it; all of it,
\* unless enough files were altered at once.
THEOREM Exported == Spec => []ExportIsTheCapture
<1>1. Inv => ExportIsTheCapture
  BY DEF Inv
<1> QED  BY <1>1, Invariance, PTL

\* It is valid until a file of it is another, and not after that.
THEOREM TamperingIsSeen == Spec => []TamperingShows
<1>1. Inv => TamperingShows
  BY DEF Inv
<1> QED  BY <1>1, Invariance, PTL

\* However many exports there are, none replaces what is at the destination.
THEOREM NothingReplaced == Spec => NotReplaced
<1>1. [Next]_vars => [dest # Nothing => dest' = dest \/ (altered' /\ UNCHANGED export)]_vars
  <2> SUFFICES ASSUME Next, dest # Nothing
               PROVE  dest' = dest \/ (altered' /\ UNCHANGED export)
    BY DEF vars
  <2> QED
    BY DEF Next, Alter, Restore, Edit, Occupy, Tamper, Exporting, Start, Verify,
       VerifyRefuses, ReadRoles, Label, Select, SelectRefuses, Copy, Copied, PassBy,
       CopyRefuses, Make, Confirm, ConfirmRefuses, Publish, PublishRefuses, Sync, Fail,
       Refuse
<1> QED  BY <1>1, PTL DEF Spec, NotReplaced

\* The index of a published WACZ finds every page of its archive, by a range of
\* its own; and an index is made of any WARCs that permit one.
THEOREM IndexExact == Spec => []IndexIsExact
<1>1. EveryIndexExact
  <2> SUFFICES ASSUME NEW warcs \in SmallArchives
               PROVE  Indexable(warcs) <=> Pages(warcs) # {} /\ Apart(warcs)
    BY DEF EveryIndexExact
  <2>1. ASSUME NEW w \in SmallWarcs
        PROVE  IsWarc(w)
    <3>1. CASE \E ms \in Upto(Members2) : w = [gz |-> TRUE, members |-> ms]
      BY <3>1 DEF IsWarc
    <3>2. CASE \E m \in Members2 : w = [gz |-> FALSE, members |-> <<m>>]
      <4>1. PICK m \in Members2 : w = [gz |-> FALSE, members |-> <<m>>]
        BY <3>2
      <4>2. w.members = <<m>>
        BY <4>1
      <4> QED  BY <4>2 DEF IsWarc
    <3> QED  BY <3>1, <3>2 DEF SmallWarcs
  <2>2. \A f \in DOMAIN warcs : warcs[f] \in SmallWarcs
    BY DEF SmallArchives
  <2> QED  BY <2>1, <2>2, IndexedWhenApart
<1>2. Inv => IndexIsExact
  <2> SUFFICES ASSUME Inv, Published, dest.kind = "wacz"
               PROVE  LET warcs == Warcs(DOMAIN dest.holds.members.archive)
                      IN /\ dest.holds.members.index
                              = {Line(warcs, p) : p \in Pages(warcs)}
                         /\ Apart(warcs)
    BY <1>1 DEF IndexIsExact
  <2> DEFINE warcs == Warcs(DOMAIN Payload)
  <2>1. Payload = dest.holds.members.archive
    BY DEF Payload
  <2>2. Made /\ Valid(dest)
    BY DEF Inv, DestInv, TamperingShows, Published
  <2>3. dest.holds.members.index = Index(warcs)
    <3>1. dest.holds = Package(Payload, Index(warcs))
      BY <2>2 DEF Made
    <3> HIDE DEF warcs, Payload
    <3> QED  BY <3>1 DEF Package, Members
  <2>4. \A f \in DOMAIN warcs : IsWarc(warcs[f])
    <3>1. DOMAIN Payload \subseteq Files
      <4>1. PICK files \in SUBSET Listed : Payload \in [files -> Nat]
        BY <2>2 DEF Made, Copies
      <4> HIDE DEF Payload
      <4> QED  BY <4>1, FilesAssumption DEF Listed
    <3> HIDE DEF Payload
    <3> QED  BY <3>1, ContentsAssumption DEF Warcs
  <2>5. \A line \in Index(warcs) : Resolves(line, warcs)
    BY <2>1, <2>2, <2>3 DEF Valid, WaczValid, IndexValid
  <2>6. Apart(warcs)
    BY <2>4, <2>5, ResolvesWhenApart
  <2> QED  BY <2>1, <2>3, <2>6 DEF Index
<1> QED  BY <1>2, Invariance, PTL
=============================================================================
