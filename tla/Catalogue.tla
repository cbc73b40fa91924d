------------------------------ MODULE Catalogue ------------------------------
(***************************************************************************)
(* The catalogue of the current readers, its builds and its searches       *)
(* (access/catalogue.py).                                                  *)
(*                                                                         *)
(* build_catalogue reads the current readers before it takes the catalogue *)
(* lock, builds in a directory of its own, and publishes under the lock:   *)
(* the directory is renamed to the digest of what went into it, and        *)
(* LATEST-CATALOGUE is rewritten.  A search takes no lock.  A build may be *)
(* killed at any point; then the system releases its lock.                 *)
(*                                                                         *)
(* A reader generation is a number, later ones are greater; once current   *)
(* it stays (ReaderPublication, NamedStays).  A build key is what was read *)
(* of every collection.                                                    *)
(***************************************************************************)
EXTENDS Naturals

CONSTANTS
  Collections,
  Builders,    \* processes that build the catalogue, once each
  Searchers,   \* processes that search it
  Trees,       \* how the output of one build key may come out
  MaxReader,   \* bound: how many readers a collection gets
  Readable,    \* readers with a typed access graph
  Valid,       \* ... which is valid
  Storable,    \* the sets of readers the database takes together
  NoKey,       \* no catalogue
  Out,         \* a collection that was not asked for
  Free         \* nobody has the lock

Readers == Collections \X (1..MaxReader)
Keys    == [Collections -> (0..MaxReader) \union {Out}]

ASSUME MaxReaderAssumption == MaxReader \in Nat
ASSUME TreesAssumption == Trees # {}
ASSUME ReadersAssumption == Readable \subseteq Readers
ASSUME NamesAssumption == NoKey \notin Keys /\ Out \notin Nat /\ Free \notin Builders

VARIABLES
  current,   \* current[c]: the current reader of c, 0 when there is none
  shelf,     \* catalogue-generations: [key, tree, whole]
  latest,    \* LATEST-CATALOGUE
  holder,    \* who has the catalogue lock
  build,     \* build[p]: the state of builder p
  floor,     \* floor[p]: what LATEST-CATALOGUE named when p began
  search     \* search[s]: the state of searcher s

vars == <<current, shelf, latest, holder, build, floor, search>>

storeVars == <<shelf, latest, holder>>

Idle == [pc |-> "idle", todo |-> {}, key |-> [c \in Collections |-> Out],
         tree |-> CHOOSE t \in Trees : TRUE]

AtRest == [pc |-> "idle", key |-> NoKey, tree |-> CHOOSE t \in Trees : TRUE]

Init ==
  /\ current = [c \in Collections |-> 0]
  /\ shelf = {}
  /\ latest = NoKey
  /\ holder = Free
  /\ build = [p \in Builders |-> Idle]
  /\ floor = [p \in Builders |-> NoKey]
  /\ search = [s \in Searchers |-> AtRest]

-----------------------------------------------------------------------------
(* What a build makes of what it has read *)

Asked(key)     == {c \in Collections : key[c] # Out}
Available(key) == {c \in Asked(key) : key[c] # 0}
Chosen(key)    == {<<c, key[c]>> : c \in Available(key)}

\* The status of the build.
Status(key) ==
  IF Available(key) = Asked(key) THEN "complete"
  ELSE IF Available(key) # {} THEN "complete_with_warnings"
  ELSE "incomplete"

\* A plausible slip: LATEST-CATALOGUE names every catalogue that was published.
Anything(key) == TRUE

\* SUCCESS_STATUSES.
Usable(key) == Status(key) \in {"complete", "complete_with_warnings"}

Shelved(key) == {g \in shelf : g.key = key}

\* _validate_catalogue_tree: every file is there, regular, and as recorded.
Intact(g) == g.whole

Goes(p, from, to) ==
  /\ build[p].pc = from
  /\ build' = [build EXCEPT ![p] = [@ EXCEPT !.pc = to]]

\* The process is done, for good or ill: the lock is given back, the staging
\* directory goes.
Ends(p) ==
  /\ build' = [build EXCEPT ![p] = [Idle EXCEPT !.pc = "ended"]]
  /\ floor' = [floor EXCEPT ![p] = NoKey]
  /\ holder' = IF holder = p THEN Free ELSE holder

-----------------------------------------------------------------------------
(* Reader generation, elsewhere *)

\* A collection gets a new current reader.
Render(c) ==
  /\ current[c] < MaxReader
  /\ current' = [current EXCEPT ![c] = @ + 1]
  /\ UNCHANGED <<storeVars, build, floor, search>>

-----------------------------------------------------------------------------
(* build_catalogue *)

\* _selected_collections.
Start(p, asked) ==
  /\ build[p].pc = "idle"
  /\ asked # {}
  /\ build' = [build EXCEPT ![p] = [Idle EXCEPT !.pc = "reading", !.todo = asked]]
  /\ floor' = [floor EXCEPT ![p] = latest]
  /\ UNCHANGED <<current, storeVars, search>>

Reads(p, c, reading) ==
  /\ build[p].pc = "reading" /\ c \in build[p].todo
  /\ build' = [build EXCEPT ![p] =
                 [@ EXCEPT !.todo = build[p].todo \ {c},
                           !.key = [build[p].key EXCEPT ![c] = reading]]]
  /\ UNCHANGED <<current, storeVars, floor, search>>

\* A plausible slip: any generation that is there will do.
ReadAny(p, c) ==
  \E n \in 0..current[c] :
     Reads(p, c, IF <<c, n>> \in Readable THEN n ELSE 0)

\* A plausible slip: the access graph is taken as it is.
ReadUnchecked(p, c) ==
  Reads(p, c, IF <<c, current[c]>> \in Readable THEN current[c] ELSE 0)

\* _load_reader_input: the current reader, or the collection is unavailable.
Read(p, c) ==
  /\ <<c, current[c]>> \in Readable => <<c, current[c]>> \in Valid
  /\ Reads(p, c, IF <<c, current[c]>> \in Readable THEN current[c] ELSE 0)

\* The reader's access graph is invalid: the build fails.
ReadFails(p, c) ==
  /\ build[p].pc = "reading" /\ c \in build[p].todo
  /\ <<c, current[c]>> \in Readable \ Valid
  /\ Ends(p)
  /\ UNCHANGED <<current, shelf, latest, search>>

\* Projection, page and database are made and validated in a directory of
\* their own.
Stage(p, tree) ==
  /\ build[p].pc = "reading" /\ build[p].todo = {}
  /\ Chosen(build[p].key) \in Storable
  /\ build' = [build EXCEPT ![p] = [@ EXCEPT !.pc = "staged", !.tree = tree]]
  /\ UNCHANGED <<current, storeVars, floor, search>>

\* The database refuses the readers.
StageFails(p) ==
  /\ build[p].pc = "reading" /\ build[p].todo = {}
  /\ Chosen(build[p].key) \notin Storable
  /\ Ends(p)
  /\ UNCHANGED <<current, shelf, latest, search>>

\* _catalogue_lock.
Lock(p) ==
  /\ holder = Free
  /\ holder' = p
  /\ Goes(p, "staged", "locked")
  /\ UNCHANGED <<current, shelf, latest, floor, search>>

Candidate(p, whole) ==
  [key |-> build[p].key, tree |-> build[p].tree, whole |-> whole]

\* A plausible slip: the generation that is there is not compared.
AgreesUnread(p) == \A g \in Shelved(build[p].key) : Intact(g)

\* The generation of this key is whole, and what this build came to.
Agrees(p) == \A g \in Shelved(build[p].key) : g = Candidate(p, TRUE)

\* _publish_catalogue, when the key has a generation.
Reuse(p) ==
  /\ Goes(p, "locked", "published")
  /\ Shelved(build[p].key) # {} /\ Agrees(p)
  /\ UNCHANGED <<current, storeVars, floor, search>>

\* _quarantine_catalogue.
Quarantine(p) ==
  /\ build[p].pc = "locked"
  /\ ~ Agrees(p)
  /\ Ends(p)
  /\ UNCHANGED <<current, shelf, latest, search>>

\* The staging directory takes its place.
Publish(p) ==
  /\ Goes(p, "locked", "renamed")
  /\ Shelved(build[p].key) = {}
  /\ shelf' = shelf \union {Candidate(p, TRUE)}
  /\ UNCHANGED <<current, latest, holder, floor, search>>

\* _make_tree_read_only, _fsync_tree.
Seal(p) ==
  /\ Goes(p, "renamed", "published")
  /\ UNCHANGED <<current, storeVars, floor, search>>

Break(key) == {[g EXCEPT !.whole = @ /\ g.key # key] : g \in shelf}

\* A plausible slip: a generation that cannot be made durable is removed,
\* whoever published it.
DiscardAny(p) ==
  /\ \E from \in {"renamed", "published"} : Goes(p, from, "removing")
  /\ shelf' = Break(build[p].key)
  /\ UNCHANGED <<current, latest, holder, floor, search>>

\* An OSError after the rename: the generation is removed, file by file.
Discard(p) ==
  /\ Goes(p, "renamed", "removing")
  /\ shelf' = Break(build[p].key)
  /\ UNCHANGED <<current, latest, holder, floor, search>>

Discarded(p) ==
  /\ build[p].pc = "removing"
  /\ shelf' = shelf \ Shelved(build[p].key)
  /\ Ends(p)
  /\ UNCHANGED <<current, latest, search>>

\* LATEST-CATALOGUE is rewritten when the build is of use; what it names now
\* is looked at when it is not.
Name(p) ==
  /\ build[p].pc = "published"
  /\ latest' = IF Usable(build[p].key) THEN build[p].key ELSE latest
  /\ Ends(p)
  /\ UNCHANGED <<current, shelf, search>>

\* A plausible slip: a build that fails keeps the lock.
BuildFailsHolding(p) ==
  /\ build[p].pc \in {"reading", "staged", "locked", "published", "removing"}
  /\ build' = [build EXCEPT ![p] = [Idle EXCEPT !.pc = "ended"]]
  /\ floor' = [floor EXCEPT ![p] = NoKey]
  /\ UNCHANGED <<current, storeVars, search>>

\* An OSError, at any other step; the files of the build are its own.
BuildFails(p) ==
  /\ build[p].pc \in {"reading", "staged", "locked", "published", "removing"}
  /\ Ends(p)
  /\ UNCHANGED <<current, shelf, latest, search>>

\* SIGKILL.
Kill(p) ==
  /\ build[p].pc \notin {"idle", "ended"}
  /\ Ends(p)
  /\ UNCHANGED <<current, shelf, latest, search>>

-----------------------------------------------------------------------------
(* search_catalogue *)

Searching(s, from, state) ==
  /\ search[s].pc = from
  /\ search' = [search EXCEPT ![s] = state]
  /\ UNCHANGED <<current, storeVars, build, floor>>

\* _existing_catalogue_index: the pointer is read, ...
Look(s) ==
  /\ latest # NoKey
  /\ Searching(s, "idle", [AtRest EXCEPT !.pc = "found", !.key = latest])

\* ... and what it names is compared with its metadata.
Found(s) == {g \in Shelved(search[s].key) : Intact(g)}

\* What the search comes to: it goes on with the generation, or it fails.
Outcomes(s, to) ==
  IF Found(s) = {} THEN {[search[s] EXCEPT !.pc = "failed"]}
  ELSE {[pc |-> to, key |-> g.key, tree |-> g.tree] : g \in Found(s)}

Check(s) ==
  \E state \in Outcomes(s, "checked") : Searching(s, "found", state)

\* The reader of a hit is where the catalogue says (_safe_relative_directory).
Reachable(key) == \A c \in Available(key) : key[c] <= current[c]

\* The database is compared with the metadata once more and queried; the
\* reader of every hit is looked up.
Answer(s) ==
  \E state \in Outcomes(s, IF Reachable(search[s].key) THEN "answered" ELSE "failed") :
     Searching(s, "checked", state)

SearchEnds(s) ==
  /\ search[s].pc \in {"answered", "failed"}
  /\ Searching(s, search[s].pc, AtRest)

-----------------------------------------------------------------------------
Proceeds(p) ==
  \/ \E c \in Collections : Read(p, c) \/ ReadFails(p, c)
  \/ \E t \in Trees : Stage(p, t)
  \/ StageFails(p) \/ Lock(p) \/ Reuse(p) \/ Quarantine(p) \/ Publish(p)
  \/ Seal(p) \/ Discard(p) \/ Discarded(p) \/ Name(p)

Builds(p) == \/ \E asked \in SUBSET Collections : Start(p, asked)
             \/ Proceeds(p) \/ BuildFails(p) \/ Kill(p)

Searches(s) == Look(s) \/ Check(s) \/ Answer(s) \/ SearchEnds(s)

Next == \/ \E c \in Collections : Render(c)
        \/ \E p \in Builders : Builds(p)
        \/ \E s \in Searchers : Searches(s)

Spec == Init /\ [][Next]_vars

\* A build goes on; one that waits for the lock gets it when the others have
\* given it back.
FairSpec == Spec /\ \A p \in Builders : WF_vars(Proceeds(p))

-----------------------------------------------------------------------------
(* Properties *)

\* Every variable has its type.
TypeOK ==
  /\ current \in [Collections -> 0..MaxReader]
  /\ shelf \subseteq [key: Keys, tree: Trees, whole: BOOLEAN]
  /\ latest \in Keys \union {NoKey}
  /\ holder \in Builders \union {Free}
  /\ build \in [Builders -> [pc: {"idle", "ended", "reading", "staged", "locked",
                                  "renamed", "published", "removing"},
                             todo: SUBSET Collections, key: Keys, tree: Trees]]
  /\ floor \in [Builders -> Keys \union {NoKey}]
  /\ search \in [Searchers ->
                   [pc: {"idle", "found", "checked", "answered", "failed"},
                    key: Keys \union {NoKey}, tree: Trees]]

\* LATEST-CATALOGUE names a generation that is whole and of use, although a
\* build whose rename succeeded may remove its generation again, and may be
\* killed while it does.
LatestIsWhole ==
  latest # NoKey =>
    /\ Available(latest) # {}
    /\ \E g \in Shelved(latest) : Intact(g)

\* A search that has found a catalogue is answered, whatever is built, removed
\* or killed meanwhile: it holds no lock.
SearchIsAnswered == \A s \in Searchers : search[s].pc # "failed"

\* A catalogue is of valid readers the database took together, and all its
\* links resolve: the readers are there.
LinksResolve ==
  \A g \in shelf :
    /\ Chosen(g.key) \in Storable /\ Chosen(g.key) \subseteq Valid
    /\ Reachable(g.key)

\* One key has one generation, which nobody replaces while somebody may be
\* reading it; a build that publishes publishes what it made.
OneTreePerKey ==
  /\ \A g, h \in shelf : g.key = h.key => g = h
  /\ \A p \in Builders : build[p].pc = "published" => Candidate(p, TRUE) \in shelf
  /\ \A s \in Searchers : search[s].pc = "checked" =>
       \A g \in Shelved(search[s].key) : g.tree = search[s].tree

\* Among readers, what one key of a collection holds is as new as the other's.
AtLeast(key, old) ==
  old # NoKey =>
    \A c \in Available(key) \intersect Available(old) : key[c] >= old[c]

\* A build never names a catalogue with an older reader than the catalogue it
\* found when it began.  (Of two builds at the same time nothing is said: they
\* may be published in the other order.)
NeverOlder ==
  [][\A p \in Builders :
       holder = p /\ latest' # latest => AtLeast(latest', floor[p])]_vars

\* Every build ends, though it waits for the lock.
BuildEnds == \A p \in Builders : (build[p].pc = "staged") ~> (build[p].pc = "ended")
=============================================================================
