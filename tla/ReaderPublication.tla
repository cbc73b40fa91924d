------------------------- MODULE ReaderPublication -------------------------
(***************************************************************************)
(* Publication of the derived readers of one collection, and lookups of    *)
(* the current one (access/reader.py).                                     *)
(*                                                                         *)
(* A build is staged beside the generations of its capture.  Under the     *)
(* lock of the collection it becomes the generation of its build key, or   *)
(* is found to be equal to the one that is there, or is put into           *)
(* quarantine.  Then the capture's own link is moved to the generation     *)
(* and, when the build is usable, so are the two current pointers: first   *)
(* the symlink "reader", then the text file LATEST-READER.  Lookups take   *)
(* no lock.                                                                *)
(***************************************************************************)
CONSTANTS
  Procs,      \* invocations of build_static_reader
  Readers,    \* lookups of the current reader
  Captures,
  Keys,       \* the build keys
  Trees,      \* the output trees a renderer may come to
  CaptureOf,  \* CaptureOf[k]: the capture whose manifest is in k's build inputs
  Rendered,   \* the builds that invocations may render
  Damageable, \* bound: the keys whose generation may be altered from outside
  Free,       \* nobody holds the lock
  NoKey,      \* a pointer that does not exist
  Absent,     \* a generation that does not exist
  Damaged,    \* a tree that is not what its metadata says
  NoBuild     \* before an invocation has rendered

Statuses == {"complete", "complete_with_warnings", "incomplete"}
Builds   == [key: Keys, tree: Trees, status: Statuses]

\* A generation: what its metadata.json says of it, and its tree.
Generation == [claim: Builds, tree: Trees \union {Damaged}]

ASSUME NamesAssumption == /\ Free \notin Procs
                          /\ NoKey \notin Keys
                          /\ Absent \notin Generation
                          /\ Damaged \notin Trees
                          /\ NoBuild \notin Builds
                          /\ CaptureOf \in [Keys -> Captures]
                          /\ Rendered \subseteq Builds
                          /\ Damageable \subseteq Keys

VARIABLES
  pc,            \* how far each invocation has come
  build,         \* what it rendered
  previous,      \* previous_current: where "reader" pointed before
  lock,          \* the holder of .reader.lock
  staging,       \* the invocations whose staging directory is there
  quarantine,    \* the builds in reader-quarantine
  generation,    \* the generations in reader-generations
  captureReader, \* the link "reader" of each capture
  current,       \* the link "reader" of the collection
  canonical,     \* LATEST-READER
  lookup,        \* how far each lookup has come
  seen           \* what it read in LATEST-READER; then its answer

treeVars   == <<staging, quarantine, generation>>
lookupVars == <<lookup, seen>>
vars == <<pc, build, previous, lock, treeVars, captureReader, current,
          canonical, lookupVars>>

Usable(status) == status \in {"complete", "complete_with_warnings"}

Key(p)       == build[p].key
Intact(k)    == /\ generation[k] # Absent
                /\ generation[k].tree = generation[k].claim.tree
Unlocked     == {"idle", "waiting"}
Publishing   == {"locked", "renamed", "linking", "linked", "half", "switched"}
Ended        == {"returned", "failed", "killed", "cut"}

\* No reader, or the usable one of an earlier invocation.
InitPublished ==
  \/ /\ generation = [k \in Keys |-> Absent]
     /\ captureReader = [c \in Captures |-> NoKey]
     /\ current = NoKey /\ canonical = NoKey
  \/ \E b \in Rendered :
       /\ Usable(b.status)
       /\ generation = [k \in Keys |-> IF k = b.key
                                       THEN [claim |-> b, tree |-> b.tree]
                                       ELSE Absent]
       /\ captureReader = [c \in Captures |->
                              IF c = CaptureOf[b.key] THEN b.key ELSE NoKey]
       /\ current = b.key /\ canonical = b.key

Init ==
  /\ pc = [p \in Procs |-> "idle"]
  /\ build = [p \in Procs |-> NoBuild]
  /\ previous = [p \in Procs |-> NoKey]
  /\ lock = Free
  /\ staging = {} /\ quarantine = {}
  /\ InitPublished
  /\ lookup = [r \in Readers |-> "idle"]
  /\ seen = [r \in Readers |-> NoKey]

Transition(p, from, to) ==
  /\ pc[p] = from
  /\ pc' = [pc EXCEPT ![p] = to]

\* A plausible slip: an exception leaves the lock behind.
EndKeepsLock(p, how) ==
  /\ pc' = [pc EXCEPT ![p] = how]
  /\ lock' = IF lock = p /\ how # "failed" THEN Free ELSE lock

\* An invocation ends; the with statement, or the kernel, unlocks.
End(p, how) ==
  /\ pc' = [pc EXCEPT ![p] = how]
  /\ lock' = IF lock = p THEN Free ELSE lock

-----------------------------------------------------------------------------
(* Publication *)

\* The adapter renders into a staging directory, between two verifications of
\* the capture.  The same key may yield different trees.
Build(p, b) ==
  /\ Transition(p, "idle", "waiting")
  /\ build' = [build EXCEPT ![p] = b]
  /\ staging' = staging \union {p}
  /\ UNCHANGED <<previous, lock, quarantine, generation, captureReader,
                 current, canonical, lookupVars>>

\* A plausible slip: the lock file is opened and not locked.
LockNothing(p) ==
  /\ Transition(p, "waiting", "locked")
  /\ lock' = p
  /\ UNCHANGED <<build, previous, treeVars, captureReader, current, canonical,
                 lookupVars>>

\* _reader_publication_lock waits for the lock.
Lock(p) ==
  /\ Transition(p, "waiting", "locked")
  /\ lock = Free
  /\ lock' = p
  /\ UNCHANGED <<build, previous, treeVars, captureReader, current, canonical,
                 lookupVars>>

\* A plausible slip: an existing generation is replaced.
RenameOver(p) ==
  /\ Transition(p, "locked", "renamed")
  /\ ~ (Intact(Key(p)) /\ generation[Key(p)].claim = build[p])
  /\ generation' = [generation EXCEPT ![Key(p)] =
                      [claim |-> build[p], tree |-> build[p].tree]]
  /\ staging' = staging \ {p}
  /\ UNCHANGED <<build, previous, lock, quarantine, captureReader, current,
                 canonical, lookupVars>>

\* _publish_derived_tree, when there is no generation of this key.
Rename(p) ==
  /\ Transition(p, "locked", "renamed")
  /\ generation[Key(p)] = Absent
  /\ generation' = [generation EXCEPT ![Key(p)] =
                      [claim |-> build[p], tree |-> build[p].tree]]
  /\ staging' = staging \ {p}
  /\ UNCHANGED <<build, previous, lock, quarantine, captureReader, current,
                 canonical, lookupVars>>

\* The generation is made read-only and synced.
Seal(p) ==
  /\ Transition(p, "renamed", "linking")
  /\ UNCHANGED <<build, previous, lock, treeVars, captureReader, current,
                 canonical, lookupVars>>

\* ... or an OSError prevents it: the generation is removed, as far as that
\* succeeds.
SealFails(p) ==
  /\ pc[p] = "renamed"
  /\ End(p, "failed")
  /\ \E left \in {Absent, [claim |-> build[p], tree |-> Damaged]} :
       generation' = [generation EXCEPT ![Key(p)] = left]
  /\ UNCHANGED <<build, previous, staging, quarantine, captureReader, current,
                 canonical, lookupVars>>

\* A plausible slip: what metadata.json says is believed.
SameUnread(p) ==
  /\ generation[Key(p)] # Absent
  /\ generation[Key(p)].claim.key = Key(p)

\* _validate_existing_generation: the generation is what its metadata says,
\* and what this build came to.
Same(p) == Intact(Key(p)) /\ generation[Key(p)].claim = build[p]

Reuse(p) ==
  /\ Transition(p, "locked", "linking")
  /\ Same(p)
  /\ staging' = staging \ {p}
  /\ UNCHANGED <<build, previous, lock, quarantine, generation, captureReader,
                 current, canonical, lookupVars>>

\* _quarantine_reader_candidate.
Quarantine(p) ==
  /\ pc[p] = "locked"
  /\ generation[Key(p)] # Absent
  /\ ~ Same(p)
  /\ End(p, "failed")
  /\ quarantine' = quarantine \union {build[p]}
  /\ staging' = staging \ {p}
  /\ UNCHANGED <<build, previous, generation, captureReader, current,
                 canonical, lookupVars>>

\* _update_capture_reader_link.
LinkCapture(p) ==
  /\ Transition(p, "linking", "linked")
  /\ captureReader' = [captureReader EXCEPT ![CaptureOf[Key(p)]] = Key(p)]
  /\ UNCHANGED <<build, previous, lock, treeVars, current, canonical,
                 lookupVars>>

\* _validated_current_reader_target finds nothing wrong.
CurrentOk ==
  canonical # NoKey => /\ current = canonical
                       /\ Intact(canonical)
                       /\ Usable(generation[canonical].claim.status)

\* _update_current_reader_pointer up to the replacement of the symlink.
SwitchCurrent(p) ==
  /\ Transition(p, "linked", "half")
  /\ Usable(build[p].status)
  /\ CurrentOk
  /\ previous' = [previous EXCEPT ![p] = current]
  /\ current' = Key(p)
  /\ UNCHANGED <<build, lock, treeVars, captureReader, canonical, lookupVars>>

WriteCanonical(p) ==
  /\ Transition(p, "half", "switched")
  /\ canonical' = Key(p)
  /\ UNCHANGED <<build, previous, lock, treeVars, captureReader, current,
                 lookupVars>>

\* A plausible slip: the exception goes on at once.
WriteCanonicalFailsOnly(p) ==
  /\ pc[p] = "half"
  /\ End(p, "failed")
  /\ UNCHANGED <<build, previous, treeVars, captureReader, current, canonical,
                 lookupVars>>

\* LATEST-READER cannot be written: the symlink is restored.
WriteCanonicalFails(p) ==
  /\ pc[p] = "half"
  /\ End(p, "failed")
  /\ current' = previous[p]
  /\ UNCHANGED <<build, previous, treeVars, captureReader, canonical,
                 lookupVars>>

\* ... or cannot be restored either.
RestoreFails(p) ==
  /\ pc[p] = "half"
  /\ End(p, "cut")
  /\ UNCHANGED <<build, previous, treeVars, captureReader, current, canonical,
                 lookupVars>>

\* The pointers are synced and the result is returned.
Return(p) ==
  /\ pc[p] = "switched"
  /\ End(p, "returned")
  /\ UNCHANGED <<build, previous, treeVars, captureReader, current, canonical,
                 lookupVars>>

\* An incomplete build leaves the current reader alone and looks it up
\* (_existing_current_reader_index).
ReturnIncomplete(p) ==
  /\ pc[p] = "linked"
  /\ ~ Usable(build[p].status)
  /\ CurrentOk
  /\ current # NoKey => generation[current] # Absent
  /\ End(p, "returned")
  /\ UNCHANGED <<build, previous, treeVars, captureReader, current, canonical,
                 lookupVars>>

\* The current reader does not pass the validation.
RefuseCurrent(p) ==
  /\ pc[p] = "linked"
  /\ ~ CurrentOk
  /\ End(p, "failed")
  /\ UNCHANGED <<build, previous, treeVars, captureReader, current, canonical,
                 lookupVars>>

\* The link cannot be replaced, or cannot be synced after that.
LinkFails(p) ==
  /\ pc[p] = "linking"
  /\ End(p, "failed")
  /\ captureReader' \in
       {captureReader, [captureReader EXCEPT ![CaptureOf[Key(p)]] = Key(p)]}
  /\ UNCHANGED <<build, previous, treeVars, current, canonical, lookupVars>>

\* An exception at another place: of the adapter or a verification, of the
\* renaming, of a lookup, of the last fsync.  A staging directory is removed.
Fail(p) ==
  /\ pc[p] \in {"waiting", "locked", "linked", "switched"}
  /\ End(p, "failed")
  /\ staging' = staging \ {p}
  /\ UNCHANGED <<build, previous, quarantine, generation, captureReader,
                 current, canonical, lookupVars>>

\* KeyboardInterrupt, which none of the handlers above catches, or SIGKILL,
\* after which a staging directory remains.
Stop(p) ==
  /\ pc[p] \in {"waiting"} \union Publishing
  /\ End(p, IF pc[p] = "half" THEN "cut" ELSE "killed")
  /\ staging' \in {staging, staging \ {p}}
  /\ UNCHANGED <<build, previous, quarantine, generation, captureReader,
                 current, canonical, lookupVars>>

\* Something else alters a published tree.
Damage(k) ==
  /\ k \in Damageable
  /\ generation[k] # Absent
  /\ generation' = [generation EXCEPT ![k] = [claim |-> @.claim, tree |-> Damaged]]
  /\ UNCHANGED <<pc, build, previous, lock, staging, quarantine, captureReader,
                 current, canonical, lookupVars>>

-----------------------------------------------------------------------------
(* Lookup of the current reader *)

\* _validated_current_reader_target reads LATEST-READER, if it is there.
StartLookup(r) ==
  /\ lookup[r] = "idle"
  /\ lookup' = [lookup EXCEPT ![r] = "read"]
  /\ seen' = [seen EXCEPT ![r] = canonical]
  /\ UNCHANGED <<pc, build, previous, lock, treeVars, captureReader, current,
                 canonical>>

\* What was read is compared with the symlink and with the generation; without
\* LATEST-READER the symlink decides alone.
Accepted(r) ==
  IF seen[r] # NoKey
    THEN /\ current = seen[r]
         /\ Intact(seen[r])
         /\ Usable(generation[seen[r]].claim.status)
    ELSE current # NoKey /\ generation[current] # Absent

FinishLookup(r) ==
  /\ lookup[r] = "read"
  /\ \/ /\ Accepted(r)
        /\ lookup' = [lookup EXCEPT ![r] = "found"]
        /\ seen' = [seen EXCEPT ![r] = current]
     \/ /\ ~ Accepted(r)
        /\ lookup' = [lookup EXCEPT ![r] = "refused"]
        /\ UNCHANGED seen
  /\ UNCHANGED <<pc, build, previous, lock, treeVars, captureReader, current,
                 canonical>>

-----------------------------------------------------------------------------
Step(p) ==
  \/ Lock(p) \/ Rename(p) \/ Seal(p) \/ Reuse(p) \/ Quarantine(p)
  \/ LinkCapture(p) \/ SwitchCurrent(p) \/ WriteCanonical(p)
  \/ Return(p) \/ ReturnIncomplete(p) \/ RefuseCurrent(p)

Fault(p) == \/ SealFails(p) \/ WriteCanonicalFails(p) \/ RestoreFails(p)
            \/ LinkFails(p) \/ Fail(p) \/ Stop(p)

Look(r) == StartLookup(r) \/ FinishLookup(r)

Next == \/ \E p \in Procs : Step(p) \/ Fault(p)
        \/ \E p \in Procs, b \in Rendered : Build(p, b)
        \/ \E k \in Keys : Damage(k)
        \/ \E r \in Readers : Look(r)

Spec == Init /\ [][Next]_vars

\* Whoever has rendered goes on, and gets the lock when it is always free.
FairSpec == Spec /\ \A p \in Procs : WF_vars(Step(p))

-----------------------------------------------------------------------------
(* Properties *)

KeyOrNone == Keys \union {NoKey}

\* Every variable has its type.
TypeOK ==
  /\ pc \in [Procs -> Unlocked \union Publishing \union Ended]
  /\ build \in [Procs -> Builds \union {NoBuild}]
  /\ previous \in [Procs -> KeyOrNone]
  /\ lock \in Procs \union {Free}
  /\ staging \subseteq Procs
  /\ quarantine \subseteq Builds
  /\ generation \in [Keys -> Generation \union {Absent}]
  /\ captureReader \in [Captures -> KeyOrNone]
  /\ current \in KeyOrNone
  /\ canonical \in KeyOrNone
  /\ lookup \in [Readers -> {"idle", "read", "found", "refused"}]
  /\ seen \in [Readers -> KeyOrNone]

\* What the collection's pointers name, and what lookups have read.
Current == ({current, canonical} \union {seen[r] : r \in Readers}) \ {NoKey}

Named == Current \union ({captureReader[c] : c \in Captures} \ {NoKey})

\* Nothing names a generation that is not there, also after a publication was
\* rolled back; the current reader is of a usable build (roadmap.md: "An
\* incomplete reader cannot replace the current reader pointer"), and a
\* capture's link leads to one of its own.
NamedIsPublished ==
  /\ \A k \in Named : generation[k] # Absent
  /\ \A k \in Current : Usable(generation[k].claim.status)
  /\ \A c \in Captures :
       captureReader[c] # NoKey => CaptureOf[captureReader[c]] = c

\* Builds of one key that were published are the same build, whoever rendered
\* them and in whatever order they came to the lock: a build that differs is
\* not returned, and not named either.
OneBuildPerKey ==
  \A p, q \in Procs :
    /\ pc[p] = "returned" /\ pc[q] = "returned"
    /\ Key(p) = Key(q)
    => build[p] = build[q]

\* A publication has switched both pointers to its own generation before
\* anybody else switches one: they were moved under one lock.
SwitchedTogether ==
  \A p \in Procs :
    pc[p] = "switched" => current = Key(p) /\ canonical = Key(p)

\* While nobody publishes the two pointers agree, unless a publication was cut
\* off between them.
AgreeUnlessCut ==
  (lock = Free /\ \A p \in Procs : pc[p] # "cut") =>
    canonical = current

\* A generation that something names, or that a lookup has answered, is never
\* removed or rewritten by the program ("New generations are immutable").
NamedStays ==
  [][\A k \in Named :
       \/ generation'[k] = generation[k]
       \/ /\ k \in Damageable
          /\ generation'[k] = [claim |-> generation[k].claim, tree |-> Damaged]
    ]_vars

\* Pointers that disagree are never resolved by guessing: no publication moves
\* either of them (_validated_current_reader_target).
RefusesDisagreement ==
  [][canonical # NoKey /\ canonical # current
       /\ (\A p \in Procs : pc[p] # "half")
     => UNCHANGED <<canonical, current>>]_vars

\* Whoever waits for the lock comes to an end: nobody keeps it.
PublicationEnds == \A p \in Procs : pc[p] = "waiting" ~> pc[p] \in Ended

-----------------------------------------------------------------------------
(* The inductive invariant *)

\* The lock is held by who is publishing, and only by one.
LockInv == \A p \in Procs : pc[p] \in Publishing <=> lock = p

\* An invocation that is past the renaming has its generation, sealed or not.
BuildInv ==
  \A p \in Procs :
    /\ pc[p] # "idle" => build[p] \in Builds
    /\ pc[p] \in {"renamed", "linking", "linked", "half", "switched", "returned"} =>
         /\ generation[Key(p)] # Absent
         /\ generation[Key(p)].claim = build[p]
    /\ pc[p] \in {"half", "switched"} => Usable(build[p].status)

\* What is not sealed yet is not named, nor returned by another invocation.
UnsealedInv ==
  \A p \in Procs :
    pc[p] = "renamed" =>
      /\ Key(p) \notin Named
      /\ \A q \in Procs : pc[q] = "returned" => Key(q) # Key(p)

\* Between the two replacements the old target is remembered.
SwitchInv ==
  \A p \in Procs :
    pc[p] = "half" =>
      /\ current = Key(p)
      /\ canonical # NoKey => canonical = previous[p]
      /\ previous[p] # NoKey =>
           /\ generation[previous[p]] # Absent
           /\ Usable(generation[previous[p]].claim.status)
      /\ (\A q \in Procs : pc[q] # "cut") => previous[p] = canonical

\* Without a cut, only the publication in progress keeps the pointers apart.
AgreeUnlessHalf ==
  (\A p \in Procs : pc[p] \notin {"half", "cut"}) => canonical = current

IInv == /\ TypeOK /\ LockInv /\ BuildInv /\ UnsealedInv /\ SwitchInv
        /\ NamedIsPublished /\ OneBuildPerKey /\ SwitchedTogether
        /\ AgreeUnlessHalf
=============================================================================
