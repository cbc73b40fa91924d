------------------------------ MODULE Capture ------------------------------
(***************************************************************************)
(* Capture execution for one collection: `text-preserver capture`.         *)
(*                                                                         *)
(* Several invocations plan independently, compete for the collection's    *)
(* flock, acquire their sources one after another into a directory of      *)
(* their own, seal it with a manifest, verify it, and move the capture     *)
(* pointers.  Any of them may be interrupted, fail or be killed at any     *)
(* step; a capture may be damaged on disk once it is sealed.               *)
(*                                                                         *)
(* A capture directory is abstracted to what the pointers depend on: the   *)
(* content of capture.json (status, selected sources, results), the        *)
(* resolved collection, what the manifest recorded of them, and whether a  *)
(* temporary file of the manifest's publication was left behind.           *)
(***************************************************************************)
EXTENDS CaptureStatus, FiniteSets

CONSTANTS
  Procs,      \* capture invocations
  NoProc,     \* the owner of a free lock
  Ids,        \* capture identifiers
  Stamp,      \* Stamp[c]: the timestamp in the identifier c, in seconds
  NoCapture,  \* the value of a pointer that does not exist
  Sources,    \* source identifiers
  Required,   \* the sources the collection marks required
  Acquired,   \* the name LATEST-ACQUIRED
  Tried,      \* bound: the outcomes of a source that are tried
  MaxDamage   \* bound: how many captures are damaged on disk

ASSUME StampAssumption == Stamp \in [Ids -> Nat]
ASSUME NamesAssumption == /\ NoProc \notin Procs
                          /\ NoCapture \notin Ids
                          /\ Acquired \notin Sources
ASSUME TriedAssumption == Tried \subseteq Outcomes

\* LATEST-ACQUIRED and one LATEST-<source> per source.
Names == Sources \union {Acquired}

\* What an invocation was asked for: the sources the configuration names,
\* those to acquire, and whether that is because no source was asked for.
Requests ==
  {r \in [configured: SUBSET Sources, selected: SUBSET Sources, full: BOOLEAN] :
     /\ r.selected # {} /\ r.selected \subseteq r.configured
     /\ r.full => r.selected = r.configured}

VARIABLES
  lock,       \* the invocation that holds the collection's flock
  pc,         \* pc[p]: how far the invocation p has come
  cap,        \* cap[p]: the capture identifier p planned
  ask,        \* ask[p]: what p was asked for
  todo,       \* todo[p]: the pointers p has yet to consider
  naming,     \* naming[p]: the pointer p has decided to replace
  status,     \* status[c]: "absent", "empty" (no capture.json) or its status
  scope,      \* scope[c]: selected sources, and the resolved collection
  results,    \* results[c]: the results in capture.json
  manifest,   \* manifest[c]: the status the manifest vouches for
  temporary,  \* captures holding the temporary file of a manifest link
  damaged,    \* sealed captures altered behind the program's back
  pointer     \* pointer[n]: the capture the file n names

procVars == <<lock, pc, cap, ask, todo, naming>>
diskVars == <<status, scope, results, manifest, temporary, damaged, pointer>>
vars     == <<lock, pc, cap, ask, todo, naming, status, scope, results,
              manifest, temporary, damaged, pointer>>

Locked == {"locked", "opening", "setup", "sources", "sealing", "linked",
           "syncing", "verifying", "pointing", "replacing"}
Ended  == {"refused", "interrupted", "failed", "stopped", "returned"}

\* p has created the directory of its capture.
Owning(p) == pc[p] \notin {"idle", "planned", "locked", "refused"}

Sealed(c) == manifest[c] # "unsealed"

NothingReported == [s \in Sources |-> "none"]

NoRequest == [configured |-> {}, selected |-> {}, full |-> TRUE]

Init ==
  /\ lock = NoProc
  /\ pc = [p \in Procs |-> "idle"]
  /\ cap = [p \in Procs |-> NoCapture]
  /\ ask = [p \in Procs |-> NoRequest]
  /\ todo = [p \in Procs |-> {}]
  /\ naming = [p \in Procs |-> Acquired]
  /\ status = [c \in Ids |-> "absent"]
  /\ scope = [c \in Ids |-> NoRequest]
  /\ results = [c \in Ids |-> NothingReported]
  /\ manifest = [c \in Ids |-> "unsealed"]
  /\ temporary = {}
  /\ damaged = {}
  /\ pointer = [n \in Names |-> NoCapture]

Goto(p, label) == pc' = [pc EXCEPT ![p] = label]

\* The invocation ends and its descriptor of the lock file is closed.
Leave(p, label) == Goto(p, label) /\ lock' = NoProc

-----------------------------------------------------------------------------
(* Planning and the collection lock *)

\* plan_capture: the identifier is generated, or given with --capture-id, and
\* must not name an existing directory yet; nothing is locked.
Plan(p, c, r) ==
  /\ pc[p] = "idle"
  /\ status[c] = "absent"
  /\ cap' = [cap EXCEPT ![p] = c]
  /\ ask' = [ask EXCEPT ![p] = r]
  /\ Goto(p, "planned")
  /\ UNCHANGED <<lock, todo, naming, diskVars>>

\* collection_lock: flock(LOCK_EX | LOCK_NB) succeeds.
Acquire(p) ==
  /\ pc[p] = "planned"
  /\ lock = NoProc
  /\ lock' = p
  /\ Goto(p, "locked")
  /\ UNCHANGED <<cap, ask, todo, naming, diskVars>>

\* "another capture is active for collection": no waiting, no retry.
Refuse(p) ==
  /\ pc[p] = "planned"
  /\ lock # NoProc
  /\ Goto(p, "refused")
  /\ UNCHANGED <<lock, cap, ask, todo, naming, diskVars>>

\* mkdir(exist_ok=False).
MakeDirectory(p) ==
  /\ pc[p] = "locked"
  /\ status[cap[p]] = "absent"
  /\ status' = [status EXCEPT ![cap[p]] = "empty"]
  /\ Goto(p, "opening")
  /\ UNCHANGED <<lock, cap, ask, todo, naming, scope, results, manifest,
                 temporary, damaged, pointer>>

\* The directory exists, was created since planning, or cannot be created.
\* A kill between the lock and the directory has the same effect.
MakeDirectoryFails(p) ==
  /\ pc[p] = "locked"
  /\ Leave(p, "refused")
  /\ UNCHANGED <<cap, ask, todo, naming, diskVars>>

-----------------------------------------------------------------------------
(* Acquisition *)

\* The first capture.json: status "running".
OpenCapture(p) ==
  /\ pc[p] = "opening"
  /\ status' = [status EXCEPT ![cap[p]] = "running"]
  /\ scope' = [scope EXCEPT ![cap[p]] = ask[p]]
  /\ Goto(p, "setup")
  /\ UNCHANGED <<lock, cap, ask, todo, naming, results, manifest, temporary,
                 damaged, pointer>>

\* Metadata directories, recipe bundle, environment, resolved collection.
SetUp(p) ==
  /\ pc[p] = "setup"
  /\ Goto(p, "sources")
  /\ UNCHANGED <<lock, cap, ask, todo, naming, diskVars>>

Pending(p) == ask[p].selected \ Reported(results[cap[p]])

\* One turn of the source loop, result appended and capture.json rewritten.
\* The order of the sources is the configuration's: any order.
RunSource(p, s, o) ==
  /\ pc[p] = "sources"
  /\ s \in Pending(p)
  /\ results' = [results EXCEPT ![cap[p]][s] = SourceStatus(o)]
  /\ UNCHANGED <<procVars, status, scope, manifest, temporary, damaged, pointer>>

\* A KeyboardInterrupt (Ctrl-C, SIGTERM, SIGHUP) inside a source.
InterruptSource(p, s) ==
  /\ pc[p] = "sources"
  /\ s \in Pending(p)
  /\ results' = [results EXCEPT ![cap[p]][s] = "interrupted"]
  /\ status' = [status EXCEPT ![cap[p]] = "interrupted"]
  /\ Leave(p, "interrupted")
  /\ UNCHANGED <<cap, ask, todo, naming, scope, manifest, temporary, damaged,
                 pointer>>

\* A plausible slip: the handler re-raises before the terminal write.
InterruptUnrecorded(p) ==
  /\ pc[p] \in {"setup", "sources"}
  /\ Leave(p, "interrupted")
  /\ UNCHANGED <<cap, ask, todo, naming, diskVars>>

\* A KeyboardInterrupt during setup or between two sources.
Interrupt(p) ==
  /\ pc[p] \in {"setup", "sources"}
  /\ status' = [status EXCEPT ![cap[p]] = "interrupted"]
  /\ Leave(p, "interrupted")
  /\ UNCHANGED <<cap, ask, todo, naming, scope, results, manifest, temporary,
                 damaged, pointer>>

\* Any other exception there: "capture failed during setup or finalization".
ExecutionFails(p) ==
  /\ pc[p] \in {"setup", "sources"}
  /\ status' = [status EXCEPT ![cap[p]] = "failed"]
  /\ Leave(p, "failed")
  /\ UNCHANGED <<cap, ask, todo, naming, scope, results, manifest, temporary,
                 damaged, pointer>>

\* All sources are over: the terminal capture.json.
WriteTerminalCapture(p) ==
  /\ pc[p] = "sources"
  /\ Pending(p) = {}
  /\ status' = [status EXCEPT ![cap[p]] =
                  AggregateStatus(results[cap[p]], Required)]
  /\ Goto(p, "sealing")
  /\ UNCHANGED <<lock, cap, ask, todo, naming, scope, results, manifest,
                 temporary, damaged, pointer>>

-----------------------------------------------------------------------------
(* Sealing and verification *)

\* finalize_capture: scan, SHA256SUMS, and os.link of the manifest's temporary
\* file to its name.
LinkManifest(p) ==
  /\ pc[p] = "sealing"
  /\ ~ Sealed(cap[p])
  /\ manifest' = [manifest EXCEPT ![cap[p]] = status[cap[p]]]
  /\ temporary' = temporary \union {cap[p]}
  /\ Goto(p, "linked")
  /\ UNCHANGED <<lock, cap, ask, todo, naming, status, scope, results, damaged,
                 pointer>>

\* _atomic_write_bytes: temporary.unlink().
UnlinkTemporary(p) ==
  /\ pc[p] = "linked"
  /\ temporary' = temporary \ {cap[p]}
  /\ Goto(p, "syncing")
  /\ UNCHANGED <<lock, cap, ask, todo, naming, status, scope, results, manifest,
                 damaged, pointer>>

\* _atomic_write_bytes: fsync of the capture directory.
SyncDirectory(p) ==
  /\ pc[p] = "syncing"
  /\ Goto(p, "verifying")
  /\ UNCHANGED <<lock, cap, ask, todo, naming, diskVars>>

\* A plausible slip: the try statement also covers the pointer updates.
FinalizeFailsLate(p) ==
  /\ pc[p] \in {"sealing", "linked", "syncing", "pointing", "replacing"}
  /\ status' = [status EXCEPT ![cap[p]] = "failed"]
  /\ temporary' \in {temporary, temporary \ {cap[p]}}
  /\ Leave(p, "failed")
  /\ UNCHANGED <<cap, ask, todo, naming, scope, results, manifest, damaged,
                 pointer>>

\* An OSError or ManifestError out of finalize_capture, before or after the
\* manifest has its name: capture.json is rewritten as "failed".  The finally
\* of _atomic_write_bytes tries once more to unlink the temporary file.
FinalizeFails(p) ==
  /\ pc[p] \in {"sealing", "linked", "syncing"}
  /\ status' = [status EXCEPT ![cap[p]] = "failed"]
  /\ temporary' \in {temporary, temporary \ {cap[p]}}
  /\ Leave(p, "failed")
  /\ UNCHANGED <<cap, ask, todo, naming, scope, results, manifest, damaged,
                 pointer>>

\* verify_capture(c).ok: the manifest is there, and every object under the
\* capture, no more and no less, has the digest it records.  (A "failed"
\* capture.json that is rewritten as "failed" passes here and not there; no
\* pointer asks for such a capture.)
Verified(c) ==
  /\ Sealed(c)
  /\ manifest[c] = status[c]
  /\ c \notin temporary
  /\ c \notin damaged

\* A plausible slip: a source pointer follows any result that kept something.
PointersToMoveWithPayload(p) ==
  {s \in Sources : HasPayload(results[cap[p]][s])}
    \union (IF ask[p].full /\ status[cap[p]] = "complete" THEN {Acquired} ELSE {})

\* A plausible slip: a source-filtered capture is eligible as well.
PointersToMoveFiltered(p) ==
  {s \in Sources : results[cap[p]][s] \in Successful}
    \union (IF status[cap[p]] = "complete" THEN {Acquired} ELSE {})

\* The pointers _execute_plan will consider after verification.
PointersToMove(p) ==
  {s \in Sources : results[cap[p]][s] \in Successful}
    \union (IF ask[p].full /\ status[cap[p]] = "complete" THEN {Acquired} ELSE {})

VerifySucceeds(p) ==
  /\ pc[p] = "verifying"
  /\ Verified(cap[p])
  /\ todo' = [todo EXCEPT ![p] = PointersToMove(p)]
  /\ Goto(p, "pointing")
  /\ UNCHANGED <<lock, cap, ask, naming, diskVars>>

\* A plausible slip: the error leaves the lock as it is.
VerifyFailsHolding(p) ==
  /\ pc[p] = "verifying"
  /\ ~ Verified(cap[p])
  /\ Goto(p, "failed")
  /\ UNCHANGED <<lock, cap, ask, todo, naming, diskVars>>

\* "capture failed immediate fixity verification"; nothing is written.
VerifyFails(p) ==
  /\ pc[p] = "verifying"
  /\ ~ Verified(cap[p])
  /\ Leave(p, "failed")
  /\ UNCHANGED <<cap, ask, todo, naming, diskVars>>

-----------------------------------------------------------------------------
(* Pointers *)

\* _valid_pointer_target.
ValidTarget(c, n) ==
  /\ Verified(c)
  /\ IF n = Acquired
       THEN IsCompleteFullCapture(status[c], scope[c].selected, results[c],
                                  scope[c].configured)
       ELSE results[c][n] \in Successful

\* A plausible slip: the comparison of the timestamps the wrong way round.
KeepsReversed(c, n) ==
  /\ pointer[n] # NoCapture
  /\ Stamp[pointer[n]] < Stamp[c]
  /\ ValidTarget(pointer[n], n)

\* _update_latest leaves a pointer alone that names a later, valid capture.
Keeps(c, n) ==
  /\ pointer[n] # NoCapture
  /\ Stamp[pointer[n]] > Stamp[c]
  /\ ValidTarget(pointer[n], n)

\* LATEST-ACQUIRED is considered before the source pointers.
NextPointers(p) == IF Acquired \in todo[p] THEN {Acquired} ELSE todo[p]

KeepPointer(p, n) ==
  /\ pc[p] = "pointing"
  /\ n \in NextPointers(p)
  /\ Keeps(cap[p], n)
  /\ todo' = [todo EXCEPT ![p] = @ \ {n}]
  /\ UNCHANGED <<lock, pc, cap, ask, naming, diskVars>>

ChoosePointer(p, n) ==
  /\ pc[p] = "pointing"
  /\ n \in NextPointers(p)
  /\ ~ Keeps(cap[p], n)
  /\ naming' = [naming EXCEPT ![p] = n]
  /\ Goto(p, "replacing")
  /\ UNCHANGED <<lock, cap, ask, todo, diskVars>>

\* os.replace of the temporary pointer file.
ReplacePointer(p) ==
  /\ pc[p] = "replacing"
  /\ pointer' = [pointer EXCEPT ![naming[p]] = cap[p]]
  /\ todo' = [todo EXCEPT ![p] = @ \ {naming[p]}]
  /\ Goto(p, "pointing")
  /\ UNCHANGED <<lock, cap, ask, naming, status, scope, results, manifest,
                 temporary, damaged>>

Return(p) ==
  /\ pc[p] = "pointing"
  /\ todo[p] = {}
  /\ Leave(p, "returned")
  /\ UNCHANGED <<cap, ask, todo, naming, diskVars>>

-----------------------------------------------------------------------------
(* Abrupt ends and damage *)

\* A second interruption, an error in a handler, an interruption after the
\* try statement, or SIGKILL: nothing more is written and the kernel drops the
\* flock.  An exception still runs the finally that unlinks the temporary.
Stop(p) ==
  /\ pc[p] \in Locked \ {"locked"}
  /\ temporary' \in {temporary, temporary \ {cap[p]}}
  /\ Leave(p, "stopped")
  /\ UNCHANGED <<cap, ask, todo, naming, status, scope, results, manifest,
                 damaged, pointer>>

\* A sealed capture is altered: bit rot, or an operator's edit.
Damage(c) ==
  /\ Sealed(c)
  /\ Cardinality(damaged) < MaxDamage
  /\ damaged' = damaged \union {c}
  /\ UNCHANGED <<procVars, status, scope, results, manifest, temporary, pointer>>

-----------------------------------------------------------------------------
\* What the program does of its own accord once it has planned.
Step(p) ==
  \/ Acquire(p) \/ Refuse(p) \/ MakeDirectory(p) \/ MakeDirectoryFails(p)
  \/ OpenCapture(p) \/ SetUp(p)
  \/ \E s \in Sources, o \in Tried : RunSource(p, s, o)
  \/ WriteTerminalCapture(p) \/ LinkManifest(p) \/ UnlinkTemporary(p)
  \/ SyncDirectory(p) \/ VerifySucceeds(p) \/ VerifyFails(p)
  \/ \E n \in Names : KeepPointer(p, n) \/ ChoosePointer(p, n)
  \/ ReplacePointer(p) \/ Return(p)

Fault(p) ==
  \/ \E s \in Sources : InterruptSource(p, s)
  \/ Interrupt(p) \/ ExecutionFails(p) \/ FinalizeFails(p) \/ Stop(p)

Next ==
  \/ \E p \in Procs :
       \/ \E c \in Ids, r \in Requests : Plan(p, c, r)
       \/ Step(p)
       \/ Fault(p)
  \/ \E c \in Ids : Damage(c)

Spec == Init /\ [][Next]_vars

-----------------------------------------------------------------------------
(* Properties *)

CaptureJsonStatuses == {"absent", "empty", "running", "interrupted"}
              \union CaptureStatuses

\* Every variable has its type.
TypeOK ==
  /\ lock \in Procs \union {NoProc}
  /\ pc \in [Procs -> {"idle", "planned"} \union Locked \union Ended]
  /\ cap \in [Procs -> Ids \union {NoCapture}]
  /\ \A p \in Procs : pc[p] # "idle" => cap[p] \in Ids
  /\ ask \in [Procs -> [configured: SUBSET Sources, selected: SUBSET Sources,
                        full: BOOLEAN]]
  /\ todo \in [Procs -> SUBSET Names]
  /\ naming \in [Procs -> Names]
  /\ status \in [Ids -> CaptureJsonStatuses]
  /\ scope \in [Ids -> [configured: SUBSET Sources, selected: SUBSET Sources,
                        full: BOOLEAN]]
  /\ results \in [Ids -> [Sources -> SourceStatuses
                                       \union {"none", "interrupted"}]]
  /\ manifest \in [Ids -> CaptureJsonStatuses \union {"unsealed"}]
  /\ temporary \in SUBSET Ids
  /\ damaged \in SUBSET Ids
  /\ pointer \in [Names -> Ids \union {NoCapture}]

\* collection_lock: of all the invocations only one is between taking the lock
\* and leaving, whatever interrupted or killed the others.
OneAtATime ==
  \A p, q \in Procs : pc[p] \in Locked /\ pc[q] \in Locked => p = q

\* LATEST-ACQUIRED names an unfiltered capture whose every configured source
\* is complete and whose manifest says so; it verifies unless it was damaged
\* after it was sealed (_execute_plan, _update_latest).
AcquiredIsFullAndComplete ==
  LET c == pointer[Acquired] IN
    c # NoCapture =>
      /\ scope[c].full
      /\ IsCompleteFullCapture(manifest[c], scope[c].selected, results[c],
                               scope[c].configured)
      /\ Verified(c) \/ c \in damaged

\* LATEST-<source> names a capture in which that source succeeded, and which
\* verifies unless it was damaged after it was sealed.
SourcePointersNameSuccess ==
  \A s \in Sources :
    LET c == pointer[s] IN
      c # NoCapture => /\ results[c][s] \in Successful
                       /\ Verified(c) \/ c \in damaged

\* A capture.json that is missing or says "running" belongs to an invocation
\* that is still at work or was cut short without a chance to record it: each
\* handled interruption and failure leaves a terminal status.
RunningIsAttended ==
  \A c \in Ids :
    status[c] \in {"empty", "running"} =>
      \E p \in Procs : /\ Owning(p)
                       /\ cap[p] = c
                       /\ pc[p] \in Locked \union {"stopped"}

\* As long as nothing is damaged, a capture whose invocation returned is named
\* by each of its pointers, or a capture that is not older is: two invocations
\* that planned in one order and finished in the other lose neither.
ReturnedIsNamed ==
  damaged = {} =>
    \A p \in Procs :
      pc[p] = "returned" =>
        \A n \in PointersToMove(p) :
          /\ pointer[n] # NoCapture
          /\ Stamp[pointer[n]] >= Stamp[cap[p]]

\* A pointer never goes away, and goes back to an older capture only when the
\* one it named is no longer a valid target.
PointersNeverRegress ==
  [][\A n \in Names :
       pointer[n] # NoCapture =>
         /\ pointer'[n] # NoCapture
         /\ \/ Stamp[pointer'[n]] >= Stamp[pointer[n]]
            \/ ~ ValidTarget(pointer[n], n)]_vars

\* No step of the program rewrites a capture that a pointer names.
PointedIsImmutable ==
  [][\A n \in Names :
       LET c == pointer[n] IN
         c # NoCapture => /\ status'[c] = status[c]
                          /\ results'[c] = results[c]
                          /\ scope'[c] = scope[c]
                          /\ manifest'[c] = manifest[c]
                          /\ (c \in temporary') <=> (c \in temporary)]_vars

\* The capture pointers implement the pointer register: a capture is granted
\* the names its manifest supports when the manifest is in place and alone,
\* and is lost when its bytes stop matching the manifest.
Fits(c, n) ==
  IF n = Acquired
    THEN IsCompleteFullCapture(manifest[c], scope[c].selected, results[c],
                               scope[c].configured)
    ELSE results[c][n] \in Successful

Granted ==
  [n \in Names |-> {c \in Ids : Sealed(c) /\ c \notin temporary /\ Fits(c, n)}]

Lost == damaged \union {c \in Ids : Sealed(c) /\ manifest[c] # status[c]}

Register == INSTANCE PointerRegister
              WITH granted <- Granted, lost <- Lost, latest <- pointer

RegisterSpec == Register!RegisterSpec

\* "another capture is active for collection": an invocation is turned away
\* only because another is at work at that moment, and never by the lock of one
\* that has failed, returned, or was interrupted or killed.
RefusedWhileActive ==
  [][\A p \in Procs :
       pc[p] = "planned" /\ pc'[p] = "refused" =>
         \E q \in Procs : q # p /\ pc[q] \in Locked]_vars

-----------------------------------------------------------------------------
(* What the documentation says, and the code does not guarantee *)

\* "Keep finalized captures immutable" (docs/design.md:271): the capture.json
\* of a sealed capture is not rewritten.
SealedIsImmutable ==
  [][\A c \in Ids : Sealed(c) => status'[c] = status[c]]_vars
=============================================================================
