# text-preserver in TLA+

text-preserver captures collections of texts from the web into an archive that
is never rewritten, and derives validations, static readers, a search catalogue
and export packages from it. Everything it keeps is a file; its processes meet
only in directories, lock files and pointer files. This directory holds TLA+
modules of that behaviour, the TLC configurations that check them on small
instances, and proofs for the TLA+ proof system. Paths below are relative to
the repository's `src/text_preserver/`.

## 1. Inventory

| part | state it keeps | operations | met by |
|---|---|---|---|
| planning, `preservation/capture/plan.py` | none (an identifier with a timestamp, chosen before any lock) | `plan_capture` | capture execution |
| capture execution, `preservation/capture/execute.py` | one directory per capture: `capture.json`, `metadata/`, `sources/*/`; the flock `locks/<collection>.lock` | `execute_capture`: lock, create, set up, one source after the other, terminal status, seal, verify, move pointers; handlers for signals, errors | fixity, pointers |
| GNU Wget runs and reviewed redirects, same file and `capture/engines/wget.py` | mirror and WARC files, `redirects.json`, `command.json`, `result.json` | `_run_wget`, `_run_reviewed_redirects` | capture execution |
| fixity, `preservation/fixity.py` | `SHA256SUMS`, `manifest-sha256.json` of a capture | `finalize_capture`, `verify_capture`, `is_complete_full_capture` | everything that reads a capture |
| capture pointers, `_update_latest` | `LATEST-ACQUIRED`, `LATEST-<source>` | replace, or leave alone a later valid target | validation, reader, lifecycle |
| recipe bundles, `preservation/recipe_bundle.py` | a copy of the recipe directory and its manifest | scan, copy, verify | capture execution, adapter process |
| validation, `preservation/validation.py` | `validations/<id>/report.json`, `LATEST`, `LATEST-VALIDATED`; no lock | `analyze_preservation` | adapter process, pointers |
| derived reader, `access/reader.py` | `reader-generations/<key>`, the link `reader`, `LATEST-READER`, `.reader.lock` | `build_static_reader`, quarantine | adapter process, catalogue |
| access model, `access/reader_model.py` | none | accept or refuse a typed access graph | reader, catalogue |
| catalogue, `access/catalogue.py` | `catalogue-generations/<key>`, `LATEST-CATALOGUE`, `.catalogue.lock` | `build_catalogue`, `search_catalogue` | reader |
| adapter process, `adapter_process.py`, `adapter_worker.py` | a child process, two drain threads, limits | `invoke_adapter` | validation, reader |
| exports, `preservation/payload_roles.py`, `preservation/bagit.py`, `access/wacz.py` | a staged directory or file, moved to its place without replacement | create, validate | fixity |
| lifecycle report, `lifecycle.py` | none | read-only summary | all of the above |
| configuration, renderer, recipes, command line | none that outlives a call | parsing, rendering, dispatch | |

What is hard here:

* **Interleaving.** Two invocations for one collection, an editor in the recipe
  directory, two analyses without a lock, two publications of the same reader,
  two catalogue builds and searches that take no lock.
* **Order.** A capture is ordered by the timestamp in its identifier, which is
  chosen before the lock is taken; the one that finishes last may be the older.
  The catalogue reads the readers before it takes its lock.
* **Interruption and crash.** SIGINT, SIGTERM and SIGHUP become
  `KeyboardInterrupt` at any point; SIGKILL and power loss stop between any two
  file operations. Publication is by link or rename, but several names are
  published one after the other.
* **Partial failure.** An operation fails after its effect is visible (the
  manifest is linked and the directory fsync fails; a catalogue generation is
  renamed and then removed again).
* **Staleness.** A pointer's target is verified, then replaced; captures can be
  damaged after they were sealed, also while they are exported.
* **Supervision.** A Wget child in its own session outlives its parent; an
  adapter's timeout races its exit, and its descendants hold the pipes open.

`PROJECT.json` lists each hazard at its line with the properties that cover it,
or the reason why none does.

What makes each part correct, in a sentence: one capture works on a collection at a time;
a capture directory is written by one invocation and never after it was sealed;
each pointer names a capture of the kind its name promises, and never goes back
from an intact capture to an older one; a finished capture is never lost to the
pointers by a race; an interrupted capture says so; a recipe is preserved and
run as files that were there together; a validation report, a
reader generation and a catalogue generation are written once and then only
read; each current pointer names a complete one of them, also after a crash; an
export is complete or absent, and holds what was sealed; a redirect is followed
only along reviewed edges and within its limits; an adapter's answer is used only
when the worker ended well within its limits.

## 2. Modules

| module | models | extends |
|---|---|---|
| `CaptureStatus` | status of a source, of a capture, `is_complete_full_capture` | |
| `Capture` | one collection: invocations, lock, capture directories, sealing, verification, pointers, faults | `CaptureStatus` |
| `PointerRegister` | abstract: what the pointers promise to a reader | |
| `CaptureInv` | the inductive invariant of `Capture`, in named parts | `Capture` |
| `CaptureProofs` | the status operators; invariance, action properties | `CaptureInv` |
| `CaptureRefinement` | `Capture` implements `PointerRegister` | `CaptureProofs` |
| `Redirects` | one source: its Wget invocations and the worklist of reviewed redirects | `CaptureStatus` |
| `RedirectsProofs` | invariance of the worklist | `Redirects` |
| `RecipeBundle` | a recipe directory, its editor, and who copies it | |
| `AdapterProcess` | the supervising program, the worker, a descendant, the pipes | |
| `Adapter` | composition: the worker runs in the snapshot that was made | `RecipeBundle`, `AdapterProcess` |
| `AdapterProofs` | invariance for all three | `Adapter` |
| `ReaderPublication` | the derived readers of one collection: generations, pointers, lookups | |
| `ReaderPublicationProofs` | invariance, action properties | `ReaderPublication` |
| `Validation` | the validations of one collection: reports, pointers, an inspection of them | `PointerRegister` (instance) |
| `ValidationProofs` | invariance, action properties, refinement | `Validation` |
| `Catalogue` | builds of the catalogue, their lock, generations and failures; searches | |
| `AccessGraph` | which access graphs are accepted, and which the database takes | |
| `CatalogueGraphs` | composition: what a reader is good for is what its graph says | `Catalogue`, `AccessGraph` |
| `CatalogueProofs` | invariance, action properties, the keys of the database | `CatalogueGraphs` |
| `PayloadRoles` | the roles of files and the export policies | |
| `BagIt`, `Wacz` | a bag and a WACZ package, their making and their validation | |
| `Export` | exports of one capture while it is altered and the destination is taken | the three above |
| `ExportProofs` | packages and their faults, indexes; invariance, action properties | `MCExport` |
| `MCCapture`, `MCRedirects`, `MCReaderPublication`, `MCValidation`, `MCAdapter`, `MCCatalogue`, `MCExport` | instances for TLC; `MCExport` also states what an exact index is | |

### CaptureStatus

What a source came to is a record: the verdict on its exit codes, whether a
payload was kept, whether there was a warning. `SourceStatus` is the end of
`_execute_source`, and of `_failed_source_result` for an `OSError`;
`AggregateStatus` is `_aggregate_status`; `IsCompleteFullCapture` is the
function in `fixity.py` over the written record. Results are functions from
sources to statuses, `"none"` before the source is over. A duplicate source
identifier, which the code also rejects, cannot be expressed: `config.py` and
`_select_sources` refuse them earlier.

### Capture

`pc[p]` runs through `execute_capture` and `_execute_plan`:

    idle -Plan-> planned -Acquire-> locked -MakeDirectory-> opening
      -OpenCapture-> setup -SetUp-> sources (RunSource ...) -WriteTerminalCapture->
      sealing -LinkManifest-> linked -UnlinkTemporary-> syncing -SyncDirectory->
      verifying -VerifySucceeds-> pointing <-> replacing ... -Return-> returned

Each arrow ends at a point where another process, a signal or a kill can see a
difference on disk. The checks that a pointer stays and that it is replaced are
two steps (`ChoosePointer`, `ReplacePointer`) because verifying the current
target takes long. A capture directory is `status` (of `capture.json`, with
`"absent"` for no directory and `"empty"` for no `capture.json`), `scope`
(selected sources; the resolved collection), `results`, and `manifest`, the
status the manifest vouches for. `Verified` holds when the manifest is in place,
vouches for what is there, and no temporary file of its publication is left.
`ask[p].full` is the code's `eligible_for_latest`: a request that names every
source is not full, although it selects the same sources.

Faults: `InterruptSource`, `Interrupt` and `ExecutionFails` are the three
handlers around the acquisition; `FinalizeFails` the handler around sealing;
`Stop` covers everything that ends an invocation without a handler (SIGKILL, a
second signal, a signal or an error after the try statement, an error inside a
handler), with or without the `finally` that removes the temporary file;
`Damage` alters a sealed capture from outside.

What is abstracted: file contents (a capture is its status record), the
identifier's random suffix, the text of errors, `payload_roles`, and everything
inside one source, which is one step with any outcome (`Redirects` is what is
inside). A process that dies
leaves no half-written `capture.json`, since it is replaced by rename. What a
power loss does to a rename that was not yet synced is not modelled.

### Redirects

What `RunSource` of `Capture` does in one step is here a state machine over
`_execute_source`, `_run_wget` and `_run_reviewed_redirects`:

    idle -Prepare-> requesting -StartWget-> fetching -WgetEnds-> scanning
      -Scan-> choosing -FollowRedirect-> noting -NoteCommand-> requesting ...
    choosing -NothingToFollow | QuotaExhausted-> judging -Judge-> ended

`depth` is the code's `depths`, its domain the code's `visited`, `next` the
redirect being followed. `record` and `commands` are `redirects.json` and
`command.json`: the in-memory sets and the files are separate variables, since
a kill falls between them. `runs` holds what each invocation was asked for and
how it ended, and is at once the code's list of invocations and the history the
properties speak of. `Judge` reuses `SourceStatus`.

`wget` says whether a child is alive. A signal or an error during the wait
sends SIGTERM (`Terminate`), after which the program waits (`Reaped`); a second
signal leaves the child behind (`InterruptReaping`), and so does SIGKILL
(`Kill`), since the child has a session of its own.

The servers and the reviewed configuration are arbitrary: `Answers` are the
responses that may be kept, `Reviews` the configurations. Wget is external;
`MayKeep` says which responses an invocation can keep, and `Canonical` under
which URL Wget records what it was asked for (it adds a missing `/` and drops a
default port). A scan sees any subset of what was kept, which stands for its
limits on bytes and records and for unreadable files. The order in which
candidates were discovered is abstracted (any candidate may be next), and so is
the arithmetic of the quota (it may be exhausted whenever there is a candidate).

### RecipeBundle, AdapterProcess, Adapter

`RecipeBundle` is one copy of a recipe directory that somebody edits meanwhile.
The directory is walked folder by folder and then read file by file, twice, and
copied file by file, in an order that depends on what the copy is for:

    preserve   scan-hash, copy, rescan-rehash, toml -FileBundle-> filed
    run        scan-hash, digest, open, rescan-rehash, copy -Copied-> launched

`ListFolder` is one `os.scandir`, `LookAt` the `stat` of one entry (or the check
of one declared path, `_validate_path_components`), `Open` and `Hash` the
beginning and the end of `_hash_regular_file`; the editor may act between any two
of them. An editor may put a new file in the place of one that is open (the reader
goes on with the old one), or write into it (which the code's comparison of `fstat`
before and after notices). What is listed and what is looked at may be different
things. The content of a file is the number of the edit that wrote it, so that
equal digests mean that nothing was edited; that an edit restores an earlier
content is excluded. Folders may be listed in any order, and one that is empty is
as good as absent, since an inventory has files only. `moment` and `seen` are
history variables: what the directory held when the second walk began, and what each folder held when that walk listed
it. `origin` distinguishes a recipe of its own, the assets of an
inline collection, and the bundle inside a capture, which must match its
manifest. A refusal stands for every `RecipeBundleError` and `OSError`.

`BundleWasThere` says that the files of a bundle were all in the directory at
`moment`, with the contents that were copied, and that each folder held them
and no others when it was listed (an inline collection lists no folders: only its
declared files are looked at). It does not say that nothing else was in the
directory at `moment`: a file that is moved from folder to folder ahead of both walks is in
neither inventory, and the two agree.

`AdapterProcess` is `_run_worker` as a state machine of three parties:

    program  ready -Spawn-> sending -Send-> polling <-> checking
             ... -> terminating -Term-> grace -Grace | Kill-> reaping
             -> sweeping -> joining -> collecting -> judging -> returned
    worker   reading -> running -> writing -> exited (or killed, crashed)
    adapter  ignores SIGTERM, starts a descendant, floods the pipe, fills the
             output directory

`terminating` is entered from seven places, `back` says where
`_terminate_process_group` returns to. Its `poll()` reaps a worker that has exited
by then; one that exits between that and `killpg` is still a member of the group
(`Zombie`). Whoever of the group is alive may remove a file while the output is
inspected, which is an error of the call (`OutputError`). The pipes carry blocks:
`written` by the worker, `drained` by the thread, `raw` what the program took;
a response has `Whole` blocks, which is also the protocol limit. `Sendable` and
`Valid` are the two sides' checks of a request. The judgement has the order of
the code: its own error, the overflow, the exit status, then the envelope.

`Adapter` starts the worker when the snapshot is made (`Launch`), and the worker
reads the adapter once more from the snapshot (`SourceVerified`).

Abstracted: what an adapter computes; resource limits inside the worker (a limit
is a crash); the audit hook and the denied modules (a refusal is
`adapter_failed`); stderr, whose drain is like that of stdout; the sampling
interval of the output directory (a round of the loop may skip it). Windows has
no process groups and is left out.

### ReaderPublication

One collection, its captures' `reader-generations`, and everything that names
them. An invocation of `build_static_reader`:

    idle -Build-> waiting -Lock-> locked -Rename-> renamed -Seal-> linking
      locked -Reuse-> linking          locked -Quarantine-> failed
      linking -LinkCapture-> linked -SwitchCurrent-> half
        -WriteCanonical-> switched -Return-> returned
      linked -ReturnIncomplete-> returned     linked -RefuseCurrent-> failed

A build is its key, the tree it came to and its status. A generation is what
its `metadata.json` claims (a build) and the tree that is there: `Damaged` is
any tree that differs from the claim, whether altered from outside or left half
removed by a failed publication. The key determines the capture
(`CaptureOf`), since the manifest's digest is among the build inputs; it does
not determine the tree, since a renderer need not be deterministic.
`current` is the collection's symlink `reader`, `canonical` the file
`LATEST-READER`. Validations under the lock are atomic; a lookup, which takes
no lock, reads the file and the symlink in two steps.

Faults: `SealFails`, `LinkFails`, `WriteCanonicalFails` and `RestoreFails` are
the failures with a handler of their own, `Fail` the others, `Stop` a
`KeyboardInterrupt` or a kill at any point. Left out: rendering and the
inspection of its files, a legacy `reader` directory and legacy pointers from
before `LATEST-READER`, and paths that are not of the expected type. The branch
for a generation that appears between the check and a failing rename cannot be
reached while the lock is respected.

### Validation

An invocation of `analyze_preservation`, and of `_write_json_once` and
`_update_validation_pointers` in it:

    idle -Begin-> begun -ReuseReport-> reusing -VerifyAgain-> filed
      begun -RunValidator-> checking -VerifyAgain-> filing
        filing -FileReport | AdoptReport-> filed
      filed -CheckPointers-> moving -MoveLatest-> half -MoveValidated-> returned

The identifier of a validation is the digest of its inputs, so that invocations
with the same inputs meet in one report. The verdict is not determined by the
identifier: an adapter runs under limits of time and memory. `chosen` and
`report` are what the invocation works on and holds, `filed` the `report.json`
files. Each report carries one bit for the properties only: whether the
captures were intact when the validator had read them. `Fail` stands for every
error, interrupt and kill: each leaves the files as they are. A kill of
`_write_json_once` leaves a temporary file that nothing reads. A report that was
spoiled is refused; the code would accept one that was altered and still has the
fields `_read_validation_report` asks for, which is left out.

An inspection is the validation part of `collection_lifecycle_status`: it looks
for the two pointers and then reads those it found, in four steps without a lock.

Left out: which captures are candidates and which of them provides a source
(`_analysis_capture_paths`, `_select_source_captures`; `Begin` may choose any
validation), the removal of a report by hand, and unsafe pointer contents.

### PointerRegister

A register per name; captures are *granted* names once, may be *lost*, and a
register moves only to a granted capture, from an intact one only to one that
is not older. `Capture` is mapped to it by reading `granted` off the sealed
directories without leftovers, and `lost` off the damage and off a
`capture.json` rewritten after the seal. The two validation pointers are mapped to
it too, without an order among validations: what `LATEST` is granted is any filed
report, what `LATEST-VALIDATED` is granted is a usable one.

### Catalogue and AccessGraph

A build of the catalogue:

    idle -Start-> reading (Read ...) -Stage-> staged -Lock-> locked
      locked -Reuse-> published        locked -Quarantine-> ended
      locked -Publish-> renamed -Seal-> published -Name-> ended
      renamed -Discard-> removing -Discarded-> ended

The current readers are read one collection after the other before the lock is
taken, while `Render` replaces them. A build key is what was read of each
collection: a number, nothing usable (0), or not asked for. What a key's build
comes to (`Trees`) may differ from build to build. `shelf` are the generations,
`whole` says whether all files are there: `Discard` begins the removal of the
generation this build has renamed, and a kill in the middle leaves the
remainder. The system releases the lock of a process that dies. A search reads
the pointer, compares the generation with its metadata, and queries it after a
second comparison. `floor` is a history variable: what `LATEST-CATALOGUE` named
when the build began.

Which readers are usable, valid and storable is a constant of `Catalogue`;
`CatalogueGraphs` ties it to the graphs of the readers on disk
(`GraphsAssumption`). `AccessGraph` holds what `reader_model.py` asks of
identifiers, routes, containers, relations and segment indexes, and what the
tables of the database ask (primary keys, unique columns, foreign keys),
including what the page extraction needs. Objects are told apart by their place
in the graph (`Joined`), so that an identifier is registered twice when two
places have it; `Objects` names them by kind, as the tables do, and `Owners` are
the objects with lines in the table `rights`. The composition with
`ReaderPublication` is by the guarantee that a current reader stays where it is
(`NamedStays` there).

Abstracted: labels, citations, the text of rights, and facets; the catalogue's page and its
projection; the full text index and its query; the limits on sizes.

### PayloadRoles, BagIt, Wacz, Export

An export of one capture, by `create_bag` or `create_wacz`: the capture is
verified file by file, its roles are read, it is verified again, the selected
files are copied and each copy is compared with the manifest, the package is
validated, the capture is verified a last time, and the package takes its
destination by a rename, or a link, that does not replace. Files of the capture
are altered, and put back, between any two of these; the destination may be
taken by another export or by somebody else, and what was published may be
altered. `PayloadRoles` says which files are selected: explicit roles of schema
3, as capture execution writes them, or inferred ones, under the policies
`private` and `public`. `BagIt` and `Wacz` hold what is in a package and what
`validate_bag` and `validate_wacz` compare: manifests and tag manifests; the
data package with its digest, the index with the byte ranges of records and
gzip members. A digest stands for what was hashed.

Left out: that `create_bag` first asks for a capture with a complete status, which
only refuses more. Abstracted: file names (a path is a record of what the rules look at), HTTP
headers and the sort keys of the index, the ZIP layout, the encoding of names
and of `bag-info.txt`.

## 3. Runs

| run | instance | distinct states | question |
|---|---|---|---|
| `damage` | 2 invocations, 3 identifiers, all outcomes, 2 damages | 366 253 | is what a capture returned named; is a pointed capture immutable; do the pointers implement `PointerRegister`; is an invocation turned away only while another is at work |
| `scopes` | 2 invocations, 2 sources, every configuration and selection | 3.4 million | what the pointers name; is what runs attended |
| `sealed` | 1 invocation | (violation) | is a sealed capture never rewritten |
| `redirects_follow` | 3 URLs, every configuration, every answer, fairness | 183 180 | is each request recorded first, none repeated, each failure resolved, no Wget left under a verdict; does a source end |
| `redirects_canonical` | one URL recorded under another name | (violation) | is no chain longer than the hop limit, whatever Wget records |
| `reader_publish` | 2 invocations after an earlier one or none, 1 lookup, 2 keys of one capture, one damageable, fairness | 179 196 | do pointers and answers name what was published, unaltered; are both pointers moved together; does every publication that waits end |
| `validation_publish` | 3 analyses, 2 sets of inputs, 1 inspection, a capture and a report damaged | 841 830 | are reports written once and returned as filed; do the pointers name what they promise; does an inspection give false alarms |
| `validation_race` | 2 analyses | (violation) | does `LATEST-VALIDATED` follow `LATEST` |
| `catalogue` | 2 builds, 1 search, 2 collections with 3 readers each, fairness | 432 646 | does `LATEST-CATALOGUE` name a whole generation; is a search answered; do links resolve; is a build ever older than what it found; does the database take what the reader model accepts; does every build end |
| `adapter` | 1 call, a recipe of 3 files in 2 folders, 2 edits, a response of 2 blocks, fairness | 375 924 | were the files that are preserved or run there together, with these contents; is a success the worker's own answer, within the limits and the protocol; does the call end |
| `adapter_survivors` | the same with 1 edit | (violation) | is no process of the adapter left when the call returns |
| `export` | 2 exports to one destination, 6 files, 1 edit that may be put back | 2.3 million | is what is published what the manifest lists and the policy allows; is nothing replaced; does every alteration show; does the index find every page |

The state counts are those TLC reports after symmetry. The type invariants and
the inductive invariants are not among the properties of the runs: they are
proved.

**Bounds.** Two invocations of a capture with three identifiers give one pointer
that is moved by one and considered by the other; two identifiers with
equal timestamps and one later cover every comparison `_update_latest` makes.
One source decides the pointer protocol (`LATEST-ACQUIRED` and one source
pointer already interact); the second source is needed for selections and for
required against optional and has a run of its own. `MaxDamage` bounds how many
captures are damaged, `Tried` the outcomes that are tried. Interchangeable
processes are a symmetry set in `scopes`, `validation_publish` and `export`, and
not where liveness is checked.
For the redirects, three URLs allow a chain, a cycle and two redirects to one
target; in `redirects_canonical` one hop and four URLs give a chain that exceeds
the limit.
`MaxKept` bounds the responses of one invocation: two suffice for one that
redirects and one that competes with it. `MaxHops` and `MaxVisited` are the
code's constants (8 and 1000) made small enough to be reached. For a recipe,
three files (the configuration, the adapter, a bytecode cache) in two folders and
two edits (`MaxEdits`) give a file that goes, or comes, between the listings of the
folders, and one that changes while it is read; a response of two blocks (`Whole`) a drain that has read a
prefix. For readers,
an earlier publication is part of the initial states, so that two invocations
give one that is cut off at any point and one that comes after; builds of one
key with two trees and two statuses give every outcome of the comparison with an
existing generation. Three analyses give one whose report is filed, one that
comes too late with another verdict, and one that reuses what is filed. Two
builds of the catalogue and three readers per collection (`MaxReader`) give a
removal while the other waits, a build with the same key, and readers replaced
between reading and publishing; the readers of one collection end with one the
database refuses, those of the other begin with an invalid one and end with one
that shares an identifier with the first collection. One altered file (`MaxEdits`) of a capture, put back at any
moment, is what the three verifications could miss; what two can do is in the
proof, and in the observations below. The six files are the manifest,
`capture.json`, a log, a hidden file with a name the public policy allows, a WARC, and a file that
is not part of the capture. `Drafts` are all graphs of up to two items with one
representation each, beside a graph with an identifier of theirs or without, for
`DatabaseTakesAccepted`. A run ends when every
invocation has ended; TLC's deadlock check is therefore off.

**Fairness.** No liveness is claimed of a capture invocation: its loops are over
finite lists and its lock is tried once, so that it ends if each of its sources
does. For one source fairness is `WF_vars(Step)`: each step of the loop, and
Wget's return, on which the program waits without a timeout of its own; Wget's
timeouts, retries and quota come from the recipe. A
publication of a reader, and a build of the catalogue, waits for its lock with
`flock`; since each invocation publishes
once, weak fairness is enough. For an adapter call it is weak fairness of the
supervising program, of the clock, of the end of a killed process, and of the
worker as far as reading its request, which is the program's own code and runs before the adapter's:
without it the program could block for good on writing a request larger than the
pipe. Nothing is assumed of the adapter, its descendants, the rest of the worker or
the drain threads, which is the point of `CallEnds`. Faults and damage are not fair: they may never happen.

## 4. Divergences found

* `SealedIsImmutable` (run `sealed`): `docs/design.md:271` says finalized captures are
  immutable. When `os.link` of the manifest succeeds and `unlink` or `fsync`
  after it fails, the handler in `_execute_plan` rewrites `capture.json` as
  `failed`: the sealed capture no longer verifies. `PointedIsImmutable` shows
  that this never happens to a capture a pointer names.
* `HopsBounded` (run `redirects_canonical`): `README.md:193` says every hop is bounded, and
  `redirects.json` states `max_hops`. The depth of a redirect's target is kept
  under the URL that was asked for, but looked up under the URL Wget recorded.
  Where the two differ the count starts again, and a chain is bounded only by
  the limit on visited URLs. `HopsLimited` proves the limit for the case that
  they are equal.
* `ValidatedFollowsLatest` (run `validation_race`): `docs/design.md:1175` says `LATEST` names the latest
  invoked validation, `LATEST-VALIDATED` the latest invoked usable one. Without a
  lock, two analyses that both succeed can leave `LATEST` naming the second and
  `LATEST-VALIDATED` the first. `PointersAreRegisters` says what remains: each
  names a filed report of its kind.
* `NothingSurvives` (run `adapter_survivors`): a comment in `adapter_process.py:493` says that
  descendants of a successful adapter are ended with the group. The group gets
  SIGKILL only when `process.wait` times out, and after the worker has exited it
  returns at once: a descendant that ignores SIGTERM survives the call.
  `ResultIsTheWorkers` shows that the answer is not affected by it.

Smaller observations, for which there is no run:

* The inventory of a recipe directory need not be what the directory held at any
  moment: with two folders and four edits, a file moved ahead of each of the
  two walks is in neither (`preservation/recipe_bundle.py:70`). With three edits
  TLC finds no such inventory. `BundleWasThere` says what remains.
* The two current pointers of a reader can be left apart by an interrupt, a kill
  or a failing rollback between them (`access/reader.py:456` catches
  `Exception`; `docs/design.md:597` promises the rollback for a failed write).
  Afterwards no publication moves either of them (`DisagreementStays`).
* Two builds of the catalogue that overlap may be published in the other order
  (`docs/design.md:649` promises a lock, not an order); a build that does not
  overlap never names older readers (`NeverOlder`).
* A removal of a catalogue generation that is killed leaves a remainder, and each
  later build with that key is quarantined until somebody removes it.
* `reader_model.py` accepts a representation that names an artifact twice, and two
  collections with an identifier in common; the tables of the database refuse
  both. `DatabaseTakesAccepted` says that these are the only such cases.
* A WACZ is refused for a gzip member with two records that can be replayed,
  and for two web sources whose WARC files have the same name. `validate_wacz` does
  not ask whether the index lists every page.
* `capture.json` is read after the verification and not compared with its digest,
  and the list of files is taken after that (`preservation/payload_roles.py:142`).
  When both are altered there and put back before the next verification, roles
  are inferred that the capture does not have, and a private bag may lack a listed
  file; for a capture of schema 1 or 2, whose roles are always inferred, the list
  is enough. No step notices. `ExportIsTheCapture` therefore asks for all files only
  as long as fewer files were altered (`Enough`). What is in the package is right in
  any case.
* A bag that lost a tag manifest, or got another tag file, still passes
  validation.
* A `KeyboardInterrupt` while an adapter runs ends neither the worker nor its time
  limit; a second `process.wait` that times out raises out of `invoke_adapter`.
* A package is published although the `fsync` after its publication fails; a kill
  leaves the staging directory.

## 5. Proofs

For every set of invocations, identifiers, timestamps, sources, files, URLs,
collections, builders and searchers, and every bound:

| theorem | says |
|---|---|
| `CompleteAgrees`, `BetterNeverHurts` | `complete` means the same to `_aggregate_status` and `is_complete_full_capture`; a better source never makes a capture worse |
| `TypeCorrect` | `Spec => []TypeOK` |
| `Inductive` (in three modules) | `Spec => []IInv` |
| `MutualExclusion`, `RefusalsAreTrue` | `Spec => []OneAtATime`; an invocation is turned away only while another is at work |
| `AcquiredSound`, `SourcePointersSound` | what the pointers name |
| `PointedImmutable`, `NoRegress` | what a step may not do to a capture or a pointer |
| `Attended` | whoever left a capture `running` is at work or was cut short |
| `NoneLost` | what a capture returned is named, or a later one is, as long as nothing is damaged |
| `Refines` | `Spec => RegisterSpec` |
| `RedirectsTyped`, `RedirectsInductive` | the same for `Redirects` |
| `EveryRequestRecorded` | `RecordedBeforeAsked` |
| `NoUrlTwice`, `FollowUpsLimited` | no URL is asked for twice; the limit on visited URLs (a conjunct of `IInv`) |
| `SuccessIsResolved` | a success leaves no failed invocation unresolved |
| `NoWgetAtVerdict` | no Wget runs under a verdict |
| `HopsLimited` | the hop limit, if Wget records URLs as they were asked for |
| `BundlesAreMoments` | the files of a bundle were there together, with the contents that were copied, and no folder held others when it was listed (`BundleWasThere`) |
| `AdaptersRunWhatIsRecorded` | an adapter runs in the files its digest is of |
| `CapturesKeepTheirConfiguration` | the recipe of a capture is the one it was made with |
| `ResultsAreTheWorkers` | a result is the worker's own, whole and within the limits |
| `RequestsAreUnderstood` | the worker refuses no request the program sends in production |
| `ReaderTyped`, `ReaderInductive` | the invariants of `ReaderPublication` |
| `PointersNamePublished` | pointers and answers of lookups name existing, usable generations |
| `Reproducible` | returned builds of one key are the same build |
| `MovedTogether`, `PointersAgree` | the two current pointers, unless a publication was cut off |
| `NamedImmutable` | a named generation is never removed or rewritten |
| `DisagreementStays` | pointers that disagree are not moved |
| `ValidationTyped`, `ValidationInductive` | the invariants of `Validation` |
| `WrittenOnce`, `ReturnsWhatIsFiled` | a filed report stays; it is what every analysis with these inputs returns |
| `FiledSound` | no verdict on damaged captures is filed |
| `NoAlarmWithoutCause` | inspections without a lock |
| `ValidationRefines` | `Spec => PointersAreRegisters` |
| `LatestStaysWhole`, `LinksAlwaysResolve` | `LATEST-CATALOGUE` names a whole generation of readers that are there |
| `SearchesAreAnswered`, `KeysStandForTrees` | a search loses nothing it has found |
| `CataloguesAdvance` | `NeverOlder` |
| `AcceptedIsStored`, `AcceptedReadersAreTaken` | accepted graphs without one of three faults satisfy every constraint of the database; so no build of valid readers fails there for another reason |
| `BagFaultsShow`, `WaczFaultsShow` | a package of which one file is another is not valid |
| `IndexedWhenApart` | WARCs are indexed just when each page has a range of its own |
| `Exported` | what is published is what the manifest lists and the policy allows (`ExportIsTheCapture`) |
| `TamperingIsSeen`, `NothingReplaced`, `IndexExact` | the other properties of the run `export` |

The assumptions are those the modules name. In `Capture`: timestamps are natural numbers, the
free lock and the absent pointer are no process and no identifier,
`LATEST-ACQUIRED` is no source, and the outcomes tried are outcomes. In
`Redirects`: finitely many URLs, a reviewed configuration redirects each URL at
most once and none to itself (as `config.py` enforces), seeds exist. In
`RecipeBundle`: the configuration and the adapter are files that are
inventoried, and each file is in one folder. In `AdapterProcess`: a response has a block. In
`ReaderPublication`, `Validation` and `Catalogue`: the special values are distinct from the
ordinary ones, and a build of the catalogue comes to something. In
`CatalogueGraphs`: readers are usable, valid and storable as their graphs say
(`GraphsAssumption`), which TLC evaluates for the instance. In `Export`: finitely
many files, `capture.json` is listed and the manifest is not, the walk meets
every file and the manifest first; a content put there by an edit is a number,
which tampering and absence are not; and a plain WARC is one member.

The argument for `Capture`: that a pointer names a good capture is not inductive, since it
speaks of the moment the pointer was moved. `IInv` ties each invocation's
position to its directory (`StageInv`), each directory to one invocation
(`OwnerInv`), each decision to what it was decided on (`TodoInv`, `ChoiceInv`),
and says that the maker of a named capture is past writing to it
(`PointerInv`). Mutual exclusion enters where a decision must outlive other
steps: nobody else can replace a pointer between the choice and the
replacement, and damage can only make the target worse, never better.
That what was returned is named needs more (`NamedInv`): a pointer an
invocation has considered names its capture or one that is not older *from then
on*, because without damage a pointer only moves to captures that are not older.
`RunningIsAttended` is inductive once `IInv` holds: a directory has one owner
(`OwnerInv`), and whoever leaves it without being cut short has come past a terminal
status (`StageInv`).

For `Redirects`, what each property says of the past invocations is tied to the
sets the program keeps: every invocation after the first asked for the target
of one requested redirect (`RunsInv`), every requested redirect of a URL that
was asked for was followed later, or is the one being followed (`FollowedInv`,
`Pending`), and a target lies exactly one hop below where it was found
(`LimitsInv`). With that, a failure that is excused by a request was really
followed up, because the source is judged only when nothing is pending. Along a
chain the depth grows by one from edge to edge, so an edge past the limit would
have to start at a depth where no redirect is followed; `HopsLimited` shows the
growth by way of the least position where it would fail.

For `RecipeBundle`, contents bear their time: what the first scan read is older than
the second walk. If a file did not hold that when the second walk began, it never
will again, and whatever the second scan reads of it is something else
(`Changed`, `MomentInv`); so with equal inventories every file held it. The same
goes for what a folder held when the second walk listed it (`SeenInv`); moreover a
walk goes on only if every file it met is read, so that a file it saw is in the
second inventory (`Met`) and hence in the first. The copy is of what the first
scan read (`CopyInv`). For `AdapterProcess`, `Waited` and `Swept` say from which
positions on the worker has been waited for and its group ended, so that the
judgement looks at a worker that can write no more; `NumbersInv` says that what
was taken whole was written whole.

For `ReaderPublication`, the hazard is the removal of a generation whose
publication failed. `UnsealedInv` says that a generation that is renamed and
not yet sealed is named by nothing, because what is named existed before the
renaming (`NamedIsPublished`) and the renaming found nothing there; the lock
keeps everybody else from naming it meanwhile. `SwitchInv` says what the
rollback restores.

For `Catalogue` the hazard is the same, and searches take no lock: a build that
may still remove its generation published it under a key that had none, whereas
what `LATEST-CATALOGUE` or a search names has one (`PublishInv`, `SearchInv`).
`FloorInv` says that what a build reads is no older than what was published when it
began, because what is published is reachable (`LinksResolve`).

For `Validation`, no lock can be relied on: the argument is that a filed report
never changes, so that what an invocation once found to be filed (`ChosenInv`)
outlives whatever the others do, up to the moment it moves the pointers. That
captures are only ever damaged, never repaired, makes the second verification
speak for the time of the validator's run (`BasisInv`).

For the database, the tables have a key per kind of object, and `rights` one for
collections and items together, where `reader_model.py` has one name space for
all of a graph: what two places of the tables share would be registered
twice, in one graph or across two (`OneIdentifier`). The theorem says nothing about graphs
with one of the faults of `Faultless`; `reader_model.py` accepts some of those.

For `Export` no lock can be relied on and nothing keeps the files still. What is
copied is safe by itself: each copy was compared with the manifest (`CopiedSoFar`),
wherever the walk is. What is *left out* is not: that depends on the roles, read
at one moment from files that nobody compares. `AstrayInv` counts: each file that
is not as it was finalized takes an edit. With fewer edits than `Enough` either the
list of files is right when the roles are read, or `capture.json` is and
refuses it; so the roles cover what the manifest lists (`CoveredBy`). What is made is
validated before it is published (`Stands`), and what is at the destination is what
was made (`DestInv`); that single faults then show is a fact about packages of
any contents.

Only model-checked: liveness (`SourceEnds`, `PublicationEnds`, `BuildEnds`,
`CallEnds`), which is out of the prover's reach, as
are `ENABLED` and induction over data. The four divergences are counterexamples and
have nothing to prove.

## 6. Not modelled

* Configuration parsing, HTML rendering, schemas and the bundled recipes: functions
  from bytes to bytes with no protocol. The full text index is SQLite's. The
  command line dispatches.
* The choice of captures and sources for an analysis (`_analysis_capture_paths`,
  `_select_source_captures`): it reads the capture pointers one after the other
  while they move; nothing in the code relates the moments, and each pointer is a
  register by itself.
* The limits on sizes and numbers everywhere: a limit is a refusal that may come
  at any time.
* Captures from before recipe bundles (`legacy_recipe_assets`), a legacy `reader`
  directory and legacy pointers.
* What a power loss does to renames that were not yet synced.
* The composition of `Redirects` with `Capture` (the lock is free while an orphan
  of a killed program still writes).
* Windows.

## 7. Running

    tlc -workers 2 -config MCCapture_damage.cfg MCCapture
    tlapm CaptureProofs.tla

The modules with theorems are `CaptureProofs`, `CaptureRefinement`,
`RedirectsProofs`, `AdapterProofs`, `ReaderPublicationProofs`,
`ValidationProofs`, `CatalogueProofs` and `ExportProofs`.
