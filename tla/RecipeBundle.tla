---------------------------- MODULE RecipeBundle ----------------------------
(***************************************************************************)
(* A recipe directory is copied while somebody may be editing it           *)
(* (preservation/recipe_bundle.py).                                        *)
(*                                                                         *)
(* It is copied for one of two purposes: to preserve it inside a capture   *)
(* (_preserve_recipe_bundle), or to run an adapter of it in a private      *)
(* directory (_adapter_path, then invoke_adapter).  Nothing locks the      *)
(* directory.  It is walked folder by folder and hashed file by file,      *)
(* twice, and copied file by file; what was hashed is compared with what   *)
(* was copied.                                                             *)
(*                                                                         *)
(* The content of a file is the number of the edit that wrote it, so no    *)
(* edit brings an earlier content back.                                    *)
(***************************************************************************)
EXTENDS Naturals

CONSTANTS
  Files,      \* what the directory may contain
  Folders,    \* the folders they are in, the directory itself among them
  FolderOf,   \* FolderOf[f]: the folder of the file f
  Transient,  \* bytecode caches: never inventoried
  Declared,   \* the assets an inline collection declares
  Toml,       \* collection.toml
  Adapter,    \* the adapter the configuration names
  MaxEdits,   \* bound: how often the directory is edited
  Gone,       \* there is no such file
  Bad,        \* a symlink, a special file, or more than the limits allow
  NoFile      \* no file is open

Contents == 0..MaxEdits
Entries  == Contents \union {Gone, Bad}

ASSUME EditsAssumption == MaxEdits \in Nat
ASSUME FilesAssumption == /\ Declared \subseteq Files /\ Transient \subseteq Files
                          /\ Toml \in Files \ Transient
                          /\ Adapter \in Files \ Transient
                          /\ NoFile \notin Files
                          /\ Gone \notin Contents \union {Bad}
                          /\ Bad \notin Contents
ASSUME FoldersAssumption == /\ FolderOf \in [Files -> Folders]
                            /\ Folders \intersect Files = {}

VARIABLES
  purpose,   \* "preserve" or "run"
  origin,    \* of the files: "recipe", "inline" or "captured"
  selected,  \* the recipe that was loaded is the file collection.toml
  dir,       \* dir[f]: what the file f holds
  edits,     \* how many edits there were
  stage,     \* how far the copy has come
  ahead,     \* what a walk has yet to look at: folders and files
  listing,   \* the files that are listed and not read yet
  open,      \* the file that is being read
  first,     \* the inventory of the first scan
  second,    \* ... and of the second
  digest,    \* adapter_sha256
  copied,    \* the copy
  moment,    \* history: the directory when the second walk began
  seen       \* history: seen[f] is what f was when that walk listed its folder

bundleVars == <<purpose, origin, selected, dir, edits, stage, ahead, listing, open,
                first, second, digest, copied, moment, seen>>

askedVars == <<purpose, origin, selected>>
fileVars  == <<dir, edits>>
scanVars  == <<first, second>>
pastVars  == <<moment, seen>>

Nothing == [f \in Files |-> Gone]
NotOpen == [file |-> NoFile, content |-> 0, touched |-> FALSE]

\* The files a scan considers.
Scanned == (IF origin = "inline" THEN Declared ELSE Files) \ Transient

\* Where a walk begins: at the folders, or at the paths that are declared.
Walk == IF origin = "inline" THEN Scanned ELSE Folders

Within(d) == {f \in Scanned : FolderOf[f] = d}

\* An adapter comes from the capture's bundle or from the current recipe
\* (_adapter_path; captures from before there were bundles are left out).
Origins == IF purpose = "preserve" THEN {"recipe", "inline"}
                                   ELSE {"recipe", "inline", "captured"}

\* When the configuration is loaded, or the capture was made.
BundleInit ==
  /\ purpose \in {"preserve", "run"}
  /\ origin \in Origins
  /\ selected \in BOOLEAN
  /\ dir \in [Files -> {0, Gone}]
  /\ \A f \in Files :
       \/ f = Adapter
       \/ f = Toml /\ selected
       \/ f \notin Transient /\ origin = "captured"
       => dir[f] = 0
  /\ edits = 0
  /\ stage = "scan" /\ ahead = Walk /\ listing = {} /\ open = NotOpen
  /\ first = Nothing /\ second = Nothing
  /\ digest = Gone /\ copied = Nothing
  /\ moment = Nothing /\ seen = Nothing

Ended == {"filed", "launched", "refused", "run"}

Move(from, to) == stage = from /\ stage' = to

Refuse == /\ stage' = "refused"
          /\ ahead' = {} /\ listing' = {} /\ open' = NotOpen
          /\ UNCHANGED <<askedVars, fileVars, scanVars, digest, copied, pastVars>>

-----------------------------------------------------------------------------
(* The editor *)

Fresh == edits + 1

Edit(f, content) ==
  /\ stage \notin Ended
  /\ edits < MaxEdits
  /\ edits' = Fresh
  /\ dir' = [dir EXCEPT ![f] = content]
  /\ UNCHANGED <<askedVars, stage, ahead, listing, scanVars, digest, copied,
                 pastVars>>

\* A new file takes the name, or the name goes: whoever has the old file open
\* goes on reading that.
Replace(f) == \/ Edit(f, Fresh) /\ UNCHANGED open
              \/ Edit(f, Bad) /\ UNCHANGED open
              \/ dir[f] # Gone /\ Edit(f, Gone) /\ UNCHANGED open

\* The file is written in place: its size or its time of modification changes
\* under whoever has it open.
Rewrite(f) ==
  /\ dir[f] \in Contents
  /\ Edit(f, Fresh)
  /\ open' = [open EXCEPT !.touched = @ \/ open.file = f]

-----------------------------------------------------------------------------
(* scan_recipe_directory, scan_declared_assets *)

Walking == {"scan", "rescan"}

\* visit: os.scandir of one folder, which is as good as empty if it is not there.
ListFolder(d) ==
  /\ stage \in Walking
  /\ d \in ahead \intersect Folders
  /\ ahead' = (ahead \ {d}) \union {f \in Within(d) : dir[f] # Gone}
  /\ seen' = [f \in Files |-> IF stage = "rescan" /\ f \in Within(d)
                                THEN dir[f] ELSE seen[f]]
  /\ UNCHANGED <<askedVars, fileVars, stage, listing, open, scanVars, digest,
                 copied, moment>>

\* visit: entry.stat; of an inline collection, _validate_path_components.  What
\* is larger than the limits allow is let pass until it is read.
LookAt(f) ==
  /\ stage \in Walking
  /\ f \in ahead
  /\ dir[f] # Gone
  /\ ahead' = ahead \ {f}
  /\ listing' = listing \union {f}
  /\ UNCHANGED <<askedVars, fileVars, stage, open, scanVars, digest, copied, pastVars>>

\* It is gone, a declared file is missing, or it is a symlink or special.
LookRefused(f) ==
  /\ stage \in Walking
  /\ f \in ahead
  /\ dir[f] \notin Contents
  /\ Refuse

\* The walk is over, and what it listed is read.
Walked ==
  /\ ahead = {}
  /\ Move("scan", "hash") \/ Move("rescan", "rehash")
  /\ UNCHANGED <<askedVars, fileVars, ahead, listing, open, scanVars, digest, copied,
                 pastVars>>

\* The second scan begins; nothing of the first walk is used again.
WalkAgain(from) ==
  /\ Move(from, "rescan")
  /\ ahead' = Walk /\ listing' = {}
  /\ moment' = dir
  /\ UNCHANGED <<askedVars, fileVars, open, scanVars, digest, copied, seen>>

Reading == {"hash", "rehash", "copy"}

\* lstat and open; what is opened is what was looked at.
Open(f) ==
  /\ stage \in Reading
  /\ open = NotOpen
  /\ f \in listing
  /\ dir[f] \in Contents
  /\ open' = [file |-> f, content |-> dir[f], touched |-> FALSE]
  /\ UNCHANGED <<askedVars, fileVars, stage, ahead, listing, scanVars, digest,
                 copied, pastVars>>

OpenRefused(f) ==
  /\ stage \in Reading
  /\ open = NotOpen
  /\ f \in listing
  /\ dir[f] \notin Contents
  /\ Refuse

Close(label) ==
  /\ stage = label
  /\ open # NotOpen
  /\ open' = NotOpen
  /\ listing' = listing \ {open.file}
  /\ UNCHANGED <<askedVars, fileVars, stage, ahead, digest, pastVars>>

\* _hash_regular_file.
Hash ==
  \/ /\ Close("hash") /\ ~ open.touched
     /\ first' = [first EXCEPT ![open.file] = open.content]
     /\ UNCHANGED <<second, copied>>
  \/ /\ Close("rehash") /\ ~ open.touched
     /\ second' = [second EXCEPT ![open.file] = open.content]
     /\ UNCHANGED <<first, copied>>

\* A plausible slip: what is copied is not compared with what was hashed.
CopyUnchecked ==
  /\ Close("copy")
  /\ copied' = [copied EXCEPT ![open.file] = open.content]
  /\ UNCHANGED scanVars

\* copy_bundle, one file of it.
Copy ==
  /\ Close("copy")
  /\ ~ open.touched
  /\ open.content = first[open.file]
  /\ copied' = [copied EXCEPT ![open.file] = open.content]
  /\ UNCHANGED scanVars

\* "changed while hashing", "changed while copying".
CloseRefused ==
  /\ open # NotOpen
  /\ \/ open.touched
     \/ stage = "copy" /\ open.content # first[open.file]
  /\ Refuse

-----------------------------------------------------------------------------
(* What the scans are for *)

Complete == listing = {} /\ open = NotOpen

InFirst == {f \in Files : first[f] # Gone}

StartCopy(from) == /\ Move(from, "copy")
                   /\ listing' = InFirst
                   /\ UNCHANGED <<askedVars, fileVars, ahead, open, scanVars,
                                  digest, copied, pastVars>>

\* verify_bundle_manifest: the capture's bundle is the one that was captured
\* (content 0).
MatchesManifest == origin = "captured" => \A f \in Scanned : first[f] = 0

\* The first inventory is made.
FirstScanned ==
  /\ stage = "hash" /\ Complete
  /\ \/ purpose = "preserve" /\ StartCopy("hash")
     \/ /\ purpose = "run"
        /\ MatchesManifest
        /\ Move("hash", "digest")
        /\ UNCHANGED <<askedVars, fileVars, ahead, listing, open, scanVars,
                       digest, copied, pastVars>>

FirstRefused ==
  /\ stage = "hash" /\ Complete
  /\ purpose = "run" /\ ~ MatchesManifest
  /\ Refuse

\* The caller reads the adapter once more for adapter_digest.
Digest ==
  /\ Move("digest", "open")
  /\ dir[Adapter] \in Contents
  /\ digest' = dir[Adapter]
  /\ UNCHANGED <<askedVars, fileVars, ahead, listing, open, scanVars, copied,
                 pastVars>>

\* invoke_adapter compares the adapter with adapter_sha256.
OpenAdapter ==
  /\ WalkAgain("open")
  /\ dir[Adapter] = digest

AdapterRefused ==
  /\ \/ stage = "digest" /\ dir[Adapter] \notin Contents
     \/ stage = "open" /\ dir[Adapter] # digest
  /\ Refuse

\* A plausible slip: the sets of files are compared and not their digests.
AgreeNames == \A f \in Files : (first[f] = Gone) <=> (second[f] = Gone)

\* The digests of both inventories are equal.
Agree == first = second

SecondScanned ==
  /\ stage = "rehash" /\ Complete
  /\ Agree
  /\ \/ purpose = "run" /\ StartCopy("rehash")
     \/ /\ purpose = "preserve"
        /\ Move("rehash", "toml")
        /\ UNCHANGED <<askedVars, fileVars, ahead, listing, open, scanVars,
                       digest, copied, pastVars>>

SecondRefused ==
  /\ stage = "rehash" /\ Complete
  /\ ~ Agree
  /\ Refuse

\* All is copied.
Copied ==
  /\ stage = "copy" /\ Complete
  /\ \/ /\ purpose = "run"
        /\ Move("copy", "launched")
        /\ UNCHANGED <<askedVars, fileVars, ahead, listing, open, scanVars,
                       digest, copied, pastVars>>
     \/ purpose = "preserve" /\ WalkAgain("copy")

\* The copy has the very collection.toml the configuration was loaded from
\* (content 0), or none.
TomlAgrees == \/ copied[Toml] = Gone
              \/ copied[Toml] = 0 /\ selected

\* A plausible slip: a collection.toml is there, and that is enough.
FileBundleAsFound ==
  /\ Move("toml", "filed")
  /\ copied' = IF origin = "recipe" /\ copied[Toml] = Gone
                 THEN [copied EXCEPT ![Toml] = 0] ELSE copied
  /\ UNCHANGED <<askedVars, fileVars, ahead, listing, open, scanVars, digest, pastVars>>

\* The end of _preserve_recipe_bundle: the recipe is added if need be, and the
\* manifest is written.
FileBundle ==
  /\ Move("toml", "filed")
  /\ origin = "recipe" => TomlAgrees
  /\ copied' = IF origin = "recipe" /\ copied[Toml] = Gone
                 THEN [copied EXCEPT ![Toml] = 0] ELSE copied
  /\ UNCHANGED <<askedVars, fileVars, ahead, listing, open, scanVars, digest, pastVars>>

TomlRefused ==
  /\ stage = "toml"
  /\ origin = "recipe" /\ ~ TomlAgrees
  /\ Refuse

\* An OSError anywhere.
BundleFails == stage \notin Ended /\ Refuse

-----------------------------------------------------------------------------
Editor == \E f \in Files : Replace(f) \/ Rewrite(f)

Copier ==
  \/ \E d \in Folders : ListFolder(d)
  \/ \E f \in Files : LookAt(f) \/ LookRefused(f) \/ Open(f) \/ OpenRefused(f)
  \/ Walked \/ Hash \/ Copy \/ CloseRefused
  \/ FirstScanned \/ FirstRefused \/ Digest \/ OpenAdapter \/ AdapterRefused
  \/ SecondScanned \/ SecondRefused \/ Copied \/ FileBundle \/ TomlRefused

BundleNext == Editor \/ Copier \/ BundleFails

BundleSpec == BundleInit /\ [][BundleNext]_bundleVars

-----------------------------------------------------------------------------
(* Properties *)

\* Every variable has its type.
BundleTypeOK ==
  /\ purpose \in {"preserve", "run"}
  /\ origin \in {"recipe", "inline", "captured"}
  /\ selected \in BOOLEAN
  /\ dir \in [Files -> Entries]
  /\ edits \in 0..MaxEdits
  /\ stage \in {"scan", "hash", "rescan", "rehash", "copy", "digest", "open",
                "toml"} \union Ended
  /\ ahead \subseteq Files \union Folders
  /\ listing \subseteq Files
  /\ open \in [file: Files \union {NoFile}, content: Contents, touched: BOOLEAN]
  /\ first \in [Files -> Contents \union {Gone}]
  /\ second \in [Files -> Contents \union {Gone}]
  /\ digest \in Contents \union {Gone}
  /\ copied \in [Files -> Contents \union {Gone}]
  /\ moment \in [Files -> Entries]
  /\ seen \in [Files -> Entries]

\* The bundle that is filed, or run, is no mixture of what the directory held
\* one after the other, whatever was edited while it was walked folder by
\* folder and read file by file (RecipeBundleError "malformed, unsafe, or
\* unstable"): its files were all there at one moment, with these contents;
\* each folder held them and no others when it was listed; and they are what
\* was copied.  That no file was elsewhere at that moment is not said: one that
\* goes from folder to folder ahead of both walks is in neither inventory.
BundleWasThere ==
  stage \in {"filed", "launched"} =>
    /\ \A f \in Files : first[f] # Gone =>
         first[f] = moment[f] /\ first[f] = copied[f]
    /\ origin # "inline" => \A f \in Scanned : first[f] = seen[f]

\* An adapter runs in exactly the files whose digest its result is recorded
\* with, and of a capture in those that were captured (design.md: "executing
\* the bytes represented by the recorded bundle digest").
RunsWhatIsRecorded ==
  stage = "launched" =>
    /\ copied = first
    /\ origin = "captured" => \A f \in Scanned : copied[f] = 0
    /\ \A f \in Transient : copied[f] = Gone

\* The recipe a capture preserves is the one that the program was configured
\* with when the capture began.
PreservedIsConfigured ==
  stage = "filed" /\ origin = "recipe" => copied[Toml] = 0
=============================================================================
