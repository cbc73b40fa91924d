-------------------------------- MODULE Export --------------------------------
(***************************************************************************)
(* Exports of one capture to one destination: bags and WACZ packages       *)
(* (preservation/bagit.py, access/wacz.py, preservation/payload_roles.py   *)
(* and the export command of cli.py).                                      *)
(*                                                                         *)
(* An export verifies the capture file by file, reads its roles, verifies  *)
(* it again, copies what its profile selects and compares every copy with  *)
(* the manifest, validates what it made, verifies the capture once more,   *)
(* and publishes.  Nothing is locked: files of the capture may be altered, *)
(* and put back, at any moment, and others may take the destination.       *)
(*                                                                         *)
(* The content 0 of a file is the one the capture was finalized with.  The *)
(* manifest may be written anew with the same entries.                     *)
(***************************************************************************)
EXTENDS PayloadRoles, BagIt, Wacz

CONSTANTS
  Exporters,
  Files,       \* the files that may be in the capture's directory
  Sealed,      \* those the manifest lists
  Walk,        \* the order in which they are looked at
  Manifest,    \* manifest-sha256.json
  Meta,        \* capture.json
  Path,        \* Path[f]: the path of f, as PayloadRoles has it
  BaseName,    \* the last part of the path
  Warc,        \* Warc[f]: the records of a WARC
  MaxEdits,    \* bound: how often the capture is altered
  Gone,        \* no such file
  Nothing,     \* no such destination
  Foreign      \* what somebody else put there

ASSUME FilesAssumption ==
  /\ Meta \in Sealed /\ Manifest \in Files \ Sealed /\ Sealed \subseteq Files
  /\ Walk \in [1..Cardinality(Files) -> Files] /\ Walk[1] = Manifest
  /\ \A f \in Files : \E n \in DOMAIN Walk : Walk[n] = f
  /\ IsFiniteSet(Files)

ASSUME ContentsAssumption ==
  /\ Gone \notin Nat
  /\ Tampered \notin Nat \union {"written"} /\ Stray \notin Files
  /\ \A f \in Files : IsWarc(Warc[f])

VARIABLES
  declared,   \* the capture is one of schema 3
  disk,       \* disk[f]: what f holds
  edits,      \* how many edits there were
  export,     \* export[e]: the state of an export
  dest,       \* what is at the destination
  altered     \* it was altered after it was published

vars == <<declared, disk, edits, export, dest, altered>>

Listed == Sealed \union {Manifest}

NoFiles == [f \in {} |-> Gone]

Idle == [pc |-> "idle", kind |-> "bag", profile |-> "private", n |-> 1,
         role |-> NoFiles, label |-> 0, got |-> NoFiles]

Init ==
  /\ declared \in BOOLEAN
  /\ disk = [f \in Files |-> IF f \in Listed THEN 0 ELSE Gone]
  /\ edits = 0
  /\ export = [e \in Exporters |-> Idle]
  /\ dest = Nothing /\ altered = FALSE

Set(e, state) == /\ export' = [export EXCEPT ![e] = state]
                 /\ UNCHANGED <<declared, disk, edits>>

\* An error: what was staged is removed.
Refuse(e) == Set(e, [Idle EXCEPT !.pc = "ended"]) /\ UNCHANGED <<dest, altered>>

-----------------------------------------------------------------------------
(* Elsewhere *)

Edit(f, content) ==
  /\ disk' = [disk EXCEPT ![f] = content]
  /\ UNCHANGED <<declared, export, dest, altered>>

\* A file of the capture, or one more, is written anew or goes.
Alter(f) ==
  /\ edits < MaxEdits
  /\ edits' = edits + 1
  /\ Edit(f, edits + 1) \/ Edit(f, Gone)

\* It is put back as it was.
Restore(f) ==
  /\ edits' = edits
  /\ disk[f] # IF f \in Listed THEN 0 ELSE Gone
  /\ Edit(f, IF f \in Listed THEN 0 ELSE Gone)

Occupy ==
  /\ dest = Nothing
  /\ dest' = Foreign
  /\ UNCHANGED <<declared, disk, edits, export, altered>>

-----------------------------------------------------------------------------
(* verify_capture, one file after the other *)

Verifying == {"verify", "assert", "confirm"}

AsListed(f) ==
  CASE f = Manifest -> disk[f] # Gone
    [] f \in Sealed -> disk[f] = 0
    [] OTHER        -> disk[f] = Gone

Verify(e) ==
  LET x == export[e] IN
  /\ x.pc \in Verifying /\ x.n \in DOMAIN Walk
  /\ AsListed(Walk[x.n])
  /\ Set(e, [x EXCEPT !.n = @ + 1])
  /\ UNCHANGED <<dest, altered>>

VerifyRefuses(e) ==
  LET x == export[e] IN
  /\ x.pc \in Verifying /\ x.n \in DOMAIN Walk
  /\ ~ AsListed(Walk[x.n])
  /\ Refuse(e)

Verified(e, at) == export[e].pc = at /\ export[e].n \notin DOMAIN Walk

-----------------------------------------------------------------------------
(* load_verified_capture *)

Start(e, kind, profile) ==
  /\ export[e].pc = "idle"
  /\ Set(e, [Idle EXCEPT !.pc = "verify", !.kind = kind, !.profile = profile])
  /\ UNCHANGED <<dest, altered>>

Present == {f \in Files : disk[f] # Gone}

\* The roles that capture.json may come to have while it is altered.
Declarable(files) ==
  {role \in [files -> Roles] : ExplicitRoles(role, files, Path)}

\* capture.json is read and the directory listed; the roles are those of
\* capture.json, or inferred.
ReadRoles(e) ==
  LET Written == [f \in Listed |-> WrittenRole(Path[f])]
      Use(role) == Set(e, [export[e] EXCEPT !.pc = "label", !.role = role])
  IN /\ Verified(e, "verify")
     /\ disk[Meta] # Gone
     /\ \/ declared /\ disk[Meta] = 0 /\ ExplicitRoles(Written, Present, Path)
           /\ Use(Written)
        \/ declared /\ disk[Meta] # 0
           /\ \E role \in Declarable(Present) : Use(role)
        \/ ~ declared /\ Use([f \in Present |-> InferredRole(Path[f])])
     /\ UNCHANGED <<dest, altered>>

\* manifest_sha256 and the digests it lists.
Label(e) ==
  /\ export[e].pc = "label"
  /\ disk[Manifest] # Gone
  /\ Set(e, [export[e] EXCEPT !.pc = "assert", !.n = 1, !.label = disk[Manifest]])
  /\ UNCHANGED <<dest, altered>>

-----------------------------------------------------------------------------
(* create_bag, create_wacz *)

\* file_sha256: what the file f must hold.
Digest(e, f) == IF f = Manifest THEN export[e].label
                ELSE IF f \in Sealed THEN 0 ELSE Gone

\* What goes into the export.
Chosen(e) ==
  LET x == export[e]
  IN IF x.kind = "bag" THEN Selected(x.profile, x.role, Path)
                       ELSE PreservationWarcs(x.role, Path)

\* What the creators ask of it.  (That a capture in a bag has a complete status,
\* which create_bag asks first, is left out.)
Permitted(e) ==
  LET x == export[e]
  IN /\ Chosen(e) # {}
     /\ x.kind = "wacz" =>
          /\ Chosen(e) \subseteq Selected(x.profile, x.role, Path)
          /\ IsInjective([f \in Chosen(e) |-> BaseName[f]])

\* assert_capture_unchanged, the policy, and a destination that is not there.
Select(e) ==
  /\ Verified(e, "assert")
  /\ disk[Manifest] = export[e].label
  /\ Permitted(e)
  /\ dest = Nothing
  /\ Set(e, [export[e] EXCEPT !.pc = "copy", !.n = 1])
  /\ UNCHANGED <<dest, altered>>

SelectRefuses(e) ==
  /\ Verified(e, "assert")
  /\ disk[Manifest] # export[e].label \/ ~ Permitted(e) \/ dest # Nothing
  /\ Refuse(e)

NextFile(e) == Walk[export[e].n]

Copying(e) == export[e].pc = "copy" /\ export[e].n \in DOMAIN Walk

Copied(e, f) ==
  Set(e, [export[e] EXCEPT !.n = @ + 1, !.got = With(@, f, disk[f])])
    /\ UNCHANGED <<dest, altered>>

\* A plausible slip: the copy is not compared with the manifest; the capture is
\* verified again when all is copied.
CopyUnchecked(e) ==
  /\ Copying(e)
  /\ NextFile(e) \in Chosen(e) /\ disk[NextFile(e)] # Gone
  /\ Copied(e, NextFile(e))

\* _copy_regular, _copy_verified_warc.
Copy(e) ==
  /\ Copying(e)
  /\ NextFile(e) \in Chosen(e) /\ disk[NextFile(e)] # Gone
  /\ disk[NextFile(e)] = Digest(e, NextFile(e))
  /\ Copied(e, NextFile(e))

PassBy(e) ==
  /\ Copying(e)
  /\ NextFile(e) \notin Chosen(e)
  /\ Set(e, [export[e] EXCEPT !.n = @ + 1])
  /\ UNCHANGED <<dest, altered>>

CopyRefuses(e) ==
  /\ Copying(e)
  /\ NextFile(e) \in Chosen(e)
  /\ disk[NextFile(e)] = Gone \/ disk[NextFile(e)] # Digest(e, NextFile(e))
  /\ Refuse(e)

Warcs(files) == [f \in files |-> Warc[f]]

Product(e) ==
  LET x == export[e]
  IN [kind |-> x.kind, profile |-> x.profile, label |-> x.label, role |-> x.role,
      holds |-> IF x.kind = "bag" THEN Bag(x.got)
                ELSE Package(x.got, Index(Warcs(DOMAIN x.got)))]

\* validate_bag, validate_wacz.
Valid(product) ==
  IF product.kind = "bag" THEN BagValid(product.holds)
  ELSE WaczValid(product.holds, Warcs(DOMAIN product.holds.members.archive))

\* The product is made, and stands validation.
Make(e) ==
  /\ export[e].pc = "copy" /\ export[e].n \notin DOMAIN Walk
  /\ export[e].kind = "wacz" => Indexable(Warcs(Chosen(e)))
  /\ Valid(Product(e))
  /\ Set(e, [export[e] EXCEPT !.pc = "confirm", !.n = 1])
  /\ UNCHANGED <<dest, altered>>

\* The files of a WACZ are still what they were when they were copied
\* (_snapshot; its time of modification is left out).
AsCopied(e) ==
  export[e].kind = "wacz" =>
    \A f \in DOMAIN export[e].got : disk[f] = export[e].got[f]

\* assert_capture_unchanged, a last time.
Confirm(e) ==
  /\ Verified(e, "confirm")
  /\ disk[Manifest] = export[e].label
  /\ AsCopied(e)
  /\ Set(e, [export[e] EXCEPT !.pc = "publish"])
  /\ UNCHANGED <<dest, altered>>

ConfirmRefuses(e) ==
  /\ Verified(e, "confirm")
  /\ disk[Manifest] # export[e].label \/ ~ AsCopied(e)
  /\ Refuse(e)

\* A plausible slip: os.rename, os.replace.
PublishOver(e) ==
  /\ export[e].pc = "publish"
  /\ dest' = Product(e) /\ altered' = FALSE
  /\ Set(e, [Idle EXCEPT !.pc = "sync"])

\* _rename_no_replace, os.link.
Publish(e) ==
  /\ export[e].pc = "publish"
  /\ dest = Nothing
  /\ dest' = Product(e) /\ altered' = FALSE
  /\ Set(e, [Idle EXCEPT !.pc = "sync"])

PublishRefuses(e) == export[e].pc = "publish" /\ dest # Nothing /\ Refuse(e)

\* _fsync_directory; when it fails the call fails, and the product is there.
Sync(e) == export[e].pc = "sync" /\ Refuse(e)

\* An OSError, an interrupt or a kill at any other step.
Fail(e) == export[e].pc \notin {"idle", "sync", "ended"} /\ Refuse(e)

-----------------------------------------------------------------------------
(* External: a product is tampered with *)

Faults(product) ==
  IF product.kind = "bag" THEN BagFaults(product.holds)
  ELSE WaczFaults(product.holds, Altered(product.holds.members.archive))

Tamper ==
  /\ dest \notin {Nothing, Foreign} /\ ~ altered
  /\ \E holds \in Faults(dest) : dest' = [dest EXCEPT !.holds = holds]
  /\ altered' = TRUE
  /\ UNCHANGED <<declared, disk, edits, export>>

-----------------------------------------------------------------------------
Exporting(e) ==
  \/ \E kind \in {"bag", "wacz"}, profile \in Profiles : Start(e, kind, profile)
  \/ Verify(e) \/ VerifyRefuses(e) \/ ReadRoles(e) \/ Label(e)
  \/ Select(e) \/ SelectRefuses(e) \/ Copy(e) \/ PassBy(e) \/ CopyRefuses(e)
  \/ Make(e) \/ Confirm(e) \/ ConfirmRefuses(e)
  \/ Publish(e) \/ PublishRefuses(e) \/ Sync(e) \/ Fail(e)

Next == \/ \E f \in Files : Alter(f) \/ Restore(f)
        \/ Occupy \/ Tamper
        \/ \E e \in Exporters : Exporting(e)

Spec == Init /\ [][Next]_vars

-----------------------------------------------------------------------------
(* Properties *)

Published == dest \notin {Nothing, Foreign} /\ ~ altered

Payload == IF dest.kind = "bag" THEN dest.holds.data ELSE dest.holds.members.archive

\* Neither portable provenance nor a payload.
Confidential(f) == ~ PayloadPath(Path[f]) /\ ~ Path[f].named

\* How many files of the capture must be altered, and put back, for its roles
\* to leave one of them out: a file that goes is not missed when roles are
\* inferred, and capture.json must go along with it when they are declared.
Enough == IF declared THEN 2 ELSE 1

\* Every published file is one the capture was finalized with, and holds what
\* it held then, although files are altered and put back while they are
\* verified and copied; a private bag has all of them, unless enough were
\* altered when the roles were read; whatever roles are declared, a public
\* export has no private provenance, no log and no manifest.
ExportIsTheCapture ==
  Published =>
    /\ DOMAIN Payload \subseteq Listed
    /\ \A f \in DOMAIN Payload :
         Payload[f] = IF f = Manifest THEN dest.label ELSE 0
    /\ dest.kind = "bag" /\ dest.profile = "private" /\ edits < Enough =>
         DOMAIN Payload = Listed
    /\ dest.profile = "public" =>
         \A f \in DOMAIN Payload :
           /\ ~ Confidential(f)
           /\ Path[f].hidden => ShareableMetadata(Path[f])

\* What is at the destination is never replaced by an export, of this capture
\* or another, that found the place free when it began.
NotReplaced ==
  [][dest # Nothing => dest' = dest \/ (altered' /\ UNCHANGED export)]_vars

\* What is published passes validation, and does not once any single file of
\* it is another.
TamperingShows == dest \notin {Nothing, Foreign} => (Valid(dest) <=> ~ altered)
=============================================================================
