----------------------------- MODULE PayloadRoles -----------------------------
(***************************************************************************)
(* The roles of the files of a capture, and what an export selects         *)
(* (preservation/payload_roles.py).                                        *)
(*                                                                         *)
(* A path is a record:                                                     *)
(*   source   the source in whose directory it is, or NoSource             *)
(*   part     the directory of the source: "warc", "mirror", or another    *)
(*   nested   it is in a directory of that directory                       *)
(*   ext      "warc" for .warc and .warc.gz, "cdx", or another             *)
(*   named    the path is on the list of portable provenance               *)
(*   hidden   a directory of it is named private or logs                   *)
(***************************************************************************)
EXTENDS Naturals, FiniteSets

CONSTANTS
  SourceKind,   \* the kind of every source: "web" or "http-file"
  NoSource

Roles    == {"preservation_original", "capture_derivative", "metadata"}
Profiles == {"private", "public"}

\* _payload_path.
PayloadPath(p) == p.source # NoSource /\ p.part \in {"warc", "mirror"}

IsWarcContainer(p) == p.ext = "warc"

MirrorRole(p) == IF SourceKind[p.source] = "http-file"
                   THEN "preservation_original" ELSE "capture_derivative"

\* What capture execution writes into capture.json (schema 3).
WrittenRole(p) ==
  IF ~ PayloadPath(p) THEN "metadata"
  ELSE IF p.part = "mirror" THEN MirrorRole(p)
  ELSE IF IsWarcContainer(p) THEN "preservation_original" ELSE "capture_derivative"

\* _inferred_roles, for captures without roles (schemas 1 and 2).
InferredRole(p) ==
  IF ~ PayloadPath(p) THEN "metadata"
  ELSE IF p.part = "mirror" THEN MirrorRole(p)
  ELSE IF IsWarcContainer(p) /\ ~ p.nested
    THEN "preservation_original" ELSE "capture_derivative"

\* _explicit_roles: the array covers the files, and no other path; declared and
\* path are functions of files.
ExplicitRoles(declared, files, path) ==
  /\ DOMAIN declared = files
  /\ \A f \in files : declared[f] # "metadata" => PayloadPath(path[f])

\* _shareable_payload_path.
ShareablePayload(p) == PayloadPath(p) /\ ~ p.hidden

\* _shareable_metadata_path.
ShareableMetadata(p) == \/ p.named
                        \/ PayloadPath(p) /\ p.part = "warc" /\ p.ext = "cdx"

\* What export_policy lists for the public profile.
Shareable(p, role) ==
  \/ role # "metadata" /\ ShareablePayload(p)
  \/ ShareableMetadata(p)

\* export_policy, selected_paths.
Selected(profile, role, path) ==
  IF profile = "private" THEN DOMAIN role
  ELSE {f \in DOMAIN role : Shareable(path[f], role[f])}

\* preservation_warc_paths.
PreservationWarcs(role, path) ==
  {f \in DOMAIN role : role[f] = "preservation_original" /\ IsWarcContainer(path[f])}
=============================================================================
