---------------------------- MODULE AdapterProofs ----------------------------
(***************************************************************************)
(* RecipeBundle, AdapterProcess and their composition, for every set of    *)
(* files, any number of edits and responses of any length.                 *)
(***************************************************************************)
EXTENDS Adapter, TLAPS

-----------------------------------------------------------------------------
(* The inductive invariant of the bundle.                                  *)
(*                                                                         *)
(* A content is the number of the edit that wrote it, so what a file held  *)
(* once and holds no more it will not hold again.  A file that differs     *)
(* from the first inventory when the second walk begins, or comes by,      *)
(* therefore differs from it whenever it is read again, and the second     *)
(* inventory is not the first.                                             *)

\* The second walk has begun.
Again == \/ stage \in {"rescan", "rehash", "toml", "filed", "launched"}
         \/ stage = "copy" /\ purpose = "run"

\* Nothing is newer than the last edit.
PastInv ==
  /\ \A f \in Files : dir[f] \in Contents => dir[f] <= edits
  /\ \A f \in Files : first[f] # Gone => f \in Scanned /\ first[f] <= edits
  /\ open.content <= edits

\* The open file is one of those that are to be read.
OpenInv ==
  /\ open.file = NoFile => open = NotOpen
  /\ open.file # NoFile => stage \in Reading /\ open.file \in listing
  /\ listing \subseteq Scanned
  /\ ahead \subseteq Scanned \union Folders
  /\ stage = "copy" => \A f \in listing : first[f] # Gone

\* f does not hold what the first scan read, and will not hold it again.
Changed(f) ==
  /\ dir[f] # first[f] /\ second[f] # first[f]
  /\ stage = "rehash" /\ open.file = f => open.content # first[f]

\* The second scan reads after the second walk began.
MomentInv ==
  /\ Again \/ stage \in {"refused", "run"} \/ second = Nothing
  /\ stage = "rescan" => second = Nothing
  /\ Again => \A f \in Files :
       first[f] # Gone /\ moment[f] # first[f] => Changed(f)

Unseen(f) == stage = "rescan" /\ FolderOf[f] \in ahead

\* The second walk has met f.
Met(f) == \/ second[f] # Gone
          \/ stage \in {"rescan", "rehash"} /\ f \in listing
          \/ stage = "rescan" /\ f \in ahead

\* ... and it meets just the files that were there when it listed their folder.
SeenInv ==
  Again /\ origin # "inline" =>
    \A f \in Scanned :
      IF Unseen(f) THEN ~ Met(f)
      ELSE /\ seen[f] = Gone <=> ~ Met(f)
           /\ first[f] # Gone /\ seen[f] # first[f] => Changed(f)

\* The copy is of what the first scan read.
CopyInv ==
  /\ stage \in {"scan", "hash"} => copied = Nothing
  /\ stage \notin {"filed", "refused", "run"} =>
       \A f \in Files : copied[f] \in {Gone, first[f]}
  /\ stage = "copy" =>
       \A f \in Files : first[f] # Gone => f \in listing \/ copied[f] = first[f]
  /\ \/ stage \in {"toml", "filed", "launched"}
     \/ purpose = "preserve" /\ stage \in {"rescan", "rehash"}
     => \A f \in Files : first[f] # Gone => copied[f] = first[f]

\* What has been compared.
MatchInv ==
  /\ \/ stage \in {"toml", "filed", "launched"}
     \/ stage = "copy" /\ purpose = "run"
     => first = second
  /\ stage \in {"digest", "open"} \/ origin = "captured" => purpose = "run"
  /\ origin = "captured" /\ stage \notin {"scan", "hash", "refused", "run"} =>
       \A f \in Scanned : first[f] = 0
  /\ stage = "filed" /\ origin = "recipe" => copied[Toml] = 0

BundleInv == /\ BundleTypeOK /\ PastInv /\ OpenInv /\ MomentInv /\ SeenInv
             /\ CopyInv /\ MatchInv

-----------------------------------------------------------------------------
(* The inductive invariant of the invocation *)

\* The worker has been waited for.
Waited == \/ pc \in {"sweeping", "joining", "joining again", "collecting", "judging"}
          \/ /\ pc \in {"terminating", "grace"}
             /\ back \in {"sweeping", "joining", "joining again"}

\* The last sweep of the worker's group is over.
Swept == \/ pc \in {"joining", "joining again", "collecting", "judging"}
         \/ pc = "returned" /\ worker # "unborn"
         \/ pc \in {"terminating", "grace"} /\ back = "joining again"
         \/ pc = "grace" /\ back = "joining"

NumbersInv ==
  /\ raw <= drained /\ drained <= written
  /\ answer # "garbage" => written <= Whole

AnswerInv ==
  /\ answer = "none" => written = 0
  /\ worker \in {"unborn", "reading"} => answer = "none"
  /\ worker = "running" => answer \in {"none", "garbage"}
  /\ worker = "writing" => answer # "none"
  /\ pc = "ready" => worker = "unborn" /\ verdict = "none"

GroupInv ==
  /\ pc \in {"terminating", "grace"} => back # "ready"
  /\ Waited => worker \in Exited
  /\ Swept => worker \in Exited /\ (child \in {"meek", "deaf"} => used)
  /\ pc \in {"judging", "returned"} /\ worker # "unborn" /\ error = "none" =>
       output # "over" \/ used

VerdictInv ==
  verdict = "ok" =>
    /\ pc = "returned" /\ worker = "exited" /\ error = "none"
    /\ answer = "ok" /\ raw = Whole /\ written = Whole

RefusedInv == answer = "invalid_request" => ~ Valid(request)

ProcessInv == /\ ProcessTypeOK /\ NumbersInv /\ AnswerInv /\ GroupInv
              /\ VerdictInv /\ RefusedInv

IInv == BundleInv /\ ProcessInv

-----------------------------------------------------------------------------
(* Steps of the bundle *)

\* An edit makes a content that is newer than all, and moves nothing else.
LEMMA EditChanges ==
  ASSUME BundleInv, NEW f \in Files, Replace(f) \/ Rewrite(f)
  PROVE  /\ UNCHANGED <<askedVars, stage, ahead, listing, scanVars, digest, copied,
                         pastVars>>
         /\ edits < MaxEdits /\ edits' = edits + 1
         /\ dir' \in [Files -> Entries]
         /\ dir'[f] \in {edits + 1, Gone, Bad}
         /\ \A g \in Files : g # f => dir'[g] = dir[g]
         /\ open' \in [file: Files \union {NoFile}, content: Contents, touched: BOOLEAN]
         /\ open'.file = open.file /\ open'.content = open.content
         /\ open.file = NoFile => open' = open
<1> USE EditsAssumption, FilesAssumption
    DEF BundleInv, BundleTypeOK, OpenInv, Edit, Fresh, Entries, Contents
<1>1. CASE Replace(f)
  BY <1>1 DEF Replace
<1>2. CASE Rewrite(f)
  <2>1. PICK t \in BOOLEAN : /\ t = (open.touched \/ open.file = f)
                             /\ open' = [open EXCEPT !.touched = t]
    <3>1. (open.touched \/ open.file = f) \in BOOLEAN
      OBVIOUS
    <3> QED
      BY <1>2, <3>1 DEF Rewrite
  <2>2. open.file = NoFile => open.touched = FALSE
    BY DEF NotOpen
  <2>3. open.file = NoFile => t = FALSE
    BY <2>1, <2>2
  <2>4. open.file = NoFile => open' = open
    BY <2>1, <2>2, <2>3
  <2>5. open' \in [file: Files \union {NoFile}, content: Contents, touched: BOOLEAN]
    BY <2>1
  <2> QED
    BY <1>2, <2>1, <2>4, <2>5 DEF Rewrite
<1> QED
  BY <1>1, <1>2

\* The second walk begins.
LEMMA WalkBegins ==
  ASSUME BundleInv, NEW from \in {"open", "copy"}, WalkAgain(from)
  PROVE  /\ stage = from /\ stage' = "rescan"
         /\ open.file = NoFile \/ stage = "copy"
         /\ ahead' = Walk /\ listing' = {} /\ moment' = dir
         /\ UNCHANGED <<askedVars, fileVars, open, scanVars, digest, copied, seen>>
         /\ Walk \subseteq Scanned \union Folders
  BY DEF WalkAgain, Move, BundleInv, OpenInv, Reading, Walk

LEMMA NoneOpen ==
  NotOpen \in [file: Files \union {NoFile}, content: Contents, touched: BOOLEAN]
  BY EditsAssumption DEF NotOpen, Contents

\* Every refusal.
Refusing == \/ \E f \in Files : LookRefused(f) \/ OpenRefused(f)
            \/ CloseRefused
            \/ FirstRefused \/ AdapterRefused \/ SecondRefused \/ TomlRefused
            \/ BundleFails

LEMMA BundleCases ==
  ASSUME [BundleNext]_bundleVars
  PROVE  \/ \E f \in Files : Replace(f) \/ Rewrite(f) \/ Open(f) \/ LookAt(f)
         \/ \E d \in Folders : ListFolder(d)
         \/ Refuse
         \/ Walked \/ Hash \/ Copy \/ FirstScanned \/ Digest
         \/ OpenAdapter \/ SecondScanned \/ Copied \/ FileBundle
         \/ UNCHANGED bundleVars
<1>1. Refusing => Refuse
  BY DEF Refusing, LookRefused, OpenRefused, CloseRefused, FirstRefused,
         AdapterRefused, SecondRefused, TomlRefused, BundleFails
<1> QED
  BY <1>1 DEF BundleNext, Editor, Copier, Refusing

\* Every step keeps every variable in its type.
LEMMA BundleTypeStep ==
  ASSUME BundleInv, [BundleNext]_bundleVars
  PROVE  BundleTypeOK'
<1> USE EditsAssumption, FilesAssumption
    DEF BundleInv, BundleTypeOK, askedVars, fileVars, scanVars, pastVars, Move, Ended
<1>1. ASSUME NEW f \in Files, Replace(f) \/ Rewrite(f)
      PROVE  BundleTypeOK'
  BY <1>1, EditChanges
<1>2. ASSUME NEW f \in Files, Open(f)
      PROVE  BundleTypeOK'
  BY <1>2 DEF Open
<1>3. CASE Refuse
  BY <1>3 DEF Refuse, NotOpen, Contents
<1>4. ASSUME NEW d \in Folders, ListFolder(d)
      PROVE  BundleTypeOK'
  BY <1>4 DEF ListFolder, Within, Scanned
<1>10. ASSUME NEW f \in Files, LookAt(f)
      PROVE  BundleTypeOK'
  BY <1>10 DEF LookAt
<1>11. CASE Walked
  BY <1>11 DEF Walked
<1>5. CASE Hash \/ Copy
  <2>1. open.file \in Files /\ open.content \in Contents
    BY <1>5 DEF Hash, Copy, Close, OpenInv, Scanned
  <2>2. open' \in [file: Files \union {NoFile}, content: Contents, touched: BOOLEAN]
    BY <1>5, NoneOpen DEF Hash, Copy, Close
  <2>3. listing' \subseteq Files /\ UNCHANGED <<purpose, origin, selected, dir, edits,
                                                stage, ahead, digest, moment, seen>>
    BY <1>5 DEF Hash, Copy, Close
  <2>4. /\ first' \in [Files -> Contents \union {Gone}]
        /\ second' \in [Files -> Contents \union {Gone}]
        /\ copied' \in [Files -> Contents \union {Gone}]
    BY <1>5, <2>1 DEF Hash, Copy
  <2> QED
    BY <2>2, <2>3, <2>4
<1>6. CASE FirstScanned \/ SecondScanned
  BY <1>6 DEF FirstScanned, SecondScanned, StartCopy, InFirst
<1>7. CASE Digest \/ OpenAdapter \/ Copied
  BY <1>7, WalkBegins DEF Digest, OpenAdapter, Copied, Scanned
<1>8. CASE FileBundle
  BY <1>8 DEF FileBundle, Contents
<1>9. CASE UNCHANGED bundleVars
  BY <1>9 DEF bundleVars
<1> QED
  BY <1>1, <1>2, <1>3, <1>4, <1>5, <1>6, <1>7, <1>8, <1>9, <1>10, <1>11, BundleCases

LEMMA PastStep ==
  ASSUME BundleInv, [BundleNext]_bundleVars
  PROVE  PastInv'
<1> USE EditsAssumption, FilesAssumption
    DEF BundleInv, BundleTypeOK, PastInv, askedVars, fileVars, scanVars,
            pastVars, Move, Scanned, Contents
<1>1. ASSUME NEW f \in Files, Replace(f) \/ Rewrite(f)
      PROVE  PastInv'
  BY <1>1, EditChanges
<1>2. ASSUME NEW f \in Files, Open(f)
      PROVE  PastInv'
  BY <1>2 DEF Open
<1>3. CASE Refuse
  BY <1>3 DEF Refuse, NotOpen
<1>4. ASSUME NEW d \in Folders, ListFolder(d)
      PROVE  PastInv'
  BY <1>4 DEF ListFolder
<1>9. ASSUME NEW f \in Files, LookAt(f)
      PROVE  PastInv'
  BY <1>9 DEF LookAt
<1>10. CASE Walked
  BY <1>10 DEF Walked
<1>5. CASE Hash \/ Copy
  BY <1>5 DEF Hash, Copy, Close, NotOpen, OpenInv
<1>6. CASE FirstScanned \/ SecondScanned
  BY <1>6 DEF FirstScanned, SecondScanned, StartCopy
<1>7. CASE Digest \/ OpenAdapter \/ Copied \/ FileBundle
  BY <1>7, WalkBegins DEF Digest, OpenAdapter, Copied, FileBundle
<1>8. CASE UNCHANGED bundleVars
  BY <1>8 DEF bundleVars
<1> QED
  BY <1>1, <1>2, <1>3, <1>4, <1>5, <1>6, <1>7, <1>8,
     <1>9, <1>10, BundleCases

LEMMA OpenStep ==
  ASSUME BundleInv, [BundleNext]_bundleVars
  PROVE  OpenInv'
<1> USE EditsAssumption, FilesAssumption, FoldersAssumption
    DEF BundleInv, BundleTypeOK, OpenInv, askedVars, fileVars, scanVars,
            pastVars, Move, Scanned, Reading
<1>1. ASSUME NEW f \in Files, Replace(f) \/ Rewrite(f)
      PROVE  OpenInv'
  BY <1>1, EditChanges
<1>2. ASSUME NEW f \in Files, Open(f)
      PROVE  OpenInv'
  BY <1>2 DEF Open
<1>3. CASE Refuse
  BY <1>3 DEF Refuse, NotOpen
<1>4. ASSUME NEW d \in Folders, ListFolder(d)
      PROVE  OpenInv'
  BY <1>4 DEF ListFolder, Walking, Within
<1>10. ASSUME NEW f \in Files, LookAt(f)
      PROVE  OpenInv'
  BY <1>10 DEF LookAt, Walking, Within
<1>11. CASE Walked
  BY <1>11 DEF Walked, Walking, Within
<1>5. CASE Hash \/ Copy
  BY <1>5 DEF Hash, Copy, Close, NotOpen
<1>6. CASE FirstScanned \/ SecondScanned
  BY <1>6 DEF FirstScanned, SecondScanned, StartCopy, Complete, InFirst, PastInv
<1>7. CASE Digest \/ OpenAdapter \/ FileBundle
  BY <1>7, WalkBegins DEF Digest, OpenAdapter, FileBundle
<1>8. CASE Copied
  BY <1>8, WalkBegins DEF Copied, Complete, NotOpen
<1>9. CASE UNCHANGED bundleVars
  BY <1>9 DEF bundleVars
<1> QED
  BY <1>1, <1>2, <1>3, <1>4, <1>5, <1>6, <1>7, <1>8, <1>9,
     <1>10, <1>11, BundleCases

\* What a file held when the second walk began.
LEMMA MomentStep ==
  ASSUME BundleInv, [BundleNext]_bundleVars
  PROVE  MomentInv'
<1> USE EditsAssumption, FilesAssumption, FoldersAssumption
    DEF BundleInv, BundleTypeOK, MomentInv, Again, Changed, askedVars, fileVars,
        scanVars, pastVars, Move, Scanned, Contents
<1>1. ASSUME NEW f \in Files, Replace(f) \/ Rewrite(f)
      PROVE  MomentInv'
  BY <1>1, EditChanges DEF PastInv
<1>2. ASSUME NEW f \in Files, Open(f)
      PROVE  MomentInv'
  BY <1>2 DEF Open, Reading
<1>3. CASE Refuse
  BY <1>3 DEF Refuse
<1>4. ASSUME NEW d \in Folders, ListFolder(d)
      PROVE  MomentInv'
  BY <1>4 DEF ListFolder, Walking, Within
<1>5. ASSUME NEW f \in Files, LookAt(f)
      PROVE  MomentInv'
  BY <1>5 DEF LookAt, Walking
<1>6. CASE Walked
  BY <1>6 DEF Walked, OpenInv, Reading
<1>7. CASE Hash
  BY <1>7 DEF Hash, Close, NotOpen, OpenInv, Reading
<1>8. CASE Copy
  BY <1>8 DEF Copy, Close, NotOpen, OpenInv, Reading
<1>9. CASE FirstScanned
  BY <1>9 DEF FirstScanned, StartCopy
<1>10. CASE SecondScanned
  BY <1>10 DEF SecondScanned, StartCopy, Complete, Agree
<1>11. CASE Digest \/ FileBundle
  BY <1>11 DEF Digest, FileBundle
<1>12. CASE OpenAdapter
  BY <1>12, WalkBegins DEF OpenAdapter, Walk, Nothing, MomentInv
<1>13. CASE Copied
  BY <1>13, WalkBegins DEF Copied, Walk, Nothing, MomentInv
<1>14. CASE UNCHANGED bundleVars
  BY <1>14 DEF bundleVars
<1> QED
  BY <1>1, <1>2, <1>3, <1>4, <1>5, <1>6, <1>7, <1>8, <1>9, <1>10, <1>11, <1>12,
     <1>13, <1>14, BundleCases

\* What the second walk met.
LEMMA SeenStep ==
  ASSUME BundleInv, [BundleNext]_bundleVars
  PROVE  SeenInv'
<1> USE EditsAssumption, FilesAssumption, FoldersAssumption
    DEF BundleInv, BundleTypeOK, SeenInv, Again, Changed, askedVars, fileVars,
        scanVars, pastVars, Move, Scanned, Contents, Unseen, Met
<1>1. ASSUME NEW f \in Files, Replace(f) \/ Rewrite(f)
      PROVE  SeenInv'
  BY <1>1, EditChanges DEF PastInv
<1>2. ASSUME NEW f \in Files, Open(f)
      PROVE  SeenInv'
  BY <1>2 DEF Open, Reading
<1>3. CASE Refuse
  BY <1>3 DEF Refuse
<1>4. ASSUME NEW d \in Folders, ListFolder(d)
      PROVE  SeenInv'
  BY <1>4 DEF ListFolder, Walking, Within, MomentInv, Nothing
<1>5. ASSUME NEW f \in Files, LookAt(f)
      PROVE  SeenInv'
  BY <1>5 DEF LookAt, Walking
<1>6. CASE Walked
  BY <1>6 DEF Walked, OpenInv, Reading
<1>7. CASE Hash
  BY <1>7 DEF Hash, Close, NotOpen, OpenInv, Reading
<1>8. CASE Copy
  BY <1>8 DEF Copy, Close, NotOpen, OpenInv, Reading
<1>9. CASE FirstScanned
  BY <1>9 DEF FirstScanned, StartCopy
<1>10. CASE SecondScanned
  BY <1>10 DEF SecondScanned, StartCopy, Complete, Agree
<1>11. CASE Digest \/ FileBundle
  BY <1>11 DEF Digest, FileBundle
<1>12. CASE OpenAdapter
  BY <1>12, WalkBegins DEF OpenAdapter, Walk, Nothing, MomentInv
<1>13. CASE Copied
  BY <1>13, WalkBegins DEF Copied, Walk, Nothing, MomentInv
<1>14. CASE UNCHANGED bundleVars
  BY <1>14 DEF bundleVars
<1> QED
  BY <1>1, <1>2, <1>3, <1>4, <1>5, <1>6, <1>7, <1>8, <1>9, <1>10, <1>11, <1>12,
     <1>13, <1>14, BundleCases

LEMMA CopyStep ==
  ASSUME BundleInv, [BundleNext]_bundleVars
  PROVE  CopyInv'
<1> USE EditsAssumption, FilesAssumption
    DEF BundleInv, BundleTypeOK, CopyInv, askedVars, fileVars, scanVars, pastVars,
            Move
<1>1. ASSUME NEW f \in Files, Replace(f) \/ Rewrite(f)
      PROVE  CopyInv'
  BY <1>1, EditChanges
<1>2. ASSUME NEW f \in Files, Open(f)
      PROVE  CopyInv'
  BY <1>2 DEF Open
<1>3. CASE Refuse
  BY <1>3 DEF Refuse
<1>4. ASSUME NEW d \in Folders, ListFolder(d)
      PROVE  CopyInv'
  BY <1>4 DEF ListFolder, Walking
<1>13. ASSUME NEW f \in Files, LookAt(f)
      PROVE  CopyInv'
  BY <1>13 DEF LookAt, Walking
<1>14. CASE Walked
  BY <1>14 DEF Walked, Walking
<1>5. CASE Hash
  BY <1>5 DEF Hash, Close, Nothing
<1>6. CASE Copy
  BY <1>6 DEF Copy, Close, OpenInv, Scanned
<1>7. CASE FirstScanned
  BY <1>7 DEF FirstScanned, StartCopy, InFirst, Nothing
<1>8. CASE SecondScanned
  <2>1. CASE purpose = "run"
    BY <1>8, <2>1 DEF SecondScanned, StartCopy, InFirst
  <2>2. CASE purpose # "run"
    BY <1>8, <2>2 DEF SecondScanned
  <2> QED
    BY <2>1, <2>2
<1>9. CASE Digest \/ OpenAdapter
  BY <1>9, WalkBegins DEF Digest, OpenAdapter, Nothing, MatchInv
<1>10. CASE Copied
  BY <1>10, WalkBegins DEF Copied, Complete
<1>11. CASE FileBundle
  BY <1>11 DEF FileBundle
<1>12. CASE UNCHANGED bundleVars
  BY <1>12 DEF bundleVars
<1> QED
  BY <1>1, <1>2, <1>3, <1>4, <1>5, <1>6, <1>7, <1>8, <1>9, <1>10, <1>11, <1>12,
     <1>13, <1>14, BundleCases

LEMMA MatchStep ==
  ASSUME BundleInv, [BundleNext]_bundleVars
  PROVE  MatchInv'
<1> USE EditsAssumption, FilesAssumption
    DEF BundleInv, BundleTypeOK, MatchInv, askedVars, fileVars, scanVars,
            pastVars, Move, Scanned
<1>1. ASSUME NEW f \in Files, Replace(f) \/ Rewrite(f)
      PROVE  MatchInv'
  BY <1>1, EditChanges DEF Replace, Rewrite, Edit, Ended
<1>2. ASSUME NEW f \in Files, Open(f)
      PROVE  MatchInv'
  BY <1>2 DEF Open, Reading
<1>3. CASE Refuse
  BY <1>3 DEF Refuse
<1>4. ASSUME NEW d \in Folders, ListFolder(d)
      PROVE  MatchInv'
  BY <1>4 DEF ListFolder, Walking
<1>13. ASSUME NEW f \in Files, LookAt(f)
      PROVE  MatchInv'
  BY <1>13 DEF LookAt, Walking
<1>14. CASE Walked
  BY <1>14 DEF Walked, Walking
<1>5. CASE Hash
  BY <1>5 DEF Hash, Close
<1>6. CASE Copy
  BY <1>6 DEF Copy, Close
<1>7. CASE FirstScanned
  BY <1>7 DEF FirstScanned, StartCopy, MatchesManifest
<1>8. CASE SecondScanned
  BY <1>8 DEF SecondScanned, StartCopy, Agree
<1>9. CASE Digest \/ OpenAdapter
  BY <1>9, WalkBegins DEF Digest, OpenAdapter
<1>10. CASE Copied
  BY <1>10, WalkBegins DEF Copied
<1>11. CASE FileBundle
  BY <1>11 DEF FileBundle, TomlAgrees
<1>12. CASE UNCHANGED bundleVars
  BY <1>12 DEF bundleVars
<1> QED
  BY <1>1, <1>2, <1>3, <1>4, <1>5, <1>6, <1>7, <1>8, <1>9, <1>10, <1>11, <1>12,
     <1>13, <1>14, BundleCases

LEMMA BundleStart == BundleInit => BundleInv
  BY EditsAssumption, FilesAssumption
     DEF BundleInit, Origins, BundleInv, BundleTypeOK, PastInv, OpenInv, MomentInv,
         SeenInv, Again, Walk, CopyInv, MatchInv, NotOpen, Nothing, Contents, Entries, Scanned

LEMMA BundleStep ==
  ASSUME BundleInv, [BundleNext]_bundleVars
  PROVE  BundleInv'
<1>1. BundleTypeOK' /\ PastInv' /\ OpenInv'
  BY BundleTypeStep, PastStep, OpenStep
<1>2. MomentInv' /\ SeenInv' /\ CopyInv' /\ MatchInv'
  BY MomentStep, SeenStep, CopyStep, MatchStep
<1> QED
  BY <1>1, <1>2 DEF BundleInv

-----------------------------------------------------------------------------
(* Steps of the invocation *)


Watching == \/ Send \/ Poll \/ GoOn \/ TermNobody \/ Grace \/ Reap \/ ReapRaises
            \/ Join \/ JoinGivesUp \/ Interrupt

Terminating == \/ SendFails \/ StopFlood \/ StopLate \/ StopOutput \/ ReapLater
               \/ Sweep \/ JoinLater

\* Terminate is decided on for one of the reasons there are.
LEMMA TerminatingChanges ==
  ASSUME ProcessInv, Terminating
  PROVE  /\ pc' = "terminating"
         /\ back' \in {"reaping", "reaping again", "sweeping", "joining", "joining again"}
         /\ back' = "sweeping" => worker \in Exited
         /\ back' = "joining" => pc = "sweeping"
         /\ back' = "joining again" => pc = "joining"
         /\ error' \in {"none", "worker_io_failed", "protocol_output_limit",
                        "timeout", "adapter_output_limit"}
         /\ pc \notin {"ready", "judging", "returned", "raised"}
         /\ UNCHANGED <<used, late, request, workerVars, drained, raw, verdict>>
<1> USE WholeAssumption
    DEF ProcessInv, ProcessTypeOK, ProgramTypeOK, WorkerTypeOK, PipeTypeOK,
        Terminate, Goto
<1>1. CASE SendFails \/ ReapLater \/ Sweep \/ JoinLater
  BY <1>1 DEF SendFails, ReapLater, Sweep, JoinLater
<1>2. CASE StopFlood \/ StopLate \/ StopOutput
  BY <1>2 DEF StopFlood, StopLate, StopOutput
<1> QED
  BY <1>1, <1>2 DEF Terminating

\* The program goes from one label to another.
LEMMA WatchingChanges ==
  ASSUME ProcessInv, Watching
  PROVE  /\ UNCHANGED <<back, error, used, late, request, workerVars, drained, raw,
                        verdict>>
         /\ \/ pc' \in {"polling", "reaping", "checking", "raised"}
            \/ pc' = "sweeping" /\ worker \in Exited
            \/ /\ pc \in {"terminating", "grace"} /\ pc' = back
               /\ back \in {"reaping", "reaping again", "sweeping", "joining",
                            "joining again"}
               /\ pc = "terminating" => child \notin {"meek", "deaf"}
            \/ pc \in {"joining", "joining again"} /\ pc' = "collecting"
         /\ pc' # "ready" /\ pc # "returned" /\ pc # "ready"
<1> USE WholeAssumption
    DEF ProcessInv, ProcessTypeOK, ProgramTypeOK, WorkerTypeOK, PipeTypeOK, GroupInv,
        AnswerInv, Waited, Swept, Goto
<1>1. CASE Send \/ Poll \/ GoOn \/ Reap \/ ReapRaises
  BY <1>1 DEF Send, Poll, GoOn, Reap, ReapRaises
<1>2. CASE TermNobody \/ Grace
  BY <1>2 DEF TermNobody, Grace, GroupExists
<1>3. CASE Join \/ JoinGivesUp \/ Interrupt
  BY <1>3 DEF Join, JoinGivesUp, Interrupt
<1> QED
  BY <1>1, <1>2, <1>3 DEF Watching

LEMMA RequestsTyped ==
  /\ NoRequest \in Requests
  /\ Operations # {}
  BY DEF NoRequest, Requests, Operations

LEMMA NoRequestFits == Valid(NoRequest)
  BY DEF NoRequest, Valid

ProcessStep == \/ \E r \in Requests : Spawn(r)
               \/ SpawnFails \/ Supervise \/ Interrupt \/ WorkerActs \/ Drain
               \/ Die \/ Tick \/ ReadRequest(TRUE) \/ ReadRequest(FALSE)

LEMMA ProcessCases ==
  ASSUME ProcessStep
  PROVE  \/ \E r \in Requests : Spawn(r)
         \/ SpawnFails \/ Watching \/ Terminating \/ Term \/ Kill \/ Collect \/ Judge
         \/ Answer \/ Write \/ Exit \/ Crash \/ Die \/ Misbehave \/ ChildActs
         \/ Drain \/ Tick \/ ReadRequest(TRUE) \/ ReadRequest(FALSE)
  BY DEF ProcessStep, Supervise, WorkerActs, Watching, Terminating

LEMMA ProgramTypeStep ==
  ASSUME ProcessInv, ProcessStep
  PROVE  ProgramTypeOK'
<1> USE DEF ProcessInv, ProcessTypeOK, ProgramTypeOK, GroupInv, Waited, ProcessEnds
<1>1. ASSUME NEW r \in Requests, Spawn(r)
      PROVE  ProgramTypeOK'
  BY <1>1 DEF Spawn, Goto
<1>2. CASE SpawnFails
  BY <1>2 DEF SpawnFails, Goto, workerVars
<1>3. CASE Watching
  BY <1>3, WatchingChanges DEF workerVars
<1>4. CASE Terminating
  BY <1>4, TerminatingChanges DEF workerVars
<1>5. CASE Term
  BY <1>5 DEF Term, Goto, GroupExists, Zombie
<1>6. CASE Kill
  BY <1>6 DEF Kill, Goto
<1>7. CASE Collect
  BY <1>7 DEF Collect, Goto, workerVars
<1>8. CASE Judge
  BY <1>8 DEF Judge, Goto, workerVars
<1>9. CASE Answer \/ Write \/ Exit
  BY <1>9 DEF Answer, Write, Exit, parentVars
<1>10. CASE Crash \/ Die
  BY <1>10 DEF Crash, Die, parentVars
<1>11. CASE Misbehave
  BY <1>11 DEF Misbehave, parentVars
<1>12. CASE ChildActs
  BY <1>12 DEF ChildActs, parentVars
<1>13. CASE Drain \/ Tick
  BY <1>13 DEF Drain, Tick, parentVars, workerVars
<1>14. CASE ReadRequest(TRUE) \/ ReadRequest(FALSE)
  BY <1>14 DEF ReadRequest, parentVars
<1> QED
  BY <1>1, <1>2, <1>3, <1>4, <1>5, <1>6, <1>7, <1>8,
     <1>9, <1>10, <1>11, <1>12, <1>13, <1>14, ProcessCases

LEMMA WorkerTypeStep ==
  ASSUME ProcessInv, ProcessStep
  PROVE  WorkerTypeOK'
<1> USE DEF ProcessInv, ProcessTypeOK, WorkerTypeOK, Alive, Exited
<1>1. ASSUME NEW r \in Requests, Spawn(r)
      PROVE  WorkerTypeOK'
  BY <1>1 DEF Spawn, Goto
<1>2. CASE SpawnFails
  BY <1>2 DEF SpawnFails, Goto, workerVars
<1>3. CASE Watching
  BY <1>3, WatchingChanges DEF workerVars
<1>4. CASE Terminating
  BY <1>4, TerminatingChanges DEF workerVars
<1>5. CASE Term
  BY <1>5 DEF Term, Goto, GroupExists, Zombie
<1>6. CASE Kill
  BY <1>6 DEF Kill, Goto
<1>7. CASE Collect
  BY <1>7 DEF Collect, Goto, workerVars
<1>8. CASE Judge
  BY <1>8 DEF Judge, Goto, workerVars
<1>9. CASE Answer \/ Write \/ Exit
  BY <1>9 DEF Answer, Write, Exit, parentVars
<1>10. CASE Crash \/ Die
  BY <1>10 DEF Crash, Die, parentVars
<1>11. CASE Misbehave
  BY <1>11 DEF Misbehave, parentVars
<1>12. CASE ChildActs
  BY <1>12 DEF ChildActs, parentVars
<1>13. CASE Drain \/ Tick
  BY <1>13 DEF Drain, Tick, parentVars, workerVars
<1>14. CASE ReadRequest(TRUE) \/ ReadRequest(FALSE)
  BY <1>14, RequestsTyped DEF ReadRequest, parentVars
<1> QED
  BY <1>1, <1>2, <1>3, <1>4, <1>5, <1>6, <1>7, <1>8,
     <1>9, <1>10, <1>11, <1>12, <1>13, <1>14, ProcessCases

LEMMA PipeTypeStep ==
  ASSUME ProcessInv, ProcessStep
  PROVE  PipeTypeOK'
<1> USE WholeAssumption
    DEF ProcessInv, ProcessTypeOK, PipeTypeOK, AnswerInv, NumbersInv, Over
<1>1. ASSUME NEW r \in Requests, Spawn(r)
      PROVE  PipeTypeOK'
  BY <1>1 DEF Spawn, Goto
<1>2. CASE SpawnFails
  BY <1>2 DEF SpawnFails, Goto, workerVars
<1>3. CASE Watching
  BY <1>3, WatchingChanges DEF workerVars
<1>4. CASE Terminating
  BY <1>4, TerminatingChanges DEF workerVars
<1>5. CASE Term
  BY <1>5 DEF Term, Goto, GroupExists, Zombie
<1>6. CASE Kill
  BY <1>6 DEF Kill, Goto
<1>7. CASE Collect
  BY <1>7 DEF Collect, Goto, workerVars
<1>8. CASE Judge
  BY <1>8 DEF Judge, Goto, workerVars
<1>9. CASE Answer \/ Write \/ Exit
  BY <1>9 DEF Answer, Write, Exit, parentVars
<1>10. CASE Crash \/ Die
  BY <1>10 DEF Crash, Die, parentVars
<1>11. CASE Misbehave
  BY <1>11 DEF Misbehave, parentVars
<1>12. CASE ChildActs
  BY <1>12 DEF ChildActs, parentVars
<1>13. CASE Drain \/ Tick
  BY <1>13 DEF Drain, Tick, parentVars, workerVars
<1>14. CASE ReadRequest(TRUE) \/ ReadRequest(FALSE)
  BY <1>14 DEF ReadRequest, parentVars
<1> QED
  BY <1>1, <1>2, <1>3, <1>4, <1>5, <1>6, <1>7, <1>8,
     <1>9, <1>10, <1>11, <1>12, <1>13, <1>14, ProcessCases

LEMMA NumbersStep ==
  ASSUME ProcessInv, ProcessStep
  PROVE  NumbersInv'
<1> USE WholeAssumption
    DEF ProcessInv, ProcessTypeOK, PipeTypeOK, NumbersInv, AnswerInv, Over
<1>1. ASSUME NEW r \in Requests, Spawn(r)
      PROVE  NumbersInv'
  BY <1>1 DEF Spawn, Goto
<1>2. CASE SpawnFails
  BY <1>2 DEF SpawnFails, Goto, workerVars
<1>3. CASE Watching
  BY <1>3, WatchingChanges DEF workerVars
<1>4. CASE Terminating
  BY <1>4, TerminatingChanges DEF workerVars
<1>5. CASE Term
  BY <1>5 DEF Term, Goto, GroupExists, Zombie
<1>6. CASE Kill
  BY <1>6 DEF Kill, Goto
<1>7. CASE Collect
  BY <1>7 DEF Collect, Goto, workerVars
<1>8. CASE Judge
  BY <1>8 DEF Judge, Goto, workerVars
<1>9. CASE Answer \/ Write \/ Exit
  BY <1>9 DEF Answer, Write, Exit, parentVars
<1>10. CASE Crash \/ Die
  BY <1>10 DEF Crash, Die, parentVars
<1>11. CASE Misbehave
  BY <1>11 DEF Misbehave, parentVars
<1>12. CASE ChildActs
  BY <1>12 DEF ChildActs, parentVars
<1>13. CASE Drain \/ Tick
  BY <1>13 DEF Drain, Tick, parentVars, workerVars
<1>14. CASE ReadRequest(TRUE) \/ ReadRequest(FALSE)
  BY <1>14 DEF ReadRequest, parentVars
<1> QED
  BY <1>1, <1>2, <1>3, <1>4, <1>5, <1>6, <1>7, <1>8,
     <1>9, <1>10, <1>11, <1>12, <1>13, <1>14, ProcessCases

LEMMA AnswerStep ==
  ASSUME ProcessInv, ProcessStep
  PROVE  AnswerInv'
<1> USE DEF ProcessInv, ProcessTypeOK, PipeTypeOK, AnswerInv, GroupInv, Alive
<1>1. ASSUME NEW r \in Requests, Spawn(r)
      PROVE  AnswerInv'
  BY <1>1 DEF Spawn, Goto
<1>2. CASE SpawnFails
  BY <1>2 DEF SpawnFails, Goto, workerVars
<1>3. CASE Watching
  BY <1>3, WatchingChanges DEF workerVars
<1>4. CASE Terminating
  BY <1>4, TerminatingChanges DEF workerVars
<1>5. CASE Term
  BY <1>5 DEF Term, Goto, GroupExists, Zombie
<1>6. CASE Kill
  BY <1>6 DEF Kill, Goto
<1>7. CASE Collect
  BY <1>7 DEF Collect, Goto, workerVars
<1>8. CASE Judge
  BY <1>8 DEF Judge, Goto, workerVars, Judgement, ProgramTypeOK
<1>9. CASE Answer \/ Write \/ Exit
  BY <1>9 DEF Answer, Write, Exit, parentVars
<1>10. CASE Crash \/ Die
  BY <1>10 DEF Crash, Die, parentVars
<1>11. CASE Misbehave
  BY <1>11 DEF Misbehave, parentVars
<1>12. CASE ChildActs
  BY <1>12 DEF ChildActs, parentVars
<1>13. CASE Drain \/ Tick
  BY <1>13 DEF Drain, Tick, parentVars, workerVars
<1>14. CASE ReadRequest(TRUE) \/ ReadRequest(FALSE)
  BY <1>14 DEF ReadRequest, parentVars
<1> QED
  BY <1>1, <1>2, <1>3, <1>4, <1>5, <1>6, <1>7, <1>8,
     <1>9, <1>10, <1>11, <1>12, <1>13, <1>14, ProcessCases

LEMMA GroupStep ==
  ASSUME ProcessInv, ProcessStep
  PROVE  GroupInv'
<1> USE
    DEF ProcessInv, ProcessTypeOK, WorkerTypeOK, GroupInv, AnswerInv, Waited, Swept,
        Alive, Exited, ProcessEnds
<1>1. ASSUME NEW r \in Requests, Spawn(r)
      PROVE  GroupInv'
  BY <1>1 DEF Spawn, Goto
<1>2. CASE SpawnFails
  BY <1>2 DEF SpawnFails, Goto, workerVars
<1>3. CASE Watching
  BY <1>3, WatchingChanges DEF workerVars
<1>4. CASE Terminating
  BY <1>4, TerminatingChanges DEF workerVars
<1>5. CASE Term
  BY <1>5 DEF Term, Goto, GroupExists, Zombie
<1>6. CASE Kill
  <2>1. pc = "grace" /\ pc' = back /\ worker' = "killed" /\ worker \notin Exited
    BY <1>6 DEF Kill, Goto
  <2>2. back \in {"reaping", "reaping again"}
    BY <2>1 DEF ProgramTypeOK
  <2> QED
    BY <2>1, <2>2
<1>7. CASE Collect
  BY <1>7 DEF Collect, Goto, workerVars
<1>8. CASE Judge
  BY <1>8 DEF Judge, Goto, workerVars
<1>9. CASE Answer \/ Write \/ Exit
  BY <1>9 DEF Answer, Write, Exit, parentVars
<1>10. CASE Crash \/ Die
  BY <1>10 DEF Crash, Die, parentVars
<1>11. CASE Misbehave
  BY <1>11 DEF Misbehave, parentVars
<1>12. CASE ChildActs
  BY <1>12 DEF ChildActs, parentVars
<1>13. CASE Drain \/ Tick
  BY <1>13 DEF Drain, Tick, parentVars, workerVars
<1>14. CASE ReadRequest(TRUE) \/ ReadRequest(FALSE)
  BY <1>14 DEF ReadRequest, parentVars
<1> QED
  BY <1>1, <1>2, <1>3, <1>4, <1>5, <1>6, <1>7, <1>8,
     <1>9, <1>10, <1>11, <1>12, <1>13, <1>14, ProcessCases

LEMMA VerdictStep ==
  ASSUME ProcessInv, ProcessStep
  PROVE  VerdictInv'
<1> USE DEF ProcessInv, ProcessTypeOK, VerdictInv, AnswerInv, Alive, Exited
<1>1. ASSUME NEW r \in Requests, Spawn(r)
      PROVE  VerdictInv'
  BY <1>1 DEF Spawn, Goto
<1>2. CASE SpawnFails
  BY <1>2 DEF SpawnFails, Goto, workerVars
<1>3. CASE Watching
  BY <1>3, WatchingChanges DEF workerVars
<1>4. CASE Terminating
  BY <1>4, TerminatingChanges DEF workerVars
<1>5. CASE Term
  BY <1>5 DEF Term, Goto, GroupExists, Zombie
<1>6. CASE Kill
  BY <1>6 DEF Kill, Goto
<1>7. CASE Collect
  BY <1>7 DEF Collect, Goto, workerVars
<1>8. CASE Judge
  <2>1. verdict' = "ok" => error = "none" /\ ~ Exceeded /\ worker = "exited"
                           /\ WellFormed /\ answer = "ok"
    BY <1>8 DEF Judge, Judgement, ProgramTypeOK
  <2>2. WellFormed => raw = Whole
    BY DEF WellFormed
  <2>3. raw <= drained /\ drained <= written /\ (answer # "garbage" => written <= Whole)
    BY DEF NumbersInv
  <2>4. raw = Whole /\ answer = "ok" => written = Whole
    BY <2>3, WholeAssumption DEF PipeTypeOK, Over
  <2> QED
    BY <1>8, <2>1, <2>2, <2>4 DEF Judge, Goto, workerVars
<1>9. CASE Answer \/ Write \/ Exit
  BY <1>9 DEF Answer, Write, Exit, parentVars
<1>10. CASE Crash \/ Die
  BY <1>10 DEF Crash, Die, parentVars
<1>11. CASE Misbehave
  BY <1>11 DEF Misbehave, parentVars
<1>12. CASE ChildActs
  BY <1>12 DEF ChildActs, parentVars
<1>13. CASE Drain \/ Tick
  BY <1>13 DEF Drain, Tick, parentVars, workerVars
<1>14. CASE ReadRequest(TRUE) \/ ReadRequest(FALSE)
  BY <1>14 DEF ReadRequest, parentVars
<1> QED
  BY <1>1, <1>2, <1>3, <1>4, <1>5, <1>6, <1>7, <1>8,
     <1>9, <1>10, <1>11, <1>12, <1>13, <1>14, ProcessCases

LEMMA RefusedStep ==
  ASSUME ProcessInv, ProcessStep
  PROVE  RefusedInv'
<1> USE DEF ProcessInv, ProcessTypeOK, RefusedInv, AnswerInv, Valid, Alive
<1>1. ASSUME NEW r \in Requests, Spawn(r)
      PROVE  RefusedInv'
  BY <1>1 DEF Spawn, Goto
<1>2. CASE SpawnFails
  BY <1>2 DEF SpawnFails, Goto, workerVars
<1>3. CASE Watching
  BY <1>3, WatchingChanges DEF workerVars
<1>4. CASE Terminating
  BY <1>4, TerminatingChanges DEF workerVars
<1>5. CASE Term
  BY <1>5 DEF Term, Goto, GroupExists, Zombie
<1>6. CASE Kill
  BY <1>6 DEF Kill, Goto
<1>7. CASE Collect
  BY <1>7 DEF Collect, Goto, workerVars
<1>8. CASE Judge
  BY <1>8 DEF Judge, Goto, workerVars
<1>9. CASE Answer \/ Write \/ Exit
  BY <1>9 DEF Answer, Write, Exit, parentVars
<1>10. CASE Crash \/ Die
  BY <1>10 DEF Crash, Die, parentVars
<1>11. CASE Misbehave
  BY <1>11 DEF Misbehave, parentVars
<1>12. CASE ChildActs
  BY <1>12 DEF ChildActs, parentVars
<1>13. CASE Drain \/ Tick
  BY <1>13 DEF Drain, Tick, parentVars, workerVars
<1>14. CASE ReadRequest(TRUE) \/ ReadRequest(FALSE)
  BY <1>14 DEF ReadRequest, parentVars
<1> QED
  BY <1>1, <1>2, <1>3, <1>4, <1>5, <1>6, <1>7, <1>8,
     <1>9, <1>10, <1>11, <1>12, <1>13, <1>14, ProcessCases

LEMMA ProcessStart == ProcessInit => ProcessInv
<1> SUFFICES ASSUME ProcessInit
             PROVE  ProcessInv
  OBVIOUS
<1> USE DEF ProcessInit
<1>1. ProgramTypeOK
  BY DEF ProgramTypeOK
<1>2. WorkerTypeOK
  BY RequestsTyped DEF WorkerTypeOK
<1>3. PipeTypeOK /\ NumbersInv
  BY WholeAssumption DEF PipeTypeOK, NumbersInv, Over
<1>4. AnswerInv /\ GroupInv
  BY DEF AnswerInv, GroupInv, Waited, Swept
<1>5. VerdictInv /\ RefusedInv
  BY DEF VerdictInv, RefusedInv
<1> QED
  BY <1>1, <1>2, <1>3, <1>4, <1>5 DEF ProcessInv, ProcessTypeOK

LEMMA ProcessPreserves ==
  ASSUME ProcessInv, [ProcessStep]_processVars
  PROVE  ProcessInv'
<1>1. CASE ProcessStep
  <2>1. ProgramTypeOK' /\ WorkerTypeOK' /\ PipeTypeOK'
    BY <1>1, ProgramTypeStep, WorkerTypeStep, PipeTypeStep
  <2>2. NumbersInv' /\ AnswerInv' /\ GroupInv' /\ VerdictInv' /\ RefusedInv'
    BY <1>1, NumbersStep, AnswerStep, GroupStep, VerdictStep, RefusedStep
  <2> QED
    BY <2>1, <2>2 DEF ProcessInv, ProcessTypeOK
<1>2. CASE UNCHANGED processVars
  <2> USE <1>2 DEF processVars, ProcessInv
  <2>1. ProgramTypeOK'
    BY DEF ProcessTypeOK, ProgramTypeOK
  <2>2. WorkerTypeOK'
    BY DEF ProcessTypeOK, WorkerTypeOK
  <2>3. PipeTypeOK' /\ NumbersInv' /\ AnswerInv'
    BY DEF ProcessTypeOK, PipeTypeOK, NumbersInv, AnswerInv
  <2>4. GroupInv' /\ VerdictInv'
    BY DEF GroupInv, VerdictInv, Waited, Swept
  <2>5. RefusedInv'
    BY DEF RefusedInv, Valid
  <2> QED
    BY <2>1, <2>2, <2>3, <2>4, <2>5 DEF ProcessTypeOK
<1> QED
  BY <1>1, <1>2

-----------------------------------------------------------------------------
(* The composition *)

\* Launching takes the bundle out of scope.
LEMMA LaunchKeepsBundle ==
  ASSUME BundleInv, Launch
  PROVE  BundleInv'
<1> USE EditsAssumption, FilesAssumption
    DEF Launch, BundleInv, BundleTypeOK, Contents, Entries, Nothing
<1>1. /\ stage' = "run" /\ purpose' = "run" /\ origin' = "recipe" /\ selected' = FALSE
      /\ dir' = Nothing /\ first' = Nothing /\ second' = Nothing /\ edits' = 0
      /\ moment' = Nothing /\ seen' = Nothing
      /\ UNCHANGED <<ahead, listing, open, digest>>
  BY DEF Move
<1>2. /\ copied' \in [Files -> Contents \union {Gone}]
  OBVIOUS
<1>9. Nothing \in [Files -> Entries] /\ Nothing \in [Files -> Contents \union {Gone}]
  OBVIOUS
<1>3. open = NotOpen
  BY DEF Move, OpenInv, Reading
<1> HIDE DEF Nothing, Launch
<1>4. BundleTypeOK'
  <2>1. /\ dir' \in [Files -> Entries]
        /\ first' \in [Files -> Contents \union {Gone}]
        /\ second' \in [Files -> Contents \union {Gone}]
        /\ moment' \in [Files -> Entries] /\ seen' \in [Files -> Entries]
    BY <1>1, <1>9
  <2>2. ahead' \subseteq Files \union Folders /\ listing' \subseteq Files
    BY <1>1
  <2>3. open' \in [file: Files \union {NoFile}, content: Contents, touched: BOOLEAN]
    BY <1>1
  <2>4. edits' \in 0..MaxEdits /\ digest' \in Contents \union {Gone}
    BY <1>1
  <2> QED
    BY <1>1, <1>2, <2>1, <2>2, <2>3, <2>4 DEF Ended
<1>5. OpenInv'
  BY <1>1, <1>3, NoneOpen DEF OpenInv, NotOpen, Scanned, Move, Launch
<1>6. PastInv'
  BY <1>1, <1>3 DEF PastInv, Nothing, NotOpen
<1>7. CopyInv' /\ MatchInv'
  BY <1>1 DEF CopyInv, MatchInv
<1>8. MomentInv' /\ SeenInv'
  BY <1>1 DEF MomentInv, SeenInv, Again
<1> QED
  BY <1>4, <1>5, <1>6, <1>7, <1>8

LEMMA StepOfProcess ==
  ASSUME [Next]_vars
  PROVE  [ProcessStep]_processVars
<1>1. CASE BundleNext /\ UNCHANGED processVars
  BY <1>1
<1>2. CASE Launch
  BY <1>2 DEF Launch, ProcessStep
<1>3. CASE Process
  <2>1. PICK v \in BOOLEAN : v = SourceVerified
    BY DEF SourceVerified
  <2>2. ReadRequest(SourceVerified) => ReadRequest(TRUE) \/ ReadRequest(FALSE)
    BY <2>1
  <2> QED
    BY <1>3, <2>2 DEF Process, ProcessStep
<1>4. CASE UNCHANGED vars
  BY <1>4 DEF vars
<1> QED
  BY <1>1, <1>2, <1>3, <1>4 DEF Next

\* Every variable keeps its type, and with it the invariants of the bundle and
\* of the invocation.
THEOREM Inductive == Spec => []IInv
<1>1. Init => IInv
  BY BundleStart, ProcessStart DEF Init, IInv
<1>2. IInv /\ [Next]_vars => IInv'
  <2> SUFFICES ASSUME IInv, [Next]_vars
               PROVE  IInv'
    OBVIOUS
  <2>1. ProcessInv'
    BY StepOfProcess, ProcessPreserves DEF IInv
  <2>2. BundleInv'
    <3>1. CASE BundleNext \/ UNCHANGED bundleVars
      BY <3>1, BundleStep DEF IInv
    <3>2. CASE Launch
      BY <3>2, LaunchKeepsBundle DEF IInv
    <3> QED
      BY <3>1, <3>2 DEF Next, Process, vars
  <2> QED
    BY <2>1, <2>2 DEF IInv
<1> QED
  BY <1>1, <1>2, PTL DEF Spec

\* The files of a bundle that is filed, or run, were in the recipe directory
\* together, each folder held no others when it was listed last, and they are
\* what was copied (_preserve_recipe_bundle, _adapter_path).
THEOREM BundlesAreMoments == Spec => []BundleWasThere
<1>1. IInv => BundleWasThere
  <2> SUFFICES ASSUME BundleInv, stage \in {"filed", "launched"}
               PROVE  /\ \A f \in Files : first[f] # Gone =>
                           first[f] = moment[f] /\ first[f] = copied[f]
                      /\ origin # "inline" => \A f \in Scanned : first[f] = seen[f]
    BY DEF IInv, BundleWasThere
  <2> USE DEF BundleInv
  <2>1. first = second /\ Again
    BY DEF MatchInv, Again
  <2>2. ASSUME NEW f \in Files, first[f] # Gone
        PROVE  first[f] = moment[f] /\ first[f] = copied[f]
    BY <2>1, <2>2 DEF MomentInv, Changed, CopyInv
  <2>3. ASSUME NEW f \in Scanned, origin # "inline"
        PROVE  first[f] = seen[f]
    <3>1. ~ Unseen(f) /\ (Met(f) <=> first[f] # Gone)
      BY <2>1 DEF Unseen, Met
    <3> QED
      BY <2>1, <2>3, <3>1 DEF SeenInv, Changed
  <2> QED
    BY <2>2, <2>3
<1> QED
  BY Inductive, <1>1, PTL

\* What an adapter is run in is what was hashed, without the caches, and of a
\* capture what was captured (invoke_adapter: "recipe_bundle").
THEOREM AdaptersRunWhatIsRecorded == Spec => []RunsWhatIsRecorded
<1>1. IInv => RunsWhatIsRecorded
  <2> SUFFICES ASSUME BundleInv, stage = "launched"
               PROVE  /\ copied = first
                      /\ origin = "captured" => \A f \in Scanned : copied[f] = 0
                      /\ \A f \in Transient : copied[f] = Gone
    BY DEF IInv, RunsWhatIsRecorded
  <2> USE FilesAssumption DEF BundleInv, BundleTypeOK
  <2>1. \A f \in Files : copied[f] = first[f]
    BY DEF CopyInv
  <2>2. copied = first
    BY <2>1
  <2>3. origin = "captured" => \A f \in Scanned : first[f] = 0
    BY DEF MatchInv
  <2>4. \A f \in Files : f \in Transient => first[f] = Gone
    BY DEF PastInv, Scanned
  <2> QED
    BY <2>2, <2>3, <2>4
<1> QED
  BY Inductive, <1>1, PTL

\* A capture's recipe is the configuration it was made with
\* (_preserve_recipe_bundle compares collection.toml with what was loaded).
THEOREM CapturesKeepTheirConfiguration == Spec => []PreservedIsConfigured
<1>1. IInv => PreservedIsConfigured
  BY DEF IInv, BundleInv, MatchInv, PreservedIsConfigured
<1> QED
  BY Inductive, <1>1, PTL

\* A result is one the worker wrote whole, before it exited by itself
\* (_run_worker).
THEOREM ResultsAreTheWorkers == Spec => []ResultIsTheWorkers
<1>1. IInv => ResultIsTheWorkers
  BY DEF IInv, ProcessInv, VerdictInv, GroupInv, ResultIsTheWorkers
<1> QED
  BY Inductive, <1>1, PTL

\* The worker refuses no request that validation and reader generation send
\* (_validate_request against invoke_adapter).
THEOREM RequestsAreUnderstood == Spec => []ProductionIsUnderstood
<1>1. ASSUME request \in Requests, Production(request), Sendable(request)
      PROVE  Valid(request)
  <2>1. /\ request.api \in {1, 2} /\ request.operation \in {"validate", "reader"}
        /\ request.hasOutput \in BOOLEAN /\ request.support \in BOOLEAN
    BY <1>1 DEF Requests, Production
  <2> QED
    BY <1>1, <2>1 DEF Sendable, ContextFits, Scope, Valid
<1>2. IInv => ProductionIsUnderstood
  BY <1>1 DEF IInv, ProcessInv, ProcessTypeOK, WorkerTypeOK, RefusedInv,
              ProductionIsUnderstood
<1> QED
  BY Inductive, <1>2, PTL
=============================================================================
