------------------------- MODULE CaptureRefinement -------------------------
(***************************************************************************)
(* Capture implements PointerRegister: the removal of the manifest's       *)
(* temporary file commits a capture, damage or a late failure loses it,    *)
(* and the replacement of a pointer file advances a register.  Everything  *)
(* else is invisible to the reader of the pointers.                        *)
(***************************************************************************)
EXTENDS CaptureProofs

\* The names that a capture is fit for.
NamesFor(c) == {n \in Names : Fits(c, n)}

\* Granted and Lost do not look at the content of an unsealed capture.
LEMMA UnsealedUnseen ==
  ASSUME NEW c0 \in Ids, ~ Sealed(c0),
         UNCHANGED <<manifest, temporary, damaged, pointer>>,
         \A c \in Ids \ {c0} : /\ status'[c] = status[c]
                               /\ scope'[c] = scope[c]
                               /\ results'[c] = results[c]
  PROVE  UNCHANGED <<Granted, Lost, pointer>>
<1>1. \A c \in Ids : Sealed(c)' <=> Sealed(c)
  BY DEF Sealed
<1>2. \A c \in Ids, n \in Names :
        Sealed(c) => (Fits(c, n)' <=> Fits(c, n))
  BY DEF Fits
<1>3. Granted' = Granted
  BY <1>1, <1>2 DEF Granted
<1>4. Lost' = Lost
  BY <1>1 DEF Lost
<1>. QED  BY <1>3, <1>4

\* A step that changes no directory and no pointer is not seen.
LEMMA DiskUnseen ==
  ASSUME UNCHANGED diskVars
  PROVE  UNCHANGED <<Granted, Lost, pointer>>
BY DEF diskVars, Granted, Lost, Fits, Sealed

\* Linking the manifest is not seen: the temporary file is still there.
LEMMA LinkUnseen ==
  ASSUME TypeOK, NEW p \in Procs, LinkManifest(p)
  PROVE  UNCHANGED <<Granted, Lost, pointer>>
<1>1. /\ ~ Sealed(cap[p]) /\ cap[p] \in Ids
      /\ manifest' = [manifest EXCEPT ![cap[p]] = status[cap[p]]]
      /\ temporary' = temporary \union {cap[p]}
      /\ UNCHANGED <<status, scope, results, damaged, pointer>>
  BY DEF LinkManifest, TypeOK
<1>2. manifest \in [Ids -> CaptureJsonStatuses \union {"unsealed"}]
  BY DEF TypeOK
<1>3. \A c \in Ids \ {cap[p]} : manifest'[c] = manifest[c]
  BY <1>1, <1>2
<1>4. manifest'[cap[p]] = status[cap[p]]
  BY <1>1, <1>2
<1>5. \A c \in Ids, n \in Names :
        (Sealed(c) /\ c \notin temporary /\ Fits(c, n))'
          <=> Sealed(c) /\ c \notin temporary /\ Fits(c, n)
  BY <1>1, <1>3 DEF Sealed, Fits
<1>6. Granted' = Granted
  BY <1>5 DEF Granted
<1>7. \A c \in Ids : (Sealed(c) /\ manifest[c] # status[c])'
                       <=> Sealed(c) /\ manifest[c] # status[c]
  BY <1>1, <1>3, <1>4 DEF Sealed
<1>8. Lost' = Lost
  BY <1>1, <1>7 DEF Lost
<1>. QED  BY <1>1, <1>6, <1>8

\* Once the manifest is linked, the removal of the temporary file commits the
\* capture, whatever happens to its capture.json in the same step.
LEMMA UnlinkCommits ==
  ASSUME NEW c \in Ids, Sealed(c), manifest[c] = status[c],
         UNCHANGED <<scope, results, manifest, damaged, pointer>>,
         temporary' = temporary \ {c},
         \A d \in Ids \ {c} : status'[d] = status[d]
  PROVE  Register!Commit(c, NamesFor(c))
<1>1. \A d \in Ids : Sealed(d)' <=> Sealed(d)
  BY DEF Sealed
<1>2. \A d \in Ids, n \in Names : Fits(d, n)' <=> Fits(d, n)
  BY DEF Fits
<1>3. Granted' = [n \in Names |-> IF n \in NamesFor(c)
                                    THEN Granted[n] \union {c} ELSE Granted[n]]
  <2>1. ASSUME NEW n \in Names
        PROVE  {d \in Ids : Sealed(d) /\ d \notin temporary /\ Fits(d, n)}'
                 = IF n \in NamesFor(c)
                     THEN Granted[n] \union {c} ELSE Granted[n]
    BY <1>1, <1>2 DEF Granted, NamesFor
  <2>. QED  BY <2>1 DEF Granted
<1>4. Lost' = Lost \/ Lost' = Lost \union {c}
  BY <1>1 DEF Lost
<1>. QED  BY <1>3, <1>4 DEF Register!Commit

\* A rewrite of the capture.json of a sealed capture loses it, or is not seen.
LEMMA RewriteLoses ==
  ASSUME NEW c \in Ids, Sealed(c), manifest[c] = status[c],
         UNCHANGED <<scope, results, manifest, temporary, damaged, pointer>>,
         \A d \in Ids \ {c} : status'[d] = status[d]
  PROVE  Register!Lose(c) \/ UNCHANGED <<Granted, Lost, pointer>>
<1>1. Granted' = Granted
  BY DEF Granted, Fits, Sealed
<1>2. Lost' = Lost \/ Lost' = Lost \union {c}
  BY DEF Lost, Sealed
<1>. QED  BY <1>1, <1>2 DEF Register!Lose

\* A capture whose invocation is here is sealed, and its manifest is right.
LEMMA AfterLinkSealed ==
  ASSUME IInv, NEW p \in Procs, pc[p] \in AfterLink
  PROVE  cap[p] \in Ids /\ Sealed(cap[p]) /\ manifest[cap[p]] = status[cap[p]]
<1>1. cap[p] \in Ids
  BY DEF IInv, TypeOK, AfterLink, Finished
<1>2. manifest[cap[p]] = status[cap[p]]
  BY DEF IInv, StageInv, Stage
<1>3. status[cap[p]] \in CaptureJsonStatuses
  BY <1>1 DEF IInv, TypeOK
<1>. QED
  BY <1>1, <1>2, <1>3 DEF Sealed, CaptureJsonStatuses, CaptureStatuses,
                          SourceStatuses, Successful
\* A step of the register, or none.
RegisterStep == [Register!RegisterNext]_<<Granted, Lost, pointer>>

\* An unsealed capture under acquisition is rewritten unseen.
LEMMA AcquisitionUnseen ==
  ASSUME IInv, NEW p \in Procs,
         \/ MakeDirectory(p) \/ OpenCapture(p) \/ WriteTerminalCapture(p)
         \/ Interrupt(p) \/ ExecutionFails(p)
         \/ \E s \in Sources, o \in Tried : RunSource(p, s, o)
         \/ \E s \in Sources : InterruptSource(p, s)
  PROVE  UNCHANGED <<Granted, Lost, pointer>>
<1>1. cap[p] \in Ids /\ ~ Sealed(cap[p])
  <2>1. pc[p] \in {"locked", "opening", "setup", "sources"}
    BY DEF MakeDirectory, OpenCapture, WriteTerminalCapture, Interrupt,
           ExecutionFails, RunSource, InterruptSource
  <2>2. cap[p] \in Ids
    BY <2>1 DEF IInv, TypeOK
  <2>3. CASE pc[p] = "locked"
    BY <2>2, <2>3 DEF MakeDirectory, OpenCapture, WriteTerminalCapture,
          Interrupt, ExecutionFails, RunSource, InterruptSource, IInv, FreshInv
  <2>4. CASE pc[p] # "locked"
    <3>1. Stage(p)
      BY DEF IInv, StageInv
    <3>2. pc[p] \in {"opening", "setup", "sources"}
      BY <2>1, <2>4
    <3>. QED  BY <2>2, <3>1, <3>2 DEF Stage
  <2>. QED  BY <2>2, <2>3, <2>4
<1>2. UNCHANGED <<manifest, temporary, damaged, pointer>>
  BY DEF MakeDirectory, OpenCapture, WriteTerminalCapture, Interrupt,
         ExecutionFails, RunSource, InterruptSource
<1>3. \A c \in Ids \ {cap[p]} : /\ status'[c] = status[c]
                                /\ scope'[c] = scope[c]
                                /\ results'[c] = results[c]
  BY DEF IInv, TypeOK, MakeDirectory, OpenCapture, WriteTerminalCapture,
         Interrupt, ExecutionFails, RunSource, InterruptSource
<1>. QED  BY <1>1, <1>2, <1>3, UnsealedUnseen

\* Losing or committing one capture is a step of the register.
LEMMA CommitIsStep ==
  ASSUME NEW c \in Ids, Register!Commit(c, NamesFor(c)) \/ Register!Lose(c)
  PROVE  RegisterStep
<1>1. NamesFor(c) \in SUBSET Names
  BY DEF NamesFor
<1>. QED  BY <1>1 DEF RegisterStep, Register!RegisterNext

\* UnlinkTemporary commits the capture.
LEMMA UnlinkIsStep ==
  ASSUME IInv, NEW p \in Procs, UnlinkTemporary(p)
  PROVE  RegisterStep
<1>1. pc[p] \in AfterLink
  BY DEF UnlinkTemporary, AfterLink, Finished
<1>. QED
  BY <1>1, AfterLinkSealed, UnlinkCommits, CommitIsStep DEF UnlinkTemporary

\* A failure of finalize_capture comes before the capture is sealed, commits
\* it as lost, or loses it.
LEMMA FailureIsStep ==
  ASSUME IInv, NEW p \in Procs, FinalizeFails(p)
  PROVE  RegisterStep
<1>0. /\ pc[p] \in {"sealing", "linked", "syncing"}
      /\ temporary' \in {temporary, temporary \ {cap[p]}}
      /\ UNCHANGED <<scope, results, manifest, damaged, pointer>>
      /\ \A d \in Ids \ {cap[p]} : status'[d] = status[d]
      /\ cap[p] \in Ids
  BY DEF FinalizeFails, IInv, TypeOK
<1>1. CASE pc[p] = "sealing"
  <2>1. ~ Sealed(cap[p]) /\ cap[p] \notin temporary
    BY <1>1 DEF IInv, StageInv, Stage
  <2>2. temporary' = temporary
    BY <1>0, <2>1
  <2>. QED  BY <1>0, <2>1, <2>2, UnsealedUnseen DEF RegisterStep
<1>2. CASE pc[p] # "sealing"
  <2>1. pc[p] \in AfterLink
    BY <1>0, <1>2 DEF AfterLink, Finished
  <2>2. CASE temporary' = temporary
    <3>1. Register!Lose(cap[p]) \/ UNCHANGED <<Granted, Lost, pointer>>
      BY <1>0, <2>1, <2>2, AfterLinkSealed, RewriteLoses
    <3>. QED  BY <1>0, <3>1, CommitIsStep DEF RegisterStep
  <2>3. CASE temporary' = temporary \ {cap[p]}
    BY <1>0, <2>1, <2>3, AfterLinkSealed, UnlinkCommits, CommitIsStep
  <2>. QED  BY <1>0, <2>2, <2>3
<1>. QED  BY <1>1, <1>2

\* A stop leaves the disk alone, or removes the temporary file of a manifest
\* that is linked.
LEMMA StopIsStep ==
  ASSUME IInv, NEW p \in Procs, Stop(p)
  PROVE  RegisterStep
<1>0. /\ pc[p] \in Locked \ {"locked"}
      /\ temporary' \in {temporary, temporary \ {cap[p]}}
      /\ UNCHANGED <<status, scope, results, manifest, damaged, pointer>>
      /\ cap[p] \in Ids
  BY DEF Stop, IInv, TypeOK, Locked
<1>1. CASE temporary' = temporary
  BY <1>0, <1>1, DiskUnseen DEF diskVars, RegisterStep
<1>2. CASE temporary' # temporary
  <2>1. cap[p] \in temporary /\ temporary' = temporary \ {cap[p]}
    BY <1>0, <1>2
  <2>2. pc[p] \in AfterLink
    BY <1>0, <2>1 DEF IInv, StageInv, Stage, Locked, AfterLink, Finished
  <2>. QED
    BY <1>0, <2>1, <2>2, AfterLinkSealed, UnlinkCommits, CommitIsStep
<1>. QED  BY <1>1, <1>2

\* Damage loses a capture.
LEMMA DamageIsStep ==
  ASSUME NEW c \in Ids, Damage(c)
  PROVE  RegisterStep
<1>1. damaged' = damaged \union {c}
      /\ UNCHANGED <<status, scope, results, manifest, temporary, pointer>>
  BY DEF Damage
<1>2. Granted' = Granted
  BY <1>1 DEF Granted, Fits, Sealed
<1>3. Lost' = Lost \union {c}
  BY <1>1 DEF Lost, Sealed
<1>. QED  BY <1>1, <1>2, <1>3, CommitIsStep DEF Register!Lose

\* The capture that replaces a pointer is granted its name.
LEMMA ReplacementGranted ==
  ASSUME IInv, NEW p \in Procs, pc[p] = "replacing"
  PROVE  naming[p] \in Names /\ cap[p] \in Granted[naming[p]]
<1> DEFINE c == cap[p]
           n == naming[p]
<1>1. c \in Ids /\ n \in Names
  BY DEF IInv, TypeOK
<1>2. Sealed(c) /\ manifest[c] = status[c]
  BY AfterLinkSealed DEF AfterLink, Finished
<1>3. /\ c \notin temporary
      /\ scope[c] = ask[p]
      /\ Reported(results[c]) = ask[p].selected
      /\ status[c] = AggregateStatus(results[c], Required)
  BY DEF IInv, StageInv, Stage, AfterSync, AfterLink, Finished
<1>4. n \in PointersToMove(p)
  BY DEF IInv, TodoInv, Decided
<1>5. CASE n = Acquired
  <2>1. ask[p].full /\ status[c] = "complete"
    BY <1>4, <1>5, NamesAssumption DEF PointersToMove
  <2>2. ask[p].selected = ask[p].configured
    BY <2>1 DEF IInv, AskInv, Requests
  <2>3. \A s \in Reported(results[c]) : results[c][s] = "complete"
    BY <1>3, <2>1 DEF AggregateStatus
  <2>4. IsCompleteFullCapture(manifest[c], scope[c].selected, results[c],
                              scope[c].configured)
    BY <1>2, <1>3, <2>1, <2>2, <2>3 DEF IsCompleteFullCapture
  <2>. QED  BY <1>1, <1>2, <1>3, <1>5, <2>4 DEF Granted, Fits
<1>6. CASE n # Acquired
  <2>1. results[c][n] \in Successful
    BY <1>4, <1>6 DEF PointersToMove
  <2>. QED  BY <1>1, <1>2, <1>3, <1>6, <2>1 DEF Granted, Fits
<1>. QED  BY <1>5, <1>6

\* A pointer that need not be kept is absent, lost, or not newer.
LEMMA NotKept ==
  ASSUME IInv, NEW c \in Ids, NEW n \in Names, ~ Keeps(c, n)
  PROVE  \/ pointer[n] = NoCapture
         \/ pointer[n] \in Lost
         \/ Stamp[pointer[n]] <= Stamp[c]
<1> SUFFICES ASSUME pointer[n] # NoCapture, pointer[n] \notin Lost
             PROVE  Stamp[pointer[n]] <= Stamp[c]
  OBVIOUS
<1>1. pointer[n] \in Ids
  BY DEF IInv, TypeOK
<1>2. ValidTarget(pointer[n], n)
  BY <1>1 DEF IInv, PointerInv, ValidTarget, Verified, Fits, Lost
<1>3. ~ (Stamp[pointer[n]] > Stamp[c])
  BY <1>2 DEF Keeps
<1>4. Stamp[pointer[n]] \in Nat /\ Stamp[c] \in Nat
  BY <1>1, StampAssumption
<1>. QED  BY <1>3, <1>4

\* The replacement of a pointer file advances its register.
LEMMA ReplaceIsStep ==
  ASSUME IInv, NEW p \in Procs, ReplacePointer(p)
  PROVE  RegisterStep
<1> DEFINE c == cap[p]
           n == naming[p]
<1>1. /\ pc[p] = "replacing" /\ c \in Ids
      /\ pointer' = [pointer EXCEPT ![n] = c]
      /\ UNCHANGED <<status, scope, results, manifest, temporary, damaged>>
  BY DEF ReplacePointer, IInv, TypeOK
<1>2. n \in Names /\ c \in Granted[n]
  BY <1>1, ReplacementGranted
<1>3. ~ Keeps(c, n)
  BY <1>1 DEF IInv, ChoiceInv
<1>4. \/ pointer[n] = NoCapture \/ pointer[n] \in Lost
      \/ Stamp[pointer[n]] <= Stamp[c]
  BY <1>1, <1>2, <1>3, NotKept
<1>5. UNCHANGED <<Granted, Lost>>
  BY <1>1 DEF Granted, Lost, Fits, Sealed
<1>6. Register!Advance(n, c)
  BY <1>1, <1>2, <1>4, <1>5 DEF Register!Advance
<1>. QED  BY <1>1, <1>2, <1>6 DEF RegisterStep, Register!RegisterNext

\* Every step of Capture is a step of the register, or is not seen.
LEMMA StepRefines ==
  ASSUME IInv, [Next]_vars
  PROVE  RegisterStep
<1>1. ASSUME NEW p \in Procs,
             \/ \E c \in Ids, r \in Requests : Plan(p, c, r)
             \/ Acquire(p) \/ Refuse(p) \/ MakeDirectoryFails(p) \/ SetUp(p)
             \/ SyncDirectory(p) \/ VerifySucceeds(p) \/ VerifyFails(p)
             \/ \E n \in Names : KeepPointer(p, n) \/ ChoosePointer(p, n)
             \/ Return(p)
      PROVE  RegisterStep
  <2>1. UNCHANGED diskVars
    BY <1>1 DEF Plan, Acquire, Refuse, MakeDirectoryFails, SetUp, SyncDirectory,
                VerifySucceeds, VerifyFails, KeepPointer, ChoosePointer, Return
  <2>. QED  BY <2>1, DiskUnseen DEF RegisterStep
<1>2. ASSUME NEW p \in Procs,
             \/ MakeDirectory(p) \/ OpenCapture(p) \/ WriteTerminalCapture(p)
             \/ Interrupt(p) \/ ExecutionFails(p)
             \/ \E s \in Sources, o \in Tried : RunSource(p, s, o)
             \/ \E s \in Sources : InterruptSource(p, s)
      PROVE  RegisterStep
  BY <1>2, AcquisitionUnseen DEF RegisterStep
<1>3. ASSUME NEW p \in Procs, LinkManifest(p) PROVE RegisterStep
  BY <1>3, LinkUnseen DEF IInv, RegisterStep
<1>4. ASSUME NEW p \in Procs,
             \/ UnlinkTemporary(p) \/ FinalizeFails(p) \/ Stop(p)
             \/ ReplacePointer(p)
      PROVE  RegisterStep
  BY <1>4, UnlinkIsStep, FailureIsStep, StopIsStep, ReplaceIsStep
<1>5. ASSUME NEW c \in Ids, Damage(c) PROVE RegisterStep
  BY <1>5, DamageIsStep
<1>6. CASE UNCHANGED vars
  <2>1. UNCHANGED diskVars
    BY <1>6 DEF vars, diskVars
  <2>. QED  BY <2>1, DiskUnseen DEF RegisterStep
<1>. QED
  BY <1>1, <1>2, <1>3, <1>4, <1>5, <1>6 DEF Next, Step, Fault

\* At first nothing is granted, lost or named.
LEMMA InitRefines == Init => Register!RegisterInit
<1> SUFFICES ASSUME Init PROVE Register!RegisterInit
  OBVIOUS
<1>1. \A c \in Ids : ~ Sealed(c)
  BY DEF Init, Sealed
<1>. QED  BY <1>1 DEF Init, Register!RegisterInit, Granted, Lost

\* The pointers of a collection are a pointer register: readers that follow a
\* pointer see a capture that was committed as fit for its name, and an intact
\* capture gives way only to one that is not older.
THEOREM Refines == Spec => RegisterSpec
<1>1. Init => Register!RegisterInit
  BY InitRefines
<1>2. IInv /\ [Next]_vars => RegisterStep
  BY StepRefines
<1>3. RegisterStep <=> [Register!RegisterNext]_Register!registerVars
  BY DEF RegisterStep, Register!registerVars
<1>. QED
  BY <1>1, <1>2, <1>3, Inductive, PTL DEF Spec, RegisterSpec, Register!RegisterSpec
=============================================================================
