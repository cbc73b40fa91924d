--------------------------- MODULE CaptureProofs ---------------------------
(***************************************************************************)
(* Capture, for every set of invocations, identifiers and sources: the     *)
(* status of a capture, type correctness, mutual exclusion, what the       *)
(* capture pointers name, how they may move, that no capture is lost to    *)
(* them.  That they implement the register is in CaptureRefinement.        *)
(***************************************************************************)
EXTENDS CaptureInv, TLAPS

-----------------------------------------------------------------------------
(* The status of a source and of a capture (CaptureStatus) *)

\* A source's status is one of four, and "failed" exactly when the source kept
\* nothing: HasPayload may be read off the status.
THEOREM FailedMeansEmpty ==
  ASSUME NEW o \in Outcomes
  PROVE  /\ SourceStatus(o) \in SourceStatuses
         /\ HasPayload(SourceStatus(o)) <=> o.payload
         /\ SourceStatus(o) = "failed" <=> ~ o.payload
  BY DEF Outcomes, SourceStatus, SourceStatuses, Successful, HasPayload

\* The results of any outcomes are typed, and every source has reported.
LEMMA ResultsOfType ==
  ASSUME NEW S, NEW outcomes \in [S -> Outcomes]
  PROVE  /\ ResultsOf(outcomes) \in [S -> SourceStatuses]
         /\ Reported(ResultsOf(outcomes)) = S
<1>1. \A s \in S : SourceStatus(outcomes[s]) \in SourceStatuses
  BY FailedMeansEmpty
<1>2. ResultsOf(outcomes) \in [S -> SourceStatuses]
  BY <1>1 DEF ResultsOf
<1>3. \A x \in SourceStatuses : x # "none"
  BY DEF SourceStatuses, Successful
<1>. QED  BY <1>2, <1>3 DEF Reported

\* _aggregate_status calls a capture complete exactly when every source that
\* reported is complete, required or not.
THEOREM AggregateComplete ==
  ASSUME NEW S, NEW found \in [S -> SourceStatuses \union {"none", "interrupted"}],
         NEW required
  PROVE  AggregateStatus(found, required) = "complete"
           <=> \A s \in Reported(found) : found[s] = "complete"
  BY DEF AggregateStatus, RequiredFailures, Successful, Reported

\* _aggregate_status yields a terminal status, whatever was reported.
THEOREM AggregateType ==
  ASSUME NEW found, NEW required
  PROVE  AggregateStatus(found, required) \in CaptureStatuses
  BY DEF AggregateStatus, CaptureStatuses, SourceStatuses, Successful

\* _aggregate_status and is_complete_full_capture agree on what is complete.
THEOREM CompleteAgrees ==
  ASSUME NEW S, NEW outcomes \in [S -> Outcomes], NEW required
  PROVE  CompleteIsFull(outcomes, required)
<1>. DEFINE R == ResultsOf(outcomes)
<1>1. R \in [S -> SourceStatuses] /\ Reported(R) = S
  BY ResultsOfType
<1>2. R \in [S -> SourceStatuses \union {"none", "interrupted"}]
  BY <1>1
<1>3. AggregateStatus(R, required) = "complete" <=> \A s \in S : R[s] = "complete"
  <2>. HIDE DEF R
  <2>. QED  BY <1>1, <1>2, AggregateComplete
<1>4. DOMAIN R = S
  BY <1>1
<1>. HIDE DEF R
<1>5. IsCompleteFullCapture(AggregateStatus(R, required), S, R, S)
        <=> AggregateStatus(R, required) = "complete"
  BY <1>1, <1>3 DEF IsCompleteFullCapture
<1>6. AggregateStatus(R, required) = "complete"
        <=> IsCompleteFullCapture(AggregateStatus(R, required),
                                  DOMAIN R, R, DOMAIN R)
  BY <1>4, <1>5
<1>. QED  BY <1>6 DEF CompleteIsFull, R

\* A capture never comes out worse because a source came out better.
THEOREM BetterNeverHurts ==
  ASSUME NEW S, NEW outcomes \in [S -> Outcomes],
         NEW better \in [S -> Outcomes], NEW required
  PROVE  BetterIsNotWorse(outcomes, better, required)
<1>. DEFINE Q == ResultsOf(outcomes)
            R == ResultsOf(better)
<1>1. /\ Q \in [S -> SourceStatuses] /\ Reported(Q) = S
      /\ R \in [S -> SourceStatuses] /\ Reported(R) = S
  BY ResultsOfType
<1>2. SUFFICES ASSUME \A s \in S : Rank(R[s]) >= Rank(Q[s])
               PROVE  Rank(AggregateStatus(R, required))
                        >= Rank(AggregateStatus(Q, required))
  BY DEF BetterIsNotWorse, ResultsOf
<1>. HIDE DEF Q, R
<1>3. /\ Rank("failed") = 0 /\ Rank("partial") = 1
      /\ Rank("complete_with_warnings") = 2 /\ Rank("complete") = 3
  BY DEF Rank
<1>4. \A s \in S : /\ Q[s] \in Successful => R[s] \in Successful
                   /\ HasPayload(Q[s]) => HasPayload(R[s])
                   /\ Q[s] = "complete" => R[s] = "complete"
  BY <1>1, <1>2, <1>3 DEF SourceStatuses, Successful, HasPayload
<1>5. RequiredFailures(R, required) \subseteq RequiredFailures(Q, required)
  BY <1>1, <1>4 DEF RequiredFailures
<1>. QED  BY <1>1, <1>3, <1>4, <1>5 DEF AggregateStatus

-----------------------------------------------------------------------------
(* Types *)

\* A source and a capture come out with a status of the status algebra.
LEMMA StatusesTyped ==
  /\ \A o \in Outcomes : SourceStatus(o) \in SourceStatuses
  /\ \A r, q : AggregateStatus(r, q) \in CaptureStatuses
  BY FailedMeansEmpty, AggregateType

\* Every step keeps every variable in its type.
LEMMA TypeStep == TypeOK /\ [Next]_vars => TypeOK'
<1> SUFFICES ASSUME TypeOK, [Next]_vars PROVE TypeOK'
  OBVIOUS
<1> USE NamesAssumption, TriedAssumption, StatusesTyped
    DEF TypeOK, Names, Locked, Ended, CaptureJsonStatuses, CaptureStatuses,
        SourceStatuses, Successful, Goto, Leave, procVars, diskVars
<1>1. ASSUME NEW p \in Procs, NEW c \in Ids, NEW r \in Requests, Plan(p,c,r)
      PROVE  TypeOK'
  BY <1>1 DEF Plan, Requests
<1>2. ASSUME NEW p \in Procs, Acquire(p)
      PROVE  TypeOK'
  BY <1>2 DEF Acquire
<1>3. ASSUME NEW p \in Procs, Refuse(p)
      PROVE  TypeOK'
  BY <1>3 DEF Refuse
<1>4. ASSUME NEW p \in Procs, MakeDirectory(p)
      PROVE  TypeOK'
  BY <1>4 DEF MakeDirectory
<1>5. ASSUME NEW p \in Procs, MakeDirectoryFails(p)
      PROVE  TypeOK'
  BY <1>5 DEF MakeDirectoryFails
<1>6. ASSUME NEW p \in Procs, OpenCapture(p)
      PROVE  TypeOK'
  BY <1>6 DEF OpenCapture
<1>7. ASSUME NEW p \in Procs, SetUp(p)
      PROVE  TypeOK'
  BY <1>7 DEF SetUp
<1>8. ASSUME NEW p \in Procs, NEW s \in Sources, NEW o \in Tried, RunSource(p,s,o)
      PROVE  TypeOK'
  BY <1>8 DEF RunSource
<1>9. ASSUME NEW p \in Procs, WriteTerminalCapture(p)
      PROVE  TypeOK'
  BY <1>9 DEF WriteTerminalCapture
<1>10. ASSUME NEW p \in Procs, LinkManifest(p)
      PROVE  TypeOK'
  BY <1>10 DEF LinkManifest
<1>11. ASSUME NEW p \in Procs, UnlinkTemporary(p)
      PROVE  TypeOK'
  BY <1>11 DEF UnlinkTemporary
<1>12. ASSUME NEW p \in Procs, SyncDirectory(p)
      PROVE  TypeOK'
  BY <1>12 DEF SyncDirectory
<1>13. ASSUME NEW p \in Procs, VerifySucceeds(p)
      PROVE  TypeOK'
  BY <1>13 DEF VerifySucceeds, PointersToMove
<1>14. ASSUME NEW p \in Procs, VerifyFails(p)
      PROVE  TypeOK'
  BY <1>14 DEF VerifyFails
<1>15. ASSUME NEW p \in Procs, NEW n \in Names, KeepPointer(p,n)
      PROVE  TypeOK'
  BY <1>15 DEF KeepPointer, NextPointers
<1>16. ASSUME NEW p \in Procs, NEW n \in Names, ChoosePointer(p,n)
      PROVE  TypeOK'
  BY <1>16 DEF ChoosePointer, NextPointers
<1>17. ASSUME NEW p \in Procs, ReplacePointer(p)
      PROVE  TypeOK'
  BY <1>17 DEF ReplacePointer
<1>18. ASSUME NEW p \in Procs, Return(p)
      PROVE  TypeOK'
  BY <1>18 DEF Return
<1>19. ASSUME NEW p \in Procs, NEW s \in Sources, InterruptSource(p,s)
      PROVE  TypeOK'
  BY <1>19 DEF InterruptSource
<1>20. ASSUME NEW p \in Procs, Interrupt(p)
      PROVE  TypeOK'
  BY <1>20 DEF Interrupt
<1>21. ASSUME NEW p \in Procs, ExecutionFails(p)
      PROVE  TypeOK'
  BY <1>21 DEF ExecutionFails
<1>22. ASSUME NEW p \in Procs, FinalizeFails(p)
      PROVE  TypeOK'
  BY <1>22 DEF FinalizeFails
<1>23. ASSUME NEW p \in Procs, Stop(p)
      PROVE  TypeOK'
  BY <1>23 DEF Stop
<1>24. ASSUME NEW c \in Ids, Damage(c)
      PROVE  TypeOK'
  BY <1>24 DEF Damage
<1>25. ASSUME UNCHANGED vars PROVE TypeOK'
  BY <1>25 DEF vars
<1>. QED
  BY <1>1, <1>2, <1>3, <1>4, <1>5, <1>6, <1>7, <1>8, <1>9, <1>10, <1>11,
      <1>12, <1>13, <1>14, <1>15, <1>16, <1>17, <1>18, <1>19, <1>20, <1>21,
      <1>22, <1>23, <1>24, <1>25
      DEF Next, Step, Fault

-----------------------------------------------------------------------------
(* The inductive invariant *)

\* _aggregate_status says "complete" only of complete results.
LEMMA AggregateAllComplete ==
  ASSUME TypeOK, NEW c \in Ids,
         AggregateStatus(results[c], Required) = "complete"
  PROVE  \A s \in Reported(results[c]) : results[c][s] = "complete"
<1>1. results[c] \in [Sources -> SourceStatuses \union {"none", "interrupted"}]
  BY DEF TypeOK
<1>. QED  BY <1>1, AggregateComplete

\* A step of the invocation p, which owns its capture directory and has not
\* settled yet, changes nothing of the other invocations and directories.
Touches(p) ==
  /\ Owning(p) /\ pc[p] \notin Settled
  /\ cap' = cap /\ ask' = ask /\ todo' = todo /\ naming' = naming
  /\ pointer' = pointer
  /\ \A q \in Procs \ {p} : pc'[q] = pc[q]
  /\ \A c \in Ids \ {cap[p]} :
       /\ status'[c] = status[c] /\ scope'[c] = scope[c]
       /\ results'[c] = results[c] /\ manifest'[c] = manifest[c]
       /\ c \in temporary' <=> c \in temporary

\* Such a step leaves what holds of the others and of the pointers.
LEMMA Frame ==
  ASSUME IInv, TypeOK', NEW p \in Procs, Touches(p),
         Stage(p)', Decided(p)', pc'[p] \notin {"idle", "planned", "locked"},
         status'[cap[p]] # "absent",
         status'[cap[p]] = "empty" => results'[cap[p]] = NothingReported
  PROVE  OwnerInv' /\ FreshInv' /\ AskInv' /\ StageInv' /\ TodoInv' /\ PointerInv'
<1>1. cap[p] \in Ids /\ \A q \in Procs : Owning(q) => cap[q] \in Ids
  BY DEF IInv, TypeOK, Touches, Owning
<1>2. \A q \in Procs : q # p /\ Owning(q) => cap[q] \in Ids \ {cap[p]}
  BY <1>1 DEF IInv, OwnerInv, Touches
<1>3. OwnerInv'
  BY <1>1, <1>2 DEF IInv, OwnerInv, Touches, Owning
<1>4. FreshInv'
  BY <1>1 DEF IInv, FreshInv, Touches, Sealed
<1>5. AskInv'
  BY DEF IInv, AskInv, Touches, Owning
<1>6. StageInv'
  <2> SUFFICES ASSUME NEW q \in Procs, q # p PROVE Stage(q)'
    BY DEF StageInv
  <2>1. CASE Owning(q)
    BY <1>2, <2>1 DEF IInv, StageInv, Stage, Touches, Sealed
  <2>2. CASE ~ Owning(q)
    BY <2>2 DEF Stage, Touches, Owning, Finished, AfterLink, AfterSync
  <2>. QED  BY <2>1, <2>2
<1>7. TodoInv'
  <2> SUFFICES ASSUME NEW q \in Procs, q # p PROVE Decided(q)'
    BY DEF TodoInv
  <2>1. CASE Owning(q)
    BY <1>2, <2>1 DEF IInv, TodoInv, Decided, PointersToMove, Touches
  <2>2. CASE ~ Owning(q)
    BY <2>2 DEF Decided, Touches, Owning
  <2>. QED  BY <2>1, <2>2
<1>8. PointerInv'
  <2> SUFFICES ASSUME NEW n \in Names, pointer[n] # NoCapture
               PROVE  LET c == pointer[n] IN
                        /\ Sealed(c)' /\ manifest'[c] = status'[c]
                        /\ c \notin temporary'
                        /\ Fits(c, n)'
                        /\ n = Acquired => scope'[c].full
                        /\ \A q \in Procs :
                             Owning(q)' /\ cap[q] = c => pc'[q] \in Settled
    BY DEF PointerInv, Touches
  <2>1. pointer[n] \in Ids \ {cap[p]}
    BY DEF IInv, TypeOK, PointerInv, Touches
  <2>. QED  BY <2>1 DEF IInv, PointerInv, Touches, Sealed, Fits, Owning
<1>. QED  BY <1>3, <1>4, <1>5, <1>6, <1>7, <1>8

\* The invariant but its type part and its last part is kept by every step:
\* a step of an owner by Frame, the other steps part by part.
LEMMA RestStep ==
  ASSUME IInv, [Next]_vars
  PROVE  LockInv' /\ OwnerInv' /\ FreshInv' /\ AskInv' /\ StageInv' /\ TodoInv'
           /\ PointerInv'
<1>0. TypeOK /\ TypeOK'
  BY TypeStep DEF IInv
<1> USE <1>0, NamesAssumption, TriedAssumption
    DEF Goto, Leave, procVars, diskVars
<1> DEFINE Rest == /\ LockInv /\ OwnerInv /\ FreshInv /\ AskInv /\ StageInv
                   /\ TodoInv /\ PointerInv
<1>1. ASSUME NEW p \in Procs, NEW c \in Ids, NEW r \in Requests, Plan(p,c,r)
      PROVE  Rest'
  <2>1. LockInv'
    BY <1>1 DEF IInv, TypeOK, LockInv, Locked, Plan, Requests
  <2>2. OwnerInv'
    BY <1>1 DEF IInv, TypeOK, OwnerInv, Owning, Plan, Requests
  <2>3. FreshInv'
    BY <1>1
    DEF IInv, TypeOK, FreshInv, Sealed, NothingReported,
        Plan, Requests
  <2>4. AskInv'
    BY <1>1 DEF IInv, TypeOK, AskInv, Plan, Requests
  <2>5. StageInv'
    BY <1>1
    DEF IInv, TypeOK, StageInv, Stage, FreshInv, OwnerInv, Owning, Sealed, Finished, AfterLink, AfterSync,
        Plan, Requests
  <2>6. TodoInv'
    BY <1>1
    DEF IInv, TypeOK, TodoInv, Decided, OwnerInv, Owning, PointersToMove,
        Plan, Requests
  <2>7. PointerInv'
    BY <1>1
    DEF IInv, TypeOK, PointerInv, FreshInv, OwnerInv, Owning, Sealed, Fits, Settled,
        Plan, Requests
  <2>. QED  BY <2>1, <2>2, <2>3, <2>4, <2>5, <2>6, <2>7
<1>2. ASSUME NEW p \in Procs, Acquire(p)
      PROVE  Rest'
  <2>1. LockInv'
    BY <1>2 DEF IInv, TypeOK, LockInv, Locked, Acquire
  <2>2. OwnerInv'
    BY <1>2 DEF IInv, TypeOK, OwnerInv, Owning, Acquire
  <2>3. FreshInv'
    BY <1>2 DEF IInv, TypeOK, FreshInv, Sealed, NothingReported, Acquire
  <2>4. AskInv'
    BY <1>2 DEF IInv, TypeOK, AskInv, Acquire
  <2>5. StageInv'
    BY <1>2
    DEF IInv, TypeOK, StageInv, Stage, FreshInv, OwnerInv, Owning, Sealed, Finished, AfterLink, AfterSync,
        Acquire
  <2>6. TodoInv'
    BY <1>2
    DEF IInv, TypeOK, TodoInv, Decided, OwnerInv, Owning, PointersToMove,
        Acquire
  <2>7. PointerInv'
    BY <1>2
    DEF IInv, TypeOK, PointerInv, FreshInv, OwnerInv, Owning, Sealed, Fits, Settled,
        Acquire
  <2>. QED  BY <2>1, <2>2, <2>3, <2>4, <2>5, <2>6, <2>7
<1>3. ASSUME NEW p \in Procs, Refuse(p)
      PROVE  Rest'
  <2>1. LockInv'
    BY <1>3 DEF IInv, TypeOK, LockInv, Locked, Refuse
  <2>2. OwnerInv'
    BY <1>3 DEF IInv, TypeOK, OwnerInv, Owning, Refuse
  <2>3. FreshInv'
    BY <1>3 DEF IInv, TypeOK, FreshInv, Sealed, NothingReported, Refuse
  <2>4. AskInv'
    BY <1>3 DEF IInv, TypeOK, AskInv, Refuse
  <2>5. StageInv'
    BY <1>3
    DEF IInv, TypeOK, StageInv, Stage, FreshInv, OwnerInv, Owning, Sealed, Finished, AfterLink, AfterSync,
        Refuse
  <2>6. TodoInv'
    BY <1>3
    DEF IInv, TypeOK, TodoInv, Decided, OwnerInv, Owning, PointersToMove,
        Refuse
  <2>7. PointerInv'
    BY <1>3
    DEF IInv, TypeOK, PointerInv, FreshInv, OwnerInv, Owning, Sealed, Fits, Settled,
        Refuse
  <2>. QED  BY <2>1, <2>2, <2>3, <2>4, <2>5, <2>6, <2>7
<1>4. ASSUME NEW p \in Procs, MakeDirectory(p)
      PROVE  Rest'
  <2>1. LockInv'
    BY <1>4 DEF IInv, TypeOK, LockInv, Locked, MakeDirectory
  <2>2. OwnerInv'
    BY <1>4 DEF IInv, TypeOK, OwnerInv, Owning, MakeDirectory
  <2>3. FreshInv'
    BY <1>4
    DEF IInv, TypeOK, FreshInv, Sealed, NothingReported,
        MakeDirectory
  <2>4. AskInv'
    BY <1>4 DEF IInv, TypeOK, AskInv, MakeDirectory
  <2>5. StageInv'
    <3> SUFFICES ASSUME NEW q \in Procs PROVE Stage(q)'
      BY DEF StageInv
    <3>1. cap[p] \in Ids /\ ~ Sealed(cap[p]) /\ cap[p] \notin temporary
      BY <1>4 DEF IInv, TypeOK, FreshInv, MakeDirectory
    <3>2. CASE q = p
      BY <1>4, <3>1, <3>2
      DEF TypeOK, Stage, Sealed, Finished, AfterLink, AfterSync, MakeDirectory
    <3>3. CASE q # p /\ Owning(q)
      <4>1. cap[q] # cap[p]
        BY <1>4, <3>3 DEF IInv, OwnerInv, MakeDirectory
      <4>. QED  BY <1>4, <3>3, <4>1
                DEF IInv, StageInv, TypeOK, Stage, Sealed, MakeDirectory
    <3>4. CASE q # p /\ ~ Owning(q)
      BY <1>4, <3>4
      DEF TypeOK, Stage, Owning, Finished, AfterLink, AfterSync, MakeDirectory
    <3>. QED  BY <3>2, <3>3, <3>4
  <2>6. TodoInv'
    BY <1>4
    DEF IInv, TypeOK, TodoInv, Decided, OwnerInv, Owning, PointersToMove,
        MakeDirectory
  <2>7. PointerInv'
    BY <1>4
    DEF IInv, TypeOK, PointerInv, FreshInv, OwnerInv, Owning, Sealed, Fits, Settled,
        MakeDirectory
  <2>. QED  BY <2>1, <2>2, <2>3, <2>4, <2>5, <2>6, <2>7
<1>5. ASSUME NEW p \in Procs, MakeDirectoryFails(p)
      PROVE  Rest'
  <2>1. LockInv'
    BY <1>5 DEF IInv, TypeOK, LockInv, Locked, MakeDirectoryFails
  <2>2. OwnerInv'
    BY <1>5 DEF IInv, TypeOK, OwnerInv, Owning, MakeDirectoryFails
  <2>3. FreshInv'
    BY <1>5
    DEF IInv, TypeOK, FreshInv, Sealed, NothingReported,
        MakeDirectoryFails
  <2>4. AskInv'
    BY <1>5 DEF IInv, TypeOK, AskInv, MakeDirectoryFails
  <2>5. StageInv'
    BY <1>5
    DEF IInv, TypeOK, StageInv, Stage, FreshInv, OwnerInv, Owning, Sealed, Finished, AfterLink, AfterSync,
        MakeDirectoryFails
  <2>6. TodoInv'
    BY <1>5
    DEF IInv, TypeOK, TodoInv, Decided, OwnerInv, Owning, PointersToMove,
        MakeDirectoryFails
  <2>7. PointerInv'
    BY <1>5
    DEF IInv, TypeOK, PointerInv, FreshInv, OwnerInv, Owning, Sealed, Fits, Settled,
        MakeDirectoryFails
  <2>. QED  BY <2>1, <2>2, <2>3, <2>4, <2>5, <2>6, <2>7
<1>6. ASSUME NEW p \in Procs, OpenCapture(p)
      PROVE  Rest'
  <2>1. LockInv'
    BY <1>6 DEF IInv, TypeOK, LockInv, Locked, OpenCapture
  <2>2. Stage(p)
    BY DEF IInv, StageInv
  <2>3. Touches(p)
    BY <1>6 DEF TypeOK, Touches, Owning, Settled, OpenCapture
  <2>4. Stage(p)'
    BY <1>6, <2>2
    DEF TypeOK, Stage, Sealed, Finished, AfterLink, AfterSync, OpenCapture, Reported, NothingReported,
           Requests, IInv, FreshInv, AskInv
  <2>5. Decided(p)'
    BY <1>6 DEF TypeOK, Decided, OpenCapture
  <2>6. /\ pc'[p] \notin {"idle", "planned", "locked"}
        /\ status'[cap[p]] # "absent"
        /\ status'[cap[p]] = "empty" => results'[cap[p]] = NothingReported
    BY <1>6, <2>2
    DEF TypeOK, IInv, OwnerInv, Owning, FreshInv, Stage, OpenCapture
  <2>. QED  BY <2>1, <2>3, <2>4, <2>5, <2>6, Frame
<1>7. ASSUME NEW p \in Procs, SetUp(p)
      PROVE  Rest'
  <2>1. LockInv'
    BY <1>7 DEF IInv, TypeOK, LockInv, Locked, SetUp
  <2>2. Stage(p)
    BY DEF IInv, StageInv
  <2>3. Touches(p)
    BY <1>7 DEF TypeOK, Touches, Owning, Settled, SetUp
  <2>4. Stage(p)'
    BY <1>7, <2>2
    DEF TypeOK, Stage, Sealed, Finished, AfterLink, AfterSync, SetUp
  <2>5. Decided(p)'
    BY <1>7 DEF TypeOK, Decided, SetUp
  <2>6. /\ pc'[p] \notin {"idle", "planned", "locked"}
        /\ status'[cap[p]] # "absent"
        /\ status'[cap[p]] = "empty" => results'[cap[p]] = NothingReported
    BY <1>7, <2>2
    DEF TypeOK, IInv, OwnerInv, Owning, FreshInv, Stage, SetUp
  <2>. QED  BY <2>1, <2>3, <2>4, <2>5, <2>6, Frame
<1>8. ASSUME NEW p \in Procs, NEW s \in Sources, NEW o \in Tried, RunSource(p,s,o)
      PROVE  Rest'
  <2>1. LockInv'
    BY <1>8 DEF IInv, TypeOK, LockInv, Locked, RunSource
  <2>2. Stage(p)
    BY DEF IInv, StageInv
  <2>3. Touches(p)
    BY <1>8 DEF TypeOK, Touches, Owning, Settled, RunSource
  <2>4. Stage(p)'
    BY <1>8, <2>2, StatusesTyped
    DEF TypeOK, Stage, Sealed, Finished, AfterLink, AfterSync, RunSource, Reported, Pending,
           AskInv, IInv, Requests
  <2>5. Decided(p)'
    BY <1>8 DEF TypeOK, Decided, RunSource
  <2>6. /\ pc'[p] \notin {"idle", "planned", "locked"}
        /\ status'[cap[p]] # "absent"
        /\ status'[cap[p]] = "empty" => results'[cap[p]] = NothingReported
    BY <1>8, <2>2
    DEF TypeOK, IInv, OwnerInv, Owning, FreshInv, Stage, RunSource
  <2>. QED  BY <2>1, <2>3, <2>4, <2>5, <2>6, Frame
<1>9. ASSUME NEW p \in Procs, WriteTerminalCapture(p)
      PROVE  Rest'
  <2>1. LockInv'
    BY <1>9 DEF IInv, TypeOK, LockInv, Locked, WriteTerminalCapture
  <2>2. Stage(p)
    BY DEF IInv, StageInv
  <2>3. Touches(p)
    BY <1>9 DEF TypeOK, Touches, Owning, Settled, WriteTerminalCapture
  <2>4. Stage(p)'
    BY <1>9, <2>2, StatusesTyped
    DEF TypeOK, Stage, Sealed, Finished, AfterLink, AfterSync, WriteTerminalCapture, Reported, Pending,
           AskInv, IInv, Requests
  <2>5. Decided(p)'
    BY <1>9 DEF TypeOK, Decided, WriteTerminalCapture
  <2>6. /\ pc'[p] \notin {"idle", "planned", "locked"}
        /\ status'[cap[p]] # "absent"
        /\ status'[cap[p]] = "empty" => results'[cap[p]] = NothingReported
    BY <1>9, <2>2, StatusesTyped
    DEF TypeOK, IInv, OwnerInv, Owning, FreshInv, Stage, WriteTerminalCapture, CaptureStatuses, SourceStatuses,
           Successful
  <2>. QED  BY <2>1, <2>3, <2>4, <2>5, <2>6, Frame
<1>10. ASSUME NEW p \in Procs, LinkManifest(p)
      PROVE  Rest'
  <2>1. LockInv'
    BY <1>10 DEF IInv, TypeOK, LockInv, Locked, LinkManifest
  <2>2. Stage(p)
    BY DEF IInv, StageInv
  <2>3. Touches(p)
    BY <1>10 DEF TypeOK, Touches, Owning, Settled, LinkManifest
  <2>4. Stage(p)'
    BY <1>10, <2>2
    DEF TypeOK, Stage, Sealed, Finished, AfterLink, AfterSync, LinkManifest
  <2>5. Decided(p)'
    BY <1>10 DEF TypeOK, Decided, LinkManifest
  <2>6. /\ pc'[p] \notin {"idle", "planned", "locked"}
        /\ status'[cap[p]] # "absent"
        /\ status'[cap[p]] = "empty" => results'[cap[p]] = NothingReported
    BY <1>10, <2>2
    DEF TypeOK, IInv, OwnerInv, Owning, FreshInv, Stage, LinkManifest
  <2>. QED  BY <2>1, <2>3, <2>4, <2>5, <2>6, Frame
<1>11. ASSUME NEW p \in Procs, UnlinkTemporary(p)
      PROVE  Rest'
  <2>1. LockInv'
    BY <1>11 DEF IInv, TypeOK, LockInv, Locked, UnlinkTemporary
  <2>2. Stage(p)
    BY DEF IInv, StageInv
  <2>3. Touches(p)
    BY <1>11 DEF TypeOK, Touches, Owning, Settled, UnlinkTemporary
  <2>4. Stage(p)'
    BY <1>11, <2>2
    DEF TypeOK, Stage, Sealed, Finished, AfterLink, AfterSync, UnlinkTemporary
  <2>5. Decided(p)'
    BY <1>11 DEF TypeOK, Decided, UnlinkTemporary
  <2>6. /\ pc'[p] \notin {"idle", "planned", "locked"}
        /\ status'[cap[p]] # "absent"
        /\ status'[cap[p]] = "empty" => results'[cap[p]] = NothingReported
    BY <1>11, <2>2
    DEF TypeOK, IInv, OwnerInv, Owning, FreshInv, Stage, UnlinkTemporary
  <2>. QED  BY <2>1, <2>3, <2>4, <2>5, <2>6, Frame
<1>12. ASSUME NEW p \in Procs, SyncDirectory(p)
      PROVE  Rest'
  <2>1. LockInv'
    BY <1>12 DEF IInv, TypeOK, LockInv, Locked, SyncDirectory
  <2>2. Stage(p)
    BY DEF IInv, StageInv
  <2>3. Touches(p)
    BY <1>12 DEF TypeOK, Touches, Owning, Settled, SyncDirectory
  <2>4. Stage(p)'
    BY <1>12, <2>2
    DEF TypeOK, Stage, Sealed, Finished, AfterLink, AfterSync, SyncDirectory
  <2>5. Decided(p)'
    BY <1>12 DEF TypeOK, Decided, SyncDirectory
  <2>6. /\ pc'[p] \notin {"idle", "planned", "locked"}
        /\ status'[cap[p]] # "absent"
        /\ status'[cap[p]] = "empty" => results'[cap[p]] = NothingReported
    BY <1>12, <2>2
    DEF TypeOK, IInv, OwnerInv, Owning, FreshInv, Stage, SyncDirectory
  <2>. QED  BY <2>1, <2>3, <2>4, <2>5, <2>6, Frame
<1>13. ASSUME NEW p \in Procs, VerifySucceeds(p)
      PROVE  Rest'
  <2>1. LockInv'
    BY <1>13
    DEF IInv, TypeOK, LockInv, Locked,
        VerifySucceeds, Verified, Sealed, PointersToMove
  <2>2. OwnerInv'
    BY <1>13
    DEF IInv, TypeOK, OwnerInv, Owning,
        VerifySucceeds, Verified, Sealed, PointersToMove
  <2>3. FreshInv'
    BY <1>13
    DEF IInv, TypeOK, FreshInv, Sealed, NothingReported,
        VerifySucceeds, Verified, Sealed, PointersToMove
  <2>4. AskInv'
    BY <1>13
    DEF IInv, TypeOK, AskInv,
        VerifySucceeds, Verified, Sealed, PointersToMove
  <2>5. StageInv'
    BY <1>13
    DEF IInv, TypeOK, StageInv, Stage, FreshInv, OwnerInv, Owning, Sealed, Finished, AfterLink, AfterSync,
        VerifySucceeds, Verified, Sealed, PointersToMove
  <2>6. TodoInv'
    BY <1>13
    DEF IInv, TypeOK, TodoInv, Decided, OwnerInv, Owning, PointersToMove,
        VerifySucceeds, Verified, Sealed, PointersToMove
  <2>7. PointerInv'
    BY <1>13
    DEF IInv, TypeOK, PointerInv, FreshInv, OwnerInv, Owning, Sealed, Fits, Settled,
        VerifySucceeds, Verified, Sealed, PointersToMove
  <2>. QED  BY <2>1, <2>2, <2>3, <2>4, <2>5, <2>6, <2>7
<1>14. ASSUME NEW p \in Procs, VerifyFails(p)
      PROVE  Rest'
  <2>1. LockInv'
    BY <1>14 DEF IInv, TypeOK, LockInv, Locked, VerifyFails
  <2>2. OwnerInv'
    BY <1>14 DEF IInv, TypeOK, OwnerInv, Owning, VerifyFails
  <2>3. FreshInv'
    BY <1>14 DEF IInv, TypeOK, FreshInv, Sealed, NothingReported, VerifyFails
  <2>4. AskInv'
    BY <1>14 DEF IInv, TypeOK, AskInv, VerifyFails
  <2>5. StageInv'
    BY <1>14
    DEF IInv, TypeOK, StageInv, Stage, FreshInv, OwnerInv, Owning, Sealed, Finished, AfterLink, AfterSync,
        VerifyFails
  <2>6. TodoInv'
    BY <1>14
    DEF IInv, TypeOK, TodoInv, Decided, OwnerInv, Owning, PointersToMove,
        VerifyFails
  <2>7. PointerInv'
    BY <1>14
    DEF IInv, TypeOK, PointerInv, FreshInv, OwnerInv, Owning, Sealed, Fits, Settled,
        VerifyFails
  <2>. QED  BY <2>1, <2>2, <2>3, <2>4, <2>5, <2>6, <2>7
<1>15. ASSUME NEW p \in Procs, NEW n \in Names, KeepPointer(p,n)
      PROVE  Rest'
  <2>1. LockInv'
    BY <1>15
    DEF IInv, TypeOK, LockInv, Locked,
        KeepPointer, NextPointers, Keeps
  <2>2. OwnerInv'
    BY <1>15
    DEF IInv, TypeOK, OwnerInv, Owning,
        KeepPointer, NextPointers, Keeps
  <2>3. FreshInv'
    BY <1>15
    DEF IInv, TypeOK, FreshInv, Sealed, NothingReported,
        KeepPointer, NextPointers, Keeps
  <2>4. AskInv'
    BY <1>15 DEF IInv, TypeOK, AskInv, KeepPointer, NextPointers, Keeps
  <2>5. StageInv'
    BY <1>15
    DEF IInv, TypeOK, StageInv, Stage, FreshInv, OwnerInv, Owning, Sealed, Finished, AfterLink, AfterSync,
        KeepPointer, NextPointers, Keeps
  <2>6. TodoInv'
    BY <1>15
    DEF IInv, TypeOK, TodoInv, Decided, OwnerInv, Owning, PointersToMove,
        KeepPointer, NextPointers, Keeps
  <2>7. PointerInv'
    BY <1>15
    DEF IInv, TypeOK, PointerInv, FreshInv, OwnerInv, Owning, Sealed, Fits, Settled,
        KeepPointer, NextPointers, Keeps
  <2>. QED  BY <2>1, <2>2, <2>3, <2>4, <2>5, <2>6, <2>7
<1>16. ASSUME NEW p \in Procs, NEW n \in Names, ChoosePointer(p,n)
      PROVE  Rest'
  <2>1. LockInv'
    BY <1>16 DEF IInv, TypeOK, LockInv, Locked, ChoosePointer, NextPointers
  <2>2. OwnerInv'
    BY <1>16 DEF IInv, TypeOK, OwnerInv, Owning, ChoosePointer, NextPointers
  <2>3. FreshInv'
    BY <1>16
    DEF IInv, TypeOK, FreshInv, Sealed, NothingReported,
        ChoosePointer, NextPointers
  <2>4. AskInv'
    BY <1>16 DEF IInv, TypeOK, AskInv, ChoosePointer, NextPointers
  <2>5. StageInv'
    BY <1>16
    DEF IInv, TypeOK, StageInv, Stage, FreshInv, OwnerInv, Owning, Sealed, Finished, AfterLink, AfterSync,
        ChoosePointer, NextPointers
  <2>6. TodoInv'
    BY <1>16
    DEF IInv, TypeOK, TodoInv, Decided, OwnerInv, Owning, PointersToMove,
        ChoosePointer, NextPointers
  <2>7. PointerInv'
    BY <1>16
    DEF IInv, TypeOK, PointerInv, FreshInv, OwnerInv, Owning, Sealed, Fits, Settled,
        ChoosePointer, NextPointers
  <2>. QED  BY <2>1, <2>2, <2>3, <2>4, <2>5, <2>6, <2>7
<1>17. ASSUME NEW p \in Procs, ReplacePointer(p)
      PROVE  Rest'
  <2>1. LockInv'
    BY <1>17 DEF IInv, TypeOK, LockInv, Locked, ReplacePointer
  <2>2. OwnerInv'
    BY <1>17 DEF IInv, TypeOK, OwnerInv, Owning, ReplacePointer
  <2>3. FreshInv'
    BY <1>17
    DEF IInv, TypeOK, FreshInv, Sealed, NothingReported,
        ReplacePointer
  <2>4. AskInv'
    BY <1>17 DEF IInv, TypeOK, AskInv, ReplacePointer
  <2>5. StageInv'
    BY <1>17
    DEF IInv, TypeOK, StageInv, Stage, FreshInv, OwnerInv, Owning, Sealed, Finished, AfterLink, AfterSync,
        ReplacePointer
  <2>6. TodoInv'
    BY <1>17
    DEF IInv, TypeOK, TodoInv, Decided, OwnerInv, Owning, PointersToMove,
        ReplacePointer
  <2>7. PointerInv'
    <3> DEFINE c == cap[p]
    <3>1. /\ c \in Ids /\ naming[p] \in Names /\ Stage(p) /\ Decided(p)
          /\ pc[p] = "replacing" /\ ask[p] \in Requests /\ Owning(p)
      BY <1>17 DEF IInv, TypeOK, StageInv, TodoInv, AskInv, Owning, ReplacePointer
    <3>2. /\ manifest[c] = status[c] /\ c \notin temporary
          /\ scope[c] = ask[p] /\ Reported(results[c]) = ask[p].selected
          /\ status[c] = AggregateStatus(results[c], Required)
      BY <3>1 DEF Stage, Finished, AfterLink, AfterSync
    <3>3. Sealed(c)
      BY <3>2, StatusesTyped
      DEF Sealed, CaptureStatuses, SourceStatuses, Successful
    <3>4. naming[p] \in PointersToMove(p)
      BY <3>1 DEF Decided
    <3>5. ASSUME naming[p] = Acquired
          PROVE  Fits(c, naming[p]) /\ scope[c].full
      <4>1. ask[p].full /\ status[c] = "complete"
        BY <3>4, <3>5 DEF PointersToMove
      <4>2. ask[p].selected = ask[p].configured
        BY <3>1, <4>1 DEF Requests
      <4>3. \A s \in Reported(results[c]) : results[c][s] = "complete"
        BY <3>1, <3>2, <4>1, AggregateAllComplete
      <4>4. Fits(c, Acquired) /\ scope[c].full
        BY <3>2, <4>1, <4>2, <4>3 DEF Fits, IsCompleteFullCapture
      <4>. QED  BY <3>5, <4>4
    <3>6. ASSUME naming[p] # Acquired
          PROVE  Fits(c, naming[p])
      BY <3>4, <3>6 DEF PointersToMove, Fits
    <3>7. Fits(c, naming[p]) /\ (naming[p] = Acquired => scope[c].full)
      BY <3>5, <3>6
    <3>8. \A q \in Procs : Owning(q) /\ cap[q] = c => q = p
      BY <3>1 DEF IInv, OwnerInv
    <3>9. /\ pointer' = [pointer EXCEPT ![naming[p]] = c]
          /\ pc' = [pc EXCEPT ![p] = "pointing"]
          /\ UNCHANGED <<cap, status, scope, results, manifest, temporary>>
      BY <1>17 DEF ReplacePointer
    <3>10. \A m \in Names : \A x : Fits(x, m)' <=> Fits(x, m)
      BY <3>9 DEF Fits
    <3>11. \A q \in Procs : /\ Owning(q)' <=> Owning(q)
                            /\ pc[q] \in Settled => pc'[q] \in Settled
      BY <3>1, <3>9 DEF TypeOK, Owning, Settled
    <3>12. pc'[p] \in Settled
      BY <3>9 DEF TypeOK, Settled
    <3> SUFFICES ASSUME NEW m \in Names, pointer'[m] # NoCapture
                 PROVE  LET x == pointer'[m] IN
                          /\ Sealed(x) /\ manifest[x] = status[x]
                          /\ x \notin temporary
                          /\ Fits(x, m)
                          /\ m = Acquired => scope[x].full
                          /\ \A q \in Procs :
                               Owning(q) /\ cap[q] = x => pc'[q] \in Settled
      BY <3>9, <3>10, <3>11 DEF PointerInv, Sealed
    <3>13. CASE m = naming[p]
      BY <3>2, <3>3, <3>7, <3>8, <3>9, <3>12, <3>13 DEF TypeOK
    <3>14. CASE m # naming[p]
      BY <3>9, <3>11, <3>14 DEF IInv, PointerInv, TypeOK
    <3>. QED  BY <3>13, <3>14
  <2>. QED  BY <2>1, <2>2, <2>3, <2>4, <2>5, <2>6, <2>7
<1>18. ASSUME NEW p \in Procs, Return(p)
      PROVE  Rest'
  <2>1. LockInv'
    BY <1>18 DEF IInv, TypeOK, LockInv, Locked, Return
  <2>2. OwnerInv'
    BY <1>18 DEF IInv, TypeOK, OwnerInv, Owning, Return
  <2>3. FreshInv'
    BY <1>18 DEF IInv, TypeOK, FreshInv, Sealed, NothingReported, Return
  <2>4. AskInv'
    BY <1>18 DEF IInv, TypeOK, AskInv, Return
  <2>5. StageInv'
    BY <1>18
    DEF IInv, TypeOK, StageInv, Stage, FreshInv, OwnerInv, Owning, Sealed, Finished, AfterLink, AfterSync,
        Return
  <2>6. TodoInv'
    BY <1>18
    DEF IInv, TypeOK, TodoInv, Decided, OwnerInv, Owning, PointersToMove,
        Return
  <2>7. PointerInv'
    BY <1>18
    DEF IInv, TypeOK, PointerInv, FreshInv, OwnerInv, Owning, Sealed, Fits, Settled,
        Return
  <2>. QED  BY <2>1, <2>2, <2>3, <2>4, <2>5, <2>6, <2>7
<1>19. ASSUME NEW p \in Procs, NEW s \in Sources, InterruptSource(p,s)
      PROVE  Rest'
  <2>1. LockInv'
    BY <1>19 DEF IInv, TypeOK, LockInv, Locked, InterruptSource
  <2>2. Stage(p)
    BY DEF IInv, StageInv
  <2>3. Touches(p)
    BY <1>19 DEF TypeOK, Touches, Owning, Settled, InterruptSource
  <2>4. Stage(p)'
    BY <1>19, <2>2
    DEF TypeOK, Stage, Sealed, Finished, AfterLink, AfterSync, InterruptSource
  <2>5. Decided(p)'
    BY <1>19 DEF TypeOK, Decided, InterruptSource
  <2>6. /\ pc'[p] \notin {"idle", "planned", "locked"}
        /\ status'[cap[p]] # "absent"
        /\ status'[cap[p]] = "empty" => results'[cap[p]] = NothingReported
    BY <1>19, <2>2
    DEF TypeOK, IInv, OwnerInv, Owning, FreshInv, Stage, InterruptSource
  <2>. QED  BY <2>1, <2>3, <2>4, <2>5, <2>6, Frame
<1>20. ASSUME NEW p \in Procs, Interrupt(p)
      PROVE  Rest'
  <2>1. LockInv'
    BY <1>20 DEF IInv, TypeOK, LockInv, Locked, Interrupt
  <2>2. Stage(p)
    BY DEF IInv, StageInv
  <2>3. Touches(p)
    BY <1>20 DEF TypeOK, Touches, Owning, Settled, Interrupt
  <2>4. Stage(p)'
    BY <1>20, <2>2
    DEF TypeOK, Stage, Sealed, Finished, AfterLink, AfterSync, Interrupt
  <2>5. Decided(p)'
    BY <1>20 DEF TypeOK, Decided, Interrupt
  <2>6. /\ pc'[p] \notin {"idle", "planned", "locked"}
        /\ status'[cap[p]] # "absent"
        /\ status'[cap[p]] = "empty" => results'[cap[p]] = NothingReported
    BY <1>20, <2>2
    DEF TypeOK, IInv, OwnerInv, Owning, FreshInv, Stage, Interrupt
  <2>. QED  BY <2>1, <2>3, <2>4, <2>5, <2>6, Frame
<1>21. ASSUME NEW p \in Procs, ExecutionFails(p)
      PROVE  Rest'
  <2>1. LockInv'
    BY <1>21 DEF IInv, TypeOK, LockInv, Locked, ExecutionFails
  <2>2. Stage(p)
    BY DEF IInv, StageInv
  <2>3. Touches(p)
    BY <1>21 DEF TypeOK, Touches, Owning, Settled, ExecutionFails
  <2>4. Stage(p)'
    BY <1>21, <2>2
    DEF TypeOK, Stage, Sealed, Finished, AfterLink, AfterSync, ExecutionFails
  <2>5. Decided(p)'
    BY <1>21 DEF TypeOK, Decided, ExecutionFails
  <2>6. /\ pc'[p] \notin {"idle", "planned", "locked"}
        /\ status'[cap[p]] # "absent"
        /\ status'[cap[p]] = "empty" => results'[cap[p]] = NothingReported
    BY <1>21, <2>2
    DEF TypeOK, IInv, OwnerInv, Owning, FreshInv, Stage, ExecutionFails
  <2>. QED  BY <2>1, <2>3, <2>4, <2>5, <2>6, Frame
<1>22. ASSUME NEW p \in Procs, FinalizeFails(p)
      PROVE  Rest'
  <2>1. LockInv'
    BY <1>22 DEF IInv, TypeOK, LockInv, Locked, FinalizeFails
  <2>2. Stage(p)
    BY DEF IInv, StageInv
  <2>3. Touches(p)
    BY <1>22 DEF TypeOK, Touches, Owning, Settled, FinalizeFails
  <2>4. Stage(p)'
    BY <1>22, <2>2
    DEF TypeOK, Stage, Sealed, Finished, AfterLink, AfterSync, FinalizeFails
  <2>5. Decided(p)'
    BY <1>22 DEF TypeOK, Decided, FinalizeFails
  <2>6. /\ pc'[p] \notin {"idle", "planned", "locked"}
        /\ status'[cap[p]] # "absent"
        /\ status'[cap[p]] = "empty" => results'[cap[p]] = NothingReported
    BY <1>22, <2>2
    DEF TypeOK, IInv, OwnerInv, Owning, FreshInv, Stage, FinalizeFails
  <2>. QED  BY <2>1, <2>3, <2>4, <2>5, <2>6, Frame
<1>23. ASSUME NEW p \in Procs, Stop(p)
      PROVE  Rest'
  <2>1. LockInv'
    BY <1>23 DEF IInv, TypeOK, LockInv, Locked, Stop
  <2>2. OwnerInv'
    BY <1>23 DEF IInv, TypeOK, OwnerInv, Owning, Stop, Locked
  <2>3. FreshInv'
    BY <1>23
    DEF IInv, TypeOK, FreshInv, Sealed, NothingReported,
        Stop, Locked
  <2>4. AskInv'
    BY <1>23 DEF IInv, TypeOK, AskInv, Stop, Locked
  <2>5. StageInv'
    BY <1>23
    DEF IInv, TypeOK, StageInv, Stage, FreshInv, OwnerInv, Owning, Sealed, Finished, AfterLink, AfterSync,
        Stop, Locked
  <2>6. TodoInv'
    BY <1>23
    DEF IInv, TypeOK, TodoInv, Decided, OwnerInv, Owning, PointersToMove,
        Stop, Locked
  <2>7. PointerInv'
    BY <1>23
    DEF IInv, TypeOK, PointerInv, FreshInv, OwnerInv, Owning, Sealed, Fits, Settled,
        Stop, Locked
  <2>. QED  BY <2>1, <2>2, <2>3, <2>4, <2>5, <2>6, <2>7
<1>24. ASSUME NEW c \in Ids, Damage(c)
      PROVE  Rest'
  <2>1. LockInv'
    BY <1>24 DEF IInv, TypeOK, LockInv, Locked, Damage
  <2>2. OwnerInv'
    BY <1>24 DEF IInv, TypeOK, OwnerInv, Owning, Damage
  <2>3. FreshInv'
    BY <1>24 DEF IInv, TypeOK, FreshInv, Sealed, NothingReported, Damage
  <2>4. AskInv'
    BY <1>24 DEF IInv, TypeOK, AskInv, Damage
  <2>5. StageInv'
    BY <1>24
    DEF IInv, TypeOK, StageInv, Stage, FreshInv, OwnerInv, Owning, Sealed, Finished, AfterLink, AfterSync,
        Damage
  <2>6. TodoInv'
    BY <1>24
    DEF IInv, TypeOK, TodoInv, Decided, OwnerInv, Owning, PointersToMove,
        Damage
  <2>7. PointerInv'
    BY <1>24
    DEF IInv, TypeOK, PointerInv, FreshInv, OwnerInv, Owning, Sealed, Fits, Settled,
        Damage
  <2>. QED  BY <2>1, <2>2, <2>3, <2>4, <2>5, <2>6, <2>7
<1>25. ASSUME UNCHANGED vars PROVE Rest'
  BY <1>25
  DEF vars, IInv, LockInv, OwnerInv, Owning, FreshInv, Sealed, AskInv, StageInv,
      Stage, TodoInv, Decided, PointersToMove, PointerInv, Fits
<1>. QED
  BY <1>1, <1>2, <1>3, <1>4, <1>5, <1>6, <1>7, <1>8, <1>9, <1>10, <1>11,
      <1>12, <1>13, <1>14, <1>15, <1>16, <1>17, <1>18, <1>19, <1>20, <1>21,
      <1>22, <1>23, <1>24, <1>25
      DEF Next, Step, Fault

\* No step of the program rewrites a capture whose invocation has settled.
LEMMA SettledStep ==
  ASSUME IInv, [Next]_vars,
         NEW c \in Ids, status[c] # "absent", c \notin temporary,
         \A p \in Procs : Owning(p) /\ cap[p] = c => pc[p] \in Settled
  PROVE  /\ status'[c] = status[c] /\ results'[c] = results[c]
         /\ scope'[c] = scope[c] /\ manifest'[c] = manifest[c]
         /\ c \in temporary' <=> c \in temporary
<1> DEFINE Same == /\ status'[c] = status[c] /\ results'[c] = results[c]
                   /\ scope'[c] = scope[c] /\ manifest'[c] = manifest[c]
                   /\ c \in temporary' <=> c \in temporary
<1> USE DEF Goto, Leave, procVars, diskVars
<1>2. ASSUME NEW p \in Procs, MakeDirectory(p) PROVE Same
  BY <1>2 DEF IInv, TypeOK, MakeDirectory
<1>3. ASSUME NEW p \in Procs, Stop(p) PROVE Same
  BY <1>3 DEF Stop
<1>4. ASSUME NEW p \in Procs, Owning(p), pc[p] \notin Settled, cap[p] \in Ids,
             \/ OpenCapture(p) \/ WriteTerminalCapture(p) \/ LinkManifest(p)
             \/ UnlinkTemporary(p) \/ Interrupt(p) \/ ExecutionFails(p)
             \/ FinalizeFails(p)
             \/ \E s \in Sources, o \in Tried : RunSource(p, s, o)
             \/ \E s \in Sources : InterruptSource(p, s)
      PROVE  Same
  <2>1. cap[p] # c
    BY <1>4
  <2>. QED  BY <1>4, <2>1
            DEF IInv, TypeOK, OpenCapture, WriteTerminalCapture, LinkManifest,
                UnlinkTemporary, Interrupt, ExecutionFails, FinalizeFails,
                RunSource, InterruptSource
<1>5. ASSUME NEW p \in Procs,
             \/ OpenCapture(p) \/ WriteTerminalCapture(p) \/ LinkManifest(p)
             \/ UnlinkTemporary(p) \/ Interrupt(p) \/ ExecutionFails(p)
             \/ FinalizeFails(p)
             \/ \E s \in Sources, o \in Tried : RunSource(p, s, o)
             \/ \E s \in Sources : InterruptSource(p, s)
      PROVE  Owning(p) /\ pc[p] \notin Settled /\ cap[p] \in Ids
  BY <1>5 DEF IInv, TypeOK, Owning, Settled, OpenCapture, WriteTerminalCapture,
              LinkManifest, UnlinkTemporary, Interrupt, ExecutionFails,
              FinalizeFails, RunSource, InterruptSource
<1>6. ASSUME NEW p \in Procs,
             \/ \E x \in Ids, r \in Requests : Plan(p, x, r)
             \/ Acquire(p) \/ Refuse(p) \/ MakeDirectoryFails(p) \/ SetUp(p)
             \/ SyncDirectory(p) \/ VerifySucceeds(p) \/ VerifyFails(p)
             \/ \E m \in Names : KeepPointer(p, m) \/ ChoosePointer(p, m)
             \/ ReplacePointer(p) \/ Return(p)
      PROVE  Same
  BY <1>6 DEF Plan, Acquire, Refuse, MakeDirectoryFails, SetUp, SyncDirectory,
              VerifySucceeds, VerifyFails, KeepPointer, ChoosePointer,
              ReplacePointer, Return
<1>7. ASSUME NEW x \in Ids, Damage(x) PROVE Same
  BY <1>7 DEF Damage
<1>8. CASE UNCHANGED vars
  BY <1>8 DEF vars
<1>. QED  BY <1>2, <1>3, <1>4, <1>5, <1>6, <1>7, <1>8 DEF Next, Step, Fault

\* In particular what a pointer names, and what an invocation past its
\* verification has made.
LEMMA PointedStep ==
  ASSUME IInv, [Next]_vars, NEW n \in Names, pointer[n] # NoCapture
  PROVE  LET c == pointer[n] IN
           /\ status'[c] = status[c] /\ results'[c] = results[c]
           /\ scope'[c] = scope[c] /\ manifest'[c] = manifest[c]
           /\ c \in temporary' <=> c \in temporary
<1> DEFINE c == pointer[n]
<1>1. /\ c \in Ids /\ c \notin temporary /\ status[c] # "absent"
      /\ \A p \in Procs : Owning(p) /\ cap[p] = c => pc[p] \in Settled
  BY DEF IInv, TypeOK, PointerInv, FreshInv
<1> HIDE DEF c
<1>2. /\ status'[c] = status[c] /\ results'[c] = results[c]
      /\ scope'[c] = scope[c] /\ manifest'[c] = manifest[c]
      /\ c \in temporary' <=> c \in temporary
  BY <1>1, SettledStep
<1>. QED  BY <1>2 DEF c

LEMMA MadeStep ==
  ASSUME IInv, [Next]_vars, NEW p \in Procs,
         pc[p] \in {"pointing", "replacing", "returned"}
  PROVE  /\ status'[cap[p]] = status[cap[p]] /\ results'[cap[p]] = results[cap[p]]
         /\ cap[p] \in Ids
<1>1. Owning(p) /\ pc[p] \in Settled /\ pc[p] \in AfterSync
  BY DEF Owning, Settled, AfterSync, AfterLink, Finished
<1>2. cap[p] \in Ids /\ status[cap[p]] # "absent" /\ cap[p] \notin temporary
  BY <1>1 DEF IInv, TypeOK, OwnerInv, StageInv, Stage, Owning
<1>3. \A q \in Procs : Owning(q) /\ cap[q] = cap[p] => pc[q] \in Settled
  BY <1>1 DEF IInv, OwnerInv
<1>. QED  BY <1>2, <1>3, SettledStep

\* A pointer moves only when an invocation past the lock replaces it.
LEMMA PointerMoves ==
  ASSUME [Next]_vars
  PROVE  pointer' = pointer \/ \E p \in Procs : ReplacePointer(p)
  BY DEF Next, Step, Fault, vars, procVars, diskVars, Plan, Acquire, Refuse,
         MakeDirectory, MakeDirectoryFails, OpenCapture, SetUp, RunSource,
         WriteTerminalCapture, LinkManifest, UnlinkTemporary, SyncDirectory,
         VerifySucceeds, VerifyFails, KeepPointer, ChoosePointer, Return,
         InterruptSource, Interrupt, ExecutionFails, FinalizeFails, Stop, Damage

\* Damage is for ever.
LEMMA DamageStays ==
  ASSUME [Next]_vars
  PROVE  damaged \subseteq damaged'
  BY DEF Next, Step, Fault, vars, procVars, diskVars, Plan, Acquire, Refuse,
         MakeDirectory, MakeDirectoryFails, OpenCapture, SetUp, RunSource,
         WriteTerminalCapture, LinkManifest, UnlinkTemporary, SyncDirectory,
         VerifySucceeds, VerifyFails, KeepPointer, ChoosePointer,
         ReplacePointer, Return, InterruptSource, Interrupt, ExecutionFails,
         FinalizeFails, Stop, Damage

\* An invocation gets to "replacing" only by choosing a pointer.
LEMMA Replacing ==
  ASSUME [Next]_vars, TypeOK, NEW p \in Procs, pc'[p] = "replacing"
  PROVE  \/ \E n \in Names : ChoosePointer(p, n)
         \/ pc[p] = "replacing" /\ cap'[p] = cap[p] /\ naming'[p] = naming[p]
<1> DEFINE Same(q) == pc[q] = "replacing" /\ cap'[q] = cap[q]
                        /\ naming'[q] = naming[q]
<1> USE DEF TypeOK, Goto, Leave, procVars, diskVars
<1>1. ASSUME NEW q \in Procs,
             \/ \E c \in Ids, r \in Requests : Plan(q, c, r)
             \/ Acquire(q) \/ Refuse(q) \/ MakeDirectory(q)
             \/ MakeDirectoryFails(q) \/ OpenCapture(q) \/ SetUp(q)
      PROVE  Same(p)
  BY <1>1 DEF Plan, Acquire, Refuse, MakeDirectory, MakeDirectoryFails,
              OpenCapture, SetUp
<1>2. ASSUME NEW q \in Procs,
             \/ \E s \in Sources, o \in Tried : RunSource(q, s, o)
             \/ \E s \in Sources : InterruptSource(q, s)
             \/ WriteTerminalCapture(q) \/ LinkManifest(q) \/ UnlinkTemporary(q)
             \/ SyncDirectory(q) \/ VerifySucceeds(q) \/ VerifyFails(q)
      PROVE  Same(p)
  BY <1>2 DEF RunSource, InterruptSource, WriteTerminalCapture, LinkManifest,
              UnlinkTemporary, SyncDirectory, VerifySucceeds, VerifyFails
<1>3. ASSUME NEW q \in Procs,
             \/ \E n \in Names : KeepPointer(q, n)
             \/ ReplacePointer(q) \/ Return(q) \/ Interrupt(q)
             \/ ExecutionFails(q) \/ FinalizeFails(q) \/ Stop(q)
      PROVE  Same(p)
  BY <1>3 DEF KeepPointer, ReplacePointer, Return, Interrupt, ExecutionFails,
              FinalizeFails, Stop
<1>4. ASSUME NEW q \in Procs, q # p, NEW n \in Names, ChoosePointer(q, n)
      PROVE  Same(p)
  BY <1>4 DEF ChoosePointer
<1>5. ASSUME NEW c \in Ids, Damage(c) PROVE Same(p)
  BY <1>5 DEF Damage
<1>6. CASE UNCHANGED vars
  BY <1>6 DEF vars
<1>. QED
  BY <1>1, <1>2, <1>3, <1>4, <1>5, <1>6 DEF Next, Step, Fault

\* Between the look at a pointer and its replacement the pointer stays, and its
\* target can only get worse.
LEMMA ChoiceStep ==
  ASSUME IInv, [Next]_vars
  PROVE  ChoiceInv'
<1> SUFFICES ASSUME NEW p \in Procs, pc'[p] = "replacing"
             PROVE  ~ Keeps(cap[p], naming[p])'
  BY DEF ChoiceInv
<1>0. TypeOK
  BY DEF IInv
<1>1. CASE \E n \in Names : ChoosePointer(p, n)
  <2> PICK n \in Names : ChoosePointer(p, n)
    BY <1>1
  <2>1. naming'[p] = n /\ ~ Keeps(cap[p], n)
    BY <1>0 DEF TypeOK, ChoosePointer
  <2>2. UNCHANGED <<cap, status, scope, results, manifest, temporary, damaged,
                    pointer>>
    BY DEF ChoosePointer, diskVars
  <2>. QED  BY <2>1, <2>2 DEF Keeps, ValidTarget, Verified, Sealed
<1>2. CASE pc[p] = "replacing" /\ cap'[p] = cap[p] /\ naming'[p] = naming[p]
  <2>1. ~ Keeps(cap[p], naming[p]) /\ naming[p] \in Names
    BY <1>2 DEF IInv, ChoiceInv, TypeOK
  <2>2. \A q \in Procs : q # p => ~ ReplacePointer(q)
    BY <1>2 DEF IInv, LockInv, Locked, ReplacePointer
  <2>3. ~ ReplacePointer(p)
    BY <1>0, <1>2 DEF ReplacePointer, Goto, TypeOK
  <2>4. pointer' = pointer
    BY <2>2, <2>3, PointerMoves
  <2>. DEFINE c == pointer[naming[p]]
  <2>5. CASE c = NoCapture
    BY <1>2, <2>4, <2>5 DEF Keeps
  <2>6. CASE c # NoCapture
    <3>1. /\ status'[c] = status[c] /\ results'[c] = results[c]
          /\ scope'[c] = scope[c] /\ manifest'[c] = manifest[c]
          /\ c \in temporary' <=> c \in temporary
      BY <2>1, <2>6, PointedStep
    <3>2. ValidTarget(c, naming[p])' => ValidTarget(c, naming[p])
      BY <1>2, <2>4, <3>1, DamageStays DEF ValidTarget, Verified, Sealed
    <3>. QED  BY <1>2, <2>1, <2>4, <3>2 DEF Keeps
  <2>. QED  BY <2>5, <2>6
<1>. QED  BY <1>0, <1>1, <1>2, Replacing

-----------------------------------------------------------------------------
(* No capture is lost to the pointers *)

\* A pointer goes back to an older capture only to leave an invalid one.
LEMMA PointerAdvances ==
  ASSUME IInv, [Next]_vars, NEW n \in Names, pointer[n] # NoCapture
  PROVE  /\ pointer'[n] # NoCapture
         /\ \/ Stamp[pointer'[n]] >= Stamp[pointer[n]]
            \/ ~ ValidTarget(pointer[n], n)
<1>0. TypeOK /\ pointer[n] \in Ids /\ Stamp[pointer[n]] \in Nat
  BY StampAssumption DEF IInv, TypeOK
<1>1. CASE pointer' = pointer
  BY <1>0, <1>1
<1>2. ASSUME NEW p \in Procs, ReplacePointer(p)
      PROVE  /\ pointer'[n] # NoCapture
             /\ \/ Stamp[pointer'[n]] >= Stamp[pointer[n]]
                \/ ~ ValidTarget(pointer[n], n)
  <2>1. /\ pc[p] = "replacing" /\ cap[p] \in Ids /\ Stamp[cap[p]] \in Nat
        /\ pointer' = [pointer EXCEPT ![naming[p]] = cap[p]]
    BY <1>0, <1>2, StampAssumption DEF TypeOK, ReplacePointer
  <2>2. ~ Keeps(cap[p], naming[p])
    BY <2>1 DEF IInv, ChoiceInv
  <2>3. CASE n = naming[p]
    BY <1>0, <2>1, <2>2, <2>3, NamesAssumption DEF TypeOK, Keeps
  <2>4. CASE n # naming[p]
    BY <1>0, <2>1, <2>4 DEF TypeOK
  <2>. QED  BY <2>3, <2>4
<1>. QED  BY <1>1, <1>2, PointerMoves

\* While nothing is damaged, what a pointer names is a valid target.
LEMMA PointedIsValid ==
  ASSUME IInv, damaged = {}, NEW n \in Names, pointer[n] # NoCapture
  PROVE  ValidTarget(pointer[n], n)
  BY DEF IInv, PointerInv, ValidTarget, Verified, Fits

\* An invocation past the verification gets there by VerifySucceeds, and what
\* it goes by stays as it is.
LEMMA Choosing ==
  ASSUME IInv, [Next]_vars, NEW p \in Procs,
         pc'[p] \in {"pointing", "replacing", "returned"}
  PROVE  \/ VerifySucceeds(p)
         \/ /\ pc[p] \in {"pointing", "replacing", "returned"}
            /\ cap'[p] = cap[p] /\ ask'[p] = ask[p]
<1> DEFINE Was == \/ VerifySucceeds(p)
                  \/ /\ pc[p] \in {"pointing", "replacing", "returned"}
                     /\ cap'[p] = cap[p] /\ ask'[p] = ask[p]
<1> USE DEF IInv, TypeOK, Goto, Leave, procVars, diskVars
<1>1. ASSUME NEW q \in Procs,
             \/ \E c \in Ids, r \in Requests : Plan(q, c, r)
             \/ Acquire(q) \/ Refuse(q) \/ MakeDirectory(q)
             \/ MakeDirectoryFails(q) \/ OpenCapture(q) \/ SetUp(q)
      PROVE  Was
  BY <1>1 DEF Plan, Acquire, Refuse, MakeDirectory, MakeDirectoryFails,
              OpenCapture, SetUp
<1>2. ASSUME NEW q \in Procs,
             \/ \E s \in Sources, o \in Tried : RunSource(q, s, o)
             \/ \E s \in Sources : InterruptSource(q, s)
             \/ WriteTerminalCapture(q) \/ LinkManifest(q) \/ UnlinkTemporary(q)
             \/ SyncDirectory(q) \/ VerifyFails(q)
      PROVE  Was
  BY <1>2 DEF RunSource, InterruptSource, WriteTerminalCapture, LinkManifest,
              UnlinkTemporary, SyncDirectory, VerifyFails
<1>3. ASSUME NEW q \in Procs,
             \/ \E n \in Names : KeepPointer(q, n) \/ ChoosePointer(q, n)
             \/ ReplacePointer(q) \/ Return(q) \/ Interrupt(q)
             \/ ExecutionFails(q) \/ FinalizeFails(q) \/ Stop(q)
      PROVE  Was
  BY <1>3 DEF KeepPointer, ChoosePointer, ReplacePointer, Return, Interrupt,
              ExecutionFails, FinalizeFails, Stop
<1>4. ASSUME NEW q \in Procs, VerifySucceeds(q) PROVE Was
  BY <1>4 DEF VerifySucceeds
<1>5. ASSUME NEW c \in Ids, Damage(c) PROVE Was
  BY <1>5 DEF Damage
<1>6. CASE UNCHANGED vars
  BY <1>6 DEF vars
<1>. QED
  BY <1>1, <1>2, <1>3, <1>4, <1>5, <1>6 DEF Next, Step, Fault

\* A pointer is struck off when it is kept or replaced.
LEMMA StruckOff ==
  ASSUME TypeOK, [Next]_vars, NEW p \in Procs, NEW n \in todo[p] \ todo'[p],
         pc[p] \in {"pointing", "replacing", "returned"}
  PROVE  \/ Keeps(cap[p], n) /\ pointer' = pointer
         \/ ReplacePointer(p) /\ n = naming[p]
<1> DEFINE Struck == \/ Keeps(cap[p], n) /\ pointer' = pointer
                     \/ ReplacePointer(p) /\ n = naming[p]
<1> USE DEF TypeOK, procVars
<1>1. ASSUME NEW q \in Procs,
             \/ \E m \in Names : KeepPointer(q, m)
             \/ ReplacePointer(q) \/ VerifySucceeds(q)
      PROVE  Struck
  <2>1. q = p
    BY <1>1 DEF KeepPointer, ReplacePointer, VerifySucceeds
  <2>2. ASSUME NEW m \in Names, KeepPointer(p, m)
        PROVE  Struck
    <3>1. m = n /\ pointer' = pointer
      BY <2>2 DEF KeepPointer, diskVars
    <3>. QED  BY <2>2, <3>1 DEF KeepPointer, Keeps, ValidTarget
  <2>3. ReplacePointer(p) => n = naming[p]
    BY DEF ReplacePointer
  <2>4. ~ VerifySucceeds(p)
    BY DEF VerifySucceeds
  <2>. QED  BY <1>1, <2>1, <2>2, <2>3, <2>4
<1>2. ASSUME NEW q \in Procs,
             \/ \E c \in Ids, r \in Requests : Plan(q, c, r)
             \/ Acquire(q) \/ Refuse(q) \/ MakeDirectory(q)
             \/ MakeDirectoryFails(q) \/ OpenCapture(q) \/ SetUp(q)
             \/ \E s \in Sources, o \in Tried : RunSource(q, s, o)
             \/ WriteTerminalCapture(q) \/ LinkManifest(q) \/ UnlinkTemporary(q)
             \/ SyncDirectory(q) \/ VerifyFails(q)
             \/ \E m \in Names : ChoosePointer(q, m)
             \/ Return(q) \/ Fault(q)
      PROVE  Struck
  BY <1>2 DEF Plan, Acquire, Refuse, MakeDirectory, MakeDirectoryFails,
              OpenCapture, SetUp, RunSource, WriteTerminalCapture, LinkManifest,
              UnlinkTemporary, SyncDirectory, VerifyFails, ChoosePointer, Return,
              Fault, InterruptSource, Interrupt, ExecutionFails, FinalizeFails, Stop
<1>3. ASSUME NEW c \in Ids, Damage(c) PROVE Struck
  BY <1>3 DEF Damage
<1>4. CASE UNCHANGED vars
  BY <1>4 DEF vars
<1>. QED  BY <1>1, <1>2, <1>3, <1>4 DEF Next, Step

\* Who returns has nothing left to consider, and remains so.
LEMMA Returning ==
  ASSUME TypeOK, [Next]_vars, NEW p \in Procs, pc'[p] = "returned",
         pc[p] = "returned" => todo[p] = {},
         pc[p] \in {"pointing", "replacing", "returned"}
  PROVE  todo'[p] = {}
<1> USE DEF TypeOK, procVars, Goto, Leave
<1>1. ASSUME NEW q \in Procs,
             \/ \E m \in Names : KeepPointer(q, m) \/ ChoosePointer(q, m)
             \/ ReplacePointer(q) \/ VerifySucceeds(q) \/ Return(q)
      PROVE  todo'[p] = {}
  BY <1>1 DEF KeepPointer, ChoosePointer, ReplacePointer, VerifySucceeds, Return
<1>2. ASSUME NEW q \in Procs,
             \/ \E c \in Ids, r \in Requests : Plan(q, c, r)
             \/ Acquire(q) \/ Refuse(q) \/ MakeDirectory(q)
             \/ MakeDirectoryFails(q) \/ OpenCapture(q) \/ SetUp(q)
             \/ \E s \in Sources, o \in Tried : RunSource(q, s, o)
             \/ WriteTerminalCapture(q) \/ LinkManifest(q) \/ UnlinkTemporary(q)
             \/ SyncDirectory(q) \/ VerifyFails(q)
      PROVE  todo'[p] = {}
  BY <1>2 DEF Plan, Acquire, Refuse, MakeDirectory, MakeDirectoryFails,
              OpenCapture, SetUp, RunSource, WriteTerminalCapture, LinkManifest,
              UnlinkTemporary, SyncDirectory, VerifyFails
<1>3. ASSUME NEW q \in Procs, Fault(q) PROVE todo'[p] = {}
  BY <1>3 DEF Fault, InterruptSource, Interrupt, ExecutionFails, FinalizeFails, Stop
<1>4. ASSUME NEW c \in Ids, Damage(c) PROVE todo'[p] = {}
  BY <1>4 DEF Damage
<1>5. CASE UNCHANGED vars
  BY <1>5 DEF vars
<1>. QED  BY <1>1, <1>2, <1>3, <1>4, <1>5 DEF Next, Step

\* Nothing an invocation has named is lost again.
LEMMA NamedStep ==
  ASSUME IInv, NamedInv, [Next]_vars
  PROVE  NamedInv'
<1> SUFFICES ASSUME NEW p \in Procs, pc'[p] \in {"pointing", "replacing", "returned"}
             PROVE  Named(p)'
  BY DEF NamedInv
<1>0. TypeOK /\ damaged \subseteq damaged'
  BY DamageStays DEF IInv
<1>1. CASE VerifySucceeds(p)
  <2>1. /\ todo' = [todo EXCEPT ![p] = PointersToMove(p)]
        /\ UNCHANGED <<ask, cap, results, status>>
        /\ pc'[p] = "pointing"
    BY <1>0, <1>1 DEF VerifySucceeds, diskVars, Goto, TypeOK
  <2>2. todo'[p] = PointersToMove(p)
    BY <1>0, <2>1 DEF TypeOK
  <2>. QED  BY <2>1, <2>2 DEF Named, PointersToMove
<1>2. CASE /\ pc[p] \in {"pointing", "replacing", "returned"}
           /\ cap'[p] = cap[p] /\ ask'[p] = ask[p]
  <2>1. Named(p) /\ PointersToMove(p)' = PointersToMove(p)
    BY <1>2, MadeStep DEF NamedInv, PointersToMove
  <2>2. PointersToMove(p) \subseteq Names
    BY DEF PointersToMove, Names
  <2>3. Stamp[cap[p]] \in Nat /\ \A n \in Names : pointer[n] # NoCapture =>
                                                  Stamp[pointer[n]] \in Nat
    BY <1>0, <1>2, MadeStep, StampAssumption DEF TypeOK
  \* What was named remains named.
  <2>4. ASSUME NEW n \in Names, damaged = {}, pointer[n] # NoCapture,
               Stamp[pointer[n]] >= Stamp[cap[p]]
        PROVE  pointer'[n] # NoCapture /\ Stamp[pointer'[n]] >= Stamp[cap[p]]
    <3>1. pointer'[n] # NoCapture /\ Stamp[pointer'[n]] >= Stamp[pointer[n]]
      BY <2>4, PointerAdvances, PointedIsValid
    <3>2. Stamp[pointer'[n]] \in Nat
      BY <3>1, TypeStep, <1>0, StampAssumption DEF TypeOK
    <3>. QED  BY <2>3, <2>4, <3>1, <3>2
  \* What is struck off is named.
  <2>5. ASSUME NEW n \in todo[p] \ todo'[p]
        PROVE  pointer'[n] # NoCapture /\ Stamp[pointer'[n]] >= Stamp[cap[p]]
    <3>1. \/ Keeps(cap[p], n) /\ pointer' = pointer
          \/ ReplacePointer(p) /\ n = naming[p]
      BY <1>0, <1>2, <2>5, StruckOff
    <3>2. CASE Keeps(cap[p], n) /\ pointer' = pointer
      BY <1>0, <2>3, <3>2 DEF Keeps, TypeOK
    <3>3. CASE ReplacePointer(p) /\ n = naming[p]
      BY <1>0, <1>2, <2>3, <3>3, MadeStep, NamesAssumption DEF ReplacePointer, TypeOK
    <3>. QED  BY <3>1, <3>2, <3>3
  <2>6. pc'[p] = "returned" => todo'[p] = {}
    BY <1>0, <1>2, <2>1, Returning DEF Named
  <2>. QED  BY <1>0, <1>2, <2>1, <2>2, <2>4, <2>5, <2>6 DEF Named
<1>. QED  BY <1>1, <1>2, Choosing

-----------------------------------------------------------------------------
(* Every interruption that is handled leaves a terminal status *)

\* p is at work on c, or was cut short.
Attends(p, c) ==
  Owning(p) /\ cap[p] = c /\ pc[p] \in Locked \union {"stopped"}

\* Who leaves the lock behind has given its capture a terminal status.
LEMMA LeavesTerminal ==
  ASSUME IInv, TypeOK', NEW p \in Procs, Owning(p),
         \/ \E s \in Sources : InterruptSource(p, s)
         \/ Interrupt(p) \/ ExecutionFails(p) \/ FinalizeFails(p)
         \/ VerifyFails(p) \/ Return(p)
  PROVE  status'[cap[p]] \notin {"empty", "running"}
<1>1. cap[p] \in Ids /\ status \in [Ids -> CaptureJsonStatuses]
  BY DEF IInv, TypeOK, Owning
<1>2. \A r, q : AggregateStatus(r, q) \notin {"empty", "running"}
  BY DEF AggregateStatus
<1>3. CASE (\E s \in Sources : InterruptSource(p, s)) \/ Interrupt(p)
           \/ ExecutionFails(p) \/ FinalizeFails(p)
  BY <1>1, <1>3 DEF InterruptSource, Interrupt, ExecutionFails, FinalizeFails
<1>4. CASE VerifyFails(p) \/ Return(p)
  <2>1. pc[p] \in Finished /\ status' = status
    BY <1>4 DEF VerifyFails, Return, Finished, diskVars
  <2>2. status[cap[p]] = AggregateStatus(results[cap[p]], Required)
    BY <2>1 DEF IInv, StageInv, Stage
  <2>. QED  BY <1>2, <2>1, <2>2
<1>. QED  BY <1>3, <1>4

\* Who is at work on a capture is so after the step, or has finished it.
LEMMA AttendedStep ==
  ASSUME IInv, RunningIsAttended, [Next]_vars
  PROVE  RunningIsAttended'
<1> SUFFICES ASSUME NEW c \in Ids, status'[c] \in {"empty", "running"}
             PROVE  \E p \in Procs : Attends(p, c)'
  BY DEF RunningIsAttended, Attends
<1>0. TypeOK /\ TypeOK'
  BY TypeStep DEF IInv
<1> USE <1>0 DEF Goto, Leave, procVars, diskVars, Attends
<1>1. ASSUME NEW p \in Procs, MakeDirectory(p)
      PROVE  \E q \in Procs : Attends(q, c)'
  <2>1. CASE cap[p] = c
    BY <1>1, <2>1 DEF MakeDirectory, TypeOK, Owning, Locked
  <2>2. CASE cap[p] # c
    <3>1. PICK q \in Procs : Attends(q, c)
      BY <1>1, <2>2 DEF MakeDirectory, TypeOK, RunningIsAttended
    <3>2. q # p
      BY <2>2, <3>1
    <3>. QED  BY <1>1, <3>1, <3>2 DEF MakeDirectory, TypeOK, Owning, Locked
  <2>. QED  BY <2>1, <2>2
<1>2. ASSUME NEW p \in Procs,
             \/ OpenCapture(p) \/ WriteTerminalCapture(p)
             \/ \E s \in Sources, o \in Tried : RunSource(p, s, o)
             \/ SetUp(p) \/ LinkManifest(p) \/ UnlinkTemporary(p)
             \/ SyncDirectory(p) \/ VerifySucceeds(p)
             \/ \E n \in Names : KeepPointer(p, n) \/ ChoosePointer(p, n)
             \/ ReplacePointer(p)
      PROVE  \E q \in Procs : Attends(q, c)'
  <2>1. /\ pc'[p] \in Locked \ {"locked"} /\ cap' = cap
        /\ pc[p] \in Locked \ {"locked"}
        /\ \A q \in Procs : q # p => pc'[q] = pc[q]
    BY <1>2 DEF OpenCapture, WriteTerminalCapture, RunSource, SetUp, LinkManifest,
                UnlinkTemporary, SyncDirectory, VerifySucceeds, KeepPointer,
                ChoosePointer, ReplacePointer, TypeOK, Locked
  <2>2. status[c] \in {"empty", "running"}
    <3>1. CASE OpenCapture(p)
      BY <3>1 DEF OpenCapture, IInv, StageInv, Stage, TypeOK
    <3>2. CASE WriteTerminalCapture(p)
      <4>1. AggregateStatus(results[cap[p]], Required) \notin {"empty", "running"}
        BY DEF AggregateStatus
      <4>. QED  BY <3>2, <4>1 DEF WriteTerminalCapture, TypeOK
    <3>3. CASE ~ OpenCapture(p) /\ ~ WriteTerminalCapture(p)
      <4>1. status' = status
        BY <1>2, <3>3
        DEF RunSource, SetUp, LinkManifest, UnlinkTemporary, SyncDirectory,
            VerifySucceeds, KeepPointer, ChoosePointer, ReplacePointer
      <4>. QED  BY <4>1
    <3>. QED  BY <3>1, <3>2, <3>3
  <2>3. PICK q \in Procs : Attends(q, c)
    BY <2>1, <2>2 DEF RunningIsAttended, Owning, Locked
  <2>. QED  BY <2>1, <2>3 DEF Owning, Locked
<1>3. ASSUME NEW p \in Procs,
             \/ \E s \in Sources : InterruptSource(p, s)
             \/ Interrupt(p) \/ ExecutionFails(p) \/ FinalizeFails(p)
             \/ VerifyFails(p) \/ Return(p) \/ Stop(p)
      PROVE  \E q \in Procs : Attends(q, c)'
  <2>1. /\ Owning(p) /\ cap' = cap
        /\ \A q \in Procs : q # p => pc'[q] = pc[q]
        /\ Stop(p) => pc'[p] = "stopped"
    BY <1>3 DEF InterruptSource, Interrupt, ExecutionFails, FinalizeFails,
                VerifyFails, Return, Stop, TypeOK, Locked, Owning
  <2>2. cap[p] # c => status'[c] = status[c]
    BY <1>3 DEF InterruptSource, Interrupt, ExecutionFails, FinalizeFails,
                VerifyFails, Return, Stop, TypeOK
  <2>3. CASE Stop(p)
    <3>1. PICK q \in Procs : Attends(q, c)
      BY <2>3 DEF Stop, RunningIsAttended
    <3>. QED  BY <2>1, <2>3, <3>1 DEF Owning
  <2>4. CASE ~ Stop(p)
    <3>1. cap[p] # c
      BY <1>3, <2>1, <2>4, LeavesTerminal
    <3>2. PICK q \in Procs : Attends(q, c)
      BY <2>2, <3>1 DEF RunningIsAttended
    <3>. QED  BY <2>1, <3>1, <3>2 DEF Owning
  <2>. QED  BY <2>3, <2>4
<1>4. ASSUME NEW p \in Procs,
             \/ \E x \in Ids, r \in Requests : Plan(p, x, r)
             \/ Acquire(p) \/ Refuse(p) \/ MakeDirectoryFails(p)
      PROVE  \E q \in Procs : Attends(q, c)'
  <2>1. PICK q \in Procs : Attends(q, c)
    BY <1>4 DEF Plan, Acquire, Refuse, MakeDirectoryFails, RunningIsAttended
  <2>2. ~ Owning(p)
    BY <1>4 DEF Plan, Acquire, Refuse, MakeDirectoryFails, Owning
  <2>. QED  BY <1>4, <2>1, <2>2 DEF Plan, Acquire, Refuse, MakeDirectoryFails,
                                    TypeOK, Owning
<1>5. ASSUME NEW x \in Ids, Damage(x)
      PROVE  \E q \in Procs : Attends(q, c)'
  BY <1>5 DEF Damage, RunningIsAttended, Owning
<1>6. CASE UNCHANGED vars
  BY <1>6 DEF vars, RunningIsAttended, Owning
<1>. QED  BY <1>1, <1>2, <1>3, <1>4, <1>5, <1>6 DEF Next, Step, Fault

-----------------------------------------------------------------------------
(* The theorems *)

\* Of the steps there are, one turns an invocation away that was waiting for
\* nothing but the lock.
LEMMA TurnedAway ==
  ASSUME TypeOK, [Next]_vars, NEW p \in Procs, pc[p] = "planned", pc'[p] = "refused"
  PROVE  Refuse(p)
<1> USE DEF TypeOK, Goto, Leave
<1>1. ASSUME NEW q \in Procs, NEW c \in Ids, NEW r \in Requests, Plan(q, c, r)
      PROVE  FALSE
  BY <1>1 DEF Plan
<1>2. ASSUME NEW q \in Procs, Acquire(q) \/ MakeDirectory(q) \/ MakeDirectoryFails(q)
      PROVE  FALSE
  BY <1>2 DEF Acquire, MakeDirectory, MakeDirectoryFails
<1>3. ASSUME NEW q \in Procs,
             \/ OpenCapture(q) \/ SetUp(q) \/ WriteTerminalCapture(q)
             \/ LinkManifest(q) \/ UnlinkTemporary(q) \/ SyncDirectory(q)
             \/ VerifySucceeds(q) \/ VerifyFails(q) \/ ReplacePointer(q) \/ Return(q)
      PROVE  FALSE
  BY <1>3 DEF OpenCapture, SetUp, WriteTerminalCapture, LinkManifest,
              UnlinkTemporary, SyncDirectory, VerifySucceeds, VerifyFails,
              ReplacePointer, Return
<1>4. ASSUME NEW q \in Procs,
             \/ \E s \in Sources, o \in Tried : RunSource(q, s, o)
             \/ \E n \in Names : KeepPointer(q, n) \/ ChoosePointer(q, n)
      PROVE  FALSE
  BY <1>4 DEF RunSource, KeepPointer, ChoosePointer, procVars
<1>5. ASSUME NEW q \in Procs, Fault(q)
      PROVE  FALSE
  BY <1>5 DEF Fault, InterruptSource, Interrupt, ExecutionFails, FinalizeFails,
              Stop, Locked
<1>6. ASSUME NEW q \in Procs, Refuse(q)
      PROVE  Refuse(p)
  BY <1>6 DEF Refuse
<1>7. ASSUME NEW c \in Ids, Damage(c)
      PROVE  FALSE
  BY <1>7 DEF Damage, procVars
<1>8. pc' # pc
  OBVIOUS
<1>. QED
  BY <1>1, <1>2, <1>3, <1>4, <1>5, <1>6, <1>7, <1>8 DEF Next, Step, vars

\* The initial state is typed.
LEMMA InitTyped == Init => TypeOK
  BY NamesAssumption
  DEF Init, TypeOK, Names, Locked, Ended, CaptureJsonStatuses, NothingReported,
      NoRequest

\* Every variable always has its type.
THEOREM TypeCorrect == Spec => []TypeOK
  BY InitTyped, TypeStep, PTL DEF Spec

\* The inductive invariant holds: everything below follows from it.
THEOREM Inductive == Spec => []IInv
<1>1. Init => IInv
  <2> SUFFICES ASSUME Init PROVE IInv
    OBVIOUS
  <2>1. lock = NoProc /\ \A p \in Procs : pc[p] = "idle"
    BY DEF Init
  <2>2. LockInv /\ OwnerInv /\ AskInv /\ TodoInv /\ ChoiceInv
    BY <2>1, NamesAssumption
    DEF LockInv, Locked, OwnerInv, Owning, AskInv, TodoInv, Decided, ChoiceInv
  <2>3. StageInv
    BY <2>1 DEF StageInv, Stage, Finished, AfterLink, AfterSync
  <2>4. FreshInv /\ PointerInv
    BY DEF Init, FreshInv, Sealed, PointerInv
  <2>. QED  BY InitTyped, <2>2, <2>3, <2>4 DEF IInv
<1>2. IInv /\ [Next]_vars => IInv'
  BY TypeStep, RestStep, ChoiceStep DEF IInv
<1>. QED  BY <1>1, <1>2, PTL DEF Spec

\* collection_lock keeps all but one invocation out, however the others ended.
THEOREM MutualExclusion == Spec => []OneAtATime
<1>1. IInv => OneAtATime
  BY DEF IInv, LockInv, OneAtATime
<1>. QED  BY <1>1, Inductive, PTL

\* Nobody is turned away for an invocation that has ended (collection_lock:
\* "another capture is active").
THEOREM RefusalsAreTrue == Spec => RefusedWhileActive
<1>1. ASSUME IInv, [Next]_vars, NEW p \in Procs, pc[p] = "planned", pc'[p] = "refused"
      PROVE  \E q \in Procs : q # p /\ pc[q] \in Locked
  <2>1. lock \in Procs
    BY <1>1, TurnedAway DEF IInv, TypeOK, Refuse
  <2>2. pc[lock] \in Locked
    BY <1>1, <2>1 DEF IInv, LockInv
  <2>. QED  BY <1>1, <2>1, <2>2 DEF Locked
<1>2. IInv /\ [Next]_vars =>
        [\A p \in Procs :
           pc[p] = "planned" /\ pc'[p] = "refused" =>
             \E q \in Procs : q # p /\ pc[q] \in Locked]_vars
  BY <1>1
<1>. QED  BY <1>2, Inductive, PTL DEF Spec, RefusedWhileActive

\* LATEST-ACQUIRED names a sealed, complete, unfiltered capture.
THEOREM AcquiredSound == Spec => []AcquiredIsFullAndComplete
<1>1. IInv => AcquiredIsFullAndComplete
  BY DEF IInv, PointerInv, AcquiredIsFullAndComplete, Names, Fits, Verified
<1>. QED  BY <1>1, Inductive, PTL

\* LATEST-<source> names a sealed capture in which the source succeeded.
THEOREM SourcePointersSound == Spec => []SourcePointersNameSuccess
<1>1. IInv => SourcePointersNameSuccess
  BY NamesAssumption
  DEF IInv, PointerInv, SourcePointersNameSuccess, Names, Fits, Verified
<1>. QED  BY <1>1, Inductive, PTL

\* What a pointer names is not rewritten.
THEOREM PointedImmutable == Spec => PointedIsImmutable
<1>1. IInv /\ [Next]_vars =>
        [\A n \in Names :
           LET c == pointer[n] IN
             c # NoCapture => /\ status'[c] = status[c]
                              /\ results'[c] = results[c]
                              /\ scope'[c] = scope[c]
                              /\ manifest'[c] = manifest[c]
                              /\ (c \in temporary') <=> (c \in temporary)]_vars
  BY PointedStep
<1>. QED  BY <1>1, Inductive, PTL DEF Spec, PointedIsImmutable

\* A pointer goes back to an older capture only to leave an invalid one.
THEOREM NoRegress == Spec => PointersNeverRegress
<1>1. IInv /\ [Next]_vars =>
        [\A n \in Names :
           pointer[n] # NoCapture =>
             /\ pointer'[n] # NoCapture
             /\ \/ Stamp[pointer'[n]] >= Stamp[pointer[n]]
                \/ ~ ValidTarget(pointer[n], n)]_vars
  BY PointerAdvances
<1>. QED  BY <1>1, Inductive, PTL DEF Spec, PointersNeverRegress

\* A capture.json without a terminal status has an invocation at work, or one
\* that was cut short (the handlers of _execute_plan).
THEOREM Attended == Spec => []RunningIsAttended
<1>1. Init => RunningIsAttended
  BY DEF Init, RunningIsAttended
<1>. QED  BY <1>1, AttendedStep, Inductive, PTL DEF Spec

\* No capture is lost to the pointers by a race (_update_latest).
THEOREM NoneLost == Spec => []ReturnedIsNamed
<1>1. Init => NamedInv
  BY DEF Init, NamedInv
<1>2. NamedInv => ReturnedIsNamed
  BY DEF NamedInv, Named, ReturnedIsNamed
<1>. QED  BY <1>1, <1>2, NamedStep, Inductive, PTL DEF Spec
=============================================================================
