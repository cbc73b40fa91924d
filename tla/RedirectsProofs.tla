-------------------------- MODULE RedirectsProofs --------------------------
(***************************************************************************)
(* Redirects, for every set of URLs, every configuration of reviewed       *)
(* redirects, every server and every limit.                                *)
(***************************************************************************)
EXTENDS Redirects, FiniteSetTheorems, SequenceTheorems, WellFoundedInduction,
        TLAPS

\* The status of a source that ran to its end.
LEMMA SourceStatusTyped ==
  \A outcome \in Outcomes : SourceStatus(outcome) \in SourceStatuses
  BY DEF Outcomes, SourceStatus, SourceStatuses, Successful

\* Every step keeps every variable in its type.
LEMMA TypeStep == TypeOK /\ StageInv /\ OriginInv /\ [Next]_vars => TypeOK'
<1> SUFFICES ASSUME TypeOK, StageInv, OriginInv, [Next]_vars
              PROVE  TypeOK'
  OBVIOUS
<1> USE UrlsAssumption, ReviewsAssumption, AnswersAssumption
    DEF TypeOK, visited, Working, Reaping, Over, Runs, Edges, diskVars,
        memoryVars, SourceStatuses, Successful, FailureResults
<1>1. CASE Prepare
  BY <1>1 DEF Prepare
<1>2. CASE StartWget
  <2>1. Asking \subseteq Urls
    BY DEF Asking
  <2>2. Append(runs, [urls |-> Asking, exit |-> "running"]) \in Seq(Runs)
    BY <2>1, AppendProperties
  <2>4. next # NoEdge => next.from \in visited
    BY <1>2 DEF StartWget, StageInv, OriginInv
  <2>5. depth' \in [visited' -> Nat] /\ visited' \subseteq Urls
    BY <1>2, <2>1, <2>4 DEF StartWget
  <2> QED
    BY <1>2, <2>1, <2>2, <2>5 DEF StartWget
<1>3. ASSUME NEW responses \in SUBSET Answers,
             NEW exit \in {"accepted", "rejected"}, WgetEnds(responses, exit)
      PROVE  TypeOK'
  <2>1. Len(runs) \in 1 .. Len(runs)
    BY <1>3, EmptySeq DEF StageInv, WgetEnds
  <2>2. runs[Len(runs)] \in Runs
    BY <2>1, ElementOfSeq
  <2>3. runs' \in Seq(Runs)
    <3> DEFINE run == [urls |-> runs[Len(runs)].urls, exit |-> exit]
    <3>1. run \in Runs
      BY <2>2
    <3>2. runs' = [runs EXCEPT ![Len(runs)] = run]
      BY <1>3 DEF WgetEnds
    <3> HIDE DEF run
    <3> QED
      BY <2>1, <3>1, <3>2, ExceptSeq
  <2> QED
    BY <1>3, <2>3 DEF WgetEnds
<1>4. ASSUME NEW seen \in SUBSET kept, Scan(seen)
      PROVE  TypeOK'
  BY <1>4 DEF Scan
<1>5. ASSUME NEW e \in Edges, FollowRedirect(e)
      PROVE  TypeOK'
  BY <1>5 DEF FollowRedirect, Candidates
<1>6. CASE NothingToFollow \/ QuotaExhausted
  BY <1>6 DEF NothingToFollow, QuotaExhausted
<1>7. CASE NoteCommand
  BY <1>7 DEF NoteCommand, Asking
<1>8. ASSUME NEW outcome \in Outcomes, Judge(outcome)
      PROVE  TypeOK'
  BY <1>8, SourceStatusTyped DEF Judge
<1>9. CASE Reaped
  BY <1>9 DEF Reaped
<1>10. CASE Fault
  BY <1>10 DEF Fault, Interrupt, Fail, Terminate, InterruptReaping, Kill
<1>11. CASE OrphanEnds
  BY <1>11 DEF OrphanEnds
<1>12. CASE UNCHANGED vars
  BY <1>12 DEF vars
<1> HIDE DEF TypeOK, visited, Working, Reaping, Over, Runs, Edges, diskVars,
             memoryVars
<1> QED
  BY <1>1, <1>2, <1>3, <1>4, <1>5, <1>6, <1>7, <1>8, <1>9, <1>10, <1>11, <1>12
     DEF Next, Step

\* A step that only moves the program, or ends it, without another request.
Passing == \/ NothingToFollow \/ QuotaExhausted \/ Fault \/ Reaped \/ OrphanEnds
           \/ \E outcome \in Outcomes : Judge(outcome)

\* Such a step leaves everything but pc, wget and result alone.
LEMMA PassingUnchanged ==
  ASSUME Passing
  PROVE  UNCHANGED <<proposals, requested, depth, next, reviewed, kept, record,
                     commands, runs>>
  BY DEF Passing, NothingToFollow, QuotaExhausted, Fault, Reaped, OrphanEnds,
         Judge, Interrupt, Fail, Terminate, InterruptReaping, Kill,
         memoryVars, diskVars

\* It does not enter a stage that asks for something, and ends for good.
LEMMA PassingStage ==
  ASSUME Passing
  PROVE  /\ pc \in Working \union Over
         /\ pc' \in {"judging"} \union Reaping \union Over
         /\ pc \in Over => pc' \in Over
  BY DEF Passing, NothingToFollow, QuotaExhausted, Fault, Reaped, OrphanEnds,
         Judge, Interrupt, Fail, Terminate, InterruptReaping, Kill, Working,
         Reaping, Over

\* The steps of the specification, the passing ones taken together.
LEMMA Cases ==
  ASSUME [Next]_vars
  PROVE  \/ Prepare \/ StartWget
         \/ \E responses \in SUBSET Answers, exit \in {"accepted", "rejected"} :
              WgetEnds(responses, exit)
         \/ \E seen \in SUBSET kept : Scan(seen)
         \/ \E e \in Edges : FollowRedirect(e)
         \/ NoteCommand \/ Passing \/ UNCHANGED vars
  BY DEF Next, Step, Passing

\* The stages and what they say of the variables.
LEMMA StageStep == IInv /\ [Next]_vars => StageInv'
<1> SUFFICES ASSUME IInv, [Next]_vars PROVE StageInv'
  OBVIOUS
<1> USE DEF IInv, StageInv, visited, Working, Reaping, Over, diskVars,
            memoryVars
<1>1. CASE Prepare
  BY <1>1 DEF Prepare
<1>2. CASE StartWget
  <2>1. runs' # <<>>
    BY <1>2, AppendProperties DEF StartWget, TypeOK, Asking
  <2> QED
    BY <1>2, <2>1 DEF StartWget
<1>3. ASSUME NEW responses \in SUBSET Answers,
             NEW exit \in {"accepted", "rejected"}, WgetEnds(responses, exit)
      PROVE  StageInv'
  <2>1. runs' # <<>>
    BY <1>3, EmptySeq DEF WgetEnds, TypeOK
  <2> QED
    BY <1>3, <2>1 DEF WgetEnds
<1>4. ASSUME NEW seen \in SUBSET kept, Scan(seen)
      PROVE  StageInv'
  BY <1>4 DEF Scan
<1>5. ASSUME NEW e \in Edges, FollowRedirect(e)
      PROVE  StageInv'
  BY <1>5, UrlsAssumption DEF FollowRedirect, Candidates
<1>6. CASE NoteCommand
  BY <1>6 DEF NoteCommand, Asking
<1>7. CASE Passing
  <2> USE DEF TypeOK
  <2>1. CASE NothingToFollow \/ QuotaExhausted
    <3>1. /\ pc = "choosing" /\ pc' = "judging"
          /\ wget' = wget /\ result' = result
          /\ runs' = runs
      BY <2>1 DEF NothingToFollow, QuotaExhausted
    <3> QED
      BY <3>1
  <2>2. CASE Fault
    <3>1. CASE Interrupt \/ Fail
      BY <3>1 DEF Interrupt, Fail
    <3>2. CASE Terminate
      BY <3>2 DEF Terminate
    <3>3. CASE InterruptReaping \/ Kill
      BY <3>3 DEF InterruptReaping, Kill
    <3> QED
      BY <2>2, <3>1, <3>2, <3>3 DEF Fault
  <2>3. CASE Reaped \/ OrphanEnds
    BY <2>3 DEF Reaped, OrphanEnds
  <2>4. ASSUME NEW outcome \in Outcomes, Judge(outcome)
        PROVE  StageInv'
    BY <2>4 DEF Judge
  <2> QED
    BY <1>7, <2>1, <2>2, <2>3, <2>4 DEF Passing
<1>8. CASE UNCHANGED vars
  BY <1>8 DEF vars
<1> HIDE DEF StageInv, visited
<1> QED
  BY <1>1, <1>2, <1>3, <1>4, <1>5, <1>6, <1>7, <1>8, Cases

\* Proposals come from kept responses, requests from reviewed proposals.
LEMMA OriginStep == IInv /\ [Next]_vars => OriginInv'
<1> SUFFICES ASSUME IInv, [Next]_vars PROVE OriginInv'
  OBVIOUS
<1> USE DEF IInv, OriginInv, visited, diskVars, memoryVars
<1>1. CASE Prepare
  BY <1>1 DEF Prepare, StageInv
<1>2. CASE StartWget
  BY <1>2 DEF StartWget
<1>3. ASSUME NEW responses \in SUBSET Answers,
             NEW exit \in {"accepted", "rejected"}, WgetEnds(responses, exit)
      PROVE  OriginInv'
  BY <1>3 DEF WgetEnds
<1>4. ASSUME NEW seen \in SUBSET kept, Scan(seen)
      PROVE  OriginInv'
  BY <1>4 DEF Scan
<1>5. ASSUME NEW e \in Edges, FollowRedirect(e)
      PROVE  OriginInv'
  BY <1>5 DEF FollowRedirect, Candidates
<1>6. CASE NoteCommand
  BY <1>6 DEF NoteCommand
<1>7. CASE Passing
  BY <1>7, PassingUnchanged
<1>8. CASE UNCHANGED vars
  BY <1>8 DEF vars
<1> QED
  BY <1>1, <1>2, <1>3, <1>4, <1>5, <1>6, <1>7, <1>8, Cases

\* StartWget adds an invocation for URLs that were not visited before.
LEMMA StartedRun ==
  ASSUME IInv, StartWget
  PROVE  /\ Len(runs') = Len(runs) + 1
         /\ \A i \in 1 .. Len(runs) : runs'[i] = runs[i]
         /\ runs'[Len(runs) + 1] = [urls |-> Asking, exit |-> "running"]
         /\ Asking \intersect visited = {}
         /\ visited' = visited \union Asking
<1>1. Asking \subseteq Urls
  BY UrlsAssumption DEF IInv, TypeOK, Asking, Edges
<1>2. /\ runs \in Seq(Runs)
      /\ [urls |-> Asking, exit |-> "running"] \in Runs
  BY <1>1 DEF IInv, TypeOK, Runs
<1>3. runs' = Append(runs, [urls |-> Asking, exit |-> "running"])
  BY DEF StartWget
<1>4. Asking \intersect visited = {}
  BY DEF IInv, StageInv, StartWget, Asking
<1>5. visited' = visited \union Asking
  BY DEF StartWget, visited
<1> QED
  BY <1>2, <1>3, <1>4, <1>5, AppendProperties

\* WgetEnds changes only how the last invocation ended.
LEMMA EndedRun ==
  ASSUME IInv, NEW responses \in SUBSET Answers,
         NEW exit \in {"accepted", "rejected"}, WgetEnds(responses, exit)
  PROVE  /\ Len(runs') = Len(runs)
         /\ \A i \in 1 .. Len(runs) : runs'[i].urls = runs[i].urls
<1>1. Len(runs) \in 1 .. Len(runs) /\ runs \in Seq(Runs)
  BY EmptySeq DEF IInv, TypeOK, StageInv, WgetEnds, Working
<1>2. runs[Len(runs)] \in Runs
  BY <1>1, ElementOfSeq
<1> DEFINE run == [urls |-> runs[Len(runs)].urls, exit |-> exit]
<1>3. run \in Runs /\ run.urls = runs[Len(runs)].urls
  BY <1>2 DEF Runs
<1>4. runs' = [runs EXCEPT ![Len(runs)] = run]
  BY DEF WgetEnds
<1> HIDE DEF run
<1> QED
  BY <1>1, <1>3, <1>4, ExceptSeq

\* Each invocation asks for the target of a request, and for no URL twice.
LEMMA RunsStep == IInv /\ [Next]_vars => RunsInv'
<1> SUFFICES ASSUME IInv, [Next]_vars PROVE RunsInv'
  OBVIOUS
<1>0. Len(runs) \in Nat
  BY EmptySeq DEF IInv, TypeOK
<1>1. CASE Prepare
  BY <1>1 DEF Prepare, IInv, StageInv, RunsInv, AskedOnce, visited, memoryVars
<1>2. CASE StartWget
  <2>1. requested' = requested /\ commands' = commands
    BY <1>2 DEF StartWget, diskVars
  <2>2. Len(runs) + 1 \in 2 .. Len(runs) + 1 =>
          next \in requested /\ Asking = {next.to} /\ next.to \in commands
    BY <1>0, <1>2, EmptySeq DEF StartWget, IInv, StageInv, Asking
  <2>3. (\A i \in 1 .. Len(runs) : runs[i].urls \subseteq visited)'
    BY <1>0, <1>2, StartedRun DEF IInv, RunsInv
  <2>4. (\A i \in 2 .. Len(runs) :
           \E e \in requested : runs[i].urls = {e.to} /\ e.to \in commands)'
    BY <1>0, <1>2, <2>1, <2>2, StartedRun DEF IInv, RunsInv
  <2>5. AskedOnce'
    <3> SUFFICES ASSUME NEW i \in 1 .. Len(runs) + 1, NEW j \in 1 .. Len(runs) + 1,
                        i # j
                 PROVE  runs'[i].urls \intersect runs'[j].urls = {}
      BY <1>2, StartedRun DEF AskedOnce
    <3>1. CASE i \in 1 .. Len(runs) /\ j \in 1 .. Len(runs)
      BY <1>2, <3>1, StartedRun DEF IInv, RunsInv, AskedOnce
    <3>2. CASE i = Len(runs) + 1 \/ j = Len(runs) + 1
      BY <1>0, <1>2, <3>2, StartedRun DEF IInv, RunsInv
    <3> QED
      BY <1>0, <3>1, <3>2
  <2> QED
    BY <2>3, <2>4, <2>5 DEF RunsInv
<1>3. ASSUME NEW responses \in SUBSET Answers,
             NEW exit \in {"accepted", "rejected"}, WgetEnds(responses, exit)
      PROVE  RunsInv'
  BY <1>0, <1>3, EndedRun
     DEF WgetEnds, IInv, RunsInv, AskedOnce, visited, diskVars, memoryVars
<1>4. ASSUME NEW seen \in SUBSET kept, Scan(seen)
      PROVE  RunsInv'
  BY <1>4 DEF Scan, IInv, RunsInv, AskedOnce, visited
<1>5. ASSUME NEW e \in Edges, FollowRedirect(e)
      PROVE  RunsInv'
  BY <1>5 DEF FollowRedirect, IInv, RunsInv, AskedOnce, visited
<1>6. CASE NoteCommand
  BY <1>6 DEF NoteCommand, IInv, RunsInv, AskedOnce, visited, memoryVars
<1>7. CASE Passing
  BY <1>7, PassingUnchanged DEF IInv, RunsInv, AskedOnce, visited
<1>8. CASE UNCHANGED vars
  BY <1>8 DEF vars, IInv, RunsInv, AskedOnce, visited
<1> QED
  BY <1>1, <1>2, <1>3, <1>4, <1>5, <1>6, <1>7, <1>8, Cases

\* FollowedInv speaks of the runs, the requests, and the pending request.
LEMMA FollowedKept ==
  ASSUME IInv,
         Len(runs') = Len(runs),
         \A i \in 1 .. Len(runs) : runs'[i].urls = runs[i].urls,
         requested' = requested,
         \A e : Pending(e) /\ result \notin Successful
                  => Pending(e)' /\ result' \notin Successful
  PROVE  FollowedInv'
<1> SUFFICES ASSUME NEW i \in 1 .. Len(runs), NEW e \in requested,
                    e.from \in runs[i].urls
             PROVE  \/ \E j \in i + 1 .. Len(runs) : runs'[j].urls = {e.to}
                    \/ Pending(e)' /\ result' \notin Successful
  BY DEF FollowedInv
<1>1. CASE \E j \in i + 1 .. Len(runs) : runs[j].urls = {e.to}
  <2>1. PICK j \in i + 1 .. Len(runs) : runs[j].urls = {e.to}
    BY <1>1
  <2>2. j \in 1 .. Len(runs)
    BY <2>1, EmptySeq DEF IInv, TypeOK
  <2> QED
    BY <2>1, <2>2
<1>2. CASE Pending(e) /\ result \notin Successful
  BY <1>2
<1> QED
  BY <1>1, <1>2 DEF IInv, FollowedInv

\* A request of what an invocation asked for was answered by a later one.
LEMMA FollowedStep == IInv /\ [Next]_vars => FollowedInv'
<1> SUFFICES ASSUME IInv, [Next]_vars PROVE FollowedInv'
  OBVIOUS
<1>0. Len(runs) \in Nat
  BY EmptySeq DEF IInv, TypeOK
<1>1. CASE Prepare
  BY <1>1 DEF Prepare, IInv, StageInv, FollowedInv, memoryVars
<1>2. CASE StartWget
  <2>0. requested' = requested /\ Len(runs') = Len(runs) + 1
    BY <1>2, StartedRun DEF StartWget
  <2> SUFFICES ASSUME NEW i \in 1 .. Len(runs) + 1, NEW e \in requested,
                      e.from \in runs'[i].urls
               PROVE  \E j \in i + 1 .. Len(runs) + 1 : runs'[j].urls = {e.to}
    BY <2>0 DEF FollowedInv
  <2>1. e.from \in visited
    BY DEF IInv, OriginInv
  <2>2. i \in 1 .. Len(runs) /\ e.from \in runs[i].urls
    BY <1>0, <1>2, <2>1, StartedRun
  <2>3. CASE e = next
    <3>1. runs'[Len(runs) + 1].urls = {e.to}
      BY <1>2, <2>3, StartedRun, UrlsAssumption DEF Asking, IInv, TypeOK
    <3> QED
      BY <1>0, <2>2, <3>1
  <2>4. CASE e # next
    <3>1. PICK j \in i + 1 .. Len(runs) : runs[j].urls = {e.to}
      BY <2>2, <2>4 DEF IInv, FollowedInv, Pending
    <3> QED
      BY <1>0, <1>2, <2>2, <3>1, StartedRun
  <2> QED
    BY <2>3, <2>4
<1>3. ASSUME NEW responses \in SUBSET Answers,
             NEW exit \in {"accepted", "rejected"}, WgetEnds(responses, exit)
      PROVE  FollowedInv'
  <2>1. requested' = requested
    BY <1>3 DEF WgetEnds, memoryVars
  <2>2. \A e : ~ Pending(e)
    BY <1>3 DEF WgetEnds, Pending, Over
  <2> QED
    BY <1>3, <2>1, <2>2, EndedRun, FollowedKept
<1>4. ASSUME NEW seen \in SUBSET kept, Scan(seen)
      PROVE  FollowedInv'
  <2>1. \A e : ~ Pending(e)
    BY <1>4 DEF Scan, Pending, Over
  <2> QED
    BY <1>4, <2>1, FollowedKept DEF Scan
<1>5. ASSUME NEW e \in Edges, FollowRedirect(e)
      PROVE  FollowedInv'
  <2>1. result' \notin Successful
    BY <1>5 DEF FollowRedirect, IInv, StageInv, Working, Successful
  <2>2. Pending(e)'
    BY <1>5 DEF FollowRedirect, Pending
  <2>3. \A f : ~ Pending(f)
    BY <1>5 DEF FollowRedirect, Pending, Over
  <2>4. runs' = runs /\ requested' = requested \union {e}
    BY <1>5 DEF FollowRedirect
  <2> QED
    BY <2>1, <2>2, <2>3, <2>4 DEF IInv, FollowedInv
<1>6. CASE NoteCommand
  <2>1. \A e : Pending(e) => Pending(e)'
    BY <1>6 DEF NoteCommand, Pending, memoryVars
  <2>2. result' = result /\ runs' = runs /\ requested' = requested
    BY <1>6 DEF NoteCommand, memoryVars
  <2> QED
    BY <2>1, <2>2, FollowedKept
<1>7. CASE Passing
  <2>1. ASSUME NEW e, Pending(e), result \notin Successful
        PROVE  Pending(e)' /\ result' \notin Successful
    <3>1. pc \in {"noting", "requesting"} \union Over /\ e = next
      BY <2>1 DEF Pending
    <3>2. Interrupt \/ Fail \/ Kill \/ OrphanEnds
      BY <1>7, <3>1
         DEF Passing, NothingToFollow, QuotaExhausted, Fault, Reaped, Judge,
             Terminate, InterruptReaping, Reaping, Over
    <3>3. pc' \in Over /\ result' \in {result, "interrupted"} \union FailureResults
      BY <3>2 DEF Interrupt, Fail, Kill, OrphanEnds, Over, diskVars
    <3> QED
      BY <1>7, <2>1, <3>1, <3>3, PassingUnchanged
         DEF Pending, FailureResults, Successful
  <2> QED
    BY <1>7, <2>1, PassingUnchanged, FollowedKept
<1>8. CASE UNCHANGED vars
  BY <1>8, FollowedKept DEF vars, Pending
<1> QED
  BY <1>1, <1>2, <1>3, <1>4, <1>5, <1>6, <1>7, <1>8, Cases

\* What LimitsInv says of one request.
Deeper(e) == /\ depth[e.from] < MaxHops
             /\ IF e.to \in visited THEN depth[e.to] = depth[e.from] + 1
                ELSE Pending(e)

\* LimitsInv speaks of the depths, the requests and the number of runs.
LEMMA LimitsKept ==
  ASSUME IInv, requested' = requested, depth' = depth, Len(runs') = Len(runs),
         runs # <<>>  \/ runs' = runs,
         \A e : Pending(e) => Pending(e)'
  PROVE  LimitsInv'
<1>1. runs' # <<>> => runs # <<>>
  OBVIOUS
<1>2. \A e \in requested : Deeper(e)'
  BY DEF IInv, LimitsInv, Deeper, visited
<1> QED
  BY <1>1, <1>2 DEF IInv, LimitsInv, Deeper, FollowUpsBounded, visited

\* The limits on hops and on visited URLs.
LEMMA LimitsStep == IInv /\ [Next]_vars => LimitsInv'
<1> SUFFICES ASSUME IInv, [Next]_vars PROVE LimitsInv'
  OBVIOUS
<1>0. /\ Len(runs) \in Nat
      /\ IsFiniteSet(visited) /\ IsFiniteSet(Seeds)
      /\ Cardinality(visited) \in Nat /\ Cardinality(Seeds) \in Nat
  BY EmptySeq, FS_Subset, FS_CardinalityType, UrlsAssumption DEF IInv, TypeOK
<1>1. CASE Prepare
  BY <1>1 DEF Prepare, IInv, StageInv, LimitsInv, FollowUpsBounded, memoryVars
<1>2. CASE StartWget
  <2>0. /\ requested' = requested /\ next' = next /\ pc = "requesting"
        /\ depth' = [u \in visited \union Asking |->
                       IF u \notin Asking THEN depth[u]
                       ELSE IF next = NoEdge THEN 0 ELSE depth[next.from] + 1]
    BY <1>2 DEF StartWget
  <2>1. CASE next = NoEdge
    <3>1. /\ runs = <<>> /\ requested = {} /\ visited = {}
      BY <2>0, <2>1 DEF IInv, StageInv
    <3>2. Len(runs') = 1 /\ visited' = Seeds
      BY <1>2, <2>1, <3>1, StartedRun, EmptySeq DEF Asking
    <3> QED
      BY <1>0, <2>0, <3>1, <3>2 DEF LimitsInv, FollowUpsBounded
  <2>2. CASE next # NoEdge
    <3>1. /\ next \in requested /\ Asking = {next.to} /\ next.to \notin visited
          /\ next.from \in visited
          /\ Cardinality(visited) < MaxVisited /\ runs # <<>>
      BY <2>0, <2>2 DEF IInv, StageInv, OriginInv, Asking
    <3>2. /\ visited' = visited \union {next.to}
          /\ Cardinality(visited') = Cardinality(visited) + 1
      BY <1>0, <1>2, <3>1, StartedRun, FS_AddElement
    <3>3. ASSUME NEW e \in requested PROVE Deeper(e)'
      <4>1. e.from \in visited /\ Deeper(e)
        BY DEF IInv, OriginInv, LimitsInv, Deeper
      <4>2. depth'[e.from] = depth[e.from]
        BY <2>0, <3>1, <4>1
      <4>3. CASE e.to \in visited
        BY <2>0, <3>1, <3>2, <4>1, <4>2, <4>3 DEF Deeper
      <4>4. CASE e.to \notin visited
        <5>1. e = next
          BY <4>1, <4>4 DEF Deeper, Pending
        <5>2. e.to \in visited' /\ depth'[e.to] = depth[e.from] + 1
          BY <2>0, <2>2, <3>1, <3>2, <5>1
        <5> QED
          BY <4>1, <4>2, <5>2 DEF Deeper
      <4> QED
        BY <4>3, <4>4
    <3>4. Len(runs') - 1 + Cardinality(Seeds) <= Cardinality(visited')
      BY <1>0, <1>2, <3>1, <3>2, StartedRun DEF IInv, LimitsInv
    <3>5. FollowUpsBounded'
      BY <1>0, <3>1, <3>2, <3>4, LimitsAssumption, StartedRun, <1>2
         DEF FollowUpsBounded
    <3> QED
      BY <2>0, <3>3, <3>4, <3>5 DEF LimitsInv, Deeper
  <2> QED
    BY <2>1, <2>2
<1>3. ASSUME NEW responses \in SUBSET Answers,
             NEW exit \in {"accepted", "rejected"}, WgetEnds(responses, exit)
      PROVE  LimitsInv'
  <2>1. requested' = requested /\ depth' = depth /\ runs # <<>>
    BY <1>3 DEF WgetEnds, memoryVars, IInv, StageInv, Working
  <2>2. \A e : ~ Pending(e)
    BY <1>3 DEF WgetEnds, Pending, Over
  <2> QED
    BY <1>3, <2>1, <2>2, EndedRun, LimitsKept
<1>4. ASSUME NEW seen \in SUBSET kept, Scan(seen)
      PROVE  LimitsInv'
  <2>1. /\ requested' = requested /\ runs' = runs
        /\ visited \subseteq visited' /\ visited' \subseteq Urls
        /\ \A u \in visited : depth'[u] = depth[u]
    BY <1>4, AnswersAssumption DEF Scan, visited, IInv, TypeOK
  <2>2. \A e : ~ Pending(e)
    BY <1>4 DEF Scan, Pending, Over
  <2>3. ASSUME NEW e \in requested PROVE Deeper(e)'
    <3>1. e.from \in visited /\ e.to \in visited
      BY <2>2 DEF IInv, OriginInv, LimitsInv
    <3> QED
      BY <2>1, <2>2, <3>1 DEF Deeper, IInv, LimitsInv
  <2>4. Cardinality(visited) <= Cardinality(visited')
        /\ Cardinality(visited') \in Nat
    BY <2>1, UrlsAssumption, FS_Subset, FS_CardinalityType
  <2> QED
    BY <1>0, <2>1, <2>3, <2>4 DEF IInv, LimitsInv, Deeper, FollowUpsBounded
<1>5. ASSUME NEW e \in Edges, FollowRedirect(e)
      PROVE  LimitsInv'
  <2>1. /\ requested' = requested \union {e} /\ runs' = runs /\ depth' = depth
        /\ e \in Candidates /\ pc' = "noting" /\ next' = e
    BY <1>5 DEF FollowRedirect
  <2>2. \A f : ~ Pending(f)
    BY <1>5 DEF FollowRedirect, Pending, Over
  <2>3. Deeper(e)'
    BY <2>1 DEF Candidates, Deeper, Pending, visited
  <2>4. ASSUME NEW f \in requested PROVE Deeper(f)'
    BY <2>1, <2>2 DEF IInv, LimitsInv, Deeper, visited
  <2> QED
    BY <2>1, <2>3, <2>4 DEF IInv, LimitsInv, Deeper, FollowUpsBounded, visited
<1>6. CASE NoteCommand
  <2>1. \A e : Pending(e) => Pending(e)'
    BY <1>6 DEF NoteCommand, Pending, memoryVars
  <2>2. depth' = depth /\ runs' = runs /\ requested' = requested
    BY <1>6 DEF NoteCommand, memoryVars
  <2> QED
    BY <2>1, <2>2, LimitsKept
<1>7. CASE Passing
  <2>1. \A e : Pending(e) => Pending(e)'
    <3> SUFFICES ASSUME NEW e, Pending(e) PROVE Pending(e)'
      OBVIOUS
    <3>1. pc' \in Over
      BY <1>7
         DEF Pending, Passing, NothingToFollow, QuotaExhausted, Fault, Reaped,
             OrphanEnds, Judge, Interrupt, Fail, Terminate, InterruptReaping,
             Kill, Reaping, Over
    <3> QED
      BY <1>7, <3>1, PassingUnchanged DEF Pending
  <2> QED
    BY <1>7, <2>1, PassingUnchanged, LimitsKept
<1>8. CASE UNCHANGED vars
  BY <1>8, LimitsKept DEF vars, Pending
<1> QED
  BY <1>1, <1>2, <1>3, <1>4, <1>5, <1>6, <1>7, <1>8, Cases

\* While the source is being worked on it has no verdict.
LEMMA NoVerdictYet ==
  ASSUME result' \in {"none", "running", "interrupted"}
  PROVE  VerdictInv'
  BY DEF VerdictInv, SourceStatuses, Successful

\* What is concluded from what the invocations came to.
LEMMA VerdictStep == IInv /\ [Next]_vars => VerdictInv'
<1> SUFFICES ASSUME IInv, [Next]_vars PROVE VerdictInv'
  OBVIOUS
<1>0. pc \in Working => result = "running"
  BY DEF IInv, StageInv
<1>1. CASE Prepare \/ StartWget \/ NoteCommand
  BY <1>0, <1>1, NoVerdictYet
     DEF Prepare, StartWget, NoteCommand, Working, diskVars
<1>2. ASSUME NEW responses \in SUBSET Answers,
             NEW exit \in {"accepted", "rejected"}, WgetEnds(responses, exit)
      PROVE  VerdictInv'
  BY <1>0, <1>2, NoVerdictYet DEF WgetEnds, Working, diskVars
<1>3. ASSUME NEW seen \in SUBSET kept, Scan(seen)
      PROVE  VerdictInv'
  BY <1>0, <1>3, NoVerdictYet DEF Scan, Working
<1>4. ASSUME NEW e \in Edges, FollowRedirect(e)
      PROVE  VerdictInv'
  BY <1>0, <1>4, NoVerdictYet DEF FollowRedirect, Working
<1>5. CASE Passing
  <2>1. CASE NothingToFollow \/ QuotaExhausted \/ Interrupt \/ Terminate
             \/ InterruptReaping
    BY <1>0, <2>1, NoVerdictYet
       DEF NothingToFollow, QuotaExhausted, Interrupt, Terminate,
           InterruptReaping, Working, Reaping, diskVars
  <2>2. CASE Kill
    BY <1>0, <2>2, NoVerdictYet DEF Kill, diskVars
  <2>3. CASE Fail
    <3>1. ~ wget /\ wget' = wget /\ result' \in FailureResults
      BY <2>3 DEF Fail, IInv, StageInv, Working, Reaping
    <3> QED
      BY <3>1 DEF VerdictInv, FailureResults, Successful
  <2>4. CASE Reaped
    <3>1. /\ wget' = FALSE
          /\ result' \in {"interrupted", "running"} \union FailureResults
      BY <1>0, <2>4 DEF Reaped, Working
    <3> QED
      BY <3>1 DEF VerdictInv, FailureResults, Successful
  <2>5. CASE OrphanEnds
    <3>1. wget' = FALSE /\ result' = result
      BY <2>5 DEF OrphanEnds, diskVars
    <3>2. requested' = requested /\ runs' = runs
      BY <1>5, PassingUnchanged
    <3> QED
      BY <3>1, <3>2 DEF IInv, VerdictInv, Rejected, Excused
  <2>6. ASSUME NEW outcome \in Outcomes, Judge(outcome)
        PROVE  VerdictInv'
    <3>1. ~ wget /\ wget' = wget
      BY <2>6 DEF Judge, IInv, StageInv, Working, Reaping
    <3>2. requested' = requested /\ runs' = runs
      BY <1>5, PassingUnchanged
    <3>3. result' \in Successful => outcome.exit = "accepted"
      BY <2>6 DEF Judge, SourceStatus, Successful
    <3>4. outcome.exit = "accepted" =>
            \A i \in 1 .. Len(runs) : Rejected(runs[i]) => Excused(runs[i])
      BY <2>6 DEF Judge, AllRuns
    <3> QED
      BY <3>1, <3>2, <3>3, <3>4 DEF VerdictInv, Rejected, Excused
  <2> QED
    BY <1>5, <2>1, <2>2, <2>3, <2>4, <2>5, <2>6 DEF Passing, Fault
<1>6. CASE UNCHANGED vars
  BY <1>6 DEF vars, IInv, VerdictInv, Rejected, Excused
<1> QED
  BY <1>1, <1>2, <1>3, <1>4, <1>5, <1>6, Cases

\* The initial states satisfy the invariant.
LEMMA InitInv == Init => IInv
<1> SUFFICES ASSUME Init PROVE IInv
  OBVIOUS
<1>1. runs = <<>> /\ Len(runs) = 0 /\ runs \in Seq(Runs)
  BY EmptySeq DEF Init
<1>2. visited = {} /\ depth \in [visited -> Nat]
  BY DEF Init, visited
<1>3. TypeOK
  BY <1>1, <1>2 DEF Init, TypeOK
<1>4. StageInv
  BY <1>2 DEF Init, StageInv, Working, Reaping
<1>5. OriginInv /\ VerdictInv
  BY DEF Init, OriginInv, VerdictInv, SourceStatuses, Successful
<1>6. RunsInv /\ FollowedInv /\ LimitsInv
  BY <1>1 DEF Init, RunsInv, AskedOnce, FollowedInv, LimitsInv, FollowUpsBounded
<1> QED
  BY <1>3, <1>4, <1>5, <1>6 DEF IInv

\* The inductive invariant of the redirect worklist.
THEOREM RedirectsInductive == Spec => []IInv
<1>1. IInv /\ [Next]_vars => IInv'
  BY TypeStep, StageStep, OriginStep, RunsStep, FollowedStep, LimitsStep,
     VerdictStep DEF IInv
<1> QED
  BY <1>1, InitInv, PTL DEF Spec

\* Every variable of Redirects keeps its type.
THEOREM RedirectsTyped == Spec => []TypeOK
<1>1. IInv => TypeOK
  BY DEF IInv
<1> QED
  BY <1>1, RedirectsInductive, PTL

\* What is asked of the network beyond the seeds was reviewed, was proposed by
\* a kept response, and is on disk before, in redirects.json and command.json.
THEOREM EveryRequestRecorded == Spec => []RecordedBeforeAsked
<1>1. IInv => RecordedBeforeAsked
  BY DEF IInv, RunsInv, OriginInv, RecordedBeforeAsked
<1> QED
  BY <1>1, RedirectsInductive, PTL

\* No URL is asked for by two invocations of Wget.
THEOREM NoUrlTwice == Spec => []AskedOnce
<1>1. IInv => AskedOnce
  BY DEF IInv, RunsInv
<1> QED
  BY <1>1, RedirectsInductive, PTL

\* A source is a success only when each failing invocation was followed up
\* along a reviewed redirect.
THEOREM SuccessIsResolved == Spec => []FailuresResolved
<1>1. IInv => FailuresResolved
  <2> SUFFICES ASSUME IInv, result \in Successful,
                      NEW i \in 1 .. Len(runs), Rejected(runs[i]),
                      NEW u \in runs[i].urls
               PROVE  \E e \in requested, j \in i + 1 .. Len(runs) :
                        e.from = u /\ runs[j].urls = {e.to}
    BY DEF FailuresResolved
  <2>1. PICK e \in requested : e.from = u
    BY DEF IInv, VerdictInv, Excused
  <2>2. \E j \in i + 1 .. Len(runs) : runs[j].urls = {e.to}
    BY <2>1 DEF IInv, FollowedInv
  <2> QED
    BY <2>1, <2>2
<1> QED
  BY <1>1, RedirectsInductive, PTL

\* No Wget of the source runs once there is a verdict on what it kept.
THEOREM NoWgetAtVerdict == Spec => []QuietWhenJudged
<1>1. IInv => QuietWhenJudged
  BY DEF IInv, VerdictInv, QuietWhenJudged
<1> QED
  BY <1>1, RedirectsInductive, PTL

\* The number of follow-up requests respects the limit on visited URLs.
THEOREM FollowUpsLimited == Spec => []FollowUpsBounded
<1>1. IInv => FollowUpsBounded
  BY DEF IInv, LimitsInv
<1> QED
  BY <1>1, RedirectsInductive, PTL

\* A set of natural numbers has a least one.
LEMMA LeastNatural ==
  ASSUME NEW T \in SUBSET Nat, T # {}
  PROVE  \E k \in T : \A m \in T : k <= m
<1>1. PICK k \in T : \A m \in T : ~ (<<m, k>> \in OpToRel(<, Nat))
  BY NatLessThanWellFounded, WFMin, Zenon
<1>2. \A m \in T : ~ (m < k)
  BY <1>1, Zenon DEF OpToRel
<1> QED
  BY <1>2

\* When Wget records each URL as it was asked for, no chain of follow-up
\* requests is longer than MAX_REDIRECT_HOPS.
THEOREM HopsLimited ==
  (\A u \in Urls : Canonical[u] = u) => (Spec => []HopsBounded)
<1> SUFFICES ASSUME \A u \in Urls : Canonical[u] = u PROVE Spec => []HopsBounded
  OBVIOUS
<1>1. IInv => HopsBounded
  <2> SUFFICES ASSUME IInv, NEW edges \in [1 .. MaxHops + 1 -> requested],
                      Chain(edges)
               PROVE  FALSE
    BY DEF HopsBounded
  <2>0. MaxHops \in Nat
    BY LimitsAssumption
  <2> DEFINE d(k) == depth[edges[k].from]
             Low  == {k \in 1 .. MaxHops + 1 : d(k) < k - 1}
  <2>1. ASSUME NEW k \in 1 .. MaxHops + 1
        PROVE  /\ edges[k] \in requested /\ edges[k] \in Edges
               /\ d(k) \in Nat /\ d(k) < MaxHops
    BY <2>1 DEF IInv, TypeOK, OriginInv, LimitsInv
  <2>2. ASSUME NEW k \in 1 .. MaxHops
        PROVE  d(k + 1) = d(k) + 1
    <3>1. k \in DOMAIN edges /\ k + 1 \in DOMAIN edges
      BY <2>0
    <3>2. edges[k + 1].from = edges[k].to
      BY <2>0, <2>1, <3>1 DEF Chain, Edges
    <3>3. edges[k].to \in visited
      BY <2>0, <2>1, <3>1, <3>2 DEF IInv, OriginInv
    <3> QED
      BY <2>0, <2>1, <3>1, <3>2, <3>3 DEF IInv, LimitsInv
  <2> HIDE DEF d
  <2>3. CASE Low = {}
    <3>1. MaxHops + 1 \in 1 .. MaxHops + 1
      BY <2>0
    <3> QED
      BY <2>0, <2>1, <2>3, <3>1
  <2>4. CASE Low # {}
    <3>0. Low \in SUBSET Nat
      OBVIOUS
    <3>1. PICK k \in Low : \A m \in Low : k <= m
      <4> HIDE DEF Low
      <4> QED
        BY <2>4, <3>0, LeastNatural
    <3>2. k # 1
      BY <2>0, <2>1, <3>1
    <3>3. k - 1 \in 1 .. MaxHops /\ k - 1 \in 1 .. MaxHops + 1
          /\ (k - 1) + 1 = k /\ k \in Nat
      BY <2>0, <3>1, <3>2
    <3>4. d(k - 1) >= (k - 1) - 1
      BY <2>0, <2>1, <3>1, <3>3
    <3>5. d(k) = d(k - 1) + 1
      BY <2>2, <3>3
    <3> QED
      BY <2>1, <3>1, <3>3, <3>4, <3>5
  <2> QED
    BY <2>3, <2>4
<1> QED
  BY <1>1, RedirectsInductive, PTL
=============================================================================
