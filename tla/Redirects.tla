----------------------------- MODULE Redirects -----------------------------
(***************************************************************************)
(* One source of a capture: the GNU Wget invocation for its seeds, and the *)
(* worklist of reviewed redirects that follows it (_execute_source and     *)
(* _run_reviewed_redirects of preservation/capture/execute.py).            *)
(*                                                                         *)
(* Wget never follows a redirect itself.  The responses it kept in WARC    *)
(* are scanned; a redirect the configuration reviewed is recorded as       *)
(* requested, its command is recorded, and only then its target is asked   *)
(* for by another invocation of Wget.  A response is a record              *)
(* [from, to]: the URL that answered and what it redirected to.            *)
(***************************************************************************)
EXTENDS CaptureStatus, Sequences, FiniteSets

CONSTANTS
  Urls,        \* the URLs that occur
  NoRedirect,  \* the target of a response that is no redirect
  Unsafe,      \* the target of a redirect to something that is no safe URL
  Seeds,       \* the seeds of the source
  Canonical,   \* Canonical[u]: the URL under which Wget records u
  NoEdge,      \* no redirect
  Reviews,     \* the sets of redirects a configuration may have reviewed
  Answers,     \* the responses the servers may give
  MaxHops,     \* MAX_REDIRECT_HOPS
  MaxVisited,  \* MAX_REDIRECT_VISITED
  MaxKept      \* bound: how many responses one invocation of Wget keeps

Edges == [from: Urls, to: Urls]

\* _reviewed_redirects of config.py: no URL is redirected to itself, and each
\* is redirected once.
ASSUME UrlsAssumption == /\ IsFiniteSet(Urls)
                         /\ NoRedirect \notin Urls
                         /\ Unsafe \notin Urls
                         /\ Seeds \subseteq Urls /\ Seeds # {}
                         /\ Canonical \in [Urls -> Urls]
                         /\ NoEdge \notin Edges
ASSUME ReviewsAssumption ==
  \A edges \in Reviews :
    /\ edges \subseteq Edges
    /\ \A e \in edges : e.from # e.to
    /\ \A e, f \in edges : e.from = f.from => e = f
ASSUME AnswersAssumption ==
  Answers \subseteq [from: Urls, to: Urls \union {NoRedirect, Unsafe}]
ASSUME LimitsAssumption ==
  MaxHops \in Nat /\ MaxVisited \in Nat /\ MaxKept \in Nat

VARIABLES
  pc,         \* how far the source has come
  wget,       \* TRUE while a Wget child process is alive
  result,     \* the status in result.json, "none" while there is no such file
  reviewed,   \* the redirects reviewed in the source's configuration
  kept,       \* the responses kept in WARC files
  proposals,  \* the redirects discovered so far
  requested,  \* those marked as requested
  record,     \* redirects.json: the proposals and the requested ones
  commands,   \* the URLs of the invocations listed in command.json
  depth,      \* depths; its domain is the set visited
  runs,       \* the invocations started: what was asked for, how it ended
  next        \* the redirect being followed; NoEdge for the seeds

diskVars   == <<result, record, commands>>
memoryVars == <<proposals, requested, depth, next>>
vars == <<pc, wget, result, reviewed, kept, proposals, requested, record,
          commands, depth, runs, next>>

visited == DOMAIN depth

\* The URLs of the invocation that is about to start.
Asking == IF next = NoEdge THEN Seeds ELSE {next.to}

Reaping == {"reaping interrupt", "reaping error", "reaping other"}
Working == {"requesting", "fetching", "scanning", "choosing", "noting",
            "judging"} \union Reaping
Over    == {"ended", "killed"}

Init ==
  /\ pc = "idle" /\ wget = FALSE /\ result = "none"
  /\ reviewed \in Reviews
  /\ kept = {} /\ proposals = {} /\ requested = {}
  /\ record = [proposals |-> {}, requested |-> {}]
  /\ commands = {} /\ depth = [u \in {} |-> 0] /\ runs = <<>> /\ next = NoEdge

-----------------------------------------------------------------------------
(* The acquisition *)

\* _execute_source up to its try statement: command.json, redirects.json and
\* result.json.
Prepare ==
  /\ pc = "idle"
  /\ pc' = "requesting"
  /\ commands' = Seeds
  /\ record' = [proposals |-> {}, requested |-> {}]
  /\ result' = "running"
  /\ UNCHANGED <<wget, reviewed, kept, memoryVars, runs>>

\* _run_wget starts Wget; the URLs it is asked for count as visited.
StartWget ==
  /\ pc = "requesting"
  /\ pc' = "fetching"
  /\ wget' = TRUE
  /\ runs' = Append(runs, [urls |-> Asking, exit |-> "running"])
  /\ depth' = [u \in visited \union Asking |->
                 IF u \notin Asking THEN depth[u]
                 ELSE IF next = NoEdge THEN 0 ELSE depth[next.from] + 1]
  /\ UNCHANGED <<diskVars, reviewed, kept, proposals, requested, next>>

\* What an invocation may keep: for a redirect's target the responses of that
\* URL, for the seeds those of any page that is reached from them.
MayKeep(r) == next # NoEdge => r.from = Canonical[next.to]

\* Wget ends; whether its exit code is an accepted one does not follow from
\* the responses alone.
WgetEnds(responses, exit) ==
  /\ pc = "fetching"
  /\ \A r \in responses : MayKeep(r)
  /\ Cardinality(responses) <= MaxKept
  /\ pc' = "scanning"
  /\ wget' = FALSE
  /\ kept' = kept \union responses
  /\ runs' = [runs EXCEPT ![Len(runs)] = [urls |-> @.urls, exit |-> exit]]
  /\ UNCHANGED <<diskVars, memoryVars, reviewed>>

\* _discover_warc_redirects and what follows it in the loop.  The scan is cut
\* short by its limits and by files it cannot read: it sees some of the
\* responses.
Scan(seen) ==
  /\ pc = "scanning"
  /\ seen \subseteq kept
  /\ pc' = "choosing"
  /\ depth' = [u \in visited \union {r.from : r \in seen} |->
                 IF u \in visited THEN depth[u] ELSE 0]
  /\ proposals' = proposals \union {r \in seen : r.to # NoRedirect}
  /\ record' = IF proposals' = proposals THEN record
               ELSE [proposals |-> proposals', requested |-> requested]
  /\ UNCHANGED <<wget, result, reviewed, kept, requested, commands, runs, next>>

\* A plausible slip: only the redirect is remembered, not its target.
CandidatesRevisit ==
  {e \in (proposals \intersect reviewed) \ requested :
     /\ depth[e.from] < MaxHops
     /\ Cardinality(visited) < MaxVisited}

\* The redirects that may be followed now.  An unsafe target is not reviewed.
Candidates ==
  {e \in (proposals \intersect reviewed) \ requested :
     /\ e.to \notin visited
     /\ depth[e.from] < MaxHops
     /\ Cardinality(visited) < MaxVisited}

\* A plausible slip: redirects.json is left to the next scan.
FollowRedirectUnrecorded(e) ==
  /\ pc = "choosing"
  /\ e \in Candidates
  /\ pc' = "noting"
  /\ next' = e
  /\ requested' = requested \union {e}
  /\ UNCHANGED <<diskVars, wget, reviewed, kept, proposals, depth, runs>>

\* The code takes the first candidate in the order of discovery.
FollowRedirect(e) ==
  /\ pc = "choosing"
  /\ e \in Candidates
  /\ pc' = "noting"
  /\ next' = e
  /\ requested' = requested \union {e}
  /\ record' = [proposals |-> proposals, requested |-> requested']
  /\ UNCHANGED <<wget, result, reviewed, kept, proposals, commands, depth, runs>>

\* A plausible slip: the loop waits until every reviewed redirect was followed.
NothingToFollowButReviewed ==
  /\ pc = "choosing"
  /\ proposals \intersect reviewed \subseteq requested
  /\ pc' = "judging"
  /\ UNCHANGED <<diskVars, memoryVars, wget, reviewed, kept, runs>>

NothingToFollow ==
  /\ pc = "choosing"
  /\ Candidates = {}
  /\ pc' = "judging"
  /\ UNCHANGED <<diskVars, memoryVars, wget, reviewed, kept, runs>>

\* _remaining_redirect_quota: what was kept may have used up the quota.
QuotaExhausted ==
  /\ pc = "choosing"
  /\ Candidates # {}
  /\ pc' = "judging"
  /\ UNCHANGED <<diskVars, memoryVars, wget, reviewed, kept, runs>>

\* _write_command_provenance.
NoteCommand ==
  /\ pc = "noting"
  /\ pc' = "requesting"
  /\ commands' = commands \union Asking
  /\ UNCHANGED <<memoryVars, wget, result, reviewed, kept, record, runs>>

\* A plausible slip: a reviewed proposal excuses the failure, followed or not.
ExcusedByProposal(run) ==
  \A u \in run.urls : \E e \in proposals \intersect reviewed : e.from = u

\* _invocation_completed_by_reviewed_redirect.
Excused(run) == \A u \in run.urls : \E e \in requested : e.from = u

Rejected(run) == run.exit = "rejected"

AllRuns == {runs[i] : i \in 1 .. Len(runs)}

\* _execute_source after the loop: each invocation's exit code is accepted,
\* excused with a warning, or a failure.
Judge(outcome) ==
  /\ pc = "judging"
  /\ outcome.exit = IF \E run \in AllRuns : Rejected(run) /\ ~ Excused(run)
                    THEN "rejected" ELSE "accepted"
  /\ (\E run \in AllRuns : Rejected(run) /\ Excused(run)) => outcome.warned
  /\ pc' = "ended"
  /\ result' = SourceStatus(outcome)
  /\ UNCHANGED <<memoryVars, wget, reviewed, kept, record, commands, runs>>

-----------------------------------------------------------------------------
(* Interruptions, failures, kills *)

\* The result of a source whose invocations an OSError ended.
FailureResults == {"partial", "failed"}

\* A signal while no Wget runs: "interrupted" is recorded.
Interrupt ==
  /\ pc \in Working \ ({"fetching"} \union Reaping)
  /\ pc' = "ended"
  /\ result' = "interrupted"
  /\ UNCHANGED <<memoryVars, wget, reviewed, kept, record, commands, runs>>

\* An OSError of Popen, of a scan or of a write inside the try statement.
Fail ==
  /\ pc \in {"requesting", "scanning", "choosing", "noting"}
  /\ pc' = "ended"
  /\ result' \in FailureResults
  /\ UNCHANGED <<memoryVars, wget, reviewed, kept, record, commands, runs>>

\* A signal, an OSError or another exception while the program waits for Wget:
\* the child is sent SIGTERM.
Terminate ==
  /\ pc = "fetching"
  /\ pc' \in Reaping
  /\ UNCHANGED <<diskVars, memoryVars, wget, reviewed, kept, runs>>

\* A plausible slip: the child is told to end, and nobody waits for it.
ReapedUnwaited ==
  /\ pc \in Reaping
  /\ pc' = "ended"
  /\ \/ pc = "reaping interrupt" /\ result' = "interrupted"
     \/ pc = "reaping error"     /\ result' \in FailureResults
     \/ pc = "reaping other"     /\ result' = result
  /\ UNCHANGED <<memoryVars, wget, reviewed, kept, record, commands, runs>>

\* The child has ended, of SIGTERM or of SIGKILL five seconds later; the
\* exception goes on to its handler.
Reaped ==
  /\ pc \in Reaping
  /\ pc' = "ended"
  /\ wget' = FALSE
  /\ \/ pc = "reaping interrupt" /\ result' = "interrupted"
     \/ pc = "reaping error"     /\ result' \in FailureResults
     \/ pc = "reaping other"     /\ result' = result
  /\ UNCHANGED <<memoryVars, reviewed, kept, record, commands, runs>>

\* A second signal during the wait: it takes the place of the first exception
\* and leaves the child behind.
InterruptReaping ==
  /\ pc \in Reaping
  /\ pc' = "ended"
  /\ result' = "interrupted"
  /\ UNCHANGED <<memoryVars, wget, reviewed, kept, record, commands, runs>>

\* SIGKILL.  The child is in a session of its own and goes on.
Kill ==
  /\ pc \in Working
  /\ pc' = "killed"
  /\ UNCHANGED <<diskVars, memoryVars, wget, reviewed, kept, runs>>

\* A child that was left behind ends by itself.
OrphanEnds ==
  /\ pc \in Over /\ wget
  /\ wget' = FALSE
  /\ UNCHANGED <<pc, diskVars, memoryVars, reviewed, kept, runs>>

-----------------------------------------------------------------------------
Step ==
  \/ Prepare \/ StartWget
  \/ \E responses \in SUBSET Answers, exit \in {"accepted", "rejected"} :
       WgetEnds(responses, exit)
  \/ \E seen \in SUBSET kept : Scan(seen)
  \/ \E e \in Edges : FollowRedirect(e)
  \/ NothingToFollow \/ QuotaExhausted \/ NoteCommand
  \/ \E outcome \in Outcomes : Judge(outcome)
  \/ Reaped

Fault == Interrupt \/ Fail \/ Terminate \/ InterruptReaping \/ Kill

Next == Step \/ Fault \/ OrphanEnds

Spec == Init /\ [][Next]_vars

\* The program keeps running and Wget returns: its timeouts, tries and quota
\* are part of the command.
FairSpec == Spec /\ WF_vars(Step)

-----------------------------------------------------------------------------
(* Properties *)

Runs == [urls: SUBSET Urls, exit: {"running", "accepted", "rejected"}]

\* Every variable has its type.
TypeOK ==
  /\ pc \in {"idle"} \union Working \union Over
  /\ wget \in BOOLEAN
  /\ result \in {"none", "running", "interrupted"} \union SourceStatuses
  /\ reviewed \in Reviews
  /\ kept \subseteq Answers
  /\ proposals \subseteq Answers
  /\ requested \subseteq Edges
  /\ record \in [proposals: SUBSET Answers, requested: SUBSET Edges]
  /\ commands \subseteq Urls
  /\ visited \subseteq Urls
  /\ depth \in [visited -> Nat]
  /\ runs \in Seq(Runs)
  /\ next \in Edges \union {NoEdge}

\* Whatever was asked of the network beyond the seeds is on disk before: a
\* reviewed redirect that a kept response proposed, marked as requested in
\* redirects.json, and a command in command.json (_run_reviewed_redirects).
\* It holds at each moment, so also after a kill.
RecordedBeforeAsked ==
  \A i \in 2 .. Len(runs) :
    \A u \in runs[i].urls :
      /\ u \in commands
      /\ \E e \in record.requested \intersect reviewed \intersect kept : e.to = u

\* No URL is asked for by two invocations (visited).
AskedOnce ==
  \A i, j \in 1 .. Len(runs) :
    i # j => runs[i].urls \intersect runs[j].urls = {}

\* A source that counts as a success has no failure left unresolved: what each
\* failing invocation asked for was redirected along a reviewed redirect to
\* what a later invocation asked for.  The last invocation was accepted.
FailuresResolved ==
  result \in Successful =>
    \A i \in 1 .. Len(runs) :
      Rejected(runs[i]) =>
        \A u \in runs[i].urls :
          \E e \in requested, j \in i + 1 .. Len(runs) :
            e.from = u /\ runs[j].urls = {e.to}

\* Follow-up requests respect the limit on visited URLs.
FollowUpsBounded ==
  Len(runs) > 1 => Len(runs) - 1 + Cardinality(Seeds) <= MaxVisited

\* A chain of redirects, each from the URL under which the target of the one
\* before was recorded.
Chain(edges) ==
  /\ \A k \in DOMAIN edges :
       k + 1 \in DOMAIN edges => edges[k + 1].from = Canonical[edges[k].to]
  /\ \A k, m \in DOMAIN edges : edges[k] = edges[m] => k = m

\* No chain of follow-up requests is longer than MAX_REDIRECT_HOPS, the
\* "max_hops" that redirects.json states.
HopsBounded ==
  ~ \E edges \in [1 .. MaxHops + 1 -> requested] : Chain(edges)

\* A source has a verdict other than "interrupted" only when no Wget of it
\* runs: what was kept does not change any more (_run_wget).
QuietWhenJudged == result \in SourceStatuses => ~ wget

\* A source that was begun comes to an end: the worklist is finite.
SourceEnds == pc = "requesting" ~> pc \in Over

-----------------------------------------------------------------------------
(* The inductive invariant *)

\* A redirect is marked as requested, its target not yet asked for.
Pending(e) ==
  /\ e = next
  /\ pc \in {"noting", "requesting"} \union Over

\* Where the program is, and what that says of the variables.
StageInv ==
  /\ pc = "idle" =>
       /\ kept = {} /\ proposals = {} /\ requested = {} /\ visited = {}
       /\ runs = <<>> /\ next = NoEdge
  /\ pc \in {"requesting", "noting"} =>
       IF next = NoEdge
         THEN /\ pc = "requesting" /\ runs = <<>>
              /\ kept = {} /\ proposals = {} /\ requested = {} /\ visited = {}
         ELSE /\ next \in requested
              /\ next.to \notin visited
              /\ Cardinality(visited) < MaxVisited
              /\ pc = "requesting" => next.to \in commands
              /\ runs # <<>>
  /\ pc \in Working \ {"requesting", "noting"} => runs # <<>>
  /\ pc \in Working \union {"idle"} =>
       (wget <=> pc \in {"fetching"} \union Reaping)
  /\ pc \in Working => result = "running"
  /\ pc = "idle" => result = "none"

\* Proposals come from kept responses, requests from reviewed proposals.
OriginInv ==
  /\ proposals \subseteq kept
  /\ \A e \in proposals : e.from \in visited
  /\ requested \subseteq proposals \intersect reviewed
  /\ record.requested = requested

\* Each invocation asked for the seeds, or for the target of a request.
RunsInv ==
  /\ \A i \in 1 .. Len(runs) : runs[i].urls \subseteq visited
  /\ \A i \in 2 .. Len(runs) :
       \E e \in requested : runs[i].urls = {e.to} /\ e.to \in commands
  /\ AskedOnce

\* A request of what an invocation asked for was answered by a later one.
FollowedInv ==
  \A i \in 1 .. Len(runs), e \in requested :
    e.from \in runs[i].urls =>
      \/ \E j \in i + 1 .. Len(runs) : runs[j].urls = {e.to}
      \/ Pending(e) /\ result \notin Successful

\* The limits: targets lie one hop deeper than where they were found, and
\* each follow-up makes one more URL visited.
LimitsInv ==
  /\ \A e \in requested :
       /\ depth[e.from] < MaxHops
       /\ IF e.to \in visited THEN depth[e.to] = depth[e.from] + 1
          ELSE Pending(e)
  /\ runs # <<>> => Len(runs) - 1 + Cardinality(Seeds) <= Cardinality(visited)
  /\ FollowUpsBounded

\* What was concluded from what the invocations came to.
VerdictInv ==
  /\ result \in SourceStatuses => ~ wget
  /\ result \in Successful =>
       \A i \in 1 .. Len(runs) : Rejected(runs[i]) => Excused(runs[i])

IInv == /\ TypeOK /\ StageInv /\ OriginInv /\ RunsInv
        /\ FollowedInv /\ LimitsInv /\ VerdictInv
=============================================================================
