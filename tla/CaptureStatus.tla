--------------------------- MODULE CaptureStatus ---------------------------
(***************************************************************************)
(* The status algebra of an acquisition: how the outcome of one source's   *)
(* GNU Wget invocations becomes the status of the source, how the statuses *)
(* of the sources become the status of the capture, and when a capture     *)
(* counts as a complete capture of the whole collection.                   *)
(*                                                                         *)
(* Results are functions from source identifiers to statuses; a source     *)
(* that has no result yet is mapped to "none".                             *)
(***************************************************************************)
EXTENDS Naturals

\* What one source may have come to when its invocations are over.
\*   exit    "accepted" every exit code is an accepted one, or belongs to an
\*                      invocation completed by a reviewed redirect
\*           "rejected" some exit code counts as a failure
\*           "oserror"  an OSError ended the invocations
\*   payload a mirror file, or a WARC response or resource record, was kept
\*   warned  Wget's stderr, a redirect or the payload scan left a warning
Outcomes == [exit: {"accepted", "rejected", "oserror"},
             payload: BOOLEAN, warned: BOOLEAN]

Successful == {"complete", "complete_with_warnings"}

\* Statuses of a source that ran to its end, and of a finished capture.
SourceStatuses  == Successful \union {"partial", "failed"}
CaptureStatuses == SourceStatuses

-----------------------------------------------------------------------------
\* _execute_source: the branches after the redirects have run.
SourceStatus(o) ==
  IF ~ o.payload THEN "failed"
  ELSE IF o.exit # "accepted" THEN "partial"
  ELSE IF o.warned THEN "complete_with_warnings" ELSE "complete"

\* _has_substantive_payload of a source that ran to its end: SourceStatus is
\* "failed" exactly when nothing was kept (theorem FailedMeansEmpty).
HasPayload(status) == status \in Successful \union {"partial"}

-----------------------------------------------------------------------------
\* The sources that have a result.
Reported(results) == {s \in DOMAIN results : results[s] # "none"}

RequiredFailures(results, required) ==
  {s \in Reported(results) \intersect required : results[s] \notin Successful}

\* _aggregate_status.  The code asks first for a required source that is
\* "partial" and then for any source with a payload: the first is a case of
\* the second.
AggregateStatus(results, required) ==
  IF RequiredFailures(results, required) # {}
    THEN IF \E s \in Reported(results) : HasPayload(results[s])
           THEN "partial" ELSE "failed"
    ELSE IF \E s \in Reported(results) : results[s] # "complete"
           THEN "complete_with_warnings" ELSE "complete"

\* is_complete_full_capture.
IsCompleteFullCapture(status, selected, results, configured) ==
  /\ status = "complete"
  /\ selected = configured
  /\ Reported(results) = configured
  /\ \A s \in configured : results[s] = "complete"

-----------------------------------------------------------------------------
(* Properties *)

Rank(status) ==
  CASE status = "failed"                 -> 0
    [] status = "partial"                -> 1
    [] status = "complete_with_warnings" -> 2
    [] status = "complete"               -> 3

ResultsOf(outcomes) == [s \in DOMAIN outcomes |-> SourceStatus(outcomes[s])]

\* A capture of all configured sources is "complete" for _aggregate_status
\* exactly when is_complete_full_capture, in another module and from the
\* written record, accepts it.
CompleteIsFull(outcomes, required) ==
  LET results == ResultsOf(outcomes) IN
    AggregateStatus(results, required) = "complete"
      <=> IsCompleteFullCapture(AggregateStatus(results, required),
                                DOMAIN results, results, DOMAIN results)

\* A capture never comes out worse because one of its sources, required or
\* optional, came out better.
BetterIsNotWorse(outcomes, better, required) ==
  (\A s \in DOMAIN outcomes :
     Rank(SourceStatus(better[s])) >= Rank(SourceStatus(outcomes[s])))
  => Rank(AggregateStatus(ResultsOf(better), required))
       >= Rank(AggregateStatus(ResultsOf(outcomes), required))
=============================================================================
