--------------------------- MODULE AdapterProcess ---------------------------
(***************************************************************************)
(* One adapter invocation: the supervising program (adapter_process.py),   *)
(* the worker process (adapter_worker.py), a descendant the adapter may    *)
(* leave behind, and the threads that drain the worker's pipes.            *)
(*                                                                         *)
(* The worker runs in a session of its own.  The program writes the        *)
(* request, watches the worker until it exits, floods its pipe, exceeds    *)
(* the limits of its output directory or the time it has, ends what is     *)
(* left of its process group, and judges what the drains have read.        *)
(*                                                                         *)
(* A response is a sequence of Whole blocks; the pipe's limit is as long.  *)
(***************************************************************************)
EXTENDS Naturals

CONSTANT Whole   \* the blocks of a response

ASSUME WholeAssumption == Whole \in Nat \ {0}

Over == Whole + 1   \* more than max_protocol_bytes

VARIABLES
  pc,        \* how far the program has come
  back,      \* where _terminate_process_group returns to
  error,     \* error_code
  used,      \* killed_group
  late,      \* the wall time is over
  request,   \* the request, until the worker has taken it
  worker,    \* the state of the worker process
  deaf,      \* the adapter ignores SIGTERM
  child,     \* a descendant: "none", "meek", "deaf" (to SIGTERM) or "dead"
  written,   \* blocks written to the protocol pipe
  answer,    \* what they are
  drained,   \* blocks the drain thread has read
  raw,       \* raw_stdout: the blocks the program took from the drain
  output,    \* the output directory: "none", "within" its limits, "over"
  verdict    \* what invoke_adapter returns

processVars == <<pc, back, error, used, late, request, worker, deaf, child,
                 written, answer, drained, raw, output, verdict>>

parentVars == <<pc, back, error, used, raw, verdict>>
workerVars == <<worker, deaf, child, written, answer, output>>

Operations == {"validate", "reader", "render", "stream", "custom"}

\* What of a request its acceptance depends on.
Requests == [api: {1, 2}, operation: Operations, hasOutput: BOOLEAN,
             scope: {"none", "reader_output"}, support: BOOLEAN]

NoRequest == [api |-> 1, operation |-> "validate", hasOutput |-> FALSE,
              scope |-> "none", support |-> FALSE]

ProcessInit ==
  /\ pc = "ready" /\ back = "ready" /\ error = "none" /\ used = FALSE
  /\ late = FALSE
  /\ request = NoRequest
  /\ worker = "unborn" /\ deaf = FALSE /\ child = "none"
  /\ written = 0 /\ answer = "none" /\ drained = 0 /\ raw = 0
  /\ output = "none" /\ verdict = "none"

Alive  == {"reading", "running", "writing"}
Exited == {"exited", "crashed"}

Holding == worker \in Alive \union {"killed"} \/ child \in {"meek", "deaf"}

-----------------------------------------------------------------------------
(* The request *)

\* A plausible slip: every operation may write into an output directory.
ScopeOfAny(operation) == "reader_output"

\* The write scope invoke_adapter grants.
Scope(operation) ==
  IF operation \in {"reader", "stream"} THEN "reader_output" ELSE "none"

\* _normalize_context.
ContextFits(r) ==
  /\ r.api = 1 => (r.hasOutput <=> r.operation \in {"stream", "reader"})
  /\ r.api = 2 /\ r.operation = "validate" => ~ r.hasOutput
  /\ r.api = 2 /\ r.operation = "reader" => r.hasOutput

\* What invoke_adapter lets through.
Sendable(r) ==
  /\ r.api = 1 => r.operation # "custom"
  /\ ContextFits(r)
  /\ r.support <=> r.api = 2 /\ r.operation = "reader"
  /\ r.scope = Scope(r.operation)

\* _validate_request, in the worker.
Valid(r) ==
  /\ r.api = 1 => r.operation # "custom"
  /\ r.api = 1 => (r.hasOutput <=> r.operation \in {"stream", "reader"})
  /\ (r.scope = "reader_output") <=> r.hasOutput
  /\ r.support <=> r.api = 2 /\ r.operation = "reader"

\* What validation.py and reader.py ask for.
Production(r) == r.operation \in {"validate", "reader"}

-----------------------------------------------------------------------------
(* The program *)

Goto(from, to) == pc = from /\ pc' = to

\* Popen, and the drain threads.
Spawn(r) ==
  /\ Goto("ready", "sending")
  /\ Sendable(r)
  /\ request' = r
  /\ worker' = "reading"
  /\ output' = IF r.hasOutput THEN "within" ELSE "none"
  /\ UNCHANGED <<back, error, used, late, deaf, child, written, answer,
                 drained, raw, verdict>>

\* "worker_start_failed".
SpawnFails ==
  /\ Goto("ready", "returned")
  /\ verdict' = "worker_start_failed"
  /\ UNCHANGED <<back, error, used, late, request, workerVars, drained, raw>>

\* The request is written and stdin is closed: the worker reads.
Send ==
  /\ Goto("sending", "polling")
  /\ worker = "reading"
  /\ UNCHANGED <<back, error, used, late, request, workerVars, drained, raw,
                 verdict>>

\* Terminate is decided on, for a reason or none.
Terminate(from, reason, to) ==
  /\ Goto(from, "terminating")
  /\ error' = reason
  /\ back' = to
  /\ UNCHANGED <<used, late, request, workerVars, drained, raw, verdict>>

\* A BrokenPipeError: the worker is gone.
SendFails == /\ worker \in Exited
             /\ Terminate("sending", "worker_io_failed", "sweeping")

\* process.poll() at the head of the loop.
Poll ==
  /\ pc = "polling"
  /\ pc' = IF worker \in Exited THEN "reaping" ELSE "checking"
  /\ UNCHANGED <<back, error, used, late, request, workerVars, drained, raw,
                 verdict>>

Exceeded == drained > Whole

\* The body of the loop: the protocol limit, the wall time, the output.
StopFlood   == Exceeded /\ Terminate("checking", "protocol_output_limit", "reaping")
StopLate    == /\ ~ Exceeded /\ late
               /\ Terminate("checking", "timeout", "reaping")

\* _output_limit_error: the output is over a limit, or somebody takes a file
\* away while it is looked at.
OutputError == \/ output = "over"
               \/ /\ output = "within"
                  /\ worker = "running" \/ child \in {"meek", "deaf"}

StopOutput  == /\ ~ Exceeded /\ ~ late
               /\ OutputError
               /\ Terminate("checking", "adapter_output_limit", "reaping")

\* ... or the output is not looked at in this round.
GoOn == /\ Goto("checking", "polling")
        /\ ~ Exceeded /\ ~ late
        /\ UNCHANGED <<back, error, used, late, request, workerVars, drained,
                       raw, verdict>>

\* The worker's group has a member that runs.
GroupExists == worker \in Alive \union {"killed"} \/ child \in {"meek", "deaf"}

\* A worker that was not waited for is still a member if it exited after the
\* poll() at the head of _terminate_process_group; if before, poll() reaped it.
Zombie == worker \in Exited /\ back \in {"reaping", "reaping again"}

\* _terminate_process_group: os.killpg(SIGTERM).
Term ==
  /\ Goto("terminating", "grace")
  /\ GroupExists \/ Zombie
  /\ used' = TRUE
  /\ worker' = IF worker \in Alive /\ ~ deaf THEN "crashed" ELSE worker
  /\ child' = IF child = "meek" THEN "dead" ELSE child
  /\ UNCHANGED <<back, error, late, request, deaf, written, answer, drained,
                 raw, output, verdict>>

\* ProcessLookupError.
TermNobody ==
  /\ Goto("terminating", back)
  /\ ~ GroupExists
  /\ UNCHANGED <<back, error, used, late, request, workerVars, drained, raw,
                 verdict>>

\* The worker has exited, now or long ago: process.wait() returns.
Grace ==
  /\ Goto("grace", back)
  /\ worker \in Exited
  /\ UNCHANGED <<back, error, used, late, request, workerVars, drained, raw,
                 verdict>>

\* It has not after 0.2 seconds: os.killpg(SIGKILL).
Kill ==
  /\ Goto("grace", back)
  /\ worker \notin Exited
  /\ worker' = "killed"
  /\ child' = IF child = "none" THEN "none" ELSE "dead"
  /\ UNCHANGED <<back, error, used, late, request, deaf, written, answer,
                 drained, raw, output, verdict>>

\* process.wait(timeout=1.0) after the loop; the finally, the last sweep.
Reap ==
  /\ pc \in {"reaping", "reaping again"}
  /\ worker \in Exited
  /\ pc' = "sweeping"
  /\ UNCHANGED <<back, error, used, late, request, workerVars, drained, raw,
                 verdict>>

ReapLater == worker \notin Exited /\ Terminate("reaping", error, "reaping again")

\* A TimeoutExpired out of the second wait: no handler here takes it.
ReapRaises ==
  /\ Goto("reaping again", "raised")
  /\ worker \notin Exited
  /\ UNCHANGED <<back, error, used, late, request, workerVars, drained, raw,
                 verdict>>

Sweep == Terminate("sweeping", error, "joining")

AtEnd == ~ Holding /\ drained = written

\* Both drains have come to the end of their pipes.
Join ==
  /\ pc \in {"joining", "joining again"}
  /\ AtEnd
  /\ pc' = "collecting"
  /\ UNCHANGED <<back, error, used, late, request, workerVars, drained, raw,
                 verdict>>

\* Or not within half a second.
JoinLater == ~ AtEnd /\ Terminate("joining", error, "joining again")

\* A plausible slip: the drains are waited for, however long it takes.
JoinForever ==
  /\ Goto("joining again", "collecting")
  /\ AtEnd
  /\ UNCHANGED <<back, error, used, late, request, workerVars, drained, raw,
                 verdict>>

\* And not within another: what they have read so far is taken.
JoinGivesUp ==
  /\ Goto("joining again", "collecting")
  /\ ~ AtEnd
  /\ UNCHANGED <<back, error, used, late, request, workerVars, drained, raw,
                 verdict>>

\* stdout.value(), the first max_protocol_bytes; the output is inspected for
\* the last time.
Collect ==
  /\ Goto("collecting", "judging")
  /\ raw' = IF drained > Whole THEN Whole ELSE drained
  /\ \/ error = "none" /\ OutputError /\ error' = "adapter_output_limit"
     \/ (error # "none" \/ output # "over") /\ error' = error
  /\ UNCHANGED <<back, used, late, request, workerVars, drained, verdict>>

\* The response is one JSON object, with this request's identity.
WellFormed == raw = Whole /\ answer # "garbage"

\* A plausible slip: a response that can be read decides.
JudgementOfAnswer ==
  IF WellFormed THEN answer
  ELSE IF error # "none" THEN error
  ELSE IF Exceeded THEN "protocol_output_limit"
  ELSE IF worker # "exited" THEN "worker_failed"
  ELSE "invalid_protocol"

\* The order in which _run_worker decides.
Judgement ==
  IF error # "none" THEN error
  ELSE IF Exceeded THEN "protocol_output_limit"
  ELSE IF worker # "exited" THEN "worker_failed"
  ELSE IF ~ WellFormed THEN "invalid_protocol"
  ELSE answer

Judge ==
  /\ Goto("judging", "returned")
  /\ verdict' = Judgement
  /\ UNCHANGED <<back, error, used, late, request, workerVars, drained, raw>>

\* A KeyboardInterrupt: no handler ends the worker, which is in a session of
\* its own; its stdin is closed and its directory goes.
Interrupt ==
  /\ pc \notin {"ready", "returned", "raised"}
  /\ pc' = "raised"
  /\ UNCHANGED <<back, error, used, late, request, workerVars, drained, raw,
                 verdict>>

-----------------------------------------------------------------------------
(* The worker *)

\* main: the request is read to its end, and validated.
ReadRequest(verified) ==
  /\ worker = "reading" /\ pc # "sending"
  /\ \/ /\ Valid(request) /\ verified
        /\ worker' = "running" /\ request' = NoRequest
        /\ UNCHANGED answer
     \/ /\ Valid(request) /\ ~ verified
        /\ worker' = "writing" /\ request' = NoRequest
        /\ answer' = "adapter_verification"
     \/ /\ ~ Valid(request)
        /\ worker' = "writing" /\ answer' = "invalid_request"
        /\ UNCHANGED request
  /\ UNCHANGED <<parentVars, late, deaf, child, written, drained, output>>

\* _invoke: the adapter returns, or raises; _encode bounds the response.
Answer ==
  /\ worker = "running"
  /\ worker' = "writing"
  /\ answer' \in IF answer = "garbage" THEN {"garbage"} ELSE {"ok", "adapter_failed"}
  /\ UNCHANGED <<parentVars, late, request, deaf, child, written, drained, output>>

\* The response is written to the duplicate of stdout, and the worker exits.
Write ==
  /\ worker = "writing"
  /\ written < Whole
  /\ written' = written + 1
  /\ UNCHANGED <<parentVars, late, request, worker, deaf, child, answer,
                 drained, output>>

Exit ==
  /\ worker = "writing"
  /\ written >= Whole
  /\ worker' = "exited"
  /\ UNCHANGED <<parentVars, late, request, deaf, child, written, answer,
                 drained, output>>

\* It dies: of a limit, of an error at its start or in its last steps.
Crash ==
  /\ worker \in Alive
  /\ worker' = "crashed"
  /\ UNCHANGED <<parentVars, late, request, deaf, child, written, answer,
                 drained, output>>

\* A process that was killed is gone a moment later.
Die ==
  /\ worker = "killed"
  /\ worker' = "crashed"
  /\ UNCHANGED <<parentVars, late, request, deaf, child, written, answer,
                 drained, output>>

\* What an adapter may do besides: ignore SIGTERM, start a process, write too
\* much, or write to the protocol pipe.
Misbehave ==
  /\ worker = "running"
  /\ \/ ~ deaf /\ deaf' = TRUE /\ UNCHANGED <<child, written, answer, output>>
     \/ child = "none" /\ child' \in {"meek", "deaf"}
        /\ UNCHANGED <<deaf, written, answer, output>>
     \/ output = "within" /\ output' = "over"
        /\ UNCHANGED <<deaf, child, written, answer>>
     \/ answer = "none" /\ answer' = "garbage" /\ written' \in {1, Over}
        /\ UNCHANGED <<deaf, child, output>>
  /\ UNCHANGED <<parentVars, late, request, worker, drained>>

\* A descendant ends, or writes too much.
ChildActs ==
  /\ child \in {"meek", "deaf"}
  /\ \/ child' = "dead" /\ UNCHANGED output
     \/ output = "within" /\ output' = "over" /\ UNCHANGED child
  /\ UNCHANGED <<parentVars, late, request, worker, deaf, written, answer, drained>>

\* _BoundedDrain.run.
Drain ==
  /\ drained < written
  /\ drained' = drained + 1
  /\ UNCHANGED <<parentVars, late, request, workerVars>>

\* The monotonic clock passes the deadline.
Tick ==
  /\ ~ late /\ pc \in {"sending", "polling", "checking"}
  /\ late' = TRUE
  /\ UNCHANGED <<parentVars, request, workerVars, drained>>

-----------------------------------------------------------------------------
Supervise ==
  \/ Send \/ SendFails \/ Poll \/ StopFlood \/ StopLate \/ StopOutput \/ GoOn
  \/ Term \/ TermNobody \/ Grace \/ Kill \/ Reap \/ ReapLater \/ ReapRaises
  \/ Sweep \/ Join \/ JoinLater \/ JoinGivesUp \/ Collect \/ Judge

WorkerActs == Answer \/ Write \/ Exit \/ Crash \/ Misbehave \/ ChildActs

ProcessEnds == {"returned", "raised"}

-----------------------------------------------------------------------------
(* Properties *)

\* Every variable has its type.
ProgramTypeOK ==
  /\ pc \in {"ready", "sending", "polling", "checking", "terminating", "grace",
             "reaping", "reaping again", "sweeping", "joining", "joining again",
             "collecting", "judging"} \union ProcessEnds
  /\ back \in {"ready", "reaping", "reaping again", "sweeping", "joining",
               "joining again"}
  /\ error \in {"none", "worker_io_failed", "protocol_output_limit", "timeout",
                "adapter_output_limit"}
  /\ used \in BOOLEAN /\ late \in BOOLEAN

WorkerTypeOK ==
  /\ request \in Requests
  /\ worker \in {"unborn", "killed"} \union Alive \union Exited
  /\ deaf \in BOOLEAN
  /\ child \in {"none", "meek", "deaf", "dead"}
  /\ answer \in {"none", "ok", "adapter_failed", "adapter_verification",
                 "invalid_request", "garbage"}
  /\ output \in {"none", "within", "over"}

PipeTypeOK == written \in 0..Over /\ drained \in 0..Over /\ raw \in 0..Whole

ProcessTypeOK == ProgramTypeOK /\ WorkerTypeOK /\ PipeTypeOK

\* A result is only returned that the worker wrote whole before it exited of
\* its own accord: never a prefix a drain came to, never one that arrived
\* after the program had decided to end the worker, and never with an output
\* directory over its limits when no descendant is left that could have
\* written since.
ResultIsTheWorkers ==
  verdict = "ok" =>
    /\ answer = "ok" /\ raw = Whole /\ written = Whole
    /\ worker = "exited" /\ error = "none"
    /\ child \in {"none", "dead"} => output # "over" \/ used

\* Every request that validation and reader generation send is one the worker
\* accepts: the two sides check it with code of their own.
ProductionIsUnderstood ==
  Production(request) /\ Sendable(request) => answer # "invalid_request"

\* No process of the adapter's group outlives the call: "A successful adapter
\* may still have left descendants behind.  Its isolated POSIX session is
\* disposable, so terminate any group which still exists."
NothingSurvives == pc = "returned" => child \notin {"meek", "deaf"}
=============================================================================
