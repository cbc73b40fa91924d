----------------------------- MODULE Validation -----------------------------
(***************************************************************************)
(* Validations of one collection (preservation/validation.py), and the     *)
(* report on them (lifecycle.py).                                          *)
(*                                                                         *)
(* The identifier of a validation is the digest of everything the verdict  *)
(* may depend on.  An invocation verifies the captures, reuses the report  *)
(* that is filed under its identifier or has the validator write one,      *)
(* verifies the captures again, files the report unless somebody was       *)
(* faster, and moves two pointers: LATEST, and LATEST-VALIDATED when the   *)
(* verdict is usable.  Nothing here takes a lock.                          *)
(***************************************************************************)
EXTENDS Naturals

CONSTANTS
  Procs,        \* invocations of analyze_preservation
  Inspectors,   \* calls of collection_lifecycle_status
  Validations,  \* the validation identifiers
  Captures,
  Contributing, \* Contributing[v]: the captures in the inputs of v
  Damageable,   \* bound: the captures that may be damaged from outside
  Spoilable,    \* bound: the validations whose report may be spoiled
  Absent,       \* a report that does not exist
  NoValidation  \* a pointer that does not exist

Statuses == {"complete", "complete_with_warnings", "incomplete"}
Usable(status) == status \in {"complete", "complete_with_warnings"}

\* A report: the validator's verdict and, for the properties only, whether
\* the captures were intact when the validator had read them.
Reports == [status: Statuses, sound: BOOLEAN]

ASSUME ValidationAssumption == /\ Absent \notin Reports
                               /\ NoValidation \notin Validations
                               /\ Contributing \in [Validations -> SUBSET Captures]
                               /\ Spoilable \subseteq Validations

VARIABLES
  pc,        \* how far each invocation has come
  chosen,    \* the validation it works on
  report,    \* the report it holds
  filed,     \* validations/<id>/report.json, as it was written
  spoiled,   \* the reports truncated or altered so that they fit no more
  latest,    \* validations/LATEST
  validated, \* LATEST-VALIDATED
  intact,    \* the captures that agree with their manifest
  inspector, \* how far each inspection has come
  attempt,   \* what it has learned of LATEST
  successful \* what it has learned of LATEST-VALIDATED

reports        == <<filed, spoiled>>
pointers       == <<latest, validated>>
invocationVars == <<pc, chosen, report>>
inspectionVars == <<inspector, attempt, successful>>
vars == <<invocationVars, reports, pointers, intact, inspectionVars>>

Ended    == {"returned", "failed"}
Holding  == {"reusing", "checking", "filing", "filed", "moving", "half",
             "returned"}
\* The invocation's report is the one on disk.
Agreeing == {"reusing", "filed", "moving", "half", "returned"}

Init ==
  /\ pc = [p \in Procs |-> "idle"]
  /\ chosen = [p \in Procs |-> NoValidation]
  /\ report = [p \in Procs |-> Absent]
  /\ filed = [v \in Validations |-> Absent] /\ spoiled = {}
  /\ latest = NoValidation /\ validated = NoValidation
  /\ intact = Captures
  /\ inspector = [i \in Inspectors |-> "idle"]
  /\ attempt = [i \in Inspectors |-> "unknown"]
  /\ successful = [i \in Inspectors |-> "unknown"]

\* _read_validation_report accepts the report of v.  (It would accept one that
\* was altered and has the fields it looks for; that is left out.)
Readable(v) == filed[v] # Absent /\ v \notin spoiled

Transition(p, from, to) ==
  /\ pc[p] = from
  /\ pc' = [pc EXCEPT ![p] = to]

-----------------------------------------------------------------------------
(* One invocation *)

\* The captures are verified and the identifier is computed from them, the
\* adapter, the recipe and the configuration.
Begin(p, v) ==
  /\ Transition(p, "idle", "begun")
  /\ Contributing[v] \subseteq intact
  /\ chosen' = [chosen EXCEPT ![p] = v]
  /\ UNCHANGED <<report, reports, pointers, intact, inspectionVars>>

\* A report is there already; _read_validation_report refuses a spoiled one.
ReuseReport(p) ==
  /\ Transition(p, "begun", "reusing")
  /\ Readable(chosen[p])
  /\ report' = [report EXCEPT ![p] = filed[chosen[p]]]
  /\ UNCHANGED <<chosen, reports, pointers, intact, inspectionVars>>

\* No report is there: the validator judges what it finds in the captures.
RunValidator(p, status) ==
  /\ Transition(p, "begun", "checking")
  /\ filed[chosen[p]] = Absent
  /\ report' = [report EXCEPT ![p] =
                  [status |-> status,
                   sound |-> Contributing[chosen[p]] \subseteq intact]]
  /\ UNCHANGED <<chosen, reports, pointers, intact, inspectionVars>>

\* A plausible slip: only the captures of a reused report are verified again.
VerifyReusedOnly(p) ==
  /\ \/ /\ Transition(p, "reusing", "filed")
        /\ Contributing[chosen[p]] \subseteq intact
     \/ Transition(p, "checking", "filing")
  /\ UNCHANGED <<chosen, report, reports, pointers, intact, inspectionVars>>

\* _verify_analysis_captures: nothing is filed, or pointed to, that rests on
\* captures which do not verify any more.
VerifyAgain(p) ==
  /\ Transition(p, "reusing", "filed") \/ Transition(p, "checking", "filing")
  /\ Contributing[chosen[p]] \subseteq intact
  /\ UNCHANGED <<chosen, report, reports, pointers, intact, inspectionVars>>

\* A plausible slip: the report is renamed over one that appeared meanwhile.
ReplaceReport(p) ==
  /\ Transition(p, "filing", "filed")
  /\ filed' = [filed EXCEPT ![chosen[p]] = report[p]]
  /\ UNCHANGED <<chosen, report, spoiled, pointers, intact, inspectionVars>>

\* _write_json_once: os.link gives the report its name, if nothing has it.
FileReport(p) ==
  /\ Transition(p, "filing", "filed")
  /\ filed[chosen[p]] = Absent
  /\ filed' = [filed EXCEPT ![chosen[p]] = report[p]]
  /\ UNCHANGED <<chosen, report, spoiled, pointers, intact, inspectionVars>>

\* A plausible slip: who was not first goes on with the report of its own.
KeepOwnReport(p) ==
  /\ Transition(p, "filing", "filed")
  /\ Readable(chosen[p])
  /\ UNCHANGED <<chosen, report, reports, pointers, intact, inspectionVars>>

\* Somebody was faster: the report that is there takes the place of our own.
AdoptReport(p) ==
  /\ Transition(p, "filing", "filed")
  /\ Readable(chosen[p])
  /\ report' = [report EXCEPT ![p] = filed[chosen[p]]]
  /\ UNCHANGED <<chosen, reports, pointers, intact, inspectionVars>>

\* _validate_existing_validation_pointer: LATEST-VALIDATED must name a usable
\* report that can be read; of LATEST's target only the file must be there.
PointersSane ==
  /\ latest # NoValidation => filed[latest] # Absent
  /\ validated # NoValidation =>
       Readable(validated) /\ Usable(filed[validated].status)

CheckPointers(p) ==
  /\ Transition(p, "filed", "moving")
  /\ filed[chosen[p]] # Absent
  /\ PointersSane
  /\ UNCHANGED <<chosen, report, reports, pointers, intact, inspectionVars>>

\* A plausible slip: both pointers follow every validation.
MoveLatestAndGoOn(p) ==
  /\ Transition(p, "moving", "half")
  /\ latest' = chosen[p]
  /\ UNCHANGED <<chosen, report, reports, validated, intact, inspectionVars>>

MoveLatest(p) ==
  /\ Transition(p, "moving", IF Usable(report[p].status) THEN "half"
                                                         ELSE "returned")
  /\ latest' = chosen[p]
  /\ UNCHANGED <<chosen, report, reports, validated, intact, inspectionVars>>

MoveValidated(p) ==
  /\ Transition(p, "half", "returned")
  /\ validated' = chosen[p]
  /\ UNCHANGED <<chosen, report, reports, latest, intact, inspectionVars>>

\* Any check that fails, an error, an interrupt or a kill.  What is on disk
\* stays as it is; the temporary file of a report is never read.
Fail(p) ==
  /\ pc[p] \notin Ended
  /\ pc' = [pc EXCEPT ![p] = "failed"]
  /\ UNCHANGED <<chosen, report, reports, pointers, intact, inspectionVars>>

-----------------------------------------------------------------------------
(* The validation part of a lifecycle report *)

Advance(i, from, to) ==
  /\ inspector[i] = from
  /\ inspector' = [inspector EXCEPT ![i] = to]

Answers == {"unknown", "not_run", "present", "invalid"} \union Statuses

Present(pointer) == IF pointer = NoValidation THEN "not_run" ELSE "present"

\* _validation_pointer: the status of the report that a pointer names.
Answer(pointer, successfulOnly) ==
  IF /\ Readable(pointer)
     /\ successfulOnly => Usable(filed[pointer].status)
  THEN filed[pointer].status
  ELSE "invalid"

\* Which of the two pointers are there; one is looked for after the other.
LookForLatest(i) ==
  /\ Advance(i, "idle", "looking")
  /\ attempt' = [attempt EXCEPT ![i] = Present(latest)]
  /\ UNCHANGED <<invocationVars, reports, pointers, intact, successful>>

LookForValidated(i) ==
  /\ Advance(i, "looking", "reading")
  /\ successful' = [successful EXCEPT ![i] = Present(validated)]
  /\ UNCHANGED <<invocationVars, reports, pointers, intact, attempt>>

\* Those that were there are read; a pointer that exists does not go away.
ReadLatest(i) ==
  /\ Advance(i, "reading", "half_read")
  /\ attempt' = IF attempt[i] = "present"
                THEN [attempt EXCEPT ![i] = Answer(latest, FALSE)]
                ELSE attempt
  /\ UNCHANGED <<invocationVars, reports, pointers, intact, successful>>

ReadValidated(i) ==
  /\ Advance(i, "half_read", "answered")
  /\ successful' = IF successful[i] = "present"
                   THEN [successful EXCEPT ![i] = Answer(validated, TRUE)]
                   ELSE successful
  /\ UNCHANGED <<invocationVars, reports, pointers, intact, attempt>>

\* What the inspection says of the collection's validation.
ValidationState(i) ==
  IF "invalid" \in {attempt[i], successful[i]} THEN "invalid"
  ELSE IF attempt[i] # "not_run" THEN attempt[i] ELSE successful[i]

-----------------------------------------------------------------------------
(* From outside *)

DamageCapture(c) ==
  /\ intact' = intact \ {c}
  /\ UNCHANGED <<invocationVars, reports, pointers, inspectionVars>>

\* From outside, a report is cut short, or one of the fields that are looked at
\* is altered.
SpoilReport(v) ==
  /\ filed[v] # Absent
  /\ spoiled' = spoiled \union {v}
  /\ UNCHANGED <<invocationVars, filed, pointers, intact, inspectionVars>>

Invocation(p) ==
  \/ \E v \in Validations : Begin(p, v)
  \/ ReuseReport(p)
  \/ \E status \in Statuses : RunValidator(p, status)
  \/ VerifyAgain(p) \/ FileReport(p) \/ AdoptReport(p)
  \/ CheckPointers(p) \/ MoveLatest(p) \/ MoveValidated(p)
  \/ Fail(p)

Inspection(i) ==
  \/ LookForLatest(i) \/ LookForValidated(i)
  \/ ReadLatest(i) \/ ReadValidated(i)

Outside ==
  \/ \E c \in Damageable \cap intact : DamageCapture(c)
  \/ \E v \in Spoilable \ spoiled : SpoilReport(v)

Next ==
  \/ \E p \in Procs : Invocation(p)
  \/ \E i \in Inspectors : Inspection(i)
  \/ Outside

Spec == Init /\ [][Next]_vars
-----------------------------------------------------------------------------
(* Properties *)

\* Every variable has its type.
TypeOK ==
  /\ pc \in [Procs -> {"idle", "begun", "failed"} \union Holding]
  /\ chosen \in [Procs -> Validations \union {NoValidation}]
  /\ report \in [Procs -> Reports \union {Absent}]
  /\ filed \in [Validations -> Reports \union {Absent}]
  /\ spoiled \subseteq Validations
  /\ latest \in Validations \union {NoValidation}
  /\ validated \in Validations \union {NoValidation}
  /\ intact \subseteq Captures
  /\ inspector \in [Inspectors ->
                      {"idle", "looking", "reading", "half_read", "answered"}]
  /\ attempt \in [Inspectors -> Answers]
  /\ successful \in [Inspectors -> Answers]

\* A report is written once: whatever several invocations with the same
\* inputs come to, the first that is filed stays (docs/design.md:1449,
\* "Validation reports are immutable").
ReportsAreFinal ==
  [][\A v \in Validations : filed[v] # Absent => filed'[v] = filed[v]]_vars

\* What an invocation returned is what is on disk under its identifier, also
\* when it wrote a report that came too late.
ReturnedIsFiled ==
  \A p \in Procs : pc[p] = "returned" => filed[chosen[p]] = report[p]

\* No report is filed that a validator made of captures that were damaged
\* while it read them.
FiledIsSound == \A v \in Validations : filed[v] # Absent => filed[v].sound

\* An inspection without any lock, in the middle of publications and of
\* invocations that are cut off, does not call a validation invalid unless a
\* report was spoiled.
NoFalseAlarm ==
  \A i \in Inspectors :
    inspector[i] = "answered" /\ ValidationState(i) = "invalid" => spoiled # {}

\* docs/design.md:1175: LATEST names the latest validation, LATEST-VALIDATED
\* the latest usable one.  So when LATEST names a usable one and nobody is at
\* work, the two name the same.
ValidatedFollowsLatest ==
  (\A p \in Procs : pc[p] \in {"idle", "returned"}) =>
    (latest # NoValidation /\ Usable(filed[latest].status)
       => validated = latest)

\* To their readers the two pointers are registers: LATEST moves to filed
\* reports only, LATEST-VALIDATED to usable ones only ("an incomplete result
\* never displaces it").  Validations have no order among them.
PointerNames == {"LATEST", "LATEST-VALIDATED"}

FiledFor(n) == {v \in Validations :
                  /\ filed[v] # Absent
                  /\ n = "LATEST-VALIDATED" => Usable(filed[v].status)}

Register == INSTANCE PointerRegister WITH
              Names <- PointerNames,
              Ids <- Validations,
              Stamp <- [v \in Validations |-> 0],
              NoCapture <- NoValidation,
              granted <- [n \in PointerNames |-> FiledFor(n)],
              lost <- spoiled,
              latest <- [n \in PointerNames |->
                           IF n = "LATEST" THEN latest ELSE validated]

PointersAreRegisters == Register!RegisterSpec

-----------------------------------------------------------------------------
(* The inductive invariant *)

ChosenInv ==
  \A p \in Procs :
    /\ pc[p] \in Holding \union {"begun"} => chosen[p] \in Validations
    /\ pc[p] \in Holding => report[p] \in Reports
    /\ pc[p] \in Agreeing => filed[chosen[p]] = report[p]
    /\ pc[p] = "filing" => report[p].sound
    /\ pc[p] = "half" => Usable(report[p].status)

\* Captures are not repaired: those that are intact now were so before.
BasisInv ==
  \A p \in Procs :
    pc[p] = "checking" /\ Contributing[chosen[p]] \subseteq intact =>
      report[p].sound

PointerInv ==
  /\ latest # NoValidation => filed[latest] # Absent
  /\ validated # NoValidation =>
       filed[validated] # Absent /\ Usable(filed[validated].status)

InspectionInv ==
  \A i \in Inspectors :
    /\ attempt[i] = "present" => latest # NoValidation
    /\ successful[i] = "present" => validated # NoValidation
    /\ "invalid" \in {attempt[i], successful[i]} => spoiled # {}

IInv == /\ TypeOK /\ ChosenInv /\ BasisInv /\ PointerInv /\ InspectionInv
        /\ FiledIsSound
=============================================================================
