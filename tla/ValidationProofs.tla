-------------------------- MODULE ValidationProofs --------------------------
(***************************************************************************)
(* Validation, for every set of invocations, inspections, validations and  *)
(* captures, and whatever is damaged.                                      *)
(***************************************************************************)
EXTENDS Validation, TLAPS

USE ValidationAssumption

\* The steps of an invocation that neither end it nor begin it.
Working(p) == \/ ReuseReport(p) \/ \E status \in Statuses : RunValidator(p, status)
              \/ VerifyAgain(p) \/ FileReport(p) \/ AdoptReport(p)
              \/ CheckPointers(p) \/ MoveLatest(p) \/ MoveValidated(p)

LEMMA Cases ==
  ASSUME [Next]_vars
  PROVE  \/ \E p \in Procs : \/ \E v \in Validations : Begin(p, v)
                             \/ Working(p) \/ Fail(p)
         \/ \E i \in Inspectors : Inspection(i)
         \/ Outside
         \/ UNCHANGED vars
  BY DEF Next, Invocation, Working

\* Every step keeps every variable in its type.
LEMMA TypeStep ==
  ASSUME TypeOK, ChosenInv, InspectionInv, [Next]_vars
  PROVE  TypeOK'
<1> USE DEF TypeOK, Transition, Holding, reports, pointers, invocationVars,
            inspectionVars
<1>1. ASSUME NEW p \in Procs, NEW v \in Validations, Begin(p, v)
      PROVE  TypeOK'
  BY <1>1 DEF Begin
<1>2. ASSUME NEW p \in Procs, Fail(p)
      PROVE  TypeOK'
  BY <1>2 DEF Fail
<1>3. ASSUME NEW p \in Procs, Working(p)
      PROVE  TypeOK'
  <2>1. chosen[p] \in Validations
    BY <1>3 DEF Working, ChosenInv, ReuseReport, RunValidator, VerifyAgain,
                FileReport, AdoptReport, CheckPointers, MoveLatest, MoveValidated
  <2>2. CASE ReuseReport(p) \/ AdoptReport(p)
    BY <2>1, <2>2 DEF ReuseReport, AdoptReport
  <2>3. ASSUME NEW status \in Statuses, RunValidator(p, status)
        PROVE  TypeOK'
    <3>1. [status |-> status,
           sound |-> Contributing[chosen[p]] \subseteq intact] \in Reports
      BY DEF Reports
    <3>. QED  BY <2>3, <3>1 DEF RunValidator
  <2>4. CASE VerifyAgain(p) \/ CheckPointers(p)
    BY <2>4 DEF VerifyAgain, CheckPointers
  <2>5. CASE FileReport(p)
    BY <2>1, <2>5 DEF FileReport
  <2>6. CASE MoveLatest(p) \/ MoveValidated(p)
    BY <2>1, <2>6 DEF MoveLatest, MoveValidated
  <2>. QED  BY <1>3, <2>2, <2>3, <2>4, <2>5, <2>6 DEF Working
<1>4. ASSUME NEW i \in Inspectors, Inspection(i)
      PROVE  TypeOK'
  <2>1. ASSUME NEW v \in Validations, NEW only \in BOOLEAN
        PROVE  Answer(v, only) \in Answers
    BY DEF Answer, Answers, Readable, Reports
  <2>2. CASE LookForLatest(i) \/ LookForValidated(i)
    BY <2>2 DEF LookForLatest, LookForValidated, Advance, Present, Answers
  <2>3. CASE ReadLatest(i)
    <3>1. attempt[i] = "present" => Answer(latest, FALSE) \in Answers
      BY <2>1 DEF InspectionInv
    <3>. QED  BY <2>3, <3>1 DEF ReadLatest, Advance
  <2>4. CASE ReadValidated(i)
    <3>1. successful[i] = "present" => Answer(validated, TRUE) \in Answers
      BY <2>1 DEF InspectionInv
    <3>. QED  BY <2>4, <3>1 DEF ReadValidated, Advance
  <2>. QED  BY <1>4, <2>2, <2>3, <2>4 DEF Inspection
<1>5. CASE Outside
  BY <1>5 DEF Outside, DamageCapture, SpoilReport
<1>6. CASE UNCHANGED vars
  BY <1>6 DEF vars
<1>. QED  BY <1>1, <1>2, <1>3, <1>4, <1>5, <1>6, Cases

\* A filed report stays as it is.
LEMMA FiledStays ==
  ASSUME TypeOK, ChosenInv, [Next]_vars,
         NEW v \in Validations, filed[v] # Absent
  PROVE  filed'[v] = filed[v]
<1> USE DEF reports
<1>1. ASSUME NEW p \in Procs, FileReport(p)
      PROVE  filed'[v] = filed[v]
  <2>1. chosen[p] \in Validations /\ chosen[p] # v
    BY <1>1 DEF FileReport, Transition, ChosenInv, Holding
  <2>. QED  BY <1>1, <2>1 DEF FileReport, TypeOK
<1>2. ASSUME NEW p \in Procs, Working(p), ~ FileReport(p)
      PROVE  UNCHANGED filed
  BY <1>2 DEF Working, ReuseReport, RunValidator, VerifyAgain, AdoptReport,
              CheckPointers, MoveLatest, MoveValidated
<1>3. ASSUME NEW p \in Procs, Fail(p) \/ \E u \in Validations : Begin(p, u)
      PROVE  UNCHANGED filed
  BY <1>3 DEF Begin, Fail
<1>4. ASSUME NEW i \in Inspectors, Inspection(i)
      PROVE  UNCHANGED filed
  BY <1>4 DEF Inspection, LookForLatest, LookForValidated, ReadLatest,
              ReadValidated
<1>5. Outside \/ UNCHANGED vars => UNCHANGED filed
  BY DEF Outside, DamageCapture, SpoilReport, vars
<1>. QED  BY <1>1, <1>2, <1>3, <1>4, <1>5, Cases

\* An invocation changes nothing of another one's, and captures get no better.
LEMMA OthersStay ==
  ASSUME TypeOK, [Next]_vars, NEW q \in Procs
  PROVE  /\ intact' \subseteq intact
         /\ \/ /\ pc'[q] = pc[q]
               /\ chosen'[q] = chosen[q] /\ report'[q] = report[q]
            \/ \E v \in Validations : Begin(q, v)
            \/ Working(q) \/ Fail(q)
<1> DEFINE Same(r) == /\ pc'[r] = pc[r]
                      /\ chosen'[r] = chosen[r] /\ report'[r] = report[r]
<1> USE DEF TypeOK
<1>1. ASSUME NEW p \in Procs, NEW v \in Validations, Begin(p, v)
      PROVE  UNCHANGED intact /\ (p # q => Same(q))
  BY <1>1 DEF Begin, Transition
<1>2. ASSUME NEW p \in Procs, Fail(p)
      PROVE  UNCHANGED intact /\ (p # q => Same(q))
  BY <1>2 DEF Fail
<1>3. ASSUME NEW p \in Procs, Working(p)
      PROVE  UNCHANGED intact /\ (p # q => Same(q))
  BY <1>3 DEF Working, ReuseReport, RunValidator, VerifyAgain, FileReport,
              AdoptReport, CheckPointers, MoveLatest, MoveValidated, Transition
<1>4. ASSUME NEW i \in Inspectors, Inspection(i)
      PROVE  UNCHANGED intact /\ Same(q)
  BY <1>4 DEF Inspection, LookForLatest, LookForValidated, ReadLatest,
              ReadValidated, invocationVars
<1>5. Outside \/ UNCHANGED vars => intact' \subseteq intact /\ Same(q)
  BY DEF Outside, DamageCapture, SpoilReport, vars, invocationVars
<1>. QED  BY <1>1, <1>2, <1>3, <1>4, <1>5, Cases

\* What an invocation knows of its own report outlives the steps of others.
LEMMA ChosenStep ==
  ASSUME TypeOK, ChosenInv, BasisInv, InspectionInv, [Next]_vars
  PROVE  ChosenInv'
<1> SUFFICES ASSUME NEW q \in Procs
             PROVE  /\ pc'[q] \in Holding \union {"begun"} => chosen'[q] \in Validations
                    /\ pc'[q] \in Holding => report'[q] \in Reports
                    /\ pc'[q] \in Agreeing => filed'[chosen'[q]] = report'[q]
                    /\ pc'[q] = "filing" => report'[q].sound
                    /\ pc'[q] = "half" => Usable(report'[q].status)
  BY DEF ChosenInv
<1> USE DEF ChosenInv, TypeOK, Holding, Agreeing, Transition, Readable, reports
<1>1. CASE /\ pc'[q] = pc[q]
           /\ chosen'[q] = chosen[q] /\ report'[q] = report[q]
  <2>1. pc[q] \in Agreeing => filed[chosen[q]] # Absent
    OBVIOUS
  <2>. QED  BY <1>1, <2>1, FiledStays
<1>2. ASSUME NEW v \in Validations, Begin(q, v)
      PROVE  chosen'[q] \in Validations /\ pc'[q] = "begun"
  BY <1>2 DEF Begin
<1>3. CASE Fail(q)
  BY <1>3 DEF Fail
<1>4. CASE Working(q)
  <2>1. CASE ReuseReport(q) \/ AdoptReport(q)
    BY <2>1 DEF ReuseReport, AdoptReport
  <2>2. ASSUME NEW status \in Statuses, RunValidator(q, status)
        PROVE  /\ chosen'[q] \in Validations /\ pc'[q] = "checking"
               /\ report'[q] \in Reports
    <3>1. [status |-> status,
           sound |-> Contributing[chosen[q]] \subseteq intact] \in Reports
      BY DEF Reports
    <3>. QED  BY <2>2, <3>1 DEF RunValidator
  <2>3. CASE VerifyAgain(q)
    BY <2>3 DEF VerifyAgain, BasisInv
  <2>4. CASE FileReport(q)
    BY <2>4 DEF FileReport
  <2>5. CASE CheckPointers(q)
    BY <2>5 DEF CheckPointers
  <2>6. CASE MoveLatest(q) \/ MoveValidated(q)
    BY <2>6 DEF MoveLatest, MoveValidated
  <2>. QED  BY <1>4, <2>1, <2>2, <2>3, <2>4, <2>5, <2>6 DEF Working
<1>. QED  BY <1>1, <1>2, <1>3, <1>4, OthersStay

\* Captures are only ever damaged: the second verification speaks for the
\* time of the validator's run as well.
LEMMA BasisStep ==
  ASSUME TypeOK, ChosenInv, BasisInv, [Next]_vars
  PROVE  BasisInv'
<1> SUFFICES ASSUME NEW q \in Procs, pc'[q] = "checking",
                    Contributing[chosen'[q]] \subseteq intact'
             PROVE  report'[q].sound
  BY DEF BasisInv
<1>1. CASE /\ pc'[q] = pc[q]
           /\ chosen'[q] = chosen[q] /\ report'[q] = report[q]
  BY <1>1, OthersStay DEF BasisInv
<1>2. ASSUME NEW v \in Validations, Begin(q, v)
      PROVE  FALSE
  BY <1>2 DEF Begin, Transition, TypeOK
<1>3. CASE Fail(q)
  BY <1>3 DEF Fail, TypeOK
<1>4. CASE Working(q)
  <2>1. PICK status \in Statuses : RunValidator(q, status)
    BY <1>4 DEF Working, ReuseReport, VerifyAgain, FileReport, AdoptReport,
                CheckPointers, MoveLatest, MoveValidated, Transition, TypeOK
  <2>2. Contributing[chosen[q]] \subseteq intact
    BY <2>1 DEF RunValidator, TypeOK
  <2>3. (Contributing[chosen[q]] \subseteq intact) = TRUE
    BY <2>2
  <2>4. report'[q] = [status |-> status,
                      sound |-> Contributing[chosen[q]] \subseteq intact]
    BY <2>1 DEF RunValidator, TypeOK
  <2>5. report'[q] = [status |-> status, sound |-> TRUE]
    BY <2>3, <2>4, Zenon
  <2>. QED  BY <2>5
<1>. QED  BY <1>1, <1>2, <1>3, <1>4, OthersStay

\* A pointer that is moved is moved to the filed report of the invocation.
LEMMA PointerStep ==
  ASSUME TypeOK, ChosenInv, PointerInv, [Next]_vars
  PROVE  /\ PointerInv'
         /\ latest # NoValidation => latest' # NoValidation
         /\ validated # NoValidation => validated' # NoValidation
<1> USE DEF TypeOK, reports, pointers
<1>1. ASSUME NEW p \in Procs, MoveLatest(p) \/ MoveValidated(p)
      PROVE  /\ PointerInv'
             /\ latest # NoValidation => latest' # NoValidation
             /\ validated # NoValidation => validated' # NoValidation
  <2>1. /\ chosen[p] \in Validations /\ filed[chosen[p]] \in Reports
        /\ pc[p] = "half" => Usable(filed[chosen[p]].status)
        /\ pc[p] \in {"moving", "half"}
    BY <1>1 DEF MoveLatest, MoveValidated, Transition, ChosenInv, Holding, Agreeing
  <2>. QED  BY <1>1, <2>1 DEF MoveLatest, MoveValidated, PointerInv, Transition
<1>2. UNCHANGED pointers => PointerInv'
  BY FiledStays DEF PointerInv
<1>3. ASSUME NEW p \in Procs, Working(p), ~ MoveLatest(p), ~ MoveValidated(p)
      PROVE  UNCHANGED pointers
  BY <1>3 DEF Working, ReuseReport, RunValidator, VerifyAgain, FileReport,
              AdoptReport, CheckPointers
<1>4. ASSUME NEW p \in Procs, Fail(p) \/ \E v \in Validations : Begin(p, v)
      PROVE  UNCHANGED pointers
  BY <1>4 DEF Begin, Fail
<1>5. ASSUME NEW i \in Inspectors, Inspection(i)
      PROVE  UNCHANGED pointers
  BY <1>5 DEF Inspection, LookForLatest, LookForValidated, ReadLatest,
              ReadValidated
<1>6. Outside \/ UNCHANGED vars => UNCHANGED pointers
  BY DEF Outside, DamageCapture, SpoilReport, vars
<1>7. CASE UNCHANGED pointers
  BY <1>2, <1>7
<1>. QED  BY <1>1, <1>3, <1>4, <1>5, <1>6, <1>7, Cases

\* A report that a validation files has the soundness its invocation vouches
\* for.
LEMMA SoundStep ==
  ASSUME TypeOK, ChosenInv, FiledIsSound, [Next]_vars
  PROVE  FiledIsSound'
<1>1. ASSUME NEW p \in Procs, FileReport(p)
      PROVE  FiledIsSound'
  BY <1>1 DEF FileReport, Transition, ChosenInv, Holding, FiledIsSound, TypeOK
<1>2. ASSUME NEW v \in Validations, filed[v] = Absent, filed'[v] # Absent
      PROVE  \E p \in Procs : FileReport(p)
  <2> USE DEF reports
  <2>1. ASSUME NEW p \in Procs, Working(p), ~ FileReport(p)
        PROVE  FALSE
    BY <1>2, <2>1 DEF Working, ReuseReport, RunValidator, VerifyAgain,
                      AdoptReport, CheckPointers, MoveLatest, MoveValidated
  <2>2. ASSUME NEW p \in Procs, Fail(p) \/ \E u \in Validations : Begin(p, u)
        PROVE  FALSE
    BY <1>2, <2>2 DEF Begin, Fail
  <2>3. ASSUME NEW i \in Inspectors, Inspection(i)
        PROVE  FALSE
    BY <1>2, <2>3 DEF Inspection, LookForLatest, LookForValidated, ReadLatest,
                      ReadValidated
  <2>4. ~ (Outside \/ UNCHANGED vars)
    BY <1>2 DEF Outside, DamageCapture, SpoilReport, vars
  <2>. QED  BY <2>1, <2>2, <2>3, <2>4, Cases
<1>3. CASE \A p \in Procs : ~ FileReport(p)
  BY <1>2, <1>3, FiledStays DEF FiledIsSound
<1>. QED  BY <1>1, <1>3

\* What an inspection found to be there stays there, and what it reads is in
\* order as long as nothing was spoiled.
LEMMA InspectionStep ==
  ASSUME TypeOK, ChosenInv, PointerInv, InspectionInv, [Next]_vars
  PROVE  InspectionInv'
<1> SUFFICES ASSUME NEW j \in Inspectors
             PROVE  /\ attempt'[j] = "present" => latest' # NoValidation
                    /\ successful'[j] = "present" => validated' # NoValidation
                    /\ "invalid" \in {attempt'[j], successful'[j]} => spoiled' # {}
  BY DEF InspectionInv
<1> USE DEF TypeOK, inspectionVars, reports, pointers
<1>1. /\ latest # NoValidation => latest' # NoValidation
      /\ validated # NoValidation => validated' # NoValidation
  BY PointerStep
<1>2. ASSUME UNCHANGED inspectionVars, spoiled \subseteq spoiled'
      PROVE  /\ attempt'[j] = "present" => latest' # NoValidation
             /\ successful'[j] = "present" => validated' # NoValidation
             /\ "invalid" \in {attempt'[j], successful'[j]} => spoiled' # {}
  BY <1>1, <1>2 DEF InspectionInv
<1>3. ASSUME NEW p \in Procs, Working(p) \/ Fail(p) \/ \E v \in Validations : Begin(p, v)
      PROVE  UNCHANGED inspectionVars /\ spoiled \subseteq spoiled'
  BY <1>3 DEF Working, ReuseReport, RunValidator, VerifyAgain, FileReport,
              AdoptReport, CheckPointers, MoveLatest, MoveValidated, Begin, Fail
<1>4. Outside \/ UNCHANGED vars => UNCHANGED inspectionVars /\ spoiled \subseteq spoiled'
  BY DEF Outside, DamageCapture, SpoilReport, vars
<1>5. ASSUME NEW i \in Inspectors, Inspection(i)
      PROVE  /\ attempt'[j] = "present" => latest' # NoValidation
             /\ successful'[j] = "present" => validated' # NoValidation
             /\ "invalid" \in {attempt'[j], successful'[j]} => spoiled' # {}
  <2>1. ASSUME NEW v \in Validations, NEW only \in BOOLEAN, filed[v] # Absent,
               only => Usable(filed[v].status)
        PROVE  /\ Answer(v, only) = "invalid" => spoiled # {}
               /\ Answer(v, only) # "present"
    BY <2>1 DEF Answer, Readable, Reports, Statuses
  <2>2. CASE LookForLatest(i) \/ LookForValidated(i)
    BY <2>2 DEF LookForLatest, LookForValidated, Present, InspectionInv
  <2>3. CASE ReadLatest(i)
    <3>1. attempt[i] = "present" =>
            /\ Answer(latest, FALSE) = "invalid" => spoiled # {}
            /\ Answer(latest, FALSE) # "present"
      BY <2>1 DEF InspectionInv, PointerInv
    <3>. QED  BY <2>3, <3>1 DEF ReadLatest, InspectionInv
  <2>4. CASE ReadValidated(i)
    <3>1. successful[i] = "present" =>
            /\ Answer(validated, TRUE) = "invalid" => spoiled # {}
            /\ Answer(validated, TRUE) # "present"
      BY <2>1 DEF InspectionInv, PointerInv
    <3>. QED  BY <2>4, <3>1 DEF ReadValidated, InspectionInv
  <2>. QED  BY <1>5, <2>2, <2>3, <2>4 DEF Inspection
<1>. QED  BY <1>2, <1>3, <1>4, <1>5, Cases

LEMMA InitIInv == Init => IInv
BY DEF Init, IInv, TypeOK, ChosenInv, BasisInv, PointerInv, InspectionInv,
       FiledIsSound, Holding, Agreeing, Answers

LEMMA StepIInv == IInv /\ [Next]_vars => IInv'
BY TypeStep, ChosenStep, BasisStep, PointerStep, InspectionStep, SoundStep
   DEF IInv

\* The inductive invariant: a pointer's report is filed and of its kind, an
\* invocation that goes on to move pointers holds the filed report, and a
\* verdict that is about to be filed was made of intact captures.
THEOREM ValidationInductive == Spec => []IInv
BY InitIInv, StepIInv, PTL DEF Spec

\* Every variable of Validation always has its type.
THEOREM ValidationTyped == Spec => []TypeOK
<1>1. IInv => TypeOK
  BY DEF IInv
<1>. QED  BY <1>1, ValidationInductive, PTL

\* A report is written once (_write_json_once), however many invocations
\* come to a verdict for it.
THEOREM WrittenOnce == Spec => ReportsAreFinal
<1>1. IInv /\ [Next]_vars =>
        [\A v \in Validations : filed[v] # Absent => filed'[v] = filed[v]]_vars
  BY FiledStays DEF IInv
<1>. QED  BY <1>1, ValidationInductive, PTL DEF Spec, ReportsAreFinal

\* An invocation returns the report that is on disk, its own or another's.
THEOREM ReturnsWhatIsFiled == Spec => []ReturnedIsFiled
<1>1. IInv => ReturnedIsFiled
  BY DEF IInv, ChosenInv, Agreeing, ReturnedIsFiled
<1>. QED  BY <1>1, ValidationInductive, PTL

\* No verdict on captures that were already damaged is ever filed.
THEOREM FiledSound == Spec => []FiledIsSound
<1>1. IInv => FiledIsSound
  BY DEF IInv
<1>. QED  BY <1>1, ValidationInductive, PTL

\* A lifecycle report calls a validation invalid only if a report was spoiled.
THEOREM NoAlarmWithoutCause == Spec => []NoFalseAlarm
<1>1. IInv => NoFalseAlarm
  BY DEF IInv, InspectionInv, TypeOK, Answers, Statuses, NoFalseAlarm,
         ValidationState
<1>. QED  BY <1>1, ValidationInductive, PTL

-----------------------------------------------------------------------------
(* Validation implements PointerRegister *)

Granted == [n \in PointerNames |-> FiledFor(n)]
Named   == [n \in PointerNames |-> IF n = "LATEST" THEN latest ELSE validated]

\* A step that files nothing, spoils nothing and moves no pointer is not seen.
LEMMA Unseen ==
  ASSUME UNCHANGED <<filed, spoiled, latest, validated>>
  PROVE  UNCHANGED <<Granted, spoiled, Named>>
BY DEF Granted, Named, FiledFor

\* Filing a report commits it, for one pointer or for both.
LEMMA FilingCommits ==
  ASSUME IInv, NEW p \in Procs, FileReport(p)
  PROVE  Register!RegisterNext
<1> DEFINE v == chosen[p]
           N == {n \in PointerNames :
                   n = "LATEST-VALIDATED" => Usable(report[p].status)}
<1>1. /\ v \in Validations /\ report[p] \in Reports
      /\ filed[v] = Absent /\ filed' = [filed EXCEPT ![v] = report[p]]
      /\ UNCHANGED <<spoiled, latest, validated>>
  BY DEF FileReport, Transition, IInv, ChosenInv, Holding, pointers
<1>2. filed \in [Validations -> Reports \union {Absent}]
  BY DEF IInv, TypeOK
<1>3. filed'[v] = report[p] /\ \A u \in Validations \ {v} : filed'[u] = filed[u]
  BY <1>1, <1>2
<1> HIDE DEF v
<1>4. ASSUME NEW n \in PointerNames
      PROVE  FiledFor(n)' = IF n \in N THEN FiledFor(n) \union {v} ELSE FiledFor(n)
  BY <1>1, <1>3 DEF FiledFor
<1>5. Granted' = [n \in PointerNames |-> IF n \in N THEN Granted[n] \union {v}
                                                  ELSE Granted[n]]
  BY <1>4 DEF Granted
<1>6. Named' = Named /\ spoiled' = spoiled
  BY <1>1 DEF Named
<1>7. Register!Commit(v, N)
  BY <1>5, <1>6 DEF Register!Commit, Granted, Named
<1>. QED  BY <1>1, <1>7 DEF Register!RegisterNext

\* A pointer that is moved to a report filed for it advances its register.
LEMMA AdvanceIsStep ==
  ASSUME TypeOK, NEW n \in PointerNames, NEW v \in FiledFor(n),
         UNCHANGED <<filed, spoiled>>, Named' = [Named EXCEPT ![n] = v]
  PROVE  Register!RegisterNext
<1>1. v \in Validations
  BY DEF FiledFor
<1>2. Granted' = Granted /\ v \in Granted[n]
  BY DEF Granted, FiledFor
<1>3. Named[n] \in Validations \union {NoValidation}
  BY DEF Named, TypeOK
<1> DEFINE Stamp == [u \in Validations |-> 0]
<1>4. Named[n] # NoValidation => Stamp[Named[n]] <= Stamp[v]
  BY <1>1, <1>3
<1> HIDE DEF Stamp
<1>5. Register!Advance(n, v)
  BY <1>2, <1>4 DEF Register!Advance, Granted, Named, Stamp
<1>. QED  BY <1>1, <1>5 DEF Register!RegisterNext

\* Moving a pointer advances its register.
LEMMA MovingAdvances ==
  ASSUME IInv, NEW p \in Procs, MoveLatest(p) \/ MoveValidated(p)
  PROVE  Register!RegisterNext
<1>1. /\ chosen[p] \in Validations /\ filed[chosen[p]] = report[p]
      /\ report[p] \in Reports /\ UNCHANGED <<filed, spoiled>>
  BY DEF MoveLatest, MoveValidated, Transition, IInv, ChosenInv, Holding,
         Agreeing, reports
<1>2. TypeOK
  BY DEF IInv
<1>3. CASE MoveLatest(p)
  <2>1. chosen[p] \in FiledFor("LATEST")
    BY <1>1 DEF FiledFor
  <2>2. Named' = [Named EXCEPT !["LATEST"] = chosen[p]]
    BY <1>3 DEF MoveLatest, Named, PointerNames
  <2>. QED  BY <1>1, <1>2, <2>1, <2>2, AdvanceIsStep DEF PointerNames
<1>4. CASE MoveValidated(p)
  <2>1. chosen[p] \in FiledFor("LATEST-VALIDATED")
    BY <1>1, <1>4 DEF FiledFor, MoveValidated, Transition, IInv, ChosenInv
  <2>2. Named' = [Named EXCEPT !["LATEST-VALIDATED"] = chosen[p]]
    BY <1>4 DEF MoveValidated, Named, PointerNames
  <2>. QED  BY <1>1, <1>2, <2>1, <2>2, AdvanceIsStep DEF PointerNames
<1>. QED  BY <1>3, <1>4

\* Spoiling a report loses it.
LEMMA SpoilingLoses ==
  ASSUME NEW v \in Spoilable, SpoilReport(v)
  PROVE  Register!RegisterNext
<1>1. Register!Lose(v)
  BY DEF SpoilReport, Register!Lose, FiledFor, pointers
<1>. QED  BY <1>1 DEF Register!RegisterNext

LEMMA RegisterStep ==
  ASSUME IInv, [Next]_vars
  PROVE  Register!RegisterNext \/ UNCHANGED <<Granted, spoiled, Named>>
<1> USE DEF reports, pointers
<1>1. ASSUME NEW p \in Procs, Working(p), ~ FileReport(p),
             ~ MoveLatest(p), ~ MoveValidated(p)
      PROVE  UNCHANGED <<filed, spoiled, latest, validated>>
  BY <1>1 DEF Working, ReuseReport, RunValidator, VerifyAgain, AdoptReport,
              CheckPointers
<1>2. ASSUME NEW p \in Procs, Fail(p) \/ \E v \in Validations : Begin(p, v)
      PROVE  UNCHANGED <<filed, spoiled, latest, validated>>
  BY <1>2 DEF Begin, Fail
<1>3. ASSUME NEW i \in Inspectors, Inspection(i)
      PROVE  UNCHANGED <<filed, spoiled, latest, validated>>
  BY <1>3 DEF Inspection, LookForLatest, LookForValidated, ReadLatest,
              ReadValidated
<1>4. UNCHANGED vars => UNCHANGED <<filed, spoiled, latest, validated>>
  BY DEF vars
<1>5. CASE Outside
  <2>1. ASSUME NEW c \in Damageable, DamageCapture(c)
        PROVE  UNCHANGED <<filed, spoiled, latest, validated>>
    BY <2>1 DEF DamageCapture
  <2>. QED  BY <1>5, <2>1, SpoilingLoses, Unseen DEF Outside
<1>. QED  BY <1>1, <1>2, <1>3, <1>4, <1>5, Cases, Unseen, FilingCommits,
             MovingAdvances

\* To whoever reads them, the two pointers are registers: one moves to filed
\* reports, the other to usable ones only.
THEOREM ValidationRefines == Spec => PointersAreRegisters
<1>1. Init => Register!RegisterInit
  BY DEF Init, Register!RegisterInit, FiledFor, PointerNames
<1>2. IInv /\ [Next]_vars => [Register!RegisterNext]_(Register!registerVars)
  BY RegisterStep DEF Granted, Named, Register!registerVars
<1>. QED  BY <1>1, <1>2, ValidationInductive, PTL
             DEF Spec, PointersAreRegisters, Register!RegisterSpec
=============================================================================
