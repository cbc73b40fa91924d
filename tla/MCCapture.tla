----------------------------- MODULE MCCapture -----------------------------
(***************************************************************************)
(* Instances of Capture for TLC.                                           *)
(***************************************************************************)
EXTENDS CaptureInv, TLC

CONSTANTS c1, c2, c3

\* Two captures planned in the same second and one in the next.
StampThree == (c1 :> 1) @@ (c2 :> 1) @@ (c3 :> 2)

StampTwo == (c1 :> 1) @@ (c2 :> 2)

StampOne == c1 :> 1

AllOutcomes == Outcomes

\* Invocations are interchangeable.
ProcSymmetry == Permutations(Procs)
=============================================================================
