---------------------------- MODULE MCValidation ----------------------------
(***************************************************************************)
(* Instances of Validation for TLC.                                        *)
(***************************************************************************)
EXTENDS Validation, TLC

CONSTANTS c1, c2, v1, v2, p1, p2, p3

\* v1 judges one capture, v2 combines the sources of two.
Aggregate == [v \in Validations |-> IF v = v1 THEN {c1} ELSE {c1, c2}]

ProcSymmetry == Permutations(Procs)
=============================================================================
