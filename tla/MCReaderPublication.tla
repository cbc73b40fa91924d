------------------------ MODULE MCReaderPublication ------------------------
(***************************************************************************)
(* Instances of ReaderPublication for TLC.                                 *)
(***************************************************************************)
EXTENDS ReaderPublication, TLC

CONSTANTS c1, c2, k1, k2, k3, t1, t2

\* The first two keys belong to one capture: a renderer was revised.
Owner == [k \in Keys |-> IF k = k3 THEN c2 ELSE c1]

Built(k, t, s) == [key |-> k, tree |-> t, status |-> s]

\* Readers of two captures, one key rendered in two ways, incomplete ones.
SomeBuilds ==
  {Built(k, t1, "complete") : k \in Keys} \union
  {Built(k1, t2, "complete"), Built(k1, t1, "incomplete"),
   Built(k2, t1, "incomplete"), Built(k2, t2, "complete_with_warnings")}
=============================================================================
