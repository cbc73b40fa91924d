\* Two invocations and three identifiers, two of them of the same second, every
\* outcome of one source, two captures damaged on disk.
CONSTANTS
  Procs = {p1, p2}
  NoProc = NoProc
  c1 = c1  c2 = c2  c3 = c3
  Ids = {c1, c2, c3}
  Stamp <- StampThree
  NoCapture = NoCapture
  Sources = {s1}
  Required = {s1}
  Acquired = Acquired
  Tried <- AllOutcomes
  MaxDamage = 2
SPECIFICATION Spec
INVARIANT ReturnedIsNamed
PROPERTIES
  PointedIsImmutable
  RegisterSpec
  RefusedWhileActive
\* Every invocation ends, and then nothing is left to do.
CHECK_DEADLOCK FALSE
