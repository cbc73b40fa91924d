\* Two invocations on two sources, one of them optional: every configured
\* set and every selection of sources.
CONSTANTS
  Procs = {p1, p2}
  NoProc = NoProc
  c1 = c1  c2 = c2  c3 = c3
  Ids = {c1, c2}
  Stamp <- StampTwo
  NoCapture = NoCapture
  Sources = {s1, s2}
  Required = {s1}
  Acquired = Acquired
  Tried <- AllOutcomes
  MaxDamage = 1
SYMMETRY ProcSymmetry
SPECIFICATION Spec
INVARIANTS
  AcquiredIsFullAndComplete
  SourcePointersNameSuccess
  RunningIsAttended
\* Every invocation ends, and then nothing is left to do.
CHECK_DEADLOCK FALSE
