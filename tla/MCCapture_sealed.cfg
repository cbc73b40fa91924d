\* One invocation is enough: an error after the manifest has its name.
CONSTANTS
  Procs = {p1}
  NoProc = NoProc
  c1 = c1  c2 = c2  c3 = c3
  Ids = {c1}
  Stamp <- StampOne
  NoCapture = NoCapture
  Sources = {s1}
  Required = {s1}
  Acquired = Acquired
  Tried <- AllOutcomes
  MaxDamage = 0
SPECIFICATION Spec
PROPERTIES
  SealedIsImmutable
\* Every invocation ends, and then nothing is left to do.
CHECK_DEADLOCK FALSE
