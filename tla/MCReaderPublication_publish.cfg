\* Two invocations after an earlier one, a lookup, two keys of which one may
\* be damaged; fairness.
CONSTANTS
  c1 = c1  c2 = c2  k1 = k1  k2 = k2  k3 = k3  t1 = t1  t2 = t2
  Captures = {c1, c2}
  Trees = {t1, t2}
  CaptureOf <- Owner
  Free = Free  NoKey = NoKey  Absent = Absent  Damaged = Damaged
  NoBuild = NoBuild
  Procs = {p1, p2}
  Readers = {r1}
  Keys = {k1, k2}
  Rendered <- SomeBuilds
  Damageable = {k2}
SPECIFICATION FairSpec
INVARIANTS
  NamedIsPublished
  OneBuildPerKey
  SwitchedTogether
  AgreeUnlessCut
PROPERTIES
  NamedStays
  PublicationEnds
\* Every invocation ends.
CHECK_DEADLOCK FALSE
