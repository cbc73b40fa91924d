\* Three invocations on two validations, an inspection; one capture and one
\* report may be damaged.
CONSTANTS
  c1 = c1  c2 = c2  v1 = v1  v2 = v2  p1 = p1  p2 = p2  p3 = p3
  Procs = {p1, p2, p3}
  Inspectors = {i1}
  Validations = {v1, v2}
  Captures = {c1, c2}
  Contributing <- Aggregate
  Damageable = {c2}
  Spoilable = {v2}
  Absent = Absent
  NoValidation = NoValidation
SYMMETRY ProcSymmetry
SPECIFICATION Spec
INVARIANTS
  ReturnedIsFiled
  FiledIsSound
  NoFalseAlarm
PROPERTIES
  ReportsAreFinal
  PointersAreRegisters
\* Every invocation ends.
CHECK_DEADLOCK FALSE
