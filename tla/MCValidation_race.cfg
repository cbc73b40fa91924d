\* Two invocations at the same time, nothing is damaged.
CONSTANTS
  c1 = c1  c2 = c2  v1 = v1  v2 = v2  p1 = p1  p2 = p2  p3 = p3
  Procs = {p1, p2}
  Inspectors = {}
  Validations = {v1, v2}
  Captures = {c1, c2}
  Contributing <- Aggregate
  Damageable = {}
  Spoilable = {}
  Absent = Absent
  NoValidation = NoValidation
SPECIFICATION Spec
INVARIANT ValidatedFollowsLatest
CHECK_DEADLOCK FALSE
