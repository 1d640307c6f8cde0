SPECIFICATION Spec
CONSTANTS
  p1 = p1
  p2 = p2
  p3 = p3
  v1 = v1
  v2 = v2
  Pages = {p1, p2, p3}
  Vals = {v1, v2}
  Kinds = {"plain", "bare"}
  Modes = {"wal"}
  Unguarded = TRUE
  MaxFaults = 1
  None = None
  Garbage = Garbage
INVARIANT
  CommittedKept
