SPECIFICATION Spec
CONSTANTS
  p1 = p1
  p2 = p2
  p3 = p3
  v1 = v1
  v2 = v2
  Pages = {p1, p2, p3}
  Vals = {v1, v2}
  Kinds = {"plain", "bare", "auth"}
  Modes = {"delete", "wal"}
  Unguarded = FALSE
  MaxFaults = 2
  None = None
  Garbage = Garbage
INVARIANTS
  TypeOK
  CommittedKept
  CacheTrue
