SPECIFICATION Spec
CONSTANTS
  k1 = k1
  k2 = k2
  v1 = v1
  v2 = v2
  Plain = Plain
  Garbage = Garbage
  NotCached = NotCached
  NoRec = NoRec
  Keys = {k1, k2}
  Vals = {v1, v2}
  NPage = 3
  SectorPages = 1
  Auth = FALSE
  Ops = {"rekey"}
  Env = {"crash", "busy", "nokey", "wrongkey"}
SYMMETRY Symmetry
PROPERTY
  HotJournalRestored
