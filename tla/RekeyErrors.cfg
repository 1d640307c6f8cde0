SPECIFICATION Spec
CONSTANTS
  k1 = k1
  k2 = k2
  v1 = v1
  v2 = v2
  Plain = Plain
  Garbage = Garbage
  NotCached = NotCached
  NoRec = NoRec
  Keys = {k1, k2}
  Vals = {v1, v2}
  NPage = 3
  SectorPages = 2
  Auth = TRUE
  Ops = {"encrypt", "rekey", "decrypt"}
  Env = {"crash", "busy", "pagererr", "wrongkey"}
SYMMETRY Symmetry
INVARIANTS
  TypeOK
  OneKey
  OwnJournalReadable
  SessionKeyCurrent
  CacheCoherent
PROPERTIES
  ImplementsStore
  PlaybackVerbatim
  UnreadableJournalKept
