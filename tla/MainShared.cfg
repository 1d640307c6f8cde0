SPECIFICATION FairSpec
CONSTANTS
  t1 = t1
  t2 = t2
  c1 = c1
  c2 = c2
  n1 = n1
  n2 = n2
  k1 = k1
  k2 = k2
  Threads = {t1, t2}
  Conns = {c1, c2}
  Names = {n1, n2}
  Codecs = {k1, k2}
  Careless = {}
  Null = Null
  Nobody = Nobody
INVARIANTS
  TypeOK
  ListIsOpenFiles
  FindsOwn
  CodecInUse
  CodecsOwned
  VfsKept
PROPERTIES
  OnlyRefusedLost
  CallsReturn
