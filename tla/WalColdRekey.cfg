SPECIFICATION Spec
CONSTANTS
  c1 = c1  c2 = c2  v1 = v1  v2 = v2  p1 = p1  p2 = p2  s1 = s1  s2 = s2
  Conn <- MCConn
  NumPages = 2
  Vals <- MCVals
  Garbage = Garbage
  Pass <- MCPass
  None = None
  Salts <- MCSalts
  Header = Header
  Modes <- AuthNewOnly
  Careful = TRUE
  ColdRekey = TRUE
  MaxFrames = 3
SYMMETRY Symmetry
INVARIANT HolderReads
