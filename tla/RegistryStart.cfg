SPECIFICATION FairSpec
CONSTANTS
  t1 = t1
  t2 = t2
  t3 = t3
  Threads = {t1, t2}
  Builtins <- TwoBuiltins
  DefaultBuiltin = "chacha20"
  Extra = {"own"}
  CODEC_COUNT_MAX = 3
  MaxFails = 1
  RegisterAnytime = FALSE
  NoName = NoName
  Nobody = Nobody
INVARIANTS
  TypeOK
  InitMutexKept
  InitComplete
  TablesAgree
  CopyUsable
PROPERTIES
  NumbersKept
  CallsReturn
