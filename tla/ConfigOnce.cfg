SPECIFICATION Spec
CONSTANTS
  Ciphers = {1, 2}
  SQLCipher = 2
  DefaultCipher = 1
  ParamsOf <- SomeParams
  LegacyWal = 0
  Inputs <- SomeInputs
  Uris <- SomeUris
  Api = {"c", "sql", "pragma"}
  Clauses = {"key", "none", "empty"}
  None = None
INVARIANTS
  TypeOK
  NoStaleSetting
  UncheckedOnlyBySql
PROPERTY
  HmacOffOnlyIfAsked
