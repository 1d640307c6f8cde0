----------------------------- MODULE CipherConfig -----------------------------
(***************************************************************************)
(* The configuration of the ciphers of one connection.  A connection has a *)
(* table of parameters, each with a value and a default.  The value serves *)
(* one key operation: reading it puts the default back.  Values are set    *)
(* through the C interface, the SQL function sqlite3mc_config, pragmas and *)
(* URI parameters, and read by whichever key operation comes next, on      *)
(* whichever schema.                                                       *)
(*                                                                         *)
(* A parameter is named by a slot: the cipher's number, or 0 for the table *)
(* "global", and a name.  Keys, salts and reading a value without changing *)
(* it are left out, as are the prefixes min: and max:, which change        *)
(* nothing.  Every cipher of the instance is registered.                   *)
(***************************************************************************)
EXTENDS Integers

CONSTANTS
  Ciphers,        \* numbers of the registered ciphers
  SQLCipher,      \* the number of "sqlcipher"
  DefaultCipher,  \* the cipher registered as default
  ParamsOf,       \* names of the parameters of each cipher
  LegacyWal,      \* compile-time symbol SQLITE3MC_LEGACY_WAL
  Inputs,         \* <<cipher, name, value>>: what a user sets
  Uris,           \* URIs of database files, see Uri
  Api,            \* the interfaces in use: "c", "sql", "pragma"
  Clauses,        \* the key clauses of ATTACH in use: "key", "none", "empty"
  None            \* no codec, or no URI

Schema == {"main", "aux"}
Global == {"cipher", "hmac_check", "mc_legacy_wal"}
Slots  == {<<0, p>> : p \in Global}
            \cup UNION {{<<c, p>> : p \in ParamsOf[c]} : c \in Ciphers}

Absent  == 0          \* the URI does not name a cipher
Unknown == -1         \* the URI names a cipher that is not registered
CODEC_COUNT_MAX == 16
SQLITE_MAX_PAGE_SIZE == 65536
IntMax == 2147483647

\* What a database URI says: key is TRUE when it has one of the parameters
\* key, hexkey and textkey.
Uri == [cipher : Ciphers \cup {Absent, Unknown}, hmac_check : 0 .. 1,
        mc_legacy_wal : {-1, 0, 1}, key : BOOLEAN,
        param : UNION {[P -> Int] : P \in SUBSET UNION {ParamsOf[c] : c \in Ciphers}}]

\* m_minValue .. m_maxValue
Legal(s) ==
  CASE s[2] = "cipher"                           -> 1 .. CODEC_COUNT_MAX
    [] s[2] \in {"hmac_check", "mc_legacy_wal", "hmac_use"} -> 0 .. 1
    [] s[2] = "legacy"                -> 0 .. (IF s[1] = SQLCipher THEN 4 ELSE 1)
    [] s[2] = "legacy_page_size"                 -> 0 .. SQLITE_MAX_PAGE_SIZE
    [] s[2] = "plaintext_header_size"            -> 0 .. 100
    [] OTHER                                     -> 1 .. IntMax

\* m_default of the table a connection starts with.
Initially(s) ==
  CASE s[2] = "cipher"                                   -> DefaultCipher
    [] s[2] = "mc_legacy_wal"                            -> LegacyWal
    [] s[2] \in {"hmac_check", "hmac_use"}               -> 1
    [] s[2] \in {"legacy", "plaintext_header_size"}      -> 0
    [] s[2] = "legacy_page_size"                         -> 4096
    [] OTHER                  -> IF s[1] = SQLCipher THEN 256000 ELSE 64007

ASSUME ConfigAssumption ==
  /\ Ciphers \subseteq 1 .. CODEC_COUNT_MAX
  /\ DefaultCipher \in Ciphers
  /\ \A c \in Ciphers : ParamsOf[c] \cap Global = {}
  /\ SQLCipher \in Ciphers /\ "legacy" \in ParamsOf[SQLCipher]
  /\ LegacyWal \in 0 .. 1
  /\ \A u \in Uris : u.cipher \in Ciphers \cup {Absent, Unknown}
  /\ None \notin Uris
  /\ \A i \in Inputs : i[1] \in Ciphers \cup {0}
  /\ Api \subseteq {"c", "sql", "pragma"}
  /\ Clauses \subseteq {"key", "none", "empty"}

VARIABLES
  open,      \* the connection is open
  value,     \* m_value of each slot
  default,   \* m_default of each slot
  codec,     \* settings of the codec of each schema
  attached,  \* schema aux is attached
  uri,       \* URI of its file
  clean,     \* history: slots not set since a key operation that reads them
  walAsked,  \* history: somebody has set mc_legacy_wal
  bySql      \* history: what the SQL function was given, of the values that
             \* checkParameterValue refuses

vars == <<open, value, default, codec, attached, uri, clean, walAsked, bySql>>

-----------------------------------------------------------------------------
(* The table, as a record of both functions while a call works on it.      *)

Table == [value |-> value, default |-> default]

Over(g, f) == [s \in DOMAIN f |-> IF s \in DOMAIN g THEN g[s] ELSE f[s]]

\* A prefix "default:" stores the value in both columns.
Store(t, prefix, g) ==
  [value   |-> Over(g, t.value),
   default |-> IF prefix = "default" THEN Over(g, t.default) ELSE t.default]

\* Slip: the default of hmac_check can be set like any other.
SetGlobalSlip(t, prefix, p, v) ==
  IF v \in Legal(<<0, p>>) /\ (p = "cipher" => v \in Ciphers)
    THEN Store(t, prefix, [s \in {<<0, p>>} |-> v])
    ELSE t

\* sqlite3mc_config, and the SQL function on a common parameter.
SetGlobal(t, prefix, p, v) ==
  IF v \in Legal(<<0, p>>) /\ (p = "cipher" => v \in Ciphers)
    THEN Store(t, IF p = "hmac_check" THEN "" ELSE prefix, [s \in {<<0, p>>} |-> v])
    ELSE t

CheckParameterValue(c, p, v) ==
  /\ p = "legacy_page_size" => v \in {0, 512, 1024, 2048, 4096, 8192, 16384, 32768, 65536}
  /\ p = "plaintext_header_size" /\ c = SQLCipher => v % 16 = 0

\* Slip: a value is not compared with the bounds of its parameter.
InRangeSlip(c, f) ==
  [s \in {<<c, p>> : p \in DOMAIN f \cap ParamsOf[c]} |-> f[s[2]]]

\* Those of the settings f of cipher c that are accepted, by slot.
InRange(c, f) ==
  LET P == {p \in DOMAIN f \cap ParamsOf[c] : f[p] \in Legal(<<c, p>>)}
  IN  [s \in {<<c, p>> : p \in P} |-> f[s[2]]]

\* Slip: only the bounds are checked.
CheckedSlip(c, f) == InRange(c, f)

Checked(c, f) ==
  InRange(c, [p \in {q \in DOMAIN f : CheckParameterValue(c, q, f[q])} |-> f[p]])

\* The parameters a version of SQLCipher stands for.
Version(v) == [legacy_page_size |-> IF v = 4 THEN 4096 ELSE 1024,
               kdf_iter |-> <<4000, 4000, 64000, 256000>>[v],
               hmac_use |-> IF v = 1 THEN 0 ELSE 1]

IsVersion(c, p, v) == c = SQLCipher /\ p = "legacy" /\ v \in 1 .. 4

WithVersion(t, c, prefix, p, v) ==
  IF IsVersion(c, p, v) THEN Store(t, prefix, Checked(c, Version(v))) ELSE t

\* sqlite3mc_config_cipher
SetCipher(t, c, prefix, p, v) ==
  Store(WithVersion(t, c, prefix, p, v), prefix, Checked(c, [q \in {p} |-> v]))

\* The SQL function on a parameter of a cipher.
SetSql(t, c, prefix, p, v) ==
  Store(WithVersion(t, c, prefix, p, v), prefix, InRange(c, [q \in {p} |-> v]))

\* sqlite3mcConfigureFromUri, for a URI that does not name an unknown cipher.
FromUri(t, u, prefix) ==
  LET c  == IF u.cipher = Absent THEN t.value[<<0, "cipher">>] ELSE u.cipher
      t1 == SetGlobal(t, prefix, "cipher", c)
      t2 == IF u.hmac_check = 0 THEN SetGlobal(t1, "", "hmac_check", 0) ELSE t1
      t3 == SetGlobal(t2, "", "mc_legacy_wal", IF u.mc_legacy_wal = 1 THEN 1 ELSE 0)
      t4 == IF "legacy" \in DOMAIN u.param
              THEN WithVersion(t3, c, prefix, "legacy", u.param["legacy"]) ELSE t3
  IN  Store(t4, prefix, Checked(c, u.param))

-----------------------------------------------------------------------------
(* Reading the table: a value that is read falls back to its default.      *)

TakeBack(t, S) ==
  [value   |-> [s \in Slots |-> IF s \in S THEN t.default[s] ELSE t.value[s]],
   default |-> t.default]

\* What m_allocateCipher reads for cipher c.
Reads(t, c) ==
  {<<c, p>> : p \in ParamsOf[c]}
    \ IF c = SQLCipher /\ t.value[<<c, "legacy">>] \in 1 .. 3
        THEN {<<c, "plaintext_header_size">>} ELSE {}

Allocate(t, c) == TakeBack(t, Reads(t, c))

\* The settings of a cipher just allocated.
ParamsRead(t, c) ==
  [p \in ParamsOf[c] |-> IF <<c, p>> \in Reads(t, c) THEN t.value[<<c, p>>] ELSE 0]

\* Slip: the two flags of the codec are read without putting the defaults back.
NewCodecSlip(t) ==
  LET c == t.value[<<0, "cipher">>]
  IN  [codec |-> [cipher |-> c, params |-> ParamsRead(t, c),
                  hmac_check |-> t.value[<<0, "hmac_check">>],
                  mc_legacy_wal |-> t.value[<<0, "mc_legacy_wal">>]],
       table |-> Allocate(TakeBack(t, {<<0, "cipher">>}), c)]

\* A codec whose first cipher is set up from the table, and the table then.
NewCodec(t) ==
  LET c == t.value[<<0, "cipher">>]
  IN  [codec |-> [cipher |-> c, params |-> ParamsRead(t, c),
                  hmac_check |-> t.value[<<0, "hmac_check">>],
                  mc_legacy_wal |-> t.value[<<0, "mc_legacy_wal">>]],
       table |-> Allocate(TakeBack(t, {<<0, p>> : p \in Global}), c)]

\* sqlite3mcCodecSetup: the second cipher is allocated, then overwritten.
CodecSetup(t) ==
  LET n == NewCodec(t)
  IN  [n EXCEPT !.table = Allocate(n.table, n.codec.cipher)]

\* The slots a key operation with the cipher that is set in t reads.
Used(t) == {<<0, p>> : p \in Global} \cup Reads(t, t.value[<<0, "cipher">>])

-----------------------------------------------------------------------------
Changed(t) == {s \in Slots : t.value[s] # value[s] \/ t.default[s] # default[s]}

SetTable(t) == value' = t.value /\ default' = t.default

AskedBy(u) == walAsked \/ u.mc_legacy_wal # -1

Init ==
  /\ open = FALSE
  /\ value = [s \in Slots |-> Initially(s)]
  /\ default = value
  /\ codec = [d \in Schema |-> None]
  /\ attached = FALSE
  /\ uri = None
  /\ clean = Slots
  /\ walAsked = FALSE
  /\ bySql = {}

\* openDatabase.  A URI with an unknown cipher gives an error code together
\* with a connection that is as good as any other.
Open(u) ==
  LET t == IF u.cipher = Unknown THEN Table ELSE FromUri(Table, u, "default")
      k == CodecSetup(t)
  IN  /\ ~open
      /\ open' = TRUE
      /\ IF u.key /\ u.cipher # Unknown
           THEN /\ SetTable(k.table)
                /\ codec' = [codec EXCEPT !["main"] = k.codec]
                /\ clean' = (clean \ Changed(t)) \cup Used(t)
           ELSE /\ SetTable(t)
                /\ clean' = clean \ Changed(t)
                /\ UNCHANGED codec
      /\ walAsked' = AskedBy(u)
      /\ UNCHANGED <<attached, uri, bySql>>

Close ==
  /\ open
  /\ open' = FALSE
  /\ value' = [s \in Slots |-> Initially(s)]
  /\ default' = value'
  /\ codec' = [d \in Schema |-> None]
  /\ attached' = FALSE
  /\ uri' = None
  /\ clean' = Slots
  /\ walAsked' = FALSE
  /\ bySql' = {}

\* One value is set.
Configure(t, p) ==
  /\ open
  /\ SetTable(t)
  /\ clean' = clean \ Changed(t)
  /\ walAsked' = (walAsked \/ p = "mc_legacy_wal")
  /\ UNCHANGED <<open, codec, attached, uri>>

ConfigC(prefix, c, p, v) ==
  /\ "c" \in Api
  /\ Configure(IF c = 0 THEN SetGlobal(Table, prefix, p, v)
                        ELSE SetCipher(Table, c, prefix, p, v), p)
  /\ UNCHANGED bySql

ConfigSql(prefix, c, p, v) ==
  /\ "sql" \in Api
  /\ Configure(IF c = 0 THEN SetGlobal(Table, prefix, p, v)
                        ELSE SetSql(Table, c, prefix, p, v), p)
  /\ bySql' = bySql \cup {i \in {<<c, p, v>>} : ~CheckParameterValue(c, p, v)}

\* sqlite3mcFileControlPragma: a parameter that is not common belongs to the
\* cipher that is set; only the pragmas of the main schema set defaults.
Pragma(d, c, p, v) ==
  LET prefix == IF d = "main" THEN "default" ELSE ""
  IN  /\ "pragma" \in Api
      /\ d = "aux" => attached
      /\ c \in {0, value[<<0, "cipher">>]}
      /\ p = "cipher" => v \in Ciphers
      /\ Configure(IF c = 0
                     THEN SetGlobal(Table, IF p = "cipher" THEN prefix ELSE "", p, v)
                     ELSE SetCipher(Table, c, prefix, p, v), p)
      /\ UNCHANGED bySql

-----------------------------------------------------------------------------
(* Key operations.                                                         *)

\* sqlite3mcCodecAttach with a key reads the table t.
ReadKeySettings(t) ==
  /\ SetTable(CodecSetup(t).table)
  /\ clean' = (clean \ Changed(t)) \cup Used(t)

\* sqlite3_key_v2 with a key.
KeyMain ==
  /\ open
  /\ ReadKeySettings(Table)
  /\ codec' = [codec EXCEPT !["main"] = CodecSetup(Table).codec]
  /\ UNCHANGED <<open, attached, uri, walAsked, bySql>>

KeyAux ==
  LET t == FromUri(Table, uri, "")
  IN  /\ open /\ attached
      /\ uri.cipher # Unknown
      /\ ReadKeySettings(t)
      /\ codec' = [codec EXCEPT !["aux"] = CodecSetup(t).codec]
      /\ walAsked' = AskedBy(uri)
      /\ UNCHANGED <<open, attached, uri, bySql>>

\* sqlite3_key_v2 with an empty key: has an effect on the main schema only.
DropKey ==
  /\ open
  /\ codec["main"] # None
  /\ codec' = [codec EXCEPT !["main"] = None]
  /\ UNCHANGED <<open, value, default, attached, uri, clean, walAsked, bySql>>

\* The end of ATTACH: a schema that cannot be read is detached again, but what
\* was read of the table stays read.
Attached(u, c, readable) ==
  /\ open /\ ~attached
  /\ attached' = readable
  /\ uri' = IF readable THEN u ELSE None
  /\ codec' = IF readable THEN [codec EXCEPT !["aux"] = c] ELSE codec
  /\ UNCHANGED <<open, bySql>>

\* ATTACH with the key of the key clause, or else with that of the URI.
AttachWithKey(u, clause, readable) ==
  LET t == FromUri(Table, u, "")
  IN  /\ clause = "key" \/ (clause = "none" /\ u.key)
      /\ u.cipher # Unknown
      /\ ReadKeySettings(t)
      /\ walAsked' = AskedBy(u)
      /\ Attached(u, CodecSetup(t).codec, readable)

\* sqlite3mcCodecQueryParameters drops the error of sqlite3_key_v2.
AttachUnkeyed(u, clause, readable) ==
  /\ clause = "none" /\ u.key
  /\ u.cipher = Unknown
  /\ Attached(u, None, readable)
  /\ UNCHANGED <<value, default, clean, walAsked>>

\* ATTACH without any key: a copy of the codec of the main database, whose two
\* ciphers are allocated before they are overwritten.
AttachCopy(u, clause, readable) ==
  LET c == codec["main"].cipher
  IN  /\ clause = "none" /\ ~u.key
      /\ codec["main"] # None
      /\ SetTable(Allocate(Allocate(Table, c), c))
      /\ clean' = clean \cup Reads(Table, c)
      /\ Attached(u, codec["main"], readable)
      /\ UNCHANGED walAsked

AttachPlain(u, clause, readable) ==
  /\ clause = "empty" \/ (clause = "none" /\ ~u.key /\ codec["main"] = None)
  /\ Attached(u, None, readable)
  /\ UNCHANGED <<value, default, clean, walAsked>>

Attach(u, clause, readable) ==
  \/ AttachWithKey(u, clause, readable)
  \/ AttachUnkeyed(u, clause, readable)
  \/ AttachCopy(u, clause, readable)
  \/ AttachPlain(u, clause, readable)

Detach ==
  /\ open /\ attached
  /\ attached' = FALSE
  /\ uri' = None
  /\ codec' = [codec EXCEPT !["aux"] = None]
  /\ UNCHANGED <<open, value, default, clean, walAsked, bySql>>

\* sqlite3_rekey_v2 with a key.  A rekey that fails keeps the ciphers of the
\* codec, but not its two flags.
Rekey(d, succeeds) ==
  LET old   == codec[d]
      n     == NewCodec(Table)
      fresh == old = None \/ old.cipher # n.codec.cipher
  IN  /\ open
      /\ d = "aux" => attached
      /\ clean' = clean \cup Used(Table)
      /\ IF succeeds
           THEN /\ codec' = [codec EXCEPT ![d] = n.codec]
                /\ SetTable(IF fresh THEN Allocate(n.table, n.codec.cipher)
                                     ELSE n.table)
           ELSE IF old = None
             THEN SetTable(n.table) /\ UNCHANGED codec
             ELSE /\ codec' = [codec EXCEPT ![d] =
                       [old EXCEPT !.hmac_check = n.codec.hmac_check,
                                   !.mc_legacy_wal = n.codec.mc_legacy_wal]]
                  /\ SetTable(IF fresh THEN Allocate(n.table, old.cipher)
                                       ELSE n.table)
      /\ UNCHANGED <<open, attached, uri, walAsked, bySql>>

\* sqlite3_rekey_v2 with an empty key.
Decrypt(d) ==
  /\ open
  /\ codec[d] # None
  /\ codec' = [codec EXCEPT ![d] = None]
  /\ UNCHANGED <<open, value, default, attached, uri, clean, walAsked, bySql>>

Next ==
  \/ \E u \in Uris : Open(u)
  \/ \E u \in Uris, clause \in Clauses, readable \in BOOLEAN :
       Attach(u, clause, readable)
  \/ \E i \in Inputs, prefix \in {"", "default"} :
       ConfigC(prefix, i[1], i[2], i[3]) \/ ConfigSql(prefix, i[1], i[2], i[3])
  \/ \E i \in Inputs, d \in Schema : Pragma(d, i[1], i[2], i[3])
  \/ \E d \in Schema : Decrypt(d)
  \/ \E d \in Schema, succeeds \in BOOLEAN : Rekey(d, succeeds)
  \/ KeyMain \/ KeyAux \/ DropKey \/ Detach \/ Close

Spec == Init /\ [][Next]_vars

-----------------------------------------------------------------------------
(* Properties.                                                             *)

\* The table has a legal value and a legal default for every parameter, and a
\* codec has a value of each parameter of its cipher.
TypeOK ==
  /\ open \in BOOLEAN /\ attached \in BOOLEAN /\ walAsked \in BOOLEAN
  /\ DOMAIN value = Slots /\ DOMAIN default = Slots
  /\ \A s \in Slots : value[s] \in Legal(s) /\ default[s] \in Legal(s)
  /\ \A d \in Schema : codec[d] # None =>
       /\ codec[d].cipher \in Ciphers
       /\ DOMAIN codec[d].params = ParamsOf[codec[d].cipher]
  /\ attached <=> uri # None
  /\ clean \subseteq Slots

\* What is set for one key operation serves one key operation: a parameter that
\* nobody has set since a key operation read it has its default.  It is about
\* sqlite3mcGetCipherParameter and sqlite3mcGetCipherType, called while ciphers
\* are allocated for one schema or another, on every exit of the operations.
NoStaleSetting == \A s \in Slots : s \in clean => value[s] = default[s]

\* A codec has settings its cipher cannot work with only if the SQL function
\* gave its connection that very value of that parameter: no URI, pragma, C
\* call, version of SQLCipher, default, copy or failed operation brings them
\* about (checkParameterValue, on the way from each interface into a codec).
UncheckedOnlyBySql ==
  \A d \in Schema : codec[d] # None =>
    \A p \in DOMAIN codec[d].params :
      \/ CheckParameterValue(codec[d].cipher, p, codec[d].params[p])
      \/ <<codec[d].cipher, p, codec[d].params[p]>> \in bySql

\* What the CHANGELOG says of plaintext_header_size and legacy_page_size holds
\* of every codec, however it was configured.  The code does not keep it:
\* sqlite3mcConfigParams stores whatever is within the bounds.
SettingsValid ==
  \A d \in Schema : codec[d] # None =>
    \A p \in DOMAIN codec[d].params :
      CheckParameterValue(codec[d].cipher, p, codec[d].params[p])

\* The check of the page authentication is off for a database only if somebody
\* asked for it since the last key operation, in its URI, or for the main
\* database the codec is copied from (parameter hmac_check, whose default
\* sqlite3mc_config protects).
HmacOffOnlyIfAsked ==
  [][\A d \in Schema :
       codec'[d] # codec[d] /\ codec'[d] # None /\ codec'[d].hmac_check = 0 =>
         \/ <<0, "hmac_check">> \notin clean
         \/ d = "aux" /\ uri' # None /\ uri'.hmac_check = 0
         \/ d = "aux" /\ codec'[d] = codec["main"]
         \/ ~open]_vars

\* The default of mc_legacy_wal is that of the build (SQLITE3MC_LEGACY_WAL): a
\* codec has it as long as neither a URI nor a call says otherwise.
LegacyWalDefault ==
  \A d \in Schema :
    codec[d] # None /\ ~walAsked => codec[d].mc_legacy_wal = LegacyWal

\* An ATTACH that succeeds has used the key of its URI
\* (sqlite3mcHandleAttachKey, for statements without key clause).
UriKeyIsUsed ==
  [][~attached /\ attached' /\ uri'.key => codec'["aux"] # None]_vars
=============================================================================
