--------------------------- MODULE CipherConfigProofs ---------------------------
(***************************************************************************)
(* Theorems about CipherConfig, for every set of ciphers, of parameters    *)
(* and of URIs: a value that is set for one key operation serves no later  *)
(* one; a codec has a value its cipher cannot work with only if the SQL    *)
(* function was given it; and the check of the page authentication is off  *)
(* only where that was asked for.                                          *)
(***************************************************************************)
EXTENDS CipherConfig, TLAPS

\* Slot s of the table t has its default.
AtDefault(t, s) == t.value[s] = t.default[s]

-----------------------------------------------------------------------------
(* Reading puts defaults back and changes nothing else.                    *)

\* What is taken back has its default, and so has what had it before
\* (sqlite3mcGetCipherParameter).
LEMMA TakeBackAtDefault ==
  ASSUME NEW t, NEW S, NEW s \in Slots, AtDefault(t, s) \/ s \in S
  PROVE  AtDefault(TakeBack(t, S), s)
BY DEF TakeBack, AtDefault

\* Allocating a cipher leaves its own parameters, and all that had their
\* default, at the default (m_allocateCipher).
LEMMA AllocateAtDefault ==
  ASSUME NEW t, NEW c, NEW s \in Slots, AtDefault(t, s) \/ s \in Reads(t, c)
  PROVE  AtDefault(Allocate(t, c), s)
BY TakeBackAtDefault DEF Allocate

\* Setting up the first cipher of a codec leaves every slot it uses at its
\* default (sqlite3mcSetupWriteCipher).
LEMMA NewCodecAtDefault ==
  ASSUME NEW t, NEW s \in Slots, AtDefault(t, s) \/ s \in Used(t)
  PROVE  AtDefault(NewCodec(t).table, s)
<1> DEFINE c  == t.value[<<0, "cipher">>]
           G  == {<<0, p>> : p \in Global}
           t1 == TakeBack(t, G)
<1>1. NewCodec(t).table = Allocate(t1, c)
  BY DEF NewCodec
<1>2. CASE AtDefault(t, s) \/ s \in G
  <2>1. AtDefault(t1, s)
    BY <1>2, TakeBackAtDefault
  <2> QED
    BY <2>1, <1>1, AllocateAtDefault
<1>3. CASE s \in Reads(t, c) /\ s \notin G /\ ~AtDefault(t, s)
  <2>1. c = SQLCipher => <<c, "legacy">> \in Slots
    BY ConfigAssumption DEF Slots
  <2>2. <<c, "legacy">> \notin G
    BY DEF Global
  <2>3. c = SQLCipher => t1.value[<<c, "legacy">>] = t.value[<<c, "legacy">>]
    BY <2>1, <2>2 DEF TakeBack
  <2>4. s \in Reads(t1, c)
    BY <1>3, <2>3 DEF Reads
  <2> QED
    BY <2>4, <1>1, AllocateAtDefault
<1> QED
  BY <1>2, <1>3 DEF Used

\* The same of a codec with both ciphers (sqlite3mcCodecSetup).
LEMMA CodecSetupAtDefault ==
  ASSUME NEW t, NEW s \in Slots, AtDefault(t, s) \/ s \in Used(t)
  PROVE  AtDefault(CodecSetup(t).table, s)
<1>1. CodecSetup(t).table = Allocate(NewCodec(t).table, NewCodec(t).codec.cipher)
  BY DEF CodecSetup, NewCodec
<1> QED
  BY <1>1, NewCodecAtDefault, AllocateAtDefault

-----------------------------------------------------------------------------
(* The steps.                                                              *)

\* A step that stores the table t, and counts as clean only what was clean and
\* is as before, keeps the property.
LEMMA StoredKeeps ==
  ASSUME NoStaleSetting, NEW t, NEW s \in Slots, s \in clean \ Changed(t)
  PROVE  AtDefault(t, s)
BY DEF NoStaleSetting, Changed, AtDefault

\* It is enough that the table a step stores has the default in every slot that
\* is clean afterwards (every handler ends with one table).
LEMMA TableStep ==
  ASSUME NEW t, SetTable(t),
         \A s \in Slots : s \in clean' => AtDefault(t, s)
  PROVE  NoStaleSetting'
BY DEF SetTable, NoStaleSetting, AtDefault

\* A key operation reads all that it uses, whether or not it was set just before
\* (sqlite3mcCodecAttach after sqlite3mcConfigureFromUri).
LEMMA KeyStep ==
  ASSUME NoStaleSetting, NEW t, SetTable(CodecSetup(t).table),
         clean' = (clean \ Changed(t)) \cup Used(t)
  PROVE  NoStaleSetting'
<1>1. ASSUME NEW s \in Slots, s \in clean'
      PROVE  AtDefault(CodecSetup(t).table, s)
  <2>1. AtDefault(t, s) \/ s \in Used(t)
    BY <1>1, StoredKeeps
  <2> QED
    BY <2>1, CodecSetupAtDefault
<1> QED
  BY <1>1, TableStep

\* Setting a value makes no other slot stale (sqlite3mc_config,
\* sqlite3mc_config_cipher and the SQL function).
LEMMA ConfigureStep ==
  ASSUME NoStaleSetting, NEW t, NEW p, Configure(t, p)
  PROVE  NoStaleSetting'
<1>1. ASSUME NEW s \in Slots, s \in clean'
      PROVE  AtDefault(t, s)
  BY <1>1, StoredKeeps DEF Configure
<1>2. SetTable(t)
  BY DEF Configure
<1> QED
  BY <1>1, <1>2, TableStep

\* What a rekey reads, with or without the second cipher it allocates for
\* cipher c.
LEMMA RekeyStep ==
  ASSUME NoStaleSetting, NEW c, NEW t, SetTable(t),
         clean' = clean \cup Used(Table),
         t \in {NewCodec(Table).table, Allocate(NewCodec(Table).table, c)}
  PROVE  NoStaleSetting'
<1>1. ASSUME NEW s \in Slots, s \in clean'
      PROVE  AtDefault(t, s)
  <2>1. AtDefault(Table, s) \/ s \in Used(Table)
    BY <1>1 DEF NoStaleSetting, AtDefault, Table
  <2>2. AtDefault(NewCodec(Table).table, s)
    BY <2>1, NewCodecAtDefault
  <2> QED
    BY <2>2, AllocateAtDefault
<1> QED
  BY <1>1, TableStep

\* A rekey reads what it uses, on success and on failure alike
\* (sqlite3_rekey_v2).
LEMMA RekeyKeeps ==
  ASSUME NoStaleSetting, NEW d \in Schema, NEW succeeds \in BOOLEAN,
         Rekey(d, succeeds)
  PROVE  NoStaleSetting'
<1> DEFINE n == NewCodec(Table)
<1>1. clean' = clean \cup Used(Table)
  BY DEF Rekey
<1>2. PICK t, c : SetTable(t) /\ t \in {n.table, Allocate(n.table, c)}
  <2>1. CASE succeeds
    BY <2>1 DEF Rekey
  <2>2. CASE ~succeeds
    BY <2>2 DEF Rekey
  <2> QED
    BY <2>1, <2>2
<1> QED
  BY <1>1, <1>2, RekeyStep

\* ATTACH without key reads the parameters of the main database's cipher, and
\* them only (sqlite3mcCodecCopy).
LEMMA CopyKeeps ==
  ASSUME NoStaleSetting, NEW u, NEW clause, NEW readable,
         AttachCopy(u, clause, readable)
  PROVE  NoStaleSetting'
<1> DEFINE c == codec["main"].cipher
           t == Allocate(Table, c)
<1>1. SetTable(Allocate(t, c)) /\ clean' = clean \cup Reads(Table, c)
  BY DEF AttachCopy
<1>2. ASSUME NEW s \in Slots, s \in clean'
      PROVE  AtDefault(Allocate(t, c), s)
  <2>1. AtDefault(Table, s) \/ s \in Reads(Table, c)
    BY <1>1, <1>2 DEF NoStaleSetting, AtDefault, Table
  <2>2. AtDefault(t, s)
    BY <2>1, AllocateAtDefault
  <2> QED
    BY <2>2, AllocateAtDefault
<1> QED
  BY <1>1, <1>2, TableStep

\* Opening stores what the URI says and reads it if the URI has a key
\* (sqlite3mcHandleMainKey).
LEMMA OpenKeeps ==
  ASSUME NoStaleSetting, NEW u \in Uris, Open(u)
  PROVE  NoStaleSetting'
<1> DEFINE t == IF u.cipher = Unknown THEN Table ELSE FromUri(Table, u, "default")
<1>1. CASE u.key /\ u.cipher # Unknown
  <2>1. SetTable(CodecSetup(t).table) /\ clean' = (clean \ Changed(t)) \cup Used(t)
    BY <1>1 DEF Open
  <2> QED
    BY <2>1, KeyStep
<1>2. CASE ~(u.key /\ u.cipher # Unknown)
  <2>1. SetTable(t) /\ clean' = clean \ Changed(t)
    BY <1>2 DEF Open
  <2> HIDE DEF t
  <2> QED
    BY <2>1, StoredKeeps, TableStep
<1> QED
  BY <1>1, <1>2

\* Every step of a connection keeps it.
LEMMA NextKeeps ==
  ASSUME NoStaleSetting, [Next]_vars
  PROVE  NoStaleSetting'
<1>1. ASSUME NEW u \in Uris, Open(u)
      PROVE  NoStaleSetting'
  BY <1>1, OpenKeeps
<1>2. ASSUME NEW u \in Uris, NEW clause \in Clauses, NEW readable \in BOOLEAN,
             Attach(u, clause, readable)
      PROVE  NoStaleSetting'
  <2>1. CASE AttachWithKey(u, clause, readable)
    <3> DEFINE t == FromUri(Table, u, "")
    <3>1. ReadKeySettings(t)
      BY <2>1 DEF AttachWithKey
    <3> QED
      BY <3>1, KeyStep DEF ReadKeySettings
  <2>2. CASE AttachUnkeyed(u, clause, readable)
    BY <2>2 DEF AttachUnkeyed, NoStaleSetting
  <2>3. CASE AttachCopy(u, clause, readable)
    BY <2>3, CopyKeeps
  <2>4. CASE AttachPlain(u, clause, readable)
    BY <2>4 DEF AttachPlain, NoStaleSetting
  <2> QED
    BY <1>2, <2>1, <2>2, <2>3, <2>4 DEF Attach
<1>3. ASSUME NEW prefix, NEW i \in Inputs,
             \/ ConfigC(prefix, i[1], i[2], i[3])
             \/ ConfigSql(prefix, i[1], i[2], i[3])
      PROVE  NoStaleSetting'
  <2>1. PICK t, p : Configure(t, p)
    BY <1>3 DEF ConfigC, ConfigSql
  <2> QED
    BY <2>1, ConfigureStep
<1>4. ASSUME NEW d \in Schema, NEW i \in Inputs, Pragma(d, i[1], i[2], i[3])
      PROVE  NoStaleSetting'
  <2>1. PICK t, p : Configure(t, p)
    BY <1>4 DEF Pragma
  <2> QED
    BY <2>1, ConfigureStep
<1>5. ASSUME NEW d \in Schema, Decrypt(d)
      PROVE  NoStaleSetting'
  BY <1>5 DEF Decrypt, NoStaleSetting
<1>6. ASSUME NEW d \in Schema, NEW succeeds \in BOOLEAN, Rekey(d, succeeds)
      PROVE  NoStaleSetting'
  BY <1>6, RekeyKeeps
<1>7. CASE KeyMain
  BY <1>7, KeyStep DEF KeyMain, ReadKeySettings
<1>8. CASE KeyAux
  <2> DEFINE t == FromUri(Table, uri, "")
  <2>1. ReadKeySettings(t)
    BY <1>8 DEF KeyAux
  <2> QED
    BY <2>1, KeyStep DEF ReadKeySettings
<1>9. CASE DropKey
  BY <1>9 DEF DropKey, NoStaleSetting
<1>10. CASE Detach
  BY <1>10 DEF Detach, NoStaleSetting
<1>11. CASE Close
  BY <1>11 DEF Close, NoStaleSetting
<1>12. CASE UNCHANGED vars
  BY <1>12 DEF vars, NoStaleSetting
<1> QED
  BY <1>1, <1>2, <1>3, <1>4, <1>5, <1>6, <1>7, <1>8, <1>9, <1>10, <1>11, <1>12
     DEF Next

\* What is set for one key operation serves one key operation, whatever the
\* ciphers, their parameters and the interfaces in use (the values a connection
\* keeps between sqlite3mc_config and the keys that read them).
THEOREM SettingsServeOnce == Spec => []NoStaleSetting
<1>1. Init => NoStaleSetting
  BY DEF Init, NoStaleSetting
<1>2. NoStaleSetting /\ [Next]_vars => NoStaleSetting'
  BY NextKeeps
<1> QED
  BY <1>1, <1>2, PTL DEF Spec

-----------------------------------------------------------------------------
(* Every interface that stores a value compares it with the bounds of its  *)
(* parameter, and the three that call checkParameterValue or set one of    *)
(* its versions with that as well; the SQL function does not.  What fits   *)
(* is therefore said relative to a set B of settings: those that function  *)
(* was given.                                                              *)

\* Parameter p of cipher c is v, which its cipher can work with or is one of B.
Accepted(c, p, v, B) == CheckParameterValue(c, p, v) \/ <<c, p, v>> \in B

\* Slot s may hold v.
Fits(s, v, B) ==
  /\ v \in Legal(s)
  /\ s = <<0, "cipher">> => v \in Ciphers
  /\ Accepted(s[1], s[2], v, B)

\* A table as a connection has it; the default of hmac_check is its first.
TableFits(t, B) ==
  /\ DOMAIN t.value = Slots /\ DOMAIN t.default = Slots
  /\ \A s \in Slots : Fits(s, t.value[s], B) /\ Fits(s, t.default[s], B)
  /\ t.default[<<0, "hmac_check">>] = 1

\* A codec as m_allocateCipher and sqlite3mcCodecSetup leave it.
CodecFits(k, B) ==
  /\ k = [cipher |-> k.cipher, params |-> k.params,
          hmac_check |-> k.hmac_check, mc_legacy_wal |-> k.mc_legacy_wal]
  /\ k.cipher \in Ciphers
  /\ DOMAIN k.params = ParamsOf[k.cipher]
  /\ \A p \in DOMAIN k.params : Accepted(k.cipher, p, k.params[p], B)

\* The inductive invariant: a table and codecs that fit.
IInv ==
  /\ open \in BOOLEAN /\ attached \in BOOLEAN /\ walAsked \in BOOLEAN
  /\ TableFits(Table, bySql)
  /\ DOMAIN codec = Schema
  /\ \A d \in Schema : codec[d] = None \/ CodecFits(codec[d], bySql)
  /\ attached <=> uri # None
  /\ uri # None => uri \in Uris
  /\ clean \subseteq Slots

\* The common parameters and those of a cipher have slots, which differ.
LEMMA SlotNames ==
  /\ \A p \in Global : <<0, p>> \in Slots
  /\ \A c \in Ciphers : \A p \in ParamsOf[c] : <<c, p>> \in Slots
  /\ \A s \in Slots : \/ s[1] = 0 /\ s[2] \in Global /\ s = <<0, s[2]>>
                      \/ /\ s[1] \in Ciphers /\ s[2] \in ParamsOf[s[1]]
                         /\ s[2] \notin Global /\ s = <<s[1], s[2]>>
  /\ 0 \notin Ciphers /\ Ciphers \subseteq 1 .. 16
<1>1. 0 \notin Ciphers /\ Ciphers \subseteq 1 .. 16
  BY ConfigAssumption DEF CODEC_COUNT_MAX
<1>2. \A p \in Global : <<0, p>> \in Slots
  BY DEF Slots
<1>3. \A c \in Ciphers : \A p \in ParamsOf[c] : <<c, p>> \in Slots
  BY DEF Slots
<1>4. ASSUME NEW s \in Slots
      PROVE  \/ s[1] = 0 /\ s[2] \in Global /\ s = <<0, s[2]>>
             \/ /\ s[1] \in Ciphers /\ s[2] \in ParamsOf[s[1]]
                /\ s[2] \notin Global /\ s = <<s[1], s[2]>>
  <2>1. CASE \E p \in Global : s = <<0, p>>
    BY <2>1
  <2>2. CASE \E c \in Ciphers : \E p \in ParamsOf[c] : s = <<c, p>>
    BY <2>2, ConfigAssumption
  <2> QED
    BY <2>1, <2>2 DEF Slots
<1> QED
  BY <1>1, <1>2, <1>3, <1>4

\* The default a connection starts with is one it accepts
\* (the m_default columns of commonParams and of the ciphers' tables).
LEMMA InitiallyFits ==
  ASSUME NEW B, NEW s \in Slots
  PROVE  Fits(s, Initially(s), B)
<1>1. DefaultCipher \in 1 .. CODEC_COUNT_MAX /\ DefaultCipher \in Ciphers /\ LegacyWal \in 0 .. 1
  BY ConfigAssumption
<1>2. /\ SQLITE_MAX_PAGE_SIZE \in Int /\ 4096 <= SQLITE_MAX_PAGE_SIZE
      /\ IntMax \in Int /\ 64007 <= IntMax /\ 256000 <= IntMax
  BY DEF SQLITE_MAX_PAGE_SIZE, IntMax
<1>3. Initially(s) \in Legal(s)
  <2>1. CASE s[2] = "cipher"
    <3>1. Initially(s) = DefaultCipher
      BY <2>1 DEF Initially
    <3>2. \A v \in 1 .. CODEC_COUNT_MAX : v \in Legal(s)
      BY <2>1 DEF Legal
    <3> QED
      BY <1>1, <3>1, <3>2
  <2>2. CASE s[2] = "mc_legacy_wal"
    <3>1. Initially(s) = LegacyWal
      BY <2>2 DEF Initially
    <3>2. \A v \in 0 .. 1 : v \in Legal(s)
      BY <2>2 DEF Legal
    <3> QED
      BY <1>1, <3>1, <3>2
  <2>3. CASE s[2] \in {"hmac_check", "hmac_use"}
    <3>1. Initially(s) = 1
      BY <2>3 DEF Initially
    <3>2. \A v \in 0 .. 1 : v \in Legal(s)
      BY <2>3 DEF Legal
    <3> QED
      BY <3>1, <3>2
  <2>4. CASE s[2] = "legacy"
    <3>1. Initially(s) = 0
      BY <2>4 DEF Initially
    <3>2. \A v \in 0 .. 1 : v \in Legal(s)
      BY <2>4 DEF Legal
    <3> QED
      BY <3>1, <3>2
  <2>5. CASE s[2] = "legacy_page_size"
    <3>1. Initially(s) = 4096
      BY <2>5 DEF Initially
    <3>2. \A v \in 0 .. SQLITE_MAX_PAGE_SIZE : v \in Legal(s)
      BY <2>5 DEF Legal
    <3> QED
      BY <1>2, <3>1, <3>2
  <2>6. CASE s[2] = "plaintext_header_size"
    <3>1. Initially(s) = 0
      BY <2>6 DEF Initially
    <3>2. \A v \in 0 .. 100 : v \in Legal(s)
      BY <2>6 DEF Legal
    <3> QED
      BY <3>1, <3>2
  <2>7. CASE s[2] \notin {"cipher", "mc_legacy_wal", "hmac_check", "hmac_use", "legacy",
                          "legacy_page_size", "plaintext_header_size"}
    <3>1. Initially(s) \in {256000, 64007}
      BY <2>7 DEF Initially
    <3>2. \A v \in 1 .. IntMax : v \in Legal(s)
      BY <2>7 DEF Legal
    <3> QED
      BY <1>2, <3>1, <3>2
  <2> QED
    BY <2>1, <2>2, <2>3, <2>4, <2>5, <2>6, <2>7
<1>4. s = <<0, "cipher">> => Initially(s) \in Ciphers
  BY <1>1 DEF Initially
<1>5. Accepted(s[1], s[2], Initially(s), B)
  <2>1. s[2] = "legacy_page_size" => Initially(s) = 4096
    BY DEF Initially
  <2>2. s[2] = "plaintext_header_size" => Initially(s) = 0
    BY DEF Initially
  <2> QED
    BY <2>1, <2>2 DEF CheckParameterValue, Accepted
<1> QED
  BY <1>3, <1>4, <1>5 DEF Fits

\* Storing values that fit leaves a table that fits, unless they are a new
\* default of hmac_check.
LEMMA StoreFits ==
  ASSUME NEW B, NEW t, NEW prefix, NEW g, TableFits(t, B),
         \A s \in DOMAIN g : s \in Slots => Fits(s, g[s], B),
         prefix = "default" => <<0, "hmac_check">> \notin DOMAIN g
  PROVE  TableFits(Store(t, prefix, g), B)
<1>1. <<0, "hmac_check">> \in Slots
  BY SlotNames DEF Global
<1>2. /\ DOMAIN Over(g, t.value) = Slots
      /\ \A s \in Slots : Fits(s, Over(g, t.value)[s], B)
  BY DEF Over, TableFits
<1>3. /\ DOMAIN Over(g, t.default) = Slots
      /\ \A s \in Slots : Fits(s, Over(g, t.default)[s], B)
  BY DEF Over, TableFits
<1>4. prefix = "default" => Over(g, t.default)[<<0, "hmac_check">>] = 1
  BY <1>1 DEF Over, TableFits
<1>5. CASE prefix = "default"
  BY <1>2, <1>3, <1>4, <1>5 DEF Store, TableFits
<1>6. CASE prefix # "default"
  BY <1>2, <1>6 DEF Store, TableFits
<1> QED
  BY <1>5, <1>6

\* sqlite3mc_config stores what fits, and no default of hmac_check.
LEMMA SetGlobalFits ==
  ASSUME NEW B, NEW t, NEW prefix, NEW p, NEW v, TableFits(t, B)
  PROVE  TableFits(SetGlobal(t, prefix, p, v), B)
<1> DEFINE g == [s \in {<<0, p>>} |-> v]
           x == IF p = "hmac_check" THEN "" ELSE prefix
<1>1. CASE v \in Legal(<<0, p>>) /\ (p = "cipher" => v \in Ciphers)
  <2>1. ASSUME NEW s \in DOMAIN g, s \in Slots
        PROVE  Fits(s, g[s], B)
    <3>1. s = <<0, p>> /\ g[s] = v /\ p \in Global
      BY <2>1, SlotNames
    <3>2. Accepted(s[1], s[2], v, B)
      BY <3>1 DEF CheckParameterValue, Accepted, Global
    <3> QED
      BY <1>1, <3>1, <3>2 DEF Fits
  <2>2. x = "default" => <<0, "hmac_check">> \notin DOMAIN g
    OBVIOUS
  <2>3. SetGlobal(t, prefix, p, v) = Store(t, x, g)
    BY <1>1 DEF SetGlobal
  <2> HIDE DEF g, x
  <2> QED
    BY <2>1, <2>2, <2>3, StoreFits
<1>2. CASE ~(v \in Legal(<<0, p>>) /\ (p = "cipher" => v \in Ciphers))
  BY <1>2 DEF SetGlobal
<1> QED
  BY <1>1, <1>2

\* Settings of a cipher that are within bounds and accepted, or one of B, fit,
\* and are none of the common ones.
LEMMA InRangeFits ==
  ASSUME NEW B, NEW t, NEW prefix, NEW c \in Ciphers, NEW f, TableFits(t, B),
         \A p \in DOMAIN f : Accepted(c, p, f[p], B)
  PROVE  TableFits(Store(t, prefix, InRange(c, f)), B)
<1> DEFINE P == {p \in DOMAIN f \cap ParamsOf[c] : f[p] \in Legal(<<c, p>>)}
           g == [s \in {<<c, p>> : p \in P} |-> f[s[2]]]
<1>1. InRange(c, f) = g
  BY DEF InRange
<1>2. ASSUME NEW s \in DOMAIN g
      PROVE  Fits(s, g[s], B) /\ s # <<0, "hmac_check">>
  <2>1. PICK p \in P : s = <<c, p>>
    OBVIOUS
  <2>2. g[s] = f[p] /\ g[s] \in Legal(s) /\ s[1] = c /\ s[2] = p
    BY <2>1
  <2>3. s # <<0, "hmac_check">> /\ s # <<0, "cipher">>
    BY <2>1, SlotNames
  <2> QED
    BY <2>1, <2>2, <2>3 DEF Fits
<1> HIDE DEF g
<1> QED
  BY <1>1, <1>2, StoreFits

\* The same of settings that went through checkParameterValue.
LEMMA CheckedFits ==
  ASSUME NEW B, NEW t, NEW prefix, NEW c \in Ciphers, NEW f, TableFits(t, B)
  PROVE  TableFits(Store(t, prefix, Checked(c, f)), B)
<1> DEFINE g == [p \in {q \in DOMAIN f : CheckParameterValue(c, q, f[q])} |-> f[p]]
<1>1. Checked(c, f) = InRange(c, g)
  BY DEF Checked
<1>2. \A p \in DOMAIN g : Accepted(c, p, g[p], B)
  BY DEF Accepted
<1> HIDE DEF g
<1> QED
  BY <1>1, <1>2, InRangeFits

\* The parameters of a version of SQLCipher go through it, too.
LEMMA WithVersionFits ==
  ASSUME NEW B, NEW t, NEW prefix, NEW c \in Ciphers, NEW p, NEW v, TableFits(t, B)
  PROVE  TableFits(WithVersion(t, c, prefix, p, v), B)
BY CheckedFits DEF WithVersion

\* sqlite3mc_config_cipher stores what fits.
LEMMA SetCipherFits ==
  ASSUME NEW B, NEW t, NEW prefix, NEW c \in Ciphers, NEW p, NEW v, TableFits(t, B)
  PROVE  TableFits(SetCipher(t, c, prefix, p, v), B)
BY WithVersionFits, CheckedFits DEF SetCipher

\* So does the SQL function, given a value the others would accept or one of B.
LEMMA SetSqlFits ==
  ASSUME NEW B, NEW t, NEW prefix, NEW c \in Ciphers, NEW p, NEW v, TableFits(t, B),
         Accepted(c, p, v, B)
  PROVE  TableFits(SetSql(t, c, prefix, p, v), B)
<1> DEFINE f == [q \in {p} |-> v]
<1>1. \A q \in DOMAIN f : Accepted(c, q, f[q], B)
  OBVIOUS
<1>2. SetSql(t, c, prefix, p, v) =
        Store(WithVersion(t, c, prefix, p, v), prefix, InRange(c, f))
  BY DEF SetSql
<1> HIDE DEF f
<1> QED
  BY <1>1, <1>2, WithVersionFits, InRangeFits

\* A URI stores what fits (sqlite3mcConfigureFromUri).
LEMMA FromUriFits ==
  ASSUME NEW B, NEW t, NEW prefix, NEW u \in Uris, u.cipher # Unknown, TableFits(t, B)
  PROVE  TableFits(FromUri(t, u, prefix), B)
<1> DEFINE c  == IF u.cipher = Absent THEN t.value[<<0, "cipher">>] ELSE u.cipher
           t1 == SetGlobal(t, prefix, "cipher", c)
           t2 == IF u.hmac_check = 0 THEN SetGlobal(t1, "", "hmac_check", 0) ELSE t1
           t3 == SetGlobal(t2, "", "mc_legacy_wal", IF u.mc_legacy_wal = 1 THEN 1 ELSE 0)
           t4 == IF "legacy" \in DOMAIN u.param
                   THEN WithVersion(t3, c, prefix, "legacy", u.param["legacy"]) ELSE t3
<1>1. t.value[<<0, "cipher">>] \in Ciphers
  BY SlotNames DEF TableFits, Fits, Global
<1>2. c \in Ciphers
  BY <1>1, ConfigAssumption
<1>3. FromUri(t, u, prefix) = Store(t4, prefix, Checked(c, u.param))
  BY DEF FromUri
<1> HIDE DEF c
<1>4. TableFits(t1, B)
  BY SetGlobalFits
<1>5. TableFits(t2, B)
  BY <1>4, SetGlobalFits
<1>6. TableFits(t3, B)
  BY <1>5, SetGlobalFits
<1>7. TableFits(t4, B)
  BY <1>2, <1>6, WithVersionFits
<1> HIDE DEF t4
<1> QED
  BY <1>2, <1>3, <1>7, CheckedFits

-----------------------------------------------------------------------------
(* What key operations leave: a table and a codec that fit.                *)

\* Reading puts back what a table may hold anyway.
LEMMA TakeBackFits ==
  ASSUME NEW B, NEW t, NEW S, TableFits(t, B)
  PROVE  TableFits(TakeBack(t, S), B)
BY DEF TakeBack, TableFits

\* So does allocating a cipher (m_allocateCipher).
LEMMA AllocateFits ==
  ASSUME NEW B, NEW t, NEW c, TableFits(t, B)
  PROVE  TableFits(Allocate(t, c), B)
BY TakeBackFits DEF Allocate

\* The cipher that is set is registered, and hmac_check has a slot.
LEMMA CipherSet ==
  ASSUME NEW B, NEW t, TableFits(t, B)
  PROVE  t.value[<<0, "cipher">>] \in Ciphers
BY SlotNames DEF TableFits, Fits, Global

\* A cipher reads its own parameters (m_allocateCipher).
LEMMA ReadsSlots ==
  ASSUME NEW t, NEW c \in Ciphers
  PROVE  Reads(t, c) \subseteq Slots
BY SlotNames DEF Reads

\* What a key operation reads are parameters.
LEMMA UsedSlots ==
  ASSUME NEW B, NEW t, TableFits(t, B)
  PROVE  Used(t) \subseteq Slots
BY CipherSet, ReadsSlots, SlotNames DEF Used

\* A codec set up from a table that fits is one its cipher can work with, and
\* so is a value that is not read and left at 0 (sqlite3mcSetupWriteCipher).
LEMMA NewCodecFits ==
  ASSUME NEW B, NEW t, TableFits(t, B)
  PROVE  TableFits(NewCodec(t).table, B) /\ CodecFits(NewCodec(t).codec, B)
<1> DEFINE c == t.value[<<0, "cipher">>]
           k == [cipher |-> c, params |-> ParamsRead(t, c),
                 hmac_check |-> t.value[<<0, "hmac_check">>],
                 mc_legacy_wal |-> t.value[<<0, "mc_legacy_wal">>]]
<1>1. /\ NewCodec(t).codec = k
      /\ NewCodec(t).table = Allocate(TakeBack(t, {<<0, p>> : p \in Global}), c)
  BY DEF NewCodec
<1>2. TableFits(NewCodec(t).table, B)
  BY <1>1, TakeBackFits, AllocateFits
<1>3. c \in Ciphers
  BY CipherSet
<1>4. DOMAIN ParamsRead(t, c) = ParamsOf[c]
  BY DEF ParamsRead
<1>5. ASSUME NEW p \in ParamsOf[c]
      PROVE  Accepted(c, p, ParamsRead(t, c)[p], B)
  <2>1. CASE <<c, p>> \in Reads(t, c)
    <3>1. ParamsRead(t, c)[p] = t.value[<<c, p>>]
      BY <2>1 DEF ParamsRead
    <3>2. Fits(<<c, p>>, t.value[<<c, p>>], B)
      BY <1>3, SlotNames DEF TableFits
    <3> HIDE DEF c
    <3>3. Accepted(c, p, t.value[<<c, p>>], B)
      BY <3>2 DEF Fits
    <3> QED
      BY <3>1, <3>3
  <2>2. CASE <<c, p>> \notin Reads(t, c)
    <3>1. ParamsRead(t, c)[p] = 0
      BY <2>2 DEF ParamsRead
    <3> QED
      BY <3>1 DEF CheckParameterValue, Accepted
  <2> QED
    BY <2>1, <2>2
<1>6. /\ k.cipher = c /\ k.params = ParamsRead(t, c)
      /\ k = [cipher |-> k.cipher, params |-> k.params,
              hmac_check |-> k.hmac_check, mc_legacy_wal |-> k.mc_legacy_wal]
  OBVIOUS
<1> HIDE DEF c, k
<1>7. CodecFits(k, B)
  BY <1>3, <1>4, <1>5, <1>6 DEF CodecFits
<1> QED
  BY <1>1, <1>2, <1>7

\* The same of a codec with both ciphers; its flag hmac_check is the one that is
\* set (sqlite3mcCodecSetup).
LEMMA CodecSetupFits ==
  ASSUME NEW B, NEW t, TableFits(t, B)
  PROVE  /\ TableFits(CodecSetup(t).table, B) /\ CodecFits(CodecSetup(t).codec, B)
         /\ CodecSetup(t).codec.hmac_check = t.value[<<0, "hmac_check">>]
<1> PICK n : n = NewCodec(t)
  OBVIOUS
<1>1. /\ n = [codec |-> n.codec, table |-> n.table]
      /\ n.codec.hmac_check = t.value[<<0, "hmac_check">>]
  BY DEF NewCodec
<1>2. /\ CodecSetup(t).table = Allocate(n.table, n.codec.cipher)
      /\ CodecSetup(t).codec = n.codec
  BY <1>1 DEF CodecSetup
<1> QED
  BY <1>1, <1>2, NewCodecFits, AllocateFits

-----------------------------------------------------------------------------
(* The steps of a connection keep the invariant.                           *)

\* What the SQL function is given besides takes nothing away from a table or a
\* codec that fits.
LEMMA MoreBySql ==
  ASSUME NEW A, NEW B, A \subseteq B
  PROVE  /\ \A t : TableFits(t, A) => TableFits(t, B)
         /\ \A k : CodecFits(k, A) => CodecFits(k, B)
BY DEF TableFits, CodecFits, Fits, Accepted

\* A step stores one table and may replace one codec.
LEMMA StoreStep ==
  ASSUME NEW t, TableFits(t, bySql'), SetTable(t)
  PROVE  TableFits(Table, bySql)'
<1>1. Table' = [value |-> t.value, default |-> t.default]
  BY DEF SetTable, Table
<1>2. Table'.value = t.value /\ Table'.default = t.default
  BY <1>1
<1>3. TableFits(Table', bySql')
  BY <1>2 DEF TableFits
<1> QED
  BY <1>3 DEF TableFits, Table

\* Replacing one codec by one that fits, or by none, keeps all of them fitting.
LEMMA CodecStep ==
  ASSUME IInv, UNCHANGED bySql, NEW d \in Schema, NEW k, k = None \/ CodecFits(k, bySql),
         codec' = [codec EXCEPT ![d] = k]
  PROVE  DOMAIN codec' = Schema /\ \A e \in Schema : codec'[e] = None \/ CodecFits(codec'[e], bySql')
BY DEF IInv

\* Opening, with the settings of a URI and perhaps a key (openDatabase and
\* sqlite3mcHandleMainKey).
LEMMA OpenStep ==
  ASSUME IInv, NEW u \in Uris, Open(u)
  PROVE  IInv'
<1> PICK t : t = IF u.cipher = Unknown THEN Table ELSE FromUri(Table, u, "default")
  OBVIOUS
<1>1. TableFits(t, bySql)
  BY FromUriFits DEF IInv
<1>2. /\ open' = TRUE /\ UNCHANGED <<attached, uri, bySql>> /\ walAsked' = AskedBy(u)
      /\ IF u.key /\ u.cipher # Unknown
           THEN /\ SetTable(CodecSetup(t).table)
                /\ codec' = [codec EXCEPT !["main"] = CodecSetup(t).codec]
                /\ clean' = (clean \ Changed(t)) \cup Used(t)
           ELSE SetTable(t) /\ clean' = clean \ Changed(t) /\ UNCHANGED codec
  BY DEF Open
<1>3. TableFits(Table, bySql)'
  BY <1>1, <1>2, StoreStep, CodecSetupFits
<1>4. DOMAIN codec' = Schema /\ \A e \in Schema : codec'[e] = None \/ CodecFits(codec'[e], bySql')
  <2>1. "main" \in Schema
    BY DEF Schema
  <2> QED
    BY <1>1, <1>2, <2>1, CodecStep, CodecSetupFits DEF IInv
<1>5. clean' \subseteq Slots
  BY <1>1, <1>2, UsedSlots DEF IInv
<1>6. walAsked' \in BOOLEAN
  BY <1>2 DEF AskedBy, IInv
<1> QED
  BY <1>2, <1>3, <1>4, <1>5, <1>6 DEF IInv

\* A value is set, through any of the interfaces.
LEMMA ConfigureKeeps ==
  ASSUME IInv, NEW t, NEW p, TableFits(t, bySql'), Configure(t, p), bySql \subseteq bySql'
  PROVE  IInv'
<1>1. /\ SetTable(t) /\ clean' = clean \ Changed(t)
      /\ UNCHANGED <<open, codec, attached, uri>>
  BY DEF Configure
<1>2. walAsked' \in BOOLEAN
  BY DEF Configure, IInv
<1>3. TableFits(Table, bySql)'
  BY <1>1, StoreStep
<1>4. \A d \in Schema : codec'[d] = None \/ CodecFits(codec'[d], bySql')
  BY <1>1, MoreBySql DEF IInv
<1> QED
  BY <1>1, <1>2, <1>3, <1>4 DEF IInv

\* sqlite3mc_config, sqlite3mc_config_cipher and the SQL function.
LEMMA ApiStep ==
  ASSUME IInv, NEW i \in Inputs, NEW prefix,
         \/ ConfigC(prefix, i[1], i[2], i[3]) \/ ConfigSql(prefix, i[1], i[2], i[3])
  PROVE  IInv'
<1>1. i[1] # 0 => i[1] \in Ciphers
  BY ConfigAssumption
<1>2. TableFits(Table, bySql)
  BY DEF IInv
<1>3. CASE ConfigC(prefix, i[1], i[2], i[3])
  <2>1. PICK t : /\ t = IF i[1] = 0 THEN SetGlobal(Table, prefix, i[2], i[3])
                                    ELSE SetCipher(Table, i[1], prefix, i[2], i[3])
                 /\ Configure(t, i[2]) /\ bySql' = bySql
    BY <1>3 DEF ConfigC
  <2>2. TableFits(t, bySql')
    BY <1>1, <1>2, <2>1, SetGlobalFits, SetCipherFits
  <2> QED
    BY <2>1, <2>2, ConfigureKeeps
<1>4. CASE ConfigSql(prefix, i[1], i[2], i[3])
  <2>1. PICK t : /\ t = IF i[1] = 0 THEN SetGlobal(Table, prefix, i[2], i[3])
                                    ELSE SetSql(Table, i[1], prefix, i[2], i[3])
                 /\ Configure(t, i[2])
    BY <1>4 DEF ConfigSql
  <2>2. bySql \subseteq bySql' /\ Accepted(i[1], i[2], i[3], bySql')
    BY <1>4 DEF ConfigSql, Accepted
  <2>3. TableFits(Table, bySql')
    BY <1>2, <2>2, MoreBySql
  <2>4. TableFits(t, bySql')
    BY <1>1, <2>1, <2>2, <2>3, SetGlobalFits, SetSqlFits
  <2> QED
    BY <2>1, <2>2, <2>4, ConfigureKeeps
<1> QED
  BY <1>3, <1>4

\* A pragma (sqlite3mcFileControlPragma).
LEMMA PragmaStep ==
  ASSUME IInv, NEW i \in Inputs, NEW d \in Schema, Pragma(d, i[1], i[2], i[3])
  PROVE  IInv'
<1> PICK prefix : prefix = IF d = "main" THEN "default" ELSE ""
  OBVIOUS
<1>1. PICK t : /\ t = IF i[1] = 0
                        THEN SetGlobal(Table, IF i[2] = "cipher" THEN prefix ELSE "", i[2], i[3])
                        ELSE SetCipher(Table, i[1], prefix, i[2], i[3])
               /\ Configure(t, i[2]) /\ bySql' = bySql
  BY DEF Pragma
<1>2. i[1] # 0 => i[1] \in Ciphers
  BY ConfigAssumption
<1>3. TableFits(Table, bySql)
  BY DEF IInv
<1>4. TableFits(t, bySql')
  BY <1>1, <1>2, <1>3, SetGlobalFits, SetCipherFits
<1> QED
  BY <1>1, <1>4, ConfigureKeeps

\* Reading the settings of a key from a table that fits (sqlite3mcCodecAttach).
LEMMA ReadKeyStep ==
  ASSUME IInv, UNCHANGED bySql, NEW t, TableFits(t, bySql), ReadKeySettings(t)
  PROVE  TableFits(Table, bySql)' /\ clean' \subseteq Slots
<1>1. SetTable(CodecSetup(t).table) /\ clean' = (clean \ Changed(t)) \cup Used(t)
  BY DEF ReadKeySettings
<1> QED
  BY <1>1, StoreStep, CodecSetupFits, UsedSlots DEF IInv

\* sqlite3_key_v2 on the main schema.
LEMMA KeyMainStep ==
  ASSUME IInv, KeyMain
  PROVE  IInv'
<1>1. /\ ReadKeySettings(Table) /\ codec' = [codec EXCEPT !["main"] = CodecSetup(Table).codec]
      /\ UNCHANGED <<open, attached, uri, walAsked, bySql>>
  BY DEF KeyMain
<1>2. TableFits(Table, bySql) /\ "main" \in Schema
  BY DEF IInv, Schema
<1>3. TableFits(Table, bySql)' /\ clean' \subseteq Slots
  BY <1>1, <1>2, ReadKeyStep
<1>4. DOMAIN codec' = Schema /\ \A e \in Schema : codec'[e] = None \/ CodecFits(codec'[e], bySql')
  BY <1>1, <1>2, CodecStep, CodecSetupFits
<1> QED
  BY <1>1, <1>3, <1>4 DEF IInv

\* sqlite3_key_v2 on an attached schema, whose URI has its say again.
LEMMA KeyAuxStep ==
  ASSUME IInv, KeyAux
  PROVE  IInv'
<1> PICK t : t = FromUri(Table, uri, "")
  OBVIOUS
<1>1. /\ ReadKeySettings(t) /\ codec' = [codec EXCEPT !["aux"] = CodecSetup(t).codec]
      /\ UNCHANGED <<open, attached, uri, bySql>> /\ walAsked' = AskedBy(uri)
      /\ attached /\ uri.cipher # Unknown
  BY DEF KeyAux
<1>2. TableFits(t, bySql) /\ "aux" \in Schema
  BY <1>1, FromUriFits DEF IInv, Schema
<1>3. TableFits(Table, bySql)' /\ clean' \subseteq Slots
  BY <1>1, <1>2, ReadKeyStep
<1>4. DOMAIN codec' = Schema /\ \A e \in Schema : codec'[e] = None \/ CodecFits(codec'[e], bySql')
  BY <1>1, <1>2, CodecStep, CodecSetupFits
<1>5. walAsked' \in BOOLEAN
  BY <1>1 DEF AskedBy, IInv
<1> QED
  BY <1>1, <1>3, <1>4, <1>5 DEF IInv

\* The end of ATTACH keeps a codec that fits, or none.
LEMMA AttachedStep ==
  ASSUME IInv, NEW u \in Uris, NEW k, NEW readable \in BOOLEAN, k = None \/ CodecFits(k, bySql),
         Attached(u, k, readable)
  PROVE  /\ DOMAIN codec' = Schema /\ \A e \in Schema : codec'[e] = None \/ CodecFits(codec'[e], bySql')
         /\ (attached' <=> uri' # None) /\ (uri' # None => uri' \in Uris)
         /\ attached' \in BOOLEAN /\ UNCHANGED <<open, bySql>>
<1>1. /\ attached' = readable /\ uri' = IF readable THEN u ELSE None
      /\ codec' = IF readable THEN [codec EXCEPT !["aux"] = k] ELSE codec
      /\ UNCHANGED <<open, bySql>>
  BY DEF Attached
<1>2. "aux" \in Schema
  BY DEF Schema
<1>3. DOMAIN codec' = Schema /\ \A e \in Schema : codec'[e] = None \/ CodecFits(codec'[e], bySql')
  BY <1>1, <1>2, CodecStep DEF IInv
<1>4. (attached' <=> uri' # None) /\ (uri' # None => uri' \in Uris)
  BY <1>1, ConfigAssumption
<1> QED
  BY <1>1, <1>3, <1>4

\* ATTACH, with a key of either kind, with a copy of the codec of the main
\* database, or without any (sqlite3mcHandleAttachKey).
LEMMA AttachStep ==
  ASSUME IInv, NEW u \in Uris, NEW clause, NEW readable \in BOOLEAN,
         Attach(u, clause, readable)
  PROVE  IInv'
<1>1. CASE AttachWithKey(u, clause, readable)
  <2> PICK t : t = FromUri(Table, u, "")
    OBVIOUS
  <2>1. /\ ReadKeySettings(t) /\ walAsked' = AskedBy(u)
        /\ Attached(u, CodecSetup(t).codec, readable) /\ u.cipher # Unknown
    BY <1>1 DEF AttachWithKey
  <2>2. TableFits(t, bySql)
    BY <2>1, FromUriFits DEF IInv
  <2>3. TableFits(Table, bySql)' /\ clean' \subseteq Slots
    BY <2>1, <2>2, ReadKeyStep DEF Attached
  <2>4. CodecFits(CodecSetup(t).codec, bySql)
    BY <2>2, CodecSetupFits
  <2>5. walAsked' \in BOOLEAN
    BY <2>1 DEF AskedBy, IInv
  <2> QED
    BY <2>1, <2>3, <2>4, <2>5, AttachedStep DEF IInv
<1>2. CASE AttachUnkeyed(u, clause, readable) \/ AttachPlain(u, clause, readable)
  <2>1. Attached(u, None, readable) /\ UNCHANGED <<value, default, clean, walAsked>>
    BY <1>2 DEF AttachUnkeyed, AttachPlain
  <2>2. TableFits(Table, bySql)'
    BY <2>1 DEF Table, IInv, Attached
  <2> QED
    BY <2>1, <2>2, AttachedStep DEF IInv
<1>3. CASE AttachCopy(u, clause, readable)
  <2> PICK c : c = codec["main"].cipher
    OBVIOUS
  <2>1. /\ SetTable(Allocate(Allocate(Table, c), c)) /\ clean' = clean \cup Reads(Table, c)
        /\ Attached(u, codec["main"], readable) /\ UNCHANGED walAsked
        /\ codec["main"] # None
    BY <1>3 DEF AttachCopy
  <2>2. CodecFits(codec["main"], bySql) /\ TableFits(Table, bySql)
    BY <2>1 DEF IInv, Schema
  <2>3. c \in Ciphers
    BY <2>2 DEF CodecFits
  <2>4. TableFits(Table, bySql)'
    BY <2>1, <2>2, AllocateFits, StoreStep DEF Attached
  <2>5. clean' \subseteq Slots
    BY <2>1, <2>3, ReadsSlots DEF IInv
  <2> QED
    BY <2>1, <2>2, <2>4, <2>5, AttachedStep DEF IInv
<1> QED
  BY <1>1, <1>2, <1>3 DEF Attach

\* A rekey leaves a codec that fits, whether it succeeds or not: the flags may
\* be of another key than the ciphers, but the ciphers have their own.
LEMMA RekeyFits ==
  ASSUME IInv, NEW d \in Schema, NEW succeeds \in BOOLEAN, Rekey(d, succeeds)
  PROVE  IInv'
<1> PICK n, old : n = NewCodec(Table) /\ old = codec[d]
  OBVIOUS
<1>1. /\ clean' = clean \cup Used(Table) /\ UNCHANGED <<open, attached, uri, walAsked, bySql>>
      /\ \E c : SetTable(n.table) \/ SetTable(Allocate(n.table, c))
      /\ \/ codec' = [codec EXCEPT ![d] = n.codec]
         \/ UNCHANGED codec
         \/ /\ old # None
            /\ codec' = [codec EXCEPT ![d] =
                 [old EXCEPT !.hmac_check = n.codec.hmac_check,
                             !.mc_legacy_wal = n.codec.mc_legacy_wal]]
  <2>1. CASE succeeds
    BY <2>1 DEF Rekey
  <2>2. CASE ~succeeds /\ old = None
    BY <2>2 DEF Rekey
  <2>3. CASE ~succeeds /\ old # None
    BY <2>3 DEF Rekey
  <2> QED
    BY <2>1, <2>2, <2>3
<1>2. TableFits(Table, bySql) /\ TableFits(n.table, bySql) /\ CodecFits(n.codec, bySql)
  BY NewCodecFits DEF IInv
<1>3. TableFits(Table, bySql)'
  BY <1>1, <1>2, AllocateFits, StoreStep
<1>4. clean' \subseteq Slots
  BY <1>1, <1>2, UsedSlots DEF IInv
<1>5. ASSUME old # None
      PROVE  CodecFits([old EXCEPT !.hmac_check = n.codec.hmac_check,
                                   !.mc_legacy_wal = n.codec.mc_legacy_wal], bySql)
  <2> PICK k : k = [old EXCEPT !.hmac_check = n.codec.hmac_check,
                               !.mc_legacy_wal = n.codec.mc_legacy_wal]
    OBVIOUS
  <2>1. CodecFits(old, bySql)
    BY <1>5 DEF IInv
  <2>2. old = [cipher |-> old.cipher, params |-> old.params,
               hmac_check |-> old.hmac_check, mc_legacy_wal |-> old.mc_legacy_wal]
    BY <2>1 DEF CodecFits
  <2>3. k = [cipher |-> old.cipher, params |-> old.params,
             hmac_check |-> n.codec.hmac_check, mc_legacy_wal |-> n.codec.mc_legacy_wal]
    BY <2>2
  <2>4. /\ k.cipher = old.cipher /\ k.params = old.params
        /\ k = [cipher |-> k.cipher, params |-> k.params,
                hmac_check |-> k.hmac_check, mc_legacy_wal |-> k.mc_legacy_wal]
    BY <2>3
  <2>5. CodecFits(k, bySql)
    BY <2>1, <2>4 DEF CodecFits
  <2> QED
    BY <2>5
<1>6. DOMAIN codec' = Schema /\ \A e \in Schema : codec'[e] = None \/ CodecFits(codec'[e], bySql')
  BY <1>1, <1>2, <1>5, CodecStep DEF IInv
<1> QED
  BY <1>1, <1>3, <1>4, <1>6 DEF IInv

\* A key is dropped, a database decrypted, a schema detached, the connection
\* closed.
LEMMA DropStep ==
  ASSUME IInv, DropKey \/ Detach \/ \E d \in Schema : Decrypt(d)
  PROVE  IInv'
<1>1. PICK d \in Schema : codec' = [codec EXCEPT ![d] = None]
  BY DEF DropKey, Detach, Decrypt, Schema
<1>2. UNCHANGED <<value, default, open, clean, walAsked, bySql>>
  BY DEF DropKey, Detach, Decrypt
<1>3. UNCHANGED <<attached, uri>> \/ (attached' = FALSE /\ uri' = None)
  BY DEF DropKey, Detach, Decrypt
<1>4. TableFits(Table, bySql)'
  BY <1>2 DEF Table, IInv
<1>5. DOMAIN codec' = Schema /\ \A e \in Schema : codec'[e] = None \/ CodecFits(codec'[e], bySql')
  BY <1>1, <1>2, CodecStep
<1>6. attached' \in BOOLEAN /\ (uri' # None => uri' \in Uris)
  BY <1>3 DEF IInv
<1>7. attached' <=> uri' # None
  BY <1>3 DEF IInv
<1> QED
  BY <1>2, <1>4, <1>5, <1>6, <1>7 DEF IInv

\* The table a connection starts with fits.
LEMMA StartFits == \A B :
  TableFits([value   |-> [s \in Slots |-> Initially(s)],
             default |-> [s \in Slots |-> Initially(s)]], B)
<1>1. <<0, "hmac_check">> \in Slots
  BY SlotNames DEF Global
<1>2. Initially(<<0, "hmac_check">>) = 1
  BY DEF Initially
<1> QED
  BY <1>1, <1>2, InitiallyFits DEF TableFits

\* The next connection starts with the table of the build (sqlite3_close).
LEMMA CloseStep ==
  ASSUME IInv, Close
  PROVE  IInv'
<1>1. /\ open' = FALSE /\ attached' = FALSE /\ walAsked' = FALSE /\ uri' = None
      /\ clean' = Slots /\ bySql' = {} /\ codec' = [d \in Schema |-> None]
  BY DEF Close
<1>2. Table' = [value   |-> [s \in Slots |-> Initially(s)],
                default |-> [s \in Slots |-> Initially(s)]]
  BY DEF Close, Table
<1>3. TableFits(Table', bySql')
  BY <1>2, StartFits
<1>4. TableFits(Table, bySql)'
  BY <1>3 DEF TableFits, Table
<1> QED
  BY <1>1, <1>4 DEF IInv

\* The invariant is inductive.
LEMMA NextFits ==
  ASSUME IInv, [Next]_vars
  PROVE  IInv'
<1>1. CASE UNCHANGED vars
  BY <1>1 DEF vars, IInv, Table, TableFits
<1>2. CASE Next
  BY <1>2, OpenStep, AttachStep, ApiStep, PragmaStep, RekeyFits, KeyMainStep, KeyAuxStep,
     DropStep, CloseStep DEF Next
<1> QED
  BY <1>1, <1>2

\* So does the first.
LEMMA InitFits == Init => IInv
<1> SUFFICES ASSUME Init PROVE IInv
  OBVIOUS
<1>1. Table = [value   |-> [s \in Slots |-> Initially(s)],
               default |-> [s \in Slots |-> Initially(s)]]
  BY DEF Init, Table
<1>2. TableFits(Table, bySql)
  BY <1>1, StartFits
<1> QED
  BY <1>2 DEF Init, IInv

\* What a connection has always fits (the state of sqlite3mc_config and of the
\* codecs).
LEMMA AlwaysFits == Spec => []IInv
BY InitFits, NextFits, PTL DEF Spec

\* The table has legal values and defaults and codecs have the parameters of
\* their cipher, for every set of ciphers, parameters, URIs and inputs
\* (the m_minValue and m_maxValue every store compares with).
THEOREM TypeCorrect == Spec => []TypeOK
<1>1. IInv => TypeOK
  BY DEF IInv, TypeOK, TableFits, Table, Fits, CodecFits
<1> QED
  BY <1>1, AlwaysFits, PTL

\* A codec has a setting its cipher cannot work with only if the SQL function
\* was given it, for every set of ciphers, parameters, URIs and inputs and with
\* all the interfaces in use: whichever way the others went, through defaults,
\* versions of SQLCipher, copies and failed operations, checkParameterValue has
\* seen them.
THEOREM CodecsValid == Spec => []UncheckedOnlyBySql
<1>1. IInv => UncheckedOnlyBySql
  BY DEF IInv, UncheckedOnlyBySql, CodecFits, Accepted
<1> QED
  BY <1>1, AlwaysFits, PTL

-----------------------------------------------------------------------------
(* The check of the page authentication.                                   *)

Hmac == <<0, "hmac_check">>

\* hmac_check as it is set in the table t.
Check(t) == t.value[Hmac]

\* It is off in the table only while somebody has set it so and no key
\* operation has read it (the default of hmac_check cannot be changed).
LEMMA OffIsAsked ==
  ASSUME IInv, NoStaleSetting, Check(Table) = 0
  PROVE  Hmac \notin clean
<1>1. Hmac \in Slots
  BY SlotNames DEF Global, Hmac
<1>2. value[Hmac] = 0 /\ default[Hmac] = 1
  BY DEF IInv, TableFits, Table, Hmac, Check
<1> QED
  BY <1>1, <1>2 DEF NoStaleSetting

\* Storing the settings of a cipher does not touch it.
LEMMA CheckedKeepsHmac ==
  ASSUME NEW B, NEW t, NEW prefix, NEW c \in Ciphers, NEW f, TableFits(t, B)
  PROVE  Check(Store(t, prefix, Checked(c, f))) = Check(t)
<1> PICK g : g = Checked(c, f)
  OBVIOUS
<1>1. Hmac \in Slots
  BY SlotNames DEF Global, Hmac
<1>2. \A s \in DOMAIN g : s[1] = c
  <2>1. ASSUME NEW h, NEW s \in DOMAIN InRange(c, h)
        PROVE  s[1] = c
    <3>1. \E p : s = <<c, p>>
      BY DEF InRange
    <3> QED
      BY <3>1
  <2>2. \E h : g = InRange(c, h)
    BY DEF Checked
  <2> QED
    BY <2>1, <2>2
<1>3. Hmac \notin DOMAIN g
  BY <1>2, SlotNames DEF Hmac
<1> QED
  BY <1>1, <1>3 DEF Store, Over, TableFits, Check

\* Nor does a version of SQLCipher.
LEMMA VersionKeepsHmac ==
  ASSUME NEW B, NEW t, NEW prefix, NEW c \in Ciphers, NEW p, NEW v, TableFits(t, B)
  PROVE  Check(WithVersion(t, c, prefix, p, v)) = Check(t)
BY CheckedKeepsHmac DEF WithVersion

\* Nor does setting another common parameter.
LEMMA GlobalKeepsHmac ==
  ASSUME NEW t, NEW prefix, NEW p, NEW v, DOMAIN t.value = Slots, p # "hmac_check"
  PROVE  Check(SetGlobal(t, prefix, p, v)) = Check(t)
<1>1. Hmac \in Slots /\ Hmac # <<0, p>>
  BY SlotNames DEF Global, Hmac
<1> PICK g : g = [s \in {<<0, p>>} |-> v]
  OBVIOUS
<1>2. Hmac \notin DOMAIN g
  BY <1>1
<1>3. SetGlobal(t, prefix, p, v) \in {t, Store(t, prefix, g)}
  BY DEF SetGlobal
<1>4. Check(Store(t, prefix, g)) = Check(t)
  BY <1>1, <1>2 DEF Store, Over, Check
<1> QED
  BY <1>3, <1>4

\* A URI turns it off only if it says so (sqlite3mcConfigureFromUri).
LEMMA UriTurnsOff ==
  ASSUME NEW B, NEW t, NEW prefix, NEW u \in Uris, u.cipher # Unknown, TableFits(t, B),
         u.hmac_check # 0
  PROVE  Check(FromUri(t, u, prefix)) = Check(t)
<1>1. PICK c \in Ciphers : c = IF u.cipher = Absent THEN t.value[<<0, "cipher">>] ELSE u.cipher
  BY CipherSet, ConfigAssumption
<1>2. PICK t1 : t1 = SetGlobal(t, prefix, "cipher", c)
  OBVIOUS
<1>3. TableFits(t1, B)
  BY <1>2, SetGlobalFits
<1>4. Check(t1) = Check(t)
  BY <1>2, GlobalKeepsHmac DEF TableFits
<1>5. PICK w : w = IF u.mc_legacy_wal = 1 THEN 1 ELSE 0
  OBVIOUS
<1>6. PICK t3 : t3 = SetGlobal(t1, "", "mc_legacy_wal", w)
  OBVIOUS
<1>7. TableFits(t3, B)
  BY <1>3, <1>6, SetGlobalFits
<1>8. Check(t3) = Check(t1)
  BY <1>3, <1>6, GlobalKeepsHmac DEF TableFits
<1>9. PICK t4 : t4 = IF "legacy" \in DOMAIN u.param
                     THEN WithVersion(t3, c, prefix, "legacy", u.param["legacy"]) ELSE t3
  OBVIOUS
<1>10. TableFits(t4, B)
  BY <1>7, <1>9, WithVersionFits
<1>11. Check(t4) = Check(t3)
  BY <1>7, <1>9, VersionKeepsHmac
<1>12. FromUri(t, u, prefix) = Store(t4, prefix, Checked(c, u.param))
  BY <1>1, <1>2, <1>5, <1>6, <1>9 DEF FromUri
<1>13. Check(Store(t4, prefix, Checked(c, u.param))) = Check(t4)
  BY <1>10, CheckedKeepsHmac
<1> QED
  BY <1>4, <1>8, <1>11, <1>12, <1>13

\* A rekey gives a codec the flag of the table, even when it fails.
LEMMA RekeyTurnsOff ==
  ASSUME IInv, NEW d \in Schema, NEW e \in Schema, NEW succeeds \in BOOLEAN,
         Rekey(d, succeeds), codec'[e] # codec[e]
  PROVE  codec'[e].hmac_check = Check(Table)
<1> PICK n, old : n = NewCodec(Table) /\ old = codec[d]
  OBVIOUS
<1>1. n.codec.hmac_check = Check(Table)
  BY DEF NewCodec, Hmac, Check
<1>2. \/ codec' = [codec EXCEPT ![d] = n.codec]
      \/ UNCHANGED codec
      \/ /\ old # None
         /\ codec' = [codec EXCEPT ![d] =
              [old EXCEPT !.hmac_check = n.codec.hmac_check,
                          !.mc_legacy_wal = n.codec.mc_legacy_wal]]
  <2>1. CASE succeeds
    BY <2>1 DEF Rekey
  <2>2. CASE ~succeeds /\ old = None
    BY <2>2 DEF Rekey
  <2>3. CASE ~succeeds /\ old # None
    BY <2>3 DEF Rekey
  <2> QED
    BY <2>1, <2>2, <2>3
<1>3. ASSUME old # None
      PROVE  [old EXCEPT !.hmac_check = n.codec.hmac_check,
                         !.mc_legacy_wal = n.codec.mc_legacy_wal].hmac_check
               = n.codec.hmac_check
  <2>1. old = [cipher |-> old.cipher, params |-> old.params,
               hmac_check |-> old.hmac_check, mc_legacy_wal |-> old.mc_legacy_wal]
    BY <1>3 DEF IInv, CodecFits
  <2> QED
    BY <2>1
<1>4. e = d /\ DOMAIN codec = Schema
  BY <1>2 DEF IInv
<1> QED
  BY <1>1, <1>2, <1>3, <1>4

\* The step of every operation.
LEMMA HmacStep ==
  ASSUME IInv, NoStaleSetting, Next, open, NEW d \in Schema,
         codec'[d] # codec[d], codec'[d] # None, codec'[d].hmac_check = 0
  PROVE  \/ Hmac \notin clean
         \/ d = "aux" /\ uri' # None /\ uri'.hmac_check = 0
         \/ d = "aux" /\ codec'[d] = codec["main"]
<1>1. DOMAIN codec = Schema /\ TableFits(Table, bySql)
  BY DEF IInv
<1>2. SUFFICES ASSUME Check(Table) # 0
               PROVE  \/ d = "aux" /\ uri' # None /\ uri'.hmac_check = 0
                      \/ d = "aux" /\ codec'[d] = codec["main"]
  BY OffIsAsked
<1>3. ASSUME NEW u \in Uris, NEW clause, NEW readable \in BOOLEAN, Attach(u, clause, readable)
      PROVE  \/ d = "aux" /\ uri' # None /\ uri'.hmac_check = 0
             \/ d = "aux" /\ codec'[d] = codec["main"]
  <2>1. PICK k : /\ Attached(u, k, readable)
                 /\ k # None => k = codec["main"]
                      \/ (k = CodecSetup(FromUri(Table, u, "")).codec /\ u.cipher # Unknown)
    BY <1>3 DEF Attach, AttachWithKey, AttachUnkeyed, AttachCopy, AttachPlain
  <2>2. readable /\ codec' = [codec EXCEPT !["aux"] = k] /\ uri' = u
    BY <2>1 DEF Attached
  <2>3. d = "aux" /\ codec'[d] = k /\ k # None
    BY <1>1, <2>2
  <2>4. CASE k = CodecSetup(FromUri(Table, u, "")).codec /\ u.cipher # Unknown
    <3>1. Check(FromUri(Table, u, "")) = 0
      BY <1>1, <2>3, <2>4, FromUriFits, CodecSetupFits DEF Hmac, Check
    <3>2. u.hmac_check = 0
      BY <1>1, <1>2, <2>4, <3>1, UriTurnsOff
    <3> QED
      BY <2>2, <2>3, <3>2, ConfigAssumption
  <2> QED
    BY <2>1, <2>3, <2>4
<1>4. CASE KeyAux
  <2>1. /\ codec' = [codec EXCEPT !["aux"] = CodecSetup(FromUri(Table, uri, "")).codec]
        /\ uri.cipher # Unknown /\ attached /\ uri' = uri
    BY <1>4 DEF KeyAux
  <2>2. d = "aux" /\ codec'[d] = CodecSetup(FromUri(Table, uri, "")).codec
    BY <1>1, <2>1
  <2>3. uri # None /\ uri \in Uris
    BY <2>1 DEF IInv
  <2>4. Check(FromUri(Table, uri, "")) = 0
    BY <1>1, <2>1, <2>2, <2>3, FromUriFits, CodecSetupFits DEF Hmac, Check
  <2>5. uri.hmac_check = 0
    BY <1>1, <1>2, <2>1, <2>3, <2>4, UriTurnsOff
  <2> QED
    BY <2>1, <2>2, <2>3, <2>5
<1>5. CASE KeyMain
  <2>1. codec' = [codec EXCEPT !["main"] = CodecSetup(Table).codec]
    BY <1>5 DEF KeyMain
  <2>2. codec'[d] = CodecSetup(Table).codec
    BY <1>1, <2>1
  <2> QED
    BY <1>1, <1>2, <2>2, CodecSetupFits DEF Hmac, Check
<1>6. ASSUME NEW e \in Schema, NEW succeeds \in BOOLEAN, Rekey(e, succeeds)
      PROVE  FALSE
  BY <1>2, <1>6, RekeyTurnsOff
<1>7. CASE DropKey \/ Detach \/ Close \/ \E e \in Schema : Decrypt(e)
  BY <1>1, <1>7 DEF DropKey, Detach, Close, Decrypt
<1>8. ASSUME NEW i \in Inputs, NEW prefix, NEW e \in Schema,
             \/ ConfigC(prefix, i[1], i[2], i[3]) \/ ConfigSql(prefix, i[1], i[2], i[3])
             \/ Pragma(e, i[1], i[2], i[3])
      PROVE  FALSE
  BY <1>8 DEF ConfigC, ConfigSql, Pragma, Configure
<1>9. ASSUME NEW u, Open(u)
      PROVE  FALSE
  BY <1>9 DEF Open
<1> QED
  BY <1>3, <1>4, <1>5, <1>6, <1>7, <1>8, <1>9 DEF Next

\* The check of the page authentication is off for a database only if that was
\* asked for since the last key operation, in the URI of the database, or for
\* the main database its codec is a copy of, whatever is configured
\* (sqlite3mc_config ignores the default: prefix of hmac_check).
THEOREM HmacStaysOn == Spec => HmacOffOnlyIfAsked
<1>1. IInv /\ NoStaleSetting /\ [Next]_vars =>
        [\A d \in Schema :
           codec'[d] # codec[d] /\ codec'[d] # None /\ codec'[d].hmac_check = 0 =>
             \/ <<0, "hmac_check">> \notin clean
             \/ d = "aux" /\ uri' # None /\ uri'.hmac_check = 0
             \/ d = "aux" /\ codec'[d] = codec["main"]
             \/ ~open]_vars
  BY HmacStep DEF Hmac
<1> QED
  BY <1>1, AlwaysFits, SettingsServeOnce, PTL DEF Spec, HmacOffOnlyIfAsked
=============================================================================
