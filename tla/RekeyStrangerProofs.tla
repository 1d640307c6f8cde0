------------------------ MODULE RekeyStrangerProofs ------------------------
(***************************************************************************)
(* Theorems about Rekey when the database is opened with a wrong key, or   *)
(* without its key, with or without authentication of pages.  Such a       *)
(* session may destroy the database when it finds a hot journal (see       *)
(* RecoverDiscards), and a later session may then work on pages of several *)
(* keys: nothing the invariant of RekeyProofs says of the pages survives.  *)
(* What survives is an agreement between page 1, on which every            *)
(* transaction begins, and the records of the journal.  (When every wrong  *)
(* key is detected the pages keep their key too: see RekeyProofs.)         *)
(***************************************************************************)
EXTENDS RekeyProofs

\* Strangers are admitted; excluded are what the violated properties are
\* about, a rollback of a rekey after pages reached the file and a rekey that
\* begins on a hot journal, and decrypting, which has no write cipher.
StrangerEnv ==
  /\ "ioerr" \notin Env /\ "coldrekey" \notin Env
  /\ "decrypt" \notin Ops

\* The codec of a session has one key or none; that of a rekey has a write
\* cipher.
ShapeInv ==
  /\ InSession => codec = NoCodec
                  \/ (codec.rk \in Keys /\ codec = CodecSetup(codec.rk))
  /\ InRekey \/ pc = "leave" =>
       /\ codec.attached /\ codec.isEncrypted /\ codec.hasWrite
       /\ codec.hasRead => codec.rk \in Keys
  /\ pc \in {"begin", "rekey", "rcommit", "leave"} /\ rc => codec.wk \in Keys

\* Where the connection stands.
StandInv ==
  /\ pc \in {"begin", "rekey", "rcommit"} => rc
  /\ pc = "rollback" => ~rc /\ estate \in {"CACHEMOD", "ERROR"}
  /\ pc \in {"rekey", "rcommit"} => estate \in {"CACHEMOD", "DBMOD"}
  /\ InTxn => estate # "OPEN"
  /\ ~InTxn => estate = "OPEN"

\* The records of the journal have one cipher: the one the transaction reads
\* with, and later the one page 1 is found under.
RecordInv ==
  /\ needSync \subseteq Journalled
  /\ dirty \subseteq Journalled
  /\ InTxn => RecordsReadable
  /\ ~InTxn => needSync = {} /\ \A p \in Journalled : jrnl[p].enc = K
  /\ ~InTxn /\ Journalled # {} => cache = EmptyCache
  /\ pc = "begin" \/ (pc = "leave" /\ rc) => Journalled = {}

\* The cipher the connection will read with, once a rekey has been left.
NextCipher == IF pc = "leave" /\ rc THEN WriteCipher ELSE ReadCipher

\* Page 1 is stored under the read cipher until it is written, under the
\* write cipher afterwards; outside transactions it is, when it is cached as
\* the page of a database, stored under the cipher it will be read with.
PageOneInv ==
  /\ pc = "closed" => cache = EmptyCache
  /\ InTxn /\ (estate = "CACHEMOD" \/ 1 \notin Journalled \ needSync) =>
       disk[1].enc = ReadCipher
  /\ InTxn /\ 1 \in Journalled \ dirty => disk[1].enc = WriteCipher
  /\ pc = "begin" => next = 1
  /\ pc = "rekey" /\ next > 1 => 1 \in Journalled
  /\ pc = "rcommit" => 1 \in Journalled
  /\ ~InTxn /\ Journalled = {} /\ cache[1] \notin {NotCached, Garbage} =>
       disk[1].enc = NextCipher

\* A trusted connection reads a hot journal with the cipher it was written
\* under.
TrustInv == trusted /\ HotJournal => ReadCipher = K

\* The inductive invariant, beside the types.
SInv == ShapeInv /\ StandInv /\ RecordInv /\ PageOneInv /\ TrustInv

-----------------------------------------------------------------------------
(***************************************************************************)
(* Facts about ciphers and page 1.                                         *)
(***************************************************************************)

\* A session reads as it writes.
LEMMA OneCipher ==
  ASSUME ShapeInv, InSession
  PROVE  ReadCipher = WriteCipher
BY DEF ShapeInv, ReadCipher, WriteCipher, NoCodec, CodecSetup

\* The key an opener finds is that of the record of page 1, or of page 1.
LEMMA FoundKey ==
  K = IF 1 \in Journalled THEN jrnl[1].enc ELSE disk[1].enc
BY OnePage DEF K, DatabaseKey, Recovered, Journalled

\* The cipher of a record or of page 1 does not change by itself.
LEMMA SameFound ==
  ASSUME UNCHANGED <<disk, jrnl>>
  PROVE  Journalled' = Journalled /\ K' = K
BY DEF Journalled, K, DatabaseKey, Recovered

\* A transaction begins only if page 1 is stored under the read cipher.
LEMMA BeginsOnOwnPage ==
  ASSUME PageOneInv, ~InTxn, Journalled = {}, PageOneValid, pc # "leave"
  PROVE  disk[1].enc = ReadCipher
<1>1. Fetch(1) # Garbage
  BY DEF PageOneValid
<1>2. CASE cache[1] = NotCached
  BY <1>1, <1>2 DEF Fetch, Decode
<1>3. CASE cache[1] # NotCached
  <2>1. cache[1] # Garbage
    BY <1>1, <1>3 DEF Fetch
  <2> QED
    BY <1>3, <2>1 DEF PageOneInv, NextCipher
<1> QED
  BY <1>2, <1>3

\* The invariant holds at first.
LEMMA StrangerInit == Init => SInv
<1> SUFFICES ASSUME Init PROVE SInv
  OBVIOUS
<1>1. pc = "closed" /\ estate = "OPEN" /\ dirty = {} /\ needSync = {}
      /\ cache = EmptyCache /\ trusted = FALSE /\ jrnl = NoRecords
  BY DEF Init
<1>2. Journalled = {} /\ cache[1] = NotCached
  BY <1>1, OnePage DEF NoRecords, Journalled, EmptyCache
<1> QED
  BY <1>1, <1>2 DEF SInv, ShapeInv, StandInv, RecordInv, PageOneInv, TrustInv,
                    InSession, InRekey, InTxn, HotJournal

(***************************************************************************)
(* Steps that leave file and journal alone.                                *)
(***************************************************************************)

\* Opening, with whatever key.
LEMMA OpenStranger ==
  ASSUME TInv, SInv, NEW c \in Cipher, Open(c)
  PROVE  SInv'
<1> USE DEF SInv
<1>1. /\ pc = "closed" /\ pc' = "idle" /\ trusted' = (c = K)
      /\ codec' = IF c = Plain THEN NoCodec ELSE CodecSetup(c)
      /\ UNCHANGED <<rc, next, estate, cache, dirty, jrnl, needSync, disk>>
  BY DEF Open, K, DatabaseKey
<1>2. Journalled' = Journalled /\ K' = K
  BY <1>1, SameFound
<1>3. c # Plain => c \in Keys
  BY DEF Cipher
<1>4. ShapeInv'
  BY <1>1, <1>3 DEF ShapeInv, InSession, InRekey, CodecSetup
<1>5. StandInv' /\ RecordInv'
  BY <1>1, <1>2 DEF StandInv, RecordInv, InTxn
<1>6. cache'[1] = NotCached
  BY <1>1, OnePage DEF PageOneInv, EmptyCache
<1>7. PageOneInv'
  BY <1>1, <1>6 DEF PageOneInv, InTxn
<1>8. ReadCipher' = c
  BY <1>1 DEF ReadCipher, NoCodec, CodecSetup
<1>9. TrustInv'
  BY <1>1, <1>2, <1>8 DEF TrustInv
<1> QED
  BY <1>4, <1>5, <1>7, <1>9

\* The connection is gone, and what the journal still holds has the cipher of
\* page 1.
LEMMA GoneStranger ==
  ASSUME Disconnected, \A p \in Journalled' : jrnl'[p].enc = K'
  PROVE  SInv'
<1>1. pc' = "closed" /\ estate' = "OPEN" /\ dirty' = {} /\ needSync' = {}
      /\ cache' = EmptyCache /\ trusted' = FALSE
  BY DEF Disconnected
<1>2. cache'[1] = NotCached
  BY <1>1, OnePage DEF EmptyCache
<1>3. ShapeInv' /\ StandInv'
  BY <1>1 DEF ShapeInv, StandInv, InSession, InRekey, InTxn
<1>4. RecordInv' /\ PageOneInv' /\ TrustInv'
  BY <1>1, <1>2 DEF RecordInv, PageOneInv, TrustInv, InTxn, EmptyCache
<1> QED
  BY <1>3, <1>4 DEF SInv

\* Closing, reading and evicting.
LEMMA CacheStranger ==
  ASSUME TInv, SInv, Close \/ \E p \in Page : Read(p) \/ Evict(p)
  PROVE  SInv'
<1> USE DEF SInv
<1>0. UNCHANGED <<disk, jrnl>>
  BY DEF Close, Read, Evict
<1>a. Journalled' = Journalled /\ K' = K
  BY <1>0, SameFound
<1>1. CASE Close
  <2>1. \A p \in Journalled' : jrnl'[p].enc = K'
    BY <1>0, <1>1, <1>a DEF Close, RecordInv, InTxn
  <2> QED
    BY <1>1, <2>1, GoneStranger DEF Close
<1>2. ASSUME NEW p \in Page, Read(p) \/ Evict(p)
      PROVE  SInv'
  <2>1. UNCHANGED <<pc, rc, next, codec, estate, dirty, jrnl, needSync, disk,
                    trusted>>
    BY <1>2 DEF Read, Evict
  <2>2. ReadCipher' = ReadCipher /\ WriteCipher' = WriteCipher
    BY <2>1 DEF ReadCipher, WriteCipher
  <2>3. ShapeInv' /\ StandInv'
    BY <2>1 DEF ShapeInv, StandInv, InSession, InRekey, InTxn
  <2>4. RecordsReadable' <=> RecordsReadable
    BY <2>1, <1>a, <2>2 DEF RecordsReadable
  <2>5. ~InTxn /\ Journalled # {} => cache' = EmptyCache
    <3>1. Read(p) => Journalled = {} \/ InTxn
      BY DEF Read, HotJournal, StandInv
    <3>2. Evict(p) => cache # EmptyCache
      BY DEF Evict, EmptyCache
    <3> QED
      BY <1>2, <3>1, <3>2 DEF RecordInv
  <2>6. RecordInv'
    BY <2>1, <1>a, <2>4, <2>5 DEF RecordInv, InTxn
  <2>7. pc # "closed"
    <3>1. Evict(p) => cache # EmptyCache
      BY DEF Evict, EmptyCache
    <3> QED
      BY <1>2, <3>1 DEF Read, PageOneInv
  <2>8. cache'[1] \in {NotCached, Garbage, cache[1]}
        \/ (pc = "idle" /\ disk[1].enc = ReadCipher)
    <3>1. CASE p # 1
      BY <1>2, <3>1, OnePage DEF Read, Evict, TypeOK, TInv
    <3>2. CASE p = 1 /\ Evict(p)
      BY <3>2 DEF Evict, TypeOK, TInv
    <3>3. CASE p = 1 /\ Read(p)
      BY <3>3 DEF Read, TypeOK, TInv, Fetch, Decode
    <3> QED
      BY <1>2, <3>1, <3>2, <3>3
  <2>9. NextCipher' = NextCipher /\ (pc = "idle" => NextCipher = ReadCipher)
    BY <2>1, <2>2 DEF NextCipher
  <2>10. PageOneInv'
    BY <2>1, <1>a, <2>2, <2>7, <2>8, <2>9 DEF PageOneInv, InTxn
  <2>11. TrustInv'
    BY <2>1, <1>a, <2>2 DEF TrustInv, HotJournal
  <2> QED
    BY <2>3, <2>6, <2>10, <2>11
<1> QED
  BY <1>1, <1>2

\* A user transaction begins, or starts to commit.
LEMMA UserStranger ==
  ASSUME TInv, SInv, BeginUser \/ UserCommit
  PROVE  SInv'
<1> USE DEF SInv
<1>0. UNCHANGED <<rc, next, codec, dirty, jrnl, needSync, disk, trusted>>
  BY DEF BeginUser, UserCommit
<1>1. Journalled' = Journalled /\ K' = K
  BY <1>0, SameFound
<1>2. ReadCipher' = ReadCipher /\ WriteCipher' = WriteCipher
  BY <1>0 DEF ReadCipher, WriteCipher
<1>3. RecordsReadable' <=> RecordsReadable
  BY <1>0, <1>1, <1>2 DEF RecordsReadable
<1>4. CASE BeginUser
  <2>1. pc = "idle" /\ pc' = "user" /\ estate' = "CACHEMOD" /\ PageOneValid
        /\ ~HotJournal
    BY <1>4 DEF BeginUser
  <2>2. Journalled = {}
    BY <2>1 DEF HotJournal, StandInv, InTxn
  <2>3. disk[1].enc = ReadCipher
    BY <2>1, <2>2, BeginsOnOwnPage DEF InTxn
  <2>4. ShapeInv' /\ StandInv'
    BY <1>0, <2>1 DEF ShapeInv, StandInv, InSession, InRekey, InTxn
  <2>5. needSync = {} /\ dirty = {} /\ RecordsReadable
    BY <2>1, <2>2 DEF RecordInv, InTxn, RecordsReadable
  <2>6. RecordInv'
    BY <1>0, <1>1, <1>3, <2>1, <2>2, <2>5 DEF RecordInv, InTxn
  <2>7. PageOneInv'
    BY <1>0, <1>1, <1>2, <2>1, <2>2, <2>3 DEF PageOneInv, InTxn
  <2>8. TrustInv'
    BY <1>0, <1>1, <2>1, <2>2 DEF TrustInv, HotJournal
  <2> QED
    BY <2>4, <2>6, <2>7, <2>8
<1>5. CASE UserCommit
  <2>1. pc = "user" /\ pc' = "ucommit" /\ estate' = estate /\ cache' = cache
    BY <1>5 DEF UserCommit
  <2>2. ShapeInv' /\ StandInv'
    BY <1>0, <2>1 DEF ShapeInv, StandInv, InSession, InRekey, InTxn
  <2>3. RecordInv'
    BY <1>0, <1>1, <1>3, <2>1 DEF RecordInv, InTxn
  <2>4. PageOneInv' /\ TrustInv'
    BY <1>0, <1>1, <1>2, <2>1 DEF PageOneInv, TrustInv, HotJournal, InTxn
  <2> QED
    BY <2>2, <2>3, <2>4
<1> QED
  BY <1>4, <1>5

\* An error puts the pager into the ERROR state; pages may be torn on the way.
LEMMA ErrorStranger ==
  ASSUME TInv, SInv,
         estate' = "ERROR", pc \in {"user", "ucommit", "rekey", "rcommit"},
         pc' = IF pc \in {"rekey", "rcommit"} THEN "rollback" ELSE "user",
         rc' = IF pc \in {"rekey", "rcommit"} THEN FALSE ELSE rc,
         UNCHANGED <<next, codec, cache, dirty, jrnl, trusted>>,
         needSync' \subseteq needSync,
         UNCHANGED disk[1] \/ (1 \in dirty /\ 1 \notin needSync')
  PROVE  SInv'
<1> USE DEF SInv
<1>1. Journalled' = Journalled
  BY DEF Journalled
<1>2. ReadCipher' = ReadCipher /\ WriteCipher' = WriteCipher
  BY DEF ReadCipher, WriteCipher
<1>3. RecordsReadable' <=> RecordsReadable
  BY <1>1, <1>2 DEF RecordsReadable
<1>4. pc' \in {"user", "rollback"} /\ (pc' = "rollback" => ~rc')
  OBVIOUS
<1>5. ShapeInv' /\ StandInv'
  BY <1>4 DEF ShapeInv, StandInv, InSession, InRekey, InTxn
<1>6. RecordInv'
  BY <1>1, <1>3, <1>4 DEF RecordInv, InTxn
<1>7. 1 \in dirty => 1 \in Journalled
  BY DEF RecordInv
<1>8. 1 \notin Journalled \ needSync' => disk'[1].enc = ReadCipher
  BY <1>7 DEF PageOneInv, InTxn
<1>9. 1 \in Journalled \ dirty => disk'[1].enc = WriteCipher
  BY DEF PageOneInv, InTxn
<1>10. PageOneInv'
  BY <1>1, <1>2, <1>4, <1>8, <1>9 DEF PageOneInv, InTxn
<1>11. TrustInv'
  BY <1>4 DEF TrustInv, HotJournal
<1> QED
  BY <1>5, <1>6, <1>10, <1>11

\* A page is written, or the write fails, or the commit, or a page cannot be
\* decrypted.
LEMMA SpillStranger ==
  ASSUME TInv, SInv, NEW p \in Page,
         Spill(p) \/ SpillError(p) \/ FetchError(p) \/ CommitError
  PROVE  SInv'
<1> USE DEF SInv
<1>1. ASSUME p \in dirty
      PROVE  p \in Journalled /\ UnsyncedAfterSpill(p) \subseteq needSync
             /\ p \notin UnsyncedAfterSpill(p)
  BY <1>1 DEF RecordInv, UnsyncedAfterSpill
<1>2. CASE FetchError(p) \/ CommitError
  BY <1>2, ErrorStranger DEF FetchError, CommitError, Committing
<1>3. CASE SpillError(p)
  <2>1. p \in dirty /\ needSync' = UnsyncedAfterSpill(p)
        /\ disk' \in {disk, [disk EXCEPT ![p] = Torn]}
    BY <1>3 DEF SpillError, CanSpill
  <2>2. UNCHANGED disk[1] \/ p = 1
    BY <2>1, OnePage DEF TInv, TypeOK
  <2>3. needSync' \subseteq needSync /\ (p = 1 => 1 \in dirty /\ 1 \notin needSync')
    BY <1>1, <2>1
  <2> QED
    BY <1>3, <2>2, <2>3, ErrorStranger
    DEF SpillError, CanSpill, InWriteTxn, Committing
<1>4. CASE Spill(p)
  <2>0. /\ p \in dirty /\ pc \in {"user", "ucommit", "rekey", "rcommit"}
        /\ dirty' = dirty \ {p} /\ needSync' = UnsyncedAfterSpill(p)
        /\ estate' = "DBMOD" /\ disk' = [disk EXCEPT ![p] = PageToFile(p)]
        /\ UNCHANGED <<pc, rc, next, codec, cache, jrnl, trusted>>
    BY <1>4 DEF Spill, CanSpill, InWriteTxn, Committing
  <2>1. Journalled' = Journalled
    BY <2>0 DEF Journalled
  <2>2. ReadCipher' = ReadCipher /\ WriteCipher' = WriteCipher
    BY <2>0 DEF ReadCipher, WriteCipher
  <2>3. RecordsReadable' <=> RecordsReadable
    BY <2>0, <2>1, <2>2 DEF RecordsReadable
  <2>4. ShapeInv' /\ StandInv'
    BY <2>0 DEF ShapeInv, StandInv, InSession, InRekey, InTxn
  <2>5. RecordInv'
    BY <1>1, <2>0, <2>1, <2>3 DEF RecordInv, InTxn
  <2>6. p = 1 => disk'[1].enc = WriteCipher /\ 1 \in Journalled
                 /\ 1 \notin needSync'
    BY <1>1, <2>0 DEF PageToFile, TInv, TypeOK
  <2>7. p # 1 => disk'[1] = disk[1]
    BY <2>0 DEF TInv, TypeOK
  <2>8. 1 \notin Journalled \ needSync' => disk'[1].enc = ReadCipher
    BY <1>1, <2>0, <2>6, <2>7 DEF PageOneInv, InTxn
  <2>9. 1 \in Journalled \ dirty' => disk'[1].enc = WriteCipher
    BY <2>0, <2>6, <2>7 DEF PageOneInv, InTxn
  <2>10. PageOneInv'
    BY <2>0, <2>1, <2>2, <2>8, <2>9 DEF PageOneInv, InTxn
  <2>11. TrustInv'
    BY <2>0 DEF TrustInv, HotJournal
  <2> QED
    BY <2>4, <2>5, <2>10, <2>11
<1> QED
  BY <1>2, <1>3, <1>4

(***************************************************************************)
(* The steps of sqlite3_rekey_v2 between its page writes.                  *)
(***************************************************************************)

\* A rekey is called, and installs its write cipher.
LEMMA StartStranger ==
  ASSUME TInv, SInv, StrangerEnv,
         \E k \in Keys : BeginEncrypt(k) \/ BeginRekey(k)
  PROVE  SInv'
<1> USE DEF SInv
<1>1. PICK k \in Keys : BeginEncrypt(k) \/ BeginRekey(k)
  OBVIOUS
<1> DEFINE c == IF codec.attached THEN SetupWriteCipher(codec, k)
                                  ELSE SetupWriteCipher(NoCodec, k)
<1>2. StartRekey(c)
  BY <1>1 DEF BeginEncrypt, BeginRekey
<1>3. cache' \in {cache, EmptyCache}
  BY <1>1 DEF BeginEncrypt, BeginRekey
<1>4. /\ pc = "idle" /\ ~HotJournal /\ pc' = "begin" /\ rc' = TRUE /\ next' = 1
      /\ codec' = c
      /\ UNCHANGED <<estate, dirty, jrnl, needSync, disk, trusted>>
  BY <1>2 DEF StartRekey, StrangerEnv
<1>5. Journalled = {} /\ Journalled' = Journalled /\ K' = K
  BY <1>4, SameFound DEF HotJournal, StandInv, InTxn
<1>6. codec = NoCodec \/ (codec.rk \in Keys /\ codec = CodecSetup(codec.rk))
  BY <1>4 DEF ShapeInv, InSession
<1>7. /\ c.attached /\ c.isEncrypted /\ c.hasWrite /\ c.wk = k
      /\ c.hasRead => c.rk \in Keys
      /\ c.hasRead = codec.hasRead /\ c.rk = codec.rk
      /\ c.hasRead = (codec.isEncrypted /\ codec.hasRead)
  <2>1. CASE codec = NoCodec
    <3>1. c = SetupWriteCipher(NoCodec, k)
      BY <2>1 DEF NoCodec
    <3> QED
      BY <2>1, <3>1 DEF SetupWriteCipher, NoCodec
  <2>2. CASE codec.rk \in Keys /\ codec = CodecSetup(codec.rk)
    <3>1. codec.attached /\ codec.isEncrypted /\ codec.hasRead
      BY <2>2 DEF CodecSetup
    <3>2. c = [codec EXCEPT !.attached = TRUE, !.isEncrypted = TRUE,
                            !.hasWrite = TRUE, !.wk = k]
      BY <3>1 DEF SetupWriteCipher
    <3>3. codec \in Codec
      BY DEF TInv, TypeOK
    <3> QED
      BY <2>2, <3>1, <3>2, <3>3 DEF Codec
  <2> QED
    BY <1>6, <2>1, <2>2
<1> HIDE DEF c
<1>8. ReadCipher' = ReadCipher
  BY <1>4, <1>7 DEF ReadCipher
<1>9. ShapeInv' /\ StandInv'
  BY <1>4, <1>7 DEF ShapeInv, StandInv, InSession, InRekey, InTxn
<1>10. RecordInv'
  BY <1>4, <1>5 DEF RecordInv, InTxn
<1>11. cache'[1] \in {NotCached, cache[1]}
  BY <1>3, OnePage DEF EmptyCache
<1>12. PageOneInv'
  BY <1>4, <1>5, <1>8, <1>11 DEF PageOneInv, InTxn, NextCipher
<1>13. TrustInv'
  BY <1>4, <1>5, <1>7 DEF TrustInv, HotJournal
<1> QED
  BY <1>9, <1>10, <1>12, <1>13

\* What a rekey leaves behind reads with the write cipher if it succeeded, and
\* with the read cipher it had if it failed.
LEMMA LeftCodec ==
  ASSUME NEW c \in Codec, c.attached, c.isEncrypted, c.hasWrite,
         NEW ok \in BOOLEAN
  PROVE  LeaveCodec(c, ok) = IF ok THEN CodecSetup(c.wk)
                             ELSE IF c.hasRead THEN CodecSetup(c.rk) ELSE NoCodec
<1>1. ok => LeaveCodec(c, ok) = CodecSetup(c.wk)
  BY LeavesOneKey
<1>2. ~ok /\ c.hasRead => LeaveCodec(c, ok) = CodecSetup(c.rk)
  BY LeavesOneKey
<1>3. ~ok /\ ~c.hasRead => LeaveCodec(c, ok) = NoCodec
  BY LeavesOneKey
<1> QED
  BY <1>1, <1>2, <1>3

\* A rekey is refused, or cannot begin its transaction: it is left as it was.
LEMMA RefuseStranger ==
  ASSUME TInv, SInv,
         RekeyBeginError \/ \E k \in Cipher : RefuseRekey(k)
  PROVE  SInv'
<1> USE DEF SInv
<1>0. UNCHANGED <<estate, dirty, jrnl, needSync, disk, trusted>>
      /\ pc \in {"idle", "begin"} /\ pc' = "leave" /\ rc' = FALSE
      /\ cache' \in {cache, EmptyCache}
  BY DEF RekeyBeginError, RefuseRekey
<1>1. Journalled' = Journalled /\ K' = K
  BY <1>0, SameFound
<1>2. /\ codec'.attached /\ codec'.isEncrypted /\ codec'.hasWrite
      /\ codec'.hasRead => codec'.rk \in Keys
      /\ ReadCipher' = ReadCipher
  <2>1. CASE RekeyBeginError
    BY <2>1 DEF RekeyBeginError, ShapeInv, InRekey, ReadCipher
  <2>2. CASE \E k \in Cipher : RefuseRekey(k)
    <3>0. PICK k \in Cipher : RefuseRekey(k)
      BY <2>2
    <3>1. codec.rk \in Keys /\ codec = CodecSetup(codec.rk)
      BY <3>0 DEF RefuseRekey, ShapeInv, InSession, NoCodec
    <3>2. codec' = [codec EXCEPT !.attached = TRUE, !.isEncrypted = TRUE,
                                 !.hasWrite = TRUE, !.wk = k]
      BY <3>0 DEF RefuseRekey, SetupWriteCipher
    <3>3. codec.isEncrypted /\ codec.hasRead /\ codec \in Codec
      BY <3>1 DEF CodecSetup, TInv, TypeOK
    <3>4. codec'.attached /\ codec'.isEncrypted /\ codec'.hasWrite
          /\ codec'.hasRead /\ codec'.rk = codec.rk
      BY <3>2, <3>3 DEF Codec
    <3> QED
      BY <3>1, <3>3, <3>4 DEF ReadCipher
  <2> QED
    BY <2>1, <2>2
<1>3. ShapeInv' /\ StandInv'
  BY <1>0, <1>2 DEF ShapeInv, StandInv, InSession, InRekey, InTxn
<1>4. RecordInv'
  BY <1>0, <1>1 DEF RecordInv, InTxn
<1>5. cache'[1] \in {NotCached, cache[1]}
  BY <1>0, OnePage DEF EmptyCache
<1>6. PageOneInv'
  BY <1>0, <1>1, <1>2, <1>5 DEF PageOneInv, InTxn, NextCipher
<1>7. TrustInv'
  BY <1>0, <1>1, <1>2 DEF TrustInv, HotJournal
<1> QED
  BY <1>3, <1>4, <1>6, <1>7

\* The transaction of a rekey begins, ends its loop, or fails before a page
\* reached the file.
LEMMA LoopStranger ==
  ASSUME TInv, SInv, StrangerEnv, RekeyBeginTrans \/ RekeyCommit \/ RekeyError
  PROVE  SInv'
<1> USE DEF SInv
<1>0. UNCHANGED <<next, codec, dirty, jrnl, needSync, disk, trusted>>
  BY DEF RekeyBeginTrans, RekeyCommit, RekeyError
<1>1. Journalled' = Journalled /\ K' = K
  BY <1>0, SameFound
<1>2. ReadCipher' = ReadCipher /\ WriteCipher' = WriteCipher
  BY <1>0 DEF ReadCipher, WriteCipher
<1>3. RecordsReadable' <=> RecordsReadable
  BY <1>0, <1>1, <1>2 DEF RecordsReadable
<1>4. CASE RekeyBeginTrans
  <2>1. pc = "begin" /\ pc' = "rekey" /\ estate' = "CACHEMOD" /\ PageOneValid
        /\ ~HotJournal /\ rc' = rc
    BY <1>4 DEF RekeyBeginTrans
  <2>2. Journalled = {} /\ next = 1
    BY <2>1 DEF RecordInv, PageOneInv
  <2>3. disk[1].enc = ReadCipher
    BY <2>1, <2>2, BeginsOnOwnPage DEF InTxn
  <2>4. ShapeInv' /\ StandInv'
    BY <1>0, <2>1 DEF ShapeInv, StandInv, InSession, InRekey, InTxn
  <2>5. needSync = {} /\ dirty = {} /\ RecordsReadable
    BY <2>1, <2>2 DEF RecordInv, InTxn, RecordsReadable
  <2>6. RecordInv'
    BY <1>0, <1>1, <1>3, <2>1, <2>2, <2>5 DEF RecordInv, InTxn
  <2>7. PageOneInv'
    BY <1>0, <1>1, <1>2, <2>1, <2>2, <2>3 DEF PageOneInv, InTxn
  <2>8. TrustInv'
    BY <1>0, <1>1, <2>1, <2>2 DEF TrustInv, HotJournal
  <2> QED
    BY <2>4, <2>6, <2>7, <2>8
<1>5. CASE RekeyCommit
  <2>1. pc = "rekey" /\ pc' = "rcommit" /\ next > NPage
        /\ UNCHANGED <<rc, estate, cache>>
    BY <1>5 DEF RekeyCommit
  <2>2. 1 \in Journalled
    <3>1. next > 1
      BY <2>1, PageAssumption DEF TInv, TypeOK
    <3> QED
      BY <2>1, <3>1 DEF PageOneInv
  <2>3. ShapeInv' /\ StandInv'
    BY <1>0, <2>1 DEF ShapeInv, StandInv, InSession, InRekey, InTxn
  <2>4. RecordInv'
    BY <1>0, <1>1, <1>3, <2>1 DEF RecordInv, InTxn
  <2>5. PageOneInv' /\ TrustInv'
    BY <1>0, <1>1, <1>2, <2>1, <2>2
    DEF PageOneInv, TrustInv, HotJournal, InTxn
  <2> QED
    BY <2>3, <2>4, <2>5
<1>6. CASE RekeyError
  <2>1. pc \in {"rekey", "rcommit"} /\ estate = "CACHEMOD" /\ pc' = "rollback"
        /\ rc' = FALSE /\ UNCHANGED <<estate, cache>>
    BY <1>6 DEF RekeyError, StrangerEnv
  <2>2. ShapeInv' /\ StandInv'
    BY <1>0, <2>1 DEF ShapeInv, StandInv, InSession, InRekey, InTxn
  <2>3. RecordInv'
    BY <1>0, <1>1, <1>3, <2>1 DEF RecordInv, InTxn
  <2>4. PageOneInv' /\ TrustInv'
    BY <1>0, <1>1, <1>2, <2>1 DEF PageOneInv, TrustInv, HotJournal, InTxn
  <2> QED
    BY <2>2, <2>3, <2>4
<1> QED
  BY <1>4, <1>5, <1>6

\* The ciphers are made equal.
LEMMA LeaveStranger ==
  ASSUME TInv, SInv, LeaveRekey
  PROVE  SInv'
<1> USE DEF SInv
<1>0. /\ pc = "leave" /\ pc' = "idle" /\ rc' = TRUE
      /\ codec' = LeaveCodec(codec, rc) /\ cache' \in {cache, EmptyCache}
      /\ UNCHANGED <<estate, dirty, jrnl, needSync, disk, trusted>>
  BY DEF LeaveRekey
<1>1. Journalled' = Journalled /\ K' = K
  BY <1>0, SameFound
<1>2. codec \in Codec /\ rc \in BOOLEAN
  BY DEF TInv, TypeOK
<1>3. /\ codec.attached /\ codec.isEncrypted /\ codec.hasWrite
      /\ codec.hasRead => codec.rk \in Keys
      /\ rc => codec.wk \in Keys
  BY <1>0 DEF ShapeInv
<1>4. codec' = IF rc THEN CodecSetup(codec.wk)
               ELSE IF codec.hasRead THEN CodecSetup(codec.rk) ELSE NoCodec
  BY <1>0, <1>2, <1>3, LeftCodec
<1>5. codec' = NoCodec \/ (codec'.rk \in Keys /\ codec' = CodecSetup(codec'.rk))
  BY <1>3, <1>4 DEF CodecSetup
<1>6. ReadCipher' = NextCipher
  <2>1. CASE rc
    BY <1>0, <1>3, <1>4, <2>1 DEF ReadCipher, WriteCipher, NextCipher, CodecSetup
  <2>2. CASE ~rc
    BY <1>0, <1>3, <1>4, <2>2 DEF ReadCipher, NextCipher, CodecSetup, NoCodec
  <2> QED
    BY <2>1, <2>2
<1>7. ShapeInv' /\ StandInv'
  BY <1>0, <1>5 DEF ShapeInv, StandInv, InSession, InRekey, InTxn
<1>8. RecordInv'
  BY <1>0, <1>1 DEF RecordInv, InTxn
<1>9. cache'[1] \in {NotCached, cache[1]}
  BY <1>0, OnePage DEF EmptyCache
<1>10. NextCipher' = NextCipher
  BY <1>0, <1>6 DEF NextCipher
<1>11. PageOneInv'
  BY <1>0, <1>1, <1>9, <1>10 DEF PageOneInv, InTxn
<1>12. HotJournal' => HotJournal /\ ReadCipher' = ReadCipher
  BY <1>0, <1>1, <1>6 DEF HotJournal, RecordInv, NextCipher
<1>13. TrustInv'
  BY <1>0, <1>1, <1>12 DEF TrustInv
<1> QED
  BY <1>7, <1>8, <1>11, <1>13

(***************************************************************************)
(* Steps that journal pages.                                               *)
(***************************************************************************)

\* Whoever journals pages keeps the agreement of page 1 and the records.
LEMMA WriteStranger ==
  ASSUME TInv, SInv, NEW p \in Page, NEW v, PagerWrite(p, v),
         pc \in {"user", "rekey"},
         UNCHANGED <<pc, rc, codec, estate, disk, trusted>>,
         next' = next \/ (pc = "rekey" /\ next' = next + 1 /\ p = next)
  PROVE  SInv'
<1> USE DEF SInv
<1> DEFINE S == SectorToWrite(p)
<1>1. ReadCipher' = ReadCipher /\ WriteCipher' = WriteCipher
      /\ JournalCipher = ReadCipher
  BY DEF ReadCipher, WriteCipher, JournalCipher
<1>2. \A q \in Page : jrnl'[q] = IF q \in S /\ q \notin Journalled
                                THEN JournalRecord(q) ELSE jrnl[q]
  BY DEF PagerWrite, Journalled
<1>3. \A q \in Page : JournalRecord(q) \in Content /\ JournalRecord(q) # NoRec
  <2>1. ASSUME NEW q \in Page PROVE JournalRecord(q) \in Content
    BY CipherTyped, FetchTyped DEF JournalRecord, Content, PageVal, TInv
  <2> QED
    BY <2>1, RecordAssumption
<1>4. S \subseteq Page
  BY DEF SectorToWrite
<1>5. p \in S
  <2>1. p \in 1 .. NPage + 1
    BY OnePage DEF Page
  <2> QED
    BY <2>1 DEF SectorToWrite, Sector
<1>6. Journalled' = Journalled \cup S
  BY <1>2, <1>3, <1>4 DEF Journalled
<1>7. needSync' = needSync \cup (S \ Journalled) /\ dirty' = dirty \cup S
  BY <1>4 DEF PagerWrite, Journalled
<1>8. RecordsReadable'
  <2>1. RecordsReadable
    BY DEF RecordInv, InTxn
  <2>2. ASSUME NEW q \in Journalled' PROVE jrnl'[q].enc = ReadCipher
    <3>1. q \in Page
      BY DEF Journalled
    <3>2. CASE q \in Journalled
      BY <1>2, <2>1, <3>1, <3>2 DEF RecordsReadable
    <3>3. CASE q \notin Journalled
      <4>1. jrnl'[q] = JournalRecord(q)
        BY <1>2, <1>6, <3>1, <3>3
      <4> QED
        BY <1>1, <4>1 DEF JournalRecord
    <3> QED
      BY <3>2, <3>3
  <2> QED
    BY <1>1, <2>2 DEF RecordsReadable
<1>9. ShapeInv' /\ StandInv'
  BY DEF ShapeInv, StandInv, InSession, InRekey, InTxn
<1>10. needSync' \subseteq Journalled' /\ dirty' \subseteq Journalled'
  BY <1>6, <1>7 DEF RecordInv
<1>11. RecordInv'
  BY <1>8, <1>10 DEF RecordInv, InTxn
<1>12. 1 \notin Journalled' \ needSync' => 1 \notin Journalled \ needSync
  BY <1>6, <1>7
<1>13. 1 \in Journalled' \ dirty' => 1 \in Journalled \ dirty
  BY <1>6, <1>7
<1>14. pc = "rekey" /\ next' > 1 => 1 \in Journalled'
  <2> SUFFICES ASSUME pc = "rekey", next' > 1, 1 \notin Journalled
               PROVE  1 \in S
    BY <1>6
  <2>1. ~(next > 1) /\ next \in Int /\ next >= 1
    BY PageAssumption DEF PageOneInv, TInv, TypeOK
  <2>2. p = 1
    BY <2>1
  <2> QED
    BY <1>5, <2>2
<1>15. PageOneInv'
  BY <1>1, <1>12, <1>13, <1>14 DEF PageOneInv, InTxn
<1>16. TrustInv'
  BY DEF TrustInv, HotJournal, StandInv, InTxn
<1> QED
  BY <1>9, <1>11, <1>15, <1>16

\* A write of the application, and the next page of a rekey.
LEMMA PagesStranger ==
  ASSUME TInv, SInv,
         RekeyPage \/ \E p \in Page, v \in Vals : UserWrite(p, v)
  PROVE  SInv'
<1>1. CASE RekeyPage
  <2>1. next \in Page
    BY <1>1 DEF RekeyPage, TInv, TypeOK, Page
  <2> QED
    BY <1>1, <2>1, WriteStranger DEF RekeyPage, NextPage
<1>2. ASSUME NEW p \in Page, NEW v \in Vals, UserWrite(p, v)
      PROVE  SInv'
  BY <1>2, WriteStranger DEF UserWrite
<1> QED
  BY <1>1, <1>2

(***************************************************************************)
(* Commit, rollback, crash and recovery.                                   *)
(***************************************************************************)

\* A commit.
LEMMA CommitStranger ==
  ASSUME TInv, SInv, Commit
  PROVE  SInv'
<1> USE DEF SInv
<1>0. /\ pc \in {"ucommit", "rcommit"} /\ dirty = {}
      /\ jrnl' = NoRecords /\ needSync' = {} /\ estate' = "OPEN"
      /\ pc' = IF pc = "rcommit" THEN "leave" ELSE "idle"
      /\ UNCHANGED <<rc, next, codec, cache, dirty, disk, trusted>>
  BY DEF Commit, Committing
<1>1. Journalled' = {}
  BY <1>0 DEF Journalled, NoRecords
<1>2. pc = "rcommit" => rc
  BY DEF StandInv
<1>3. ShapeInv' /\ StandInv'
  BY <1>0, <1>2 DEF ShapeInv, StandInv, InSession, InRekey, InTxn
<1>4. RecordInv'
  BY <1>0, <1>1 DEF RecordInv, InTxn
<1>5. ReadCipher' = ReadCipher /\ WriteCipher' = WriteCipher
  BY <1>0 DEF ReadCipher, WriteCipher
<1>6. disk[1].enc = WriteCipher
  <2>1. CASE 1 \in Journalled
    BY <1>0, <2>1 DEF PageOneInv, InTxn
  <2>2. CASE 1 \notin Journalled
    <3>1. pc = "ucommit" /\ disk[1].enc = ReadCipher
      BY <1>0, <2>2 DEF PageOneInv, InTxn
    <3> QED
      BY <3>1, OneCipher DEF InSession
  <2> QED
    BY <2>1, <2>2
<1>7. NextCipher' = WriteCipher
  BY <1>0, <1>2, <1>5, OneCipher DEF NextCipher, InSession
<1>8. PageOneInv'
  BY <1>0, <1>6, <1>7 DEF PageOneInv, InTxn
<1>9. TrustInv'
  BY <1>0, <1>1 DEF TrustInv, HotJournal
<1> QED
  BY <1>3, <1>4, <1>8, <1>9

\* Forgetting records that are not synced leaves the records of one cipher,
\* the one page 1 is found under.
LEMMA CutOff ==
  ASSUME TInv, SInv, NEW U, U \subseteq needSync,
         jrnl' = [q \in Page |-> IF q \in U THEN NoRec ELSE jrnl[q]],
         disk'[1] = disk[1] \/ 1 \in Journalled \ U
  PROVE  /\ Journalled' = Journalled \ U
         /\ \A p \in Journalled' : jrnl'[p].enc = K'
         /\ InTxn => K' = ReadCipher
<1> USE DEF SInv
<1>1. Journalled' = Journalled \ U
  BY DEF Journalled
<1>2. \A p \in Journalled' : jrnl'[p] = jrnl[p] /\ p \in Journalled
  BY <1>1 DEF Journalled
<1>3. K' = IF 1 \in Journalled' THEN jrnl'[1].enc ELSE disk'[1].enc
  BY OnePage DEF K, DatabaseKey, Recovered, Journalled
<1>4. CASE InTxn
  <2>1. \A p \in Journalled : jrnl[p].enc = ReadCipher
    BY <1>4 DEF RecordInv, RecordsReadable
  <2>2. K' = ReadCipher
    <3>1. CASE 1 \in Journalled \ U
      BY <1>1, <1>2, <1>3, <2>1, <3>1
    <3>2. CASE 1 \notin Journalled \ U
      <4>1. 1 \notin Journalled \ needSync /\ disk'[1] = disk[1]
        BY <3>2
      <4> QED
        BY <1>1, <1>3, <1>4, <3>2, <4>1 DEF PageOneInv
    <3> QED
      BY <3>1, <3>2
  <2> QED
    BY <1>1, <1>2, <2>1, <2>2
<1>5. CASE ~InTxn
  <2>1. U = {} /\ \A p \in Journalled : jrnl[p].enc = K
    BY <1>5 DEF RecordInv
  <2>2. K' = K
    BY <1>1, <1>2, <1>3, <2>1, FoundKey
  <2> QED
    BY <1>1, <1>2, <1>5, <2>1, <2>2
<1> QED
  BY <1>4, <1>5

\* The process dies.
LEMMA CrashStranger ==
  ASSUME TInv, SInv,
         \/ Crash
         \/ \E p \in Page : CrashInSpill(p)
         \/ \E R \in SUBSET Page : CrashInPlayback(R)
  PROVE  SInv'
<1>1. CASE Crash
  <2>1. \A p \in Journalled' : jrnl'[p].enc = K'
    BY <1>1, CutOff DEF Crash, SyncedRecords
  <2> QED
    BY <1>1, <2>1, GoneStranger DEF Crash
<1>2. ASSUME NEW p \in Page, CrashInSpill(p) PROVE SInv'
  <2>1. /\ p \in Journalled /\ UnsyncedAfterSpill(p) \subseteq needSync
        /\ p \notin UnsyncedAfterSpill(p)
    BY <1>2 DEF CrashInSpill, CanSpill, SInv, RecordInv, UnsyncedAfterSpill
  <2>2. disk'[1] = disk[1] \/ 1 \in Journalled \ UnsyncedAfterSpill(p)
    BY <1>2, <2>1, OnePage DEF CrashInSpill, TInv, TypeOK
  <2>3. jrnl' = [q \in Page |-> IF q \in UnsyncedAfterSpill(p)
                               THEN NoRec ELSE jrnl[q]]
    BY <1>2 DEF CrashInSpill
  <2>4. \A q \in Journalled' : jrnl'[q].enc = K'
    BY <2>1, <2>2, <2>3, CutOff
  <2> QED
    BY <1>2, <2>4, GoneStranger DEF CrashInSpill
<1>3. ASSUME NEW R \in SUBSET Page, CrashInPlayback(R) PROVE SInv'
  <2>1. R \subseteq Journalled \ needSync
    BY <1>3 DEF CrashInPlayback, RecordsToFile
  <2>2. disk'[1] = disk[1] \/ 1 \in Journalled \ needSync
    BY <1>3, <2>1, OnePage DEF CrashInPlayback, RestoredFile
  <2>3. \A q \in Journalled' : jrnl'[q].enc = K'
    BY <1>3, <2>2, CutOff DEF CrashInPlayback, SyncedRecords
  <2> QED
    BY <1>3, <2>3, GoneStranger DEF CrashInPlayback
<1> QED
  BY <1>1, <1>2, <1>3

\* A transaction is left with its journal.
LEMMA AbandonStranger ==
  ASSUME TInv, SInv, AbandonTxn
  PROVE  SInv'
<1> USE DEF SInv
<1>0. /\ pc \in {"user", "ucommit", "rollback"}
      /\ pc' = IF pc = "rollback" THEN "leave" ELSE "idle"
      /\ estate' = "OPEN" /\ cache' = EmptyCache /\ dirty' = {} /\ needSync' = {}
      /\ UNCHANGED <<rc, next, codec, disk, trusted>>
  BY DEF AbandonTxn, AfterRollback
<1>1. (\A p \in Journalled' : jrnl'[p].enc = K') /\ K' = ReadCipher
  BY <1>0, CutOff DEF AbandonTxn, SyncedRecords, InTxn
<1>2. pc = "rollback" => ~rc
  BY DEF StandInv
<1>3. ShapeInv' /\ StandInv'
  BY <1>0, <1>2 DEF ShapeInv, StandInv, InSession, InRekey, InTxn
<1>4. RecordInv'
  BY <1>0, <1>1, <1>2 DEF RecordInv, InTxn
<1>5. cache'[1] = NotCached
  BY <1>0, OnePage DEF EmptyCache
<1>6. PageOneInv'
  BY <1>0, <1>5 DEF PageOneInv, InTxn
<1>7. ReadCipher' = ReadCipher
  BY <1>0 DEF ReadCipher
<1>8. TrustInv'
  BY <1>0, <1>1, <1>7 DEF TrustInv
<1> QED
  BY <1>3, <1>4, <1>6, <1>8

\* The connection plays its own journal back.
LEMMA RollbackStranger ==
  ASSUME TInv, SInv, Rollback
  PROVE  SInv'
<1> USE DEF SInv
<1>0. /\ pc \in {"user", "ucommit", "rollback"} /\ estate # "ERROR"
      /\ pc' = IF pc = "rollback" THEN "leave" ELSE "idle"
      /\ estate' = "OPEN" /\ dirty' = {}
      /\ jrnl' = NoRecords /\ needSync' = {}
      /\ disk' = RestoredFile(RecordsToFile)
      /\ UNCHANGED <<rc, next, codec, trusted>>
  BY DEF Rollback, AfterRollback
<1>1. Journalled' = {}
  BY <1>0 DEF Journalled, NoRecords
<1>2. pc = "rollback" => ~rc /\ estate = "CACHEMOD"
  BY <1>0 DEF StandInv
<1>3. ReadCipher' = ReadCipher
  BY <1>0 DEF ReadCipher
<1>4. disk'[1].enc = ReadCipher
  <2>1. disk'[1] = IF 1 \in RecordsToFile
                   THEN [val |-> jrnl[1].val, enc |-> WriteCipher] ELSE disk[1]
    BY <1>0, OnePage DEF RestoredFile
  <2>2. CASE 1 \in RecordsToFile
    <3>1. InSession
      BY <1>0, <1>2, <2>2 DEF RecordsToFile, InSession
    <3> QED
      BY <2>1, <2>2, <3>1, OneCipher
  <2>3. CASE 1 \notin RecordsToFile
    <3>1. estate = "CACHEMOD" \/ 1 \notin Journalled \ needSync
      BY <2>3 DEF RecordsToFile
    <3> QED
      BY <1>0, <2>1, <2>3, <3>1 DEF PageOneInv, InTxn
  <2> QED
    BY <2>2, <2>3
<1>5. ShapeInv' /\ StandInv'
  BY <1>0, <1>2 DEF ShapeInv, StandInv, InSession, InRekey, InTxn
<1>6. RecordInv'
  BY <1>0, <1>1, <1>2 DEF RecordInv, InTxn
<1>7. NextCipher' = ReadCipher
  BY <1>0, <1>2, <1>3 DEF NextCipher
<1>8. PageOneInv'
  BY <1>0, <1>4, <1>7 DEF PageOneInv, InTxn
<1>9. TrustInv'
  BY <1>0, <1>1 DEF TrustInv, HotJournal
<1> QED
  BY <1>5, <1>6, <1>8, <1>9

\* A hot journal is played back, refused, or taken to be empty.
LEMMA RecoverStranger ==
  ASSUME TInv, SInv, Recover \/ RecoverRefused \/ RecoverDiscards
  PROVE  SInv'
<1> USE DEF SInv
<1>0. pc = "idle"
  BY DEF Recover, RecoverRefused, RecoverDiscards, HotJournal, RecordInv
<1>1. CASE RecoverRefused
  <2>1. UNCHANGED <<pc, next, codec, estate, cache, dirty, jrnl, needSync, disk,
                    trusted>>
    BY <1>0, <1>1 DEF RecoverRefused
  <2>2. Journalled' = Journalled /\ K' = K
    BY <2>1, SameFound
  <2>3. ReadCipher' = ReadCipher /\ WriteCipher' = WriteCipher
    BY <2>1 DEF ReadCipher, WriteCipher
  <2>4. NextCipher' = NextCipher
    BY <1>0, <2>1, <2>3 DEF NextCipher
  <2>5. ShapeInv' /\ StandInv'
    BY <1>0, <2>1 DEF ShapeInv, StandInv, InSession, InRekey, InTxn
  <2>6. RecordInv' /\ PageOneInv'
    BY <1>0, <2>1, <2>2, <2>4 DEF RecordInv, PageOneInv, InTxn
  <2>7. TrustInv'
    BY <2>1, <2>2, <2>3 DEF TrustInv, HotJournal
  <2> QED
    BY <2>5, <2>6, <2>7
<1>2. CASE Recover \/ RecoverDiscards
  <2>1. /\ jrnl' = NoRecords /\ needSync' = {} /\ cache' = EmptyCache
        /\ UNCHANGED <<pc, rc, next, codec, estate, dirty, trusted>>
    BY <1>2 DEF Recover, RecoverDiscards
  <2>2. Journalled' = {} /\ cache'[1] = NotCached
    BY <2>1, OnePage DEF Journalled, NoRecords, EmptyCache
  <2>3. dirty = {}
    BY <1>0 DEF TInv, CleanOutside
  <2>4. ShapeInv' /\ StandInv'
    BY <2>1 DEF ShapeInv, StandInv, InSession, InRekey, InTxn
  <2>5. RecordInv' /\ PageOneInv'
    BY <1>0, <2>1, <2>2, <2>3 DEF RecordInv, PageOneInv, InTxn
  <2>6. TrustInv'
    BY <2>1, <2>2 DEF TrustInv, HotJournal
  <2> QED
    BY <2>4, <2>5, <2>6
<1> QED
  BY <1>1, <1>2

\* Every step keeps the invariant.
LEMMA StrangerStep == StrangerEnv /\ TInv /\ SInv /\ [Next]_vars => SInv'
<1> SUFFICES ASSUME StrangerEnv, TInv, SInv, [Next]_vars PROVE SInv'
  OBVIOUS
<1>1. CASE UNCHANGED vars
  BY <1>1
  DEF vars, SInv, ShapeInv, StandInv, RecordInv, PageOneInv, TrustInv,
      NextCipher, InSession, InRekey, InTxn, K, DatabaseKey, Recovered,
      RecordsReadable, HotJournal, Journalled, ReadCipher, WriteCipher
<1>2. ASSUME Next PROVE SInv'
  <2>1. CASE \E c \in Cipher : Open(c)
    BY <2>1, OpenStranger
  <2>2. CASE Close \/ \E p \in Page : Read(p) \/ Evict(p)
    BY <2>2, CacheStranger
  <2>3. CASE BeginUser \/ UserCommit
    BY <2>3, UserStranger
  <2>4. CASE \E p \in Page : Spill(p) \/ SpillError(p) \/ FetchError(p)
    BY <2>4, SpillStranger
  <2>5. CASE CommitError
    BY <2>5, OnePage, SpillStranger
  <2>6. CASE Commit
    BY <2>6, CommitStranger
  <2>7. CASE \E p \in Page, v \in Vals : UserWrite(p, v)
    BY <2>7, PagesStranger
  <2>8. CASE Rollback \/ AbandonTxn
    BY <2>8, RollbackStranger, AbandonStranger
  <2>9. CASE RekeyCall
    <3>1. ~BeginDecrypt
      BY DEF BeginDecrypt, StrangerEnv
    <3> QED
      BY <2>9, <3>1, StartStranger, RefuseStranger, LoopStranger, LeaveStranger,
         PagesStranger
      DEF RekeyCall
  <2>10. CASE \/ Crash
              \/ \E p \in Page : CrashInSpill(p)
              \/ \E R \in SUBSET Page : CrashInPlayback(R)
    BY <2>10, CrashStranger
  <2>11. CASE Recover \/ RecoverRefused \/ RecoverDiscards
    BY <2>11, RecoverStranger
  <2> QED
    BY <1>2, <2>1, <2>2, <2>3, <2>4, <2>5, <2>6, <2>7, <2>8, <2>9, <2>10, <2>11
    DEF Next, Transaction
<1> QED
  BY <1>1, <1>2

\* The invariant holds in every state.
LEMMA StrangerInvariance == StrangerEnv => (Spec => [](TInv /\ SInv))
<1> SUFFICES ASSUME StrangerEnv PROVE Spec => [](TInv /\ SInv)
  OBVIOUS
<1>1. TInv /\ SInv /\ [Next]_vars => (TInv /\ SInv)'
  BY StrangerStep, TypeStep
<1> QED
  BY <1>1, StrangerInit, TypeInit, PTL DEF Spec

-----------------------------------------------------------------------------
(***************************************************************************)
(* What holds whoever opens the database.                                  *)
(***************************************************************************)

\* A playback of the journal puts back what the journal holds.
LEMMA PlaybackKeepsCipher ==
  ASSUME TInv, SInv, Rollback \/ Recover, NEW p \in RecordsToFile
  PROVE  disk'[p] = jrnl[p]
<1> USE DEF SInv
<1>1. p \in Page /\ p \in Journalled /\ estate # "CACHEMOD"
  BY DEF RecordsToFile, Journalled
<1>2. InSession /\ RecordsReadable
  BY <1>1 DEF Rollback, Recover, StandInv, RecordInv, HotJournal, InSession
<1>3. jrnl[p].enc = WriteCipher
  BY <1>1, <1>2, OneCipher DEF RecordsReadable
<1>4. jrnl[p] \in Content
  BY <1>1 DEF TInv, TypeOK, Journalled
<1>5. disk'[p] = [val |-> jrnl[p].val, enc |-> WriteCipher]
  BY <1>1 DEF Rollback, Recover, RestoredFile
<1> QED
  BY <1>3, <1>4, <1>5 DEF Content

\* Only the recovery touches the records of a hot journal.
LEMMA OnlyRecoveryTouches ==
  ASSUME TInv, SInv, [Next]_vars, HotJournal, jrnl' # jrnl
  PROVE  Recover \/ RecoverDiscards
<1> USE DEF SInv
<1>1. ~InTxn /\ needSync = {} /\ estate = "OPEN"
  BY DEF HotJournal, StandInv, RecordInv
<1>2. SyncedRecords = jrnl
  BY <1>1 DEF SyncedRecords, TInv, TypeOK
<1>3. Next
  BY DEF vars
<1>4. ~Crash /\ ~AbandonTxn /\ ~\E R \in SUBSET Page : CrashInPlayback(R)
  BY <1>2 DEF Crash, AbandonTxn, CrashInPlayback
<1>5. ~RekeyCall
  BY <1>1
  DEF RekeyCall, BeginEncrypt, BeginRekey, BeginDecrypt, StartRekey,
      RefuseRekey, RekeyBeginTrans, RekeyBeginError, RekeyPage,
      RekeyCommit, RekeyError, LeaveRekey, InTxn
<1>6. ~Transaction
  BY <1>1, <1>4
  DEF Transaction, BeginUser, UserCommit, Commit, CommitError, FetchError,
      Spill, SpillError, UserWrite, Rollback, InTxn, Committing
<1>7. ~\E p \in Page : CrashInSpill(p)
  BY <1>1 DEF CrashInSpill, CanSpill, InWriteTxn, Committing, InTxn
<1>8. /\ ~Close /\ ~RecoverRefused /\ ~\E c \in Cipher : Open(c)
      /\ ~\E p \in Page : Read(p) \/ Evict(p)
  BY DEF Open, Close, Read, Evict, RecoverRefused
<1> QED
  BY <1>3, <1>4, <1>5, <1>6, <1>7, <1>8 DEF Next

\* A journal that cannot be decrypted was found by a stranger.
LEMMA UnreadableMeansStranger ==
  ASSUME SInv, HotJournal, ~RecordsReadable
  PROVE  ~trusted
<1>1. ~InTxn
  BY DEF HotJournal, SInv, StandInv
<1>2. \A p \in Journalled : jrnl[p].enc = K
  BY <1>1 DEF SInv, RecordInv
<1>3. ReadCipher # K
  BY <1>2 DEF RecordsReadable
<1> QED
  BY <1>3 DEF SInv, TrustInv

\* Whoever opens the database, with whatever key, a transaction and a rekey
\* decrypt every record of their own journal.
THEOREM StrangersReadOwnJournal ==
  StrangerEnv => (Spec => []OwnJournalReadable)
<1> SUFFICES ASSUME StrangerEnv PROVE Spec => []OwnJournalReadable
  OBVIOUS
<1>1. SInv => OwnJournalReadable
  BY DEF SInv, RecordInv, OwnJournalReadable, InTxn
<1> QED
  BY <1>1, StrangerInvariance, PTL

\* Whoever opens the database, with whatever key, a playback stores every page
\* under the very cipher the journal keeps it under.
THEOREM StrangersPlayBackVerbatim ==
  StrangerEnv => (Spec => PlaybackVerbatim)
<1> SUFFICES ASSUME StrangerEnv PROVE Spec => PlaybackVerbatim
  OBVIOUS
<1>1. TInv /\ SInv /\ [Next]_vars =>
        [Rollback \/ Recover => \A p \in RecordsToFile : disk'[p] = jrnl[p]]_vars
  BY PlaybackKeepsCipher
<1> QED
  BY <1>1, StrangerInvariance, PTL DEF Spec, PlaybackVerbatim

\* A connection that was opened with the right key restores a hot journal
\* completely before it lets go of it, also when strangers were there before
\* it and left pages of several keys.
THEOREM TrustedRestoresAfterStrangers ==
  StrangerEnv => (Spec => HotJournalRestored)
<1> SUFFICES ASSUME StrangerEnv PROVE Spec => HotJournalRestored
  OBVIOUS
<1>1. ASSUME TInv, SInv, [Next]_vars, HotJournal, jrnl' = NoRecords, trusted
      PROVE  disk' = Recovered
  <2>1. jrnl' # jrnl
    <3>1. PICK p \in Page : jrnl[p] # NoRec
      BY <1>1 DEF HotJournal, Journalled
    <3>2. jrnl'[p] = NoRec
      BY <1>1 DEF NoRecords
    <3> QED
      BY <3>1, <3>2
  <2>2. RecordsReadable
    BY <1>1, UnreadableMeansStranger
  <2>3. Recover
    BY <1>1, <2>1, <2>2, OnlyRecoveryTouches DEF RecoverDiscards
  <2>4. RecordsToFile = Journalled
    BY <1>1 DEF RecordsToFile, HotJournal, SInv, StandInv, RecordInv
  <2>5. \A p \in Page : disk'[p] = Recovered[p]
    <3> SUFFICES ASSUME NEW p \in Page PROVE disk'[p] = Recovered[p]
      OBVIOUS
    <3>1. CASE p \in Journalled
      BY <1>1, <2>3, <2>4, <3>1, PlaybackKeepsCipher DEF Recovered, Journalled
    <3>2. CASE p \notin Journalled
      BY <2>3, <2>4, <3>2 DEF Recover, RestoredFile, Recovered, Journalled
    <3> QED
      BY <3>1, <3>2
  <2> QED
    BY <2>3, <2>5 DEF Recover, RestoredFile, Recovered
<1>2. TInv /\ SInv /\ [Next]_vars =>
        [HotJournal /\ jrnl' = NoRecords /\ trusted => disk' = Recovered]_vars
  BY <1>1
<1> QED
  BY <1>2, StrangerInvariance, PTL DEF Spec, HotJournalRestored
=============================================================================
