---------------------------- MODULE RekeyProofs ----------------------------
(***************************************************************************)
(* Theorems about Rekey, for any number of pages, keys and page contents.  *)
(***************************************************************************)
EXTENDS Rekey, TLAPS

-----------------------------------------------------------------------------
(***************************************************************************)
(* Type correctness.  Pages are written to the file from the cache, so     *)
(* dirty pages have to be cached; and whoever empties the cache relies on  *)
(* there being no dirty pages outside transactions.                        *)
(***************************************************************************)
DirtyCached == \A p \in dirty : cache[p] # NotCached

CleanOutside == pc \in {"closed", "idle", "begin", "leave"} => dirty = {}

TInv == TypeOK /\ DirtyCached /\ CleanOutside

PageVal == Vals \cup {Garbage}

\* Each of the three ciphers of sqlite3mcCodec is a key, or none.
LEMMA CipherTyped ==
  ASSUME TypeOK
  PROVE  ReadCipher \in Cipher /\ WriteCipher \in Cipher
         /\ JournalCipher \in Cipher
  BY DEF TypeOK, Codec, ReadCipher, WriteCipher, JournalCipher, Cipher

\* A page that is fetched, from the cache or from the file, has a content.
LEMMA FetchTyped ==
  ASSUME TypeOK, NEW p \in Page
  PROVE  Fetch(p) \in PageVal /\ Fetch(p) # NotCached
<1>1. disk[p].val \in PageVal
  BY DEF TypeOK, Content, PageVal
<1>2. cache[p] # NotCached => cache[p] \in PageVal
  BY DEF TypeOK, PageVal
<1>3. Fetch(p) \in PageVal
  BY <1>1, <1>2 DEF Fetch, Decode, PageVal
<1> QED
  BY <1>3, ValueAssumption DEF PageVal

\* Journalling and caching a page keeps the pager's state well formed.
LEMMA PagerWriteTyped ==
  ASSUME TypeOK, DirtyCached, NEW p \in Page, NEW v \in PageVal,
         PagerWrite(p, v)
  PROVE  /\ jrnl' \in [Page -> Content \cup {NoRec}]
         /\ needSync' \subseteq Page
         /\ cache' \in [Page -> Vals \cup {Garbage, NotCached}]
         /\ dirty' \subseteq Page
         /\ DirtyCached'
<1> DEFINE S == SectorToWrite(p)
<1>1. S \subseteq Page
  BY DEF SectorToWrite
<1>2. \A q \in Page : JournalRecord(q) \in Content
  BY CipherTyped, FetchTyped DEF JournalRecord, Content, PageVal
<1>3. jrnl' = [q \in Page |-> IF q \in S /\ jrnl[q] = NoRec
                              THEN JournalRecord(q) ELSE jrnl[q]]
  BY DEF PagerWrite
<1>4. jrnl' \in [Page -> Content \cup {NoRec}]
  BY <1>2, <1>3 DEF TypeOK
<1>5. needSync' \subseteq Page /\ dirty' = dirty \cup S
  BY <1>1 DEF PagerWrite, TypeOK
<1>6. cache' = [q \in Page |-> IF q = p THEN v
                               ELSE IF q \in S THEN Fetch(q) ELSE cache[q]]
  BY DEF PagerWrite
<1>7. cache' \in [Page -> Vals \cup {Garbage, NotCached}]
  BY <1>6, FetchTyped DEF TypeOK, PageVal
<1>8. ASSUME NEW q \in dirty' PROVE cache'[q] # NotCached
  <2>1. q \in Page /\ (q \in dirty \/ q \in S)
    BY <1>1, <1>5, <1>8 DEF TypeOK
  <2>2. v # NotCached
    BY ValueAssumption DEF PageVal
  <2>3. q \in dirty => cache[q] # NotCached
    BY DEF DirtyCached
  <2> QED
    BY <2>1, <2>2, <2>3, <1>6, FetchTyped
<1> QED
  BY <1>1, <1>4, <1>5, <1>7, <1>8 DEF TypeOK, DirtyCached

\* The types of the initial states.
LEMMA TypeInit == Init => TInv
<1> SUFFICES ASSUME Init PROVE TInv
  OBVIOUS
<1>1. next \in 1 .. NPage + 1
  BY PageAssumption DEF Init
<1>2. disk \in [Page -> Content] /\ NoRecords \in [Page -> Content \cup {NoRec}]
  BY DEF Init, Content, NoRecords, Cipher
<1>3. EmptyCache \in [Page -> Vals \cup {Garbage, NotCached}]
  BY DEF EmptyCache
<1>4. NoCodec \in Codec
  BY DEF NoCodec, Codec, Cipher
<1>5. rc \in BOOLEAN /\ trusted \in BOOLEAN
  BY DEF Init
<1> QED
  BY <1>1, <1>2, <1>3, <1>4, <1>5 DEF Init, TInv, TypeOK, DirtyCached, CleanOutside

\* The connection forgets everything: what remains to be typed is in files.
LEMMA DisconnectedTyped ==
  ASSUME TypeOK, Disconnected, disk' \in [Page -> Content],
         jrnl' \in [Page -> Content \cup {NoRec}]
  PROVE  TInv'
<1>1. NoCodec \in Codec
  BY DEF NoCodec, Codec, Cipher
<1>2. EmptyCache \in [Page -> Vals \cup {Garbage, NotCached}]
  BY DEF EmptyCache
<1>3. next' \in 1 .. NPage + 1
  BY PageAssumption DEF Disconnected
<1>4. rc' \in BOOLEAN /\ trusted' \in BOOLEAN
  BY DEF Disconnected
<1> QED
  BY <1>1, <1>2, <1>3, <1>4
  DEF Disconnected, TInv, TypeOK, DirtyCached, CleanOutside

\* The types of what is written to the files.
LEMMA FilesTyped ==
  ASSUME TypeOK
  PROVE  /\ SyncedRecords \in [Page -> Content \cup {NoRec}]
         /\ NoRecords \in [Page -> Content \cup {NoRec}]
         /\ EmptyCache \in [Page -> Vals \cup {Garbage, NotCached}]
         /\ Torn \in Content
         /\ \A p \in Page : UnsyncedAfterSpill(p) \subseteq Page
         /\ \A p \in dirty : DirtyCached => PageToFile(p) \in Content
<1>1. SyncedRecords \in [Page -> Content \cup {NoRec}]
  BY DEF SyncedRecords, TypeOK
<1>2. NoRecords \in [Page -> Content \cup {NoRec}]
  BY DEF NoRecords
<1>3. EmptyCache \in [Page -> Vals \cup {Garbage, NotCached}]
  BY DEF EmptyCache
<1>4. Torn \in Content
  BY DEF Torn, Content, Cipher
<1>5. \A p \in Page : UnsyncedAfterSpill(p) \subseteq Page
  BY DEF UnsyncedAfterSpill, TypeOK
<1>6. ASSUME NEW p \in dirty, DirtyCached PROVE PageToFile(p) \in Content
  <2>1. p \in Page /\ cache[p] \in PageVal
    BY <1>6 DEF TypeOK, DirtyCached, PageVal
  <2> QED
    BY <2>1, CipherTyped DEF PageToFile, Content, PageVal
<1> QED
  BY <1>1, <1>2, <1>3, <1>4, <1>5, <1>6

\* A playback writes contents, to the file and to the cache.
LEMMA PlaybackTyped ==
  ASSUME TypeOK, NEW R \in SUBSET Journalled
  PROVE  /\ RestoredFile(R) \in [Page -> Content]
         /\ RestoredCache \in [Page -> Vals \cup {Garbage, NotCached}]
<1>1. ASSUME NEW p \in Journalled
      PROVE  p \in Page /\ jrnl[p] \in Content /\ jrnl[p].val \in PageVal
  BY DEF Journalled, TypeOK, Content, PageVal
<1>2. ASSUME NEW p \in Page, p \in R
      PROVE  [val |-> jrnl[p].val, enc |-> WriteCipher] \in Content
  BY <1>1, <1>2, CipherTyped DEF Content, PageVal
<1>3. RestoredFile(R) \in [Page -> Content]
  BY <1>2 DEF RestoredFile, TypeOK
<1>4. RestoredCache \in [Page -> Vals \cup {Garbage, NotCached}]
  BY <1>1 DEF RestoredCache, TypeOK, PageVal
<1> QED
  BY <1>3, <1>4

\* The types of what sqlite3mcSetupWriteCipher and the rekey make of a codec.
LEMMA CodecTyped ==
  ASSUME TypeOK, NEW k \in Cipher, NEW ok \in BOOLEAN
  PROVE  /\ CodecSetup(k) \in Codec /\ NoCodec \in Codec
         /\ SetupWriteCipher(codec, k) \in Codec
         /\ SetupWriteCipher(NoCodec, k) \in Codec
         /\ [codec EXCEPT !.hasWrite = FALSE] \in Codec
         /\ LeaveCodec(codec, ok) \in Codec
<1>1. CodecSetup(k) \in Codec /\ NoCodec \in Codec
  BY DEF CodecSetup, NoCodec, Codec, Cipher
<1>2. ASSUME NEW c \in Codec PROVE SetupWriteCipher(c, k) \in Codec
  BY DEF SetupWriteCipher, Codec
<1>3. codec \in Codec
  BY DEF TypeOK
<1>4. [codec EXCEPT !.hasWrite = FALSE] \in Codec
  BY <1>3 DEF Codec
<1>5. LeaveCodec(codec, ok) \in Codec
  BY <1>1, <1>3 DEF LeaveCodec, Codec
<1> QED
  BY <1>1, <1>2, <1>3, <1>4, <1>5

(***************************************************************************)
(* One lemma per group of actions, one step per action.                    *)
(***************************************************************************)
LEMMA SessionTyped ==
  ASSUME TInv, Next,
         \/ \E c \in Cipher : Open(c)
         \/ Close
         \/ \E p \in Page : Read(p) \/ Evict(p)
         \/ BeginUser
         \/ UserCommit
  PROVE  TInv'
<1> USE DEF TInv
<1>1. ASSUME NEW c \in Cipher, Open(c) PROVE TInv'
  BY <1>1, CodecTyped DEF Open, TypeOK, DirtyCached, CleanOutside
<1>2. CASE Close
  BY <1>2, DisconnectedTyped DEF Close, TypeOK
<1>3. ASSUME NEW p \in Page, Read(p) PROVE TInv'
  BY <1>3, FetchTyped DEF Read, TypeOK, DirtyCached, CleanOutside, PageVal
<1>4. ASSUME NEW p \in Page, Evict(p) PROVE TInv'
  BY <1>4 DEF Evict, TypeOK, DirtyCached, CleanOutside
<1>5. CASE BeginUser
  <2>1. 1 \in Page
    BY PageAssumption DEF Page
  <2>2. Fetch(1) \in PageVal /\ Fetch(1) # NotCached
    BY <2>1, FetchTyped
  <2> QED
    BY <1>5, <2>1, <2>2 DEF BeginUser, TypeOK, DirtyCached, CleanOutside, PageVal
<1>6. CASE UserCommit
  BY <1>6 DEF UserCommit, TypeOK, DirtyCached, CleanOutside
<1> QED
  BY <1>1, <1>2, <1>3, <1>4, <1>5, <1>6

\* Page reads, writes and spills keep the types.
LEMMA WriteTyped ==
  ASSUME TInv, NEW p \in Page,
         \/ \E v \in Vals : UserWrite(p, v)
         \/ Spill(p)
         \/ SpillError(p)
         \/ FetchError(p)
         \/ CrashInSpill(p)
  PROVE  TInv'
<1> USE DEF TInv
<1>1. ASSUME NEW v \in Vals, UserWrite(p, v) PROVE TInv'
  <2>1. PagerWrite(p, v) /\ v \in PageVal
    BY <1>1 DEF UserWrite, PageVal
  <2>2. /\ jrnl' \in [Page -> Content \cup {NoRec}]
        /\ needSync' \subseteq Page
        /\ cache' \in [Page -> Vals \cup {Garbage, NotCached}]
        /\ dirty' \subseteq Page
        /\ DirtyCached'
    BY <2>1, PagerWriteTyped
  <2> QED
    BY <1>1, <2>2 DEF UserWrite, TypeOK, CleanOutside
<1>2. CASE Spill(p)
  <2>1. p \in dirty /\ PageToFile(p) \in Content
    BY <1>2, FilesTyped DEF Spill, CanSpill
  <2>2. UnsyncedAfterSpill(p) \subseteq Page
    BY FilesTyped
  <2> QED
    BY <1>2, <2>1, <2>2 DEF Spill, TypeOK, DirtyCached, CleanOutside
<1>3. CASE SpillError(p)
  <2>1. disk' \in [Page -> Content] /\ needSync' \subseteq Page
    BY <1>3, FilesTyped DEF SpillError, TypeOK
  <2>2. pc' \in {"user", "rekey", "rollback", "ucommit", "rcommit"}
        /\ rc' \in BOOLEAN
    BY <1>3 DEF SpillError, CanSpill, InWriteTxn, Committing, TypeOK
  <2> QED
    BY <1>3, <2>1, <2>2 DEF SpillError, TypeOK, DirtyCached, CleanOutside
<1>4. CASE FetchError(p)
  <2>1. pc' \in {"user", "rollback"} /\ rc' \in BOOLEAN
    BY <1>4 DEF FetchError, TypeOK
  <2> QED
    BY <1>4, <2>1 DEF FetchError, TypeOK, DirtyCached, CleanOutside
<1>5. CASE CrashInSpill(p)
  <2>1. disk' \in [Page -> Content]
    BY <1>5, FilesTyped DEF CrashInSpill, TypeOK
  <2>2. jrnl' \in [Page -> Content \cup {NoRec}]
    BY <1>5 DEF CrashInSpill, TypeOK
  <2> QED
    BY <1>5, <2>1, <2>2, DisconnectedTyped DEF CrashInSpill
<1> QED
  BY <1>1, <1>2, <1>3, <1>4, <1>5

\* The end of a transaction keeps the types.
LEMMA EndTyped ==
  ASSUME TInv,
         Commit \/ CommitError \/ Rollback \/ AbandonTxn
  PROVE  TInv'
<1> USE DEF TInv
<1>1. CASE Commit
  BY <1>1, FilesTyped DEF Commit, TypeOK, DirtyCached, CleanOutside
<1>2. CASE CommitError
  <2>1. pc' \in {"user", "rollback"} /\ rc' \in BOOLEAN
    BY <1>2 DEF CommitError, TypeOK
  <2> QED
    BY <1>2, <2>1 DEF CommitError, TypeOK, DirtyCached, CleanOutside
<1>3. CASE Rollback
  <2>1. RecordsToFile \in SUBSET Journalled
    BY DEF RecordsToFile
  <2>2. disk' \in [Page -> Content]
        /\ cache' \in [Page -> Vals \cup {Garbage, NotCached}]
    BY <1>3, <2>1, PlaybackTyped DEF Rollback
  <2>3. jrnl' \in [Page -> Content \cup {NoRec}]
    BY <1>3, FilesTyped DEF Rollback
  <2> QED
    BY <1>3, <2>2, <2>3
    DEF Rollback, AfterRollback, TypeOK, DirtyCached, CleanOutside
<1>4. CASE AbandonTxn
  BY <1>4, FilesTyped
  DEF AbandonTxn, AfterRollback, TypeOK, DirtyCached, CleanOutside
<1> QED
  BY <1>1, <1>2, <1>3, <1>4

\* The steps of sqlite3_rekey_v2 keep the types.
LEMMA RekeyTyped ==
  ASSUME TInv, RekeyCall
  PROVE  TInv'
<1> USE DEF TInv
<1>1. ASSUME NEW c \in Codec, StartRekey(c),
             UNCHANGED cache \/ cache' = EmptyCache
      PROVE  TInv'
  <2>1. next' \in 1 .. NPage + 1
    BY <1>1, PageAssumption DEF StartRekey
  <2>2. dirty = {} /\ rc' \in BOOLEAN
    BY <1>1 DEF StartRekey, CleanOutside
  <2>3. cache' \in [Page -> Vals \cup {Garbage, NotCached}]
    BY <1>1, FilesTyped DEF TypeOK
  <2> QED
    BY <1>1, <2>1, <2>2, <2>3 DEF StartRekey, TypeOK, DirtyCached, CleanOutside
<1>2. ASSUME NEW k \in Keys, BeginEncrypt(k) \/ BeginRekey(k) PROVE TInv'
  <2>1. k \in Cipher
    BY DEF Cipher
  <2> QED
    BY <1>1, <1>2, <2>1, CodecTyped DEF BeginEncrypt, BeginRekey
<1>3. CASE BeginDecrypt
  BY <1>1, <1>3, CodecTyped DEF BeginDecrypt, Cipher
<1>4. ASSUME NEW k \in Cipher, RefuseRekey(k) PROVE TInv'
  <2>1. next' \in 1 .. NPage + 1
    BY <1>4, PageAssumption DEF RefuseRekey
  <2>2. codec' \in Codec /\ rc' \in BOOLEAN
    BY <1>4, CodecTyped DEF RefuseRekey
  <2> QED
    BY <1>4, <2>1, <2>2 DEF RefuseRekey, TypeOK, DirtyCached, CleanOutside
<1>5. CASE RekeyBeginTrans
  <2>1. 1 \in Page
    BY PageAssumption DEF Page
  <2>2. Fetch(1) \in PageVal /\ Fetch(1) # NotCached
    BY <2>1, FetchTyped
  <2> QED
    BY <1>5, <2>1, <2>2
    DEF RekeyBeginTrans, TypeOK, DirtyCached, CleanOutside, PageVal
<1>6. CASE RekeyBeginError
  <2>1. cache' \in [Page -> Vals \cup {Garbage, NotCached}] /\ dirty = {}
    BY <1>6, FilesTyped DEF RekeyBeginError, TypeOK, CleanOutside
  <2> QED
    BY <1>6, <2>1 DEF RekeyBeginError, TypeOK, DirtyCached, CleanOutside
<1>7. CASE RekeyPage
  <2>1. next \in Page /\ next' \in 1 .. NPage + 1
    BY <1>7, PageAssumption DEF RekeyPage, NextPage, TypeOK, Page
  <2>2. Fetch(next) \in PageVal
    BY <2>1, FetchTyped
  <2>3. /\ jrnl' \in [Page -> Content \cup {NoRec}]
        /\ needSync' \subseteq Page
        /\ cache' \in [Page -> Vals \cup {Garbage, NotCached}]
        /\ dirty' \subseteq Page
        /\ DirtyCached'
    BY <1>7, <2>1, <2>2, PagerWriteTyped DEF RekeyPage
  <2> QED
    BY <1>7, <2>1, <2>3 DEF RekeyPage, TypeOK, CleanOutside
<1>8. CASE RekeyCommit
  BY <1>8 DEF RekeyCommit, TypeOK, DirtyCached, CleanOutside
<1>9. CASE RekeyError
  BY <1>9 DEF RekeyError, TypeOK, DirtyCached, CleanOutside
<1>10. CASE LeaveRekey
  <2>1. next' \in 1 .. NPage + 1
    BY <1>10, PageAssumption DEF LeaveRekey
  <2>2. codec' \in Codec /\ dirty = {}
    BY <1>10, CodecTyped DEF LeaveRekey, CleanOutside, TypeOK, Cipher
  <2>3. cache' \in [Page -> Vals \cup {Garbage, NotCached}]
    BY <1>10, FilesTyped DEF LeaveRekey, TypeOK
  <2> QED
    BY <1>10, <2>1, <2>2, <2>3
    DEF LeaveRekey, TypeOK, DirtyCached, CleanOutside
<1> QED
  BY <1>2, <1>3, <1>4, <1>5, <1>6, <1>7, <1>8, <1>9, <1>10 DEF RekeyCall

\* A crash and the recovery after it keep the types.
LEMMA RecoveryTyped ==
  ASSUME TInv,
         \/ Crash
         \/ \E R \in SUBSET Page : CrashInPlayback(R)
         \/ Recover
         \/ RecoverRefused
         \/ RecoverDiscards
  PROVE  TInv'
<1> USE DEF TInv
<1>1. CASE Crash
  BY <1>1, FilesTyped, DisconnectedTyped DEF Crash, TypeOK
<1>2. ASSUME NEW R \in SUBSET Page, CrashInPlayback(R) PROVE TInv'
  <2>1. R \in SUBSET Journalled
    BY <1>2 DEF CrashInPlayback, RecordsToFile
  <2> QED
    BY <1>2, <2>1, PlaybackTyped, FilesTyped, DisconnectedTyped
    DEF CrashInPlayback
<1>3. CASE Recover
  <2>1. RecordsToFile \in SUBSET Journalled
    BY DEF RecordsToFile
  <2>2. disk' \in [Page -> Content]
    BY <1>3, <2>1, PlaybackTyped DEF Recover
  <2> QED
    BY <1>3, <2>2, FilesTyped
    DEF Recover, TypeOK, DirtyCached, CleanOutside
<1>4. CASE RecoverRefused
  BY <1>4 DEF RecoverRefused, TypeOK, DirtyCached, CleanOutside
<1>5. CASE RecoverDiscards
  BY <1>5, FilesTyped DEF RecoverDiscards, TypeOK, DirtyCached, CleanOutside
<1> QED
  BY <1>1, <1>2, <1>3, <1>4, <1>5

\* Every step keeps the types.
LEMMA TypeStep == TInv /\ [Next]_vars => TInv'
<1> SUFFICES ASSUME TInv, [Next]_vars PROVE TInv'
  OBVIOUS
<1>1. CASE UNCHANGED vars
  BY <1>1 DEF vars, TInv, TypeOK, DirtyCached, CleanOutside
<1>2. CASE Next
  BY <1>2, SessionTyped, WriteTyped, EndTyped, RekeyTyped, RecoveryTyped
  DEF Next, Transaction
<1> QED
  BY <1>1, <1>2

\* In every reachable state the codec, the page cache, the rollback journal
\* and the database file are well formed, and no page without a cached
\* content is ever waiting to be written to the file.
THEOREM TypeCorrect == Spec => [](TypeOK /\ DirtyCached)
<1>1. TInv => TypeOK /\ DirtyCached
  BY DEF TInv
<1> QED
  BY <1>1, TypeInit, TypeStep, PTL DEF Spec

-----------------------------------------------------------------------------
(***************************************************************************)
(* The key of the database.  What follows holds in an environment that     *)
(* does not make the four things happen that break it: a rollback of a     *)
(* rekey after pages reached the file, a rekey that begins on a hot        *)
(* journal, openers whose missing or wrong key is not detected, and a      *)
(* session that goes on writing after its removal of the encryption has    *)
(* failed.                                                                 *)
(***************************************************************************)
SafeEnv ==
  /\ Env \subseteq {"crash", "busy", "pagererr", "wrongkey"}
  /\ "wrongkey" \in Env => Auth

K == DatabaseKey

InSession == pc \in {"idle", "user", "ucommit"}
InRekey   == pc \in {"begin", "rekey", "rcommit", "rollback"}
             \/ (pc = "leave" /\ ~rc)
InTxn     == pc \in {"user", "ucommit", "rekey", "rcommit", "rollback"}

\* The codec of a session; after a failed removal it has no write cipher.
CodecOf(k) == IF k = Plain THEN NoCodec ELSE CodecSetup(k)
Unwritable(k) ==
  [attached |-> TRUE, isEncrypted |-> TRUE,
   hasRead |-> TRUE, rk |-> k, hasWrite |-> FALSE, wk |-> k]

\* The codec agrees with the key in a session; during a rekey its read cipher
\* still does, and once the rekey has committed its write cipher does.
CodecInv ==
  /\ InSession => \/ codec = CodecOf(K)
                  \/ pc = "idle" /\ K # Plain /\ codec = Unwritable(K)
  /\ InRekey =>
       /\ codec.attached /\ codec.isEncrypted
       /\ IF K = Plain THEN ~codec.hasRead /\ codec.hasWrite
                       ELSE codec.hasRead /\ codec.rk = K
  /\ pc = "leave" /\ rc =>
       codec.attached /\ codec.isEncrypted /\ K = WriteCipher
  /\ pc \in {"begin", "rekey", "rcommit", "leave"} /\ rc /\ codec.hasWrite =>
       codec.wk \in Keys

\* Where the running rekey stands.
ControlInv ==
  /\ pc # "closed" => trusted
  /\ pc \in {"begin", "rekey", "rcommit"} => rc
  /\ pc = "rollback" => ~rc /\ estate \in {"CACHEMOD", "ERROR"}
  /\ pc \in {"rekey", "rcommit"} => estate \in {"CACHEMOD", "DBMOD"}
  /\ InTxn => estate # "OPEN"
  /\ ~InTxn => estate = "OPEN"

\* Records that a crash would forget, and all records before the file is
\* first written to, repeat what the file holds.
JournalInv ==
  /\ needSync \subseteq Journalled
  /\ dirty \subseteq Journalled
  /\ \A p \in needSync : disk[p] = jrnl[p]
  /\ estate = "CACHEMOD" => \A p \in Journalled : disk[p] = jrnl[p]
  /\ ~InTxn => needSync = {}
  /\ ~InTxn /\ Journalled # {} => cache = EmptyCache
  /\ pc = "begin" \/ (pc = "leave" /\ rc) => Journalled = {}

\* Nothing is cached before the database is opened; clean pages are as in the
\* file; user transactions keep the key.
CacheInv ==
  /\ pc = "closed" => cache = EmptyCache
  /\ estate # "ERROR" => \A p \in Page \ dirty :
                           cache[p] \in {NotCached, disk[p].val}
  /\ pc \in {"user", "ucommit"} /\ estate # "ERROR" =>
       /\ \A p \in Page : disk[p].enc = K /\ disk[p].val \in Vals
       /\ \A p \in dirty : cache[p] \in Vals

\* Pages the rekey has journalled are waiting for the new key or have it, and
\* keep their content; the pages of the sector the loop is in are waiting.
LoopInv ==
  /\ pc \in {"rekey", "rcommit"} => \A p \in Journalled :
       IF p \in dirty THEN cache[p] = jrnl[p].val
       ELSE disk[p] = [val |-> jrnl[p].val, enc |-> WriteCipher]
  /\ pc = "begin" => next = 1
  /\ pc = "rekey" => \A p \in Page : p < next => p \in Journalled
  /\ pc = "rekey" => \A p \in Journalled : p >= next => p \in dirty
  /\ pc = "rcommit" => Journalled = Page

KInv == OneKey /\ CodecInv /\ ControlInv /\ JournalInv /\ CacheInv /\ LoopInv

\* The invariant as long as the connection has the right key.
IInv == TInv /\ KInv

\* A connection with a wrong key sees nothing, as every page it reads fails
\* to authenticate: it begins no transaction, and no rekey of it succeeds.
StrangerKept ==
  /\ Auth /\ OneKey /\ ~trusted
  /\ pc \in {"idle", "begin", "leave"} /\ (pc = "leave" => ~rc)
  /\ codec.attached /\ codec.isEncrypted
  /\ codec.hasRead /\ codec.rk \in Keys /\ codec.rk # K
  /\ estate = "OPEN" /\ needSync = {} /\ cache = EmptyCache
  /\ pc = "begin" => Journalled = {}

\* The inductive invariant.
SafeInv == TInv /\ (KInv \/ StrangerKept)

-----------------------------------------------------------------------------
(***************************************************************************)
(* Facts about the ciphers, the file and the cache under the invariant.    *)
(***************************************************************************)
LEMMA OnePage == 1 \in Page /\ NPage \in Nat
  BY PageAssumption DEF Page

\* The key of the database is the cipher of page 1 after recovery.
LEMMA KeyTyped ==
  ASSUME TypeOK
  PROVE  /\ Recovered \in [Page -> Content]
         /\ K \in Cipher /\ K = Recovered[1].enc
<1>1. Recovered \in [Page -> Content]
  BY DEF Recovered, TypeOK
<1> QED
  BY <1>1, OnePage DEF K, DatabaseKey, Content

\* Outside a committed rekey, pages are read with the key of the database.
LEMMA ReadsWithKey ==
  ASSUME CodecInv, InSession \/ InRekey
  PROVE  ReadCipher = K
  BY CipherAssumption DEF CodecInv, CodecOf, Unwritable, InSession,
     InRekey, ReadCipher, NoCodec, CodecSetup

\* A session without write cipher begins no transaction and recovers no
\* journal; all others have the codec of the key.
LEMMA MayWriteSafely ==
  ASSUME CodecInv, SafeEnv, InSession, MayWrite
  PROVE  codec = CodecOf(K)
<1>1. codec = Unwritable(K) => RemovalFailed
  BY DEF Unwritable, RemovalFailed
<1> QED
  BY <1>1 DEF CodecInv, MayWrite, SafeEnv

\* Wherever a session may write, it writes with the key of the database.
LEMMA WritesWithKey ==
  ASSUME CodecInv, InSession, codec = CodecOf(K)
  PROVE  WriteCipher = K
  BY DEF CodecOf, WriteCipher, NoCodec, CodecSetup

\* What a record holds, and what the file holds of a page without a record.
LEMMA Stored ==
  ASSUME TypeOK, OneKey, NEW p \in Page
  PROVE  /\ Recovered[p] = IF p \in Journalled THEN jrnl[p] ELSE disk[p]
         /\ Recovered[p].enc = K /\ Recovered[p].val \in Vals
         /\ Recovered[p] = [val |-> Recovered[p].val, enc |-> K]
<1>1. Recovered[p] = IF p \in Journalled THEN jrnl[p] ELSE disk[p]
  BY DEF Recovered, Journalled
<1>2. Recovered[p].enc = K /\ Recovered[p].val \in Vals
  BY KeyTyped DEF OneKey
<1>3. Recovered[p] \in Content
  BY KeyTyped
<1>4. Recovered[p] = [val |-> Recovered[p].val, enc |-> K]
  BY <1>2, <1>3 DEF Content
<1> QED
  BY <1>1, <1>2, <1>4

\* A page without a record is read as it is stored, and so it is journalled.
LEMMA FetchesStored ==
  ASSUME TypeOK, OneKey, JournalInv, CacheInv, ReadCipher = K,
         estate # "ERROR", NEW p \in Page, p \notin Journalled
  PROVE  /\ Fetch(p) = disk[p].val /\ Fetch(p) \in Vals
         /\ JournalRecord(p) = disk[p]
         /\ ~FetchFails(p)
<1>1. p \notin dirty
  BY DEF JournalInv
<1>2. disk[p] = [val |-> disk[p].val, enc |-> K] /\ disk[p].enc = K
      /\ disk[p].val \in Vals
  BY Stored
<1>3. cache[p] \in {NotCached, disk[p].val}
  BY <1>1 DEF CacheInv
<1>4. Fetch(p) = disk[p].val
  BY <1>2, <1>3 DEF Fetch, Decode
<1>5. JournalCipher = K
  BY DEF JournalCipher, ReadCipher
<1> QED
  BY <1>2, <1>4, <1>5 DEF JournalRecord, FetchFails

\* The invariant holds at first.
LEMMA InvInit == Init => IInv
<1> SUFFICES ASSUME Init PROVE IInv
  OBVIOUS
<1>1. PICK c \in Cipher, f \in [Page -> Vals] :
        disk = [p \in Page |-> [val |-> f[p], enc |-> c]]
  BY DEF Init
<1>2. Recovered = disk /\ Journalled = {}
  BY <1>1 DEF Init, Recovered, NoRecords, Journalled
<1>3. OneKey
  BY <1>1, <1>2, OnePage DEF OneKey
<1>4. pc = "closed" /\ rc = TRUE /\ estate = "OPEN" /\ dirty = {}
      /\ needSync = {} /\ cache = EmptyCache
  BY DEF Init
<1>5. CodecInv /\ ControlInv
  BY <1>4 DEF CodecInv, ControlInv, InSession, InRekey, InTxn
<1>6. JournalInv /\ CacheInv /\ LoopInv
  BY <1>2, <1>4 DEF JournalInv, CacheInv, LoopInv, EmptyCache
<1> QED
  BY TypeInit, <1>3, <1>5, <1>6 DEF IInv, KInv

\* Nothing an opener can see changes when file and journal stay.
LEMMA SameFiles ==
  ASSUME OneKey, Recovered' = Recovered
  PROVE  OneKey' /\ K' = K
  BY DEF OneKey, K, DatabaseKey

(***************************************************************************)
(* Steps that leave file and journal alone.                                *)
(***************************************************************************)
LEMMA SessionStep ==
  ASSUME IInv, SafeEnv,
         \/ \E c \in Cipher : Open(c) /\ c = K
         \/ Close
         \/ \E p \in Page : Read(p) \/ Evict(p)
         \/ BeginUser
         \/ UserCommit
         \/ CommitError
         \/ \E p \in Page : FetchError(p)
  PROVE  KInv'
<1> USE DEF IInv, KInv, TInv
<1>0. jrnl' = jrnl /\ disk' = disk
  BY DEF Open, Close, Read, Evict, BeginUser, UserCommit, CommitError, FetchError
<1>a. Journalled' = Journalled
  BY <1>0 DEF Journalled
<1>b. OneKey' /\ K' = K
  BY <1>0, SameFiles DEF Recovered
<1>1. ASSUME NEW c \in Cipher, Open(c), c = K
      PROVE  CodecInv' /\ ControlInv' /\ JournalInv' /\ CacheInv' /\ LoopInv'
  <2>1. c = K
    BY <1>1
  <2>2. CodecInv'
    BY <1>1, <1>b, <2>1 DEF Open, CodecInv, CodecOf, InSession, InRekey
  <2>3. ControlInv'
    BY <1>1, <2>1 DEF Open, ControlInv, InTxn, K, DatabaseKey
  <2>4. JournalInv' /\ CacheInv' /\ LoopInv'
    BY <1>1, <1>0, <1>a DEF Open, JournalInv, CacheInv, LoopInv, InTxn
  <2> QED
    BY <2>2, <2>3, <2>4
<1>2. CASE Close
  <2>1. CodecInv' /\ ControlInv'
    BY <1>2 DEF Close, Disconnected, CodecInv, ControlInv, InSession, InRekey, InTxn
  <2>2. JournalInv' /\ CacheInv' /\ LoopInv'
    BY <1>2, <1>0, <1>a
    DEF Close, Disconnected, JournalInv, CacheInv, LoopInv, InTxn, EmptyCache
  <2> QED
    BY <1>b, <2>1, <2>2
<1>3. ASSUME NEW p \in Page, Read(p)
      PROVE  CodecInv' /\ ControlInv' /\ JournalInv' /\ CacheInv' /\ LoopInv'
  <2>1. CodecInv' /\ ControlInv'
    BY <1>3, <1>b, <1>0
    DEF Read, CodecInv, ControlInv, InSession, InRekey, InTxn, WriteCipher
  <2>2. Journalled = {} /\ estate = "OPEN"
    BY <1>3 DEF Read, HotJournal, ControlInv, InTxn
  <2>3. Fetch(p) = disk[p].val
    BY <1>3, <2>2, FetchesStored, ReadsWithKey DEF Read, InSession
  <2>4. JournalInv' /\ CacheInv' /\ LoopInv'
    BY <1>3, <1>0, <1>a, <2>2, <2>3 DEF Read, TypeOK, JournalInv, CacheInv, LoopInv, InTxn
  <2> QED
    BY <2>1, <2>4
<1>4. ASSUME NEW p \in Page, Evict(p)
      PROVE  CodecInv' /\ ControlInv' /\ JournalInv' /\ CacheInv' /\ LoopInv'
  <2>1. CodecInv' /\ ControlInv'
    BY <1>4, <1>b, <1>0
    DEF Evict, CodecInv, ControlInv, InSession, InRekey, InTxn, WriteCipher
  <2>2. JournalInv'
    BY <1>4, <1>0, <1>a DEF Evict, TypeOK, JournalInv, InTxn, EmptyCache
  <2>3. CacheInv'
    <3>1. pc # "closed"
      BY <1>4 DEF Evict, CacheInv, EmptyCache
    <3> QED
      BY <1>4, <1>0, <1>b, <3>1 DEF Evict, TypeOK, CacheInv
  <2>4. LoopInv'
    BY <1>4, <1>0, <1>a DEF Evict, TypeOK, LoopInv, WriteCipher, Journalled
  <2> QED
    BY <2>1, <2>2, <2>3, <2>4
<1>5. CASE BeginUser
  <2>1. Journalled = {} /\ estate = "OPEN" /\ dirty = {} /\ needSync = {}
    BY <1>5 DEF BeginUser, HotJournal, ControlInv, InTxn, CleanOutside, JournalInv
  <2>2. Fetch(1) = disk[1].val
    BY <1>5, <2>1, OnePage, FetchesStored, ReadsWithKey DEF BeginUser, InSession
  <2>3. CodecInv'
    <3>1. codec = CodecOf(K)
      BY <1>5, MayWriteSafely DEF BeginUser, InSession
    <3> QED
      BY <1>5, <1>b, <3>1 DEF BeginUser, CodecInv, InSession, InRekey
  <2>4. ControlInv'
    BY <1>5 DEF BeginUser, ControlInv, InTxn
  <2>5. JournalInv' /\ LoopInv'
    BY <1>5, <1>0, <1>a, <2>1 DEF BeginUser, JournalInv, LoopInv, InTxn
  <2>6. \A p \in Page : disk[p].enc = K /\ disk[p].val \in Vals
    BY <2>1, Stored
  <2>7. CacheInv'
    BY <1>5, <1>0, <1>b, <2>1, <2>2, <2>6 DEF BeginUser, TypeOK, CacheInv
  <2> QED
    BY <1>b, <2>3, <2>4, <2>5, <2>7
<1>6. CASE UserCommit
  <2>1. CodecInv'
    BY <1>6, <1>b DEF UserCommit, CodecInv, InSession, InRekey
  <2>2. ControlInv'
    BY <1>6 DEF UserCommit, ControlInv, InTxn
  <2>3. JournalInv' /\ LoopInv'
    BY <1>6, <1>0, <1>a DEF UserCommit, JournalInv, LoopInv, InTxn
  <2>4. CacheInv'
    BY <1>6, <1>0, <1>b DEF UserCommit, CacheInv
  <2> QED
    BY <1>b, <2>1, <2>2, <2>3, <2>4
<1>7. CASE CommitError \/ \E p \in Page : FetchError(p)
  <2>1. /\ pc' = IF pc \in {"rekey", "rcommit"} THEN "rollback" ELSE "user"
        /\ rc' = IF pc \in {"rekey", "rcommit"} THEN FALSE ELSE rc
        /\ estate' = "ERROR" /\ pc \in {"user", "ucommit", "rekey", "rcommit"}
        /\ UNCHANGED <<codec, cache, dirty, needSync, trusted>>
    BY <1>7 DEF CommitError, FetchError, Committing
  <2>2. pc \in {"rekey", "rcommit"} => "pagererr" \in Env
    <3>1. CASE CommitError
      BY <3>1 DEF CommitError
    <3>2. ASSUME NEW p \in Page, FetchError(p), pc = "rekey", "pagererr" \notin Env
          PROVE  FALSE
      <4>1. PICK q \in SectorToWrite(p) : FetchFails(q)
        BY <3>2 DEF FetchError
      <4>2. q \in Page /\ p = next /\ estate # "ERROR" /\ pc = "rekey"
        BY <3>2 DEF FetchError, SectorToWrite
      <4>3. CASE q \notin Journalled
        BY <4>1, <4>2, <4>3, FetchesStored, ReadsWithKey DEF InRekey
      <4>4. CASE q \in Journalled
        <5>1. q = next
          BY <4>2, <4>4 DEF SectorToWrite, Journalled
        <5>2. q \in dirty
          BY <4>2, <4>4, <5>1, OnePage DEF LoopInv, TypeOK
        <5> QED
          BY <4>1, <5>2 DEF FetchFails, DirtyCached
      <4> QED
        BY <4>3, <4>4
    <3>3. pc = "rcommit" => ~\E p \in Page : FetchError(p)
      BY DEF FetchError
    <3> QED
      BY <1>7, <2>1, <3>1, <3>2, <3>3 DEF FetchError
  <2>3. CodecInv'
    BY <1>b, <2>1, <2>2 DEF CodecInv, InSession, InRekey, SafeEnv
  <2>4. ControlInv'
    BY <2>1 DEF ControlInv, InTxn
  <2>5. JournalInv' /\ CacheInv' /\ LoopInv'
    BY <1>0, <1>a, <2>1 DEF JournalInv, CacheInv, LoopInv, InTxn
  <2> QED
    BY <1>b, <2>3, <2>4, <2>5
<1> QED
  BY <1>b, <1>1, <1>2, <1>3, <1>4, <1>5, <1>6, <1>7

\* What a rekey leaves behind is the codec of one key, or none.
LEMMA LeavesOneKey ==
  ASSUME NEW c \in Codec, c.attached, c.isEncrypted
  PROVE  /\ c.hasWrite => LeaveCodec(c, TRUE) = CodecSetup(c.wk)
         /\ ~c.hasWrite => LeaveCodec(c, TRUE) = NoCodec
         /\ c.hasRead /\ c.hasWrite => LeaveCodec(c, FALSE) = CodecSetup(c.rk)
         /\ c.hasRead /\ ~c.hasWrite => LeaveCodec(c, FALSE) = Unwritable(c.rk)
         /\ ~c.hasRead => LeaveCodec(c, FALSE) = NoCodec
<1>1. c = [attached |-> TRUE, isEncrypted |-> TRUE,
           hasRead |-> c.hasRead, rk |-> c.rk,
           hasWrite |-> c.hasWrite, wk |-> c.wk]
      /\ c.hasRead \in BOOLEAN /\ c.hasWrite \in BOOLEAN
  BY DEF Codec
<1>2. ASSUME c.hasWrite PROVE LeaveCodec(c, TRUE) = CodecSetup(c.wk)
  BY <1>1, <1>2 DEF LeaveCodec, CodecSetup
<1>3. ASSUME ~c.hasWrite PROVE LeaveCodec(c, TRUE) = NoCodec
  BY <1>1, <1>3 DEF LeaveCodec
<1>4. ASSUME c.hasRead, c.hasWrite PROVE LeaveCodec(c, FALSE) = CodecSetup(c.rk)
  BY <1>1, <1>4 DEF LeaveCodec, CodecSetup
<1>5. ASSUME ~c.hasRead PROVE LeaveCodec(c, FALSE) = NoCodec
  BY <1>1, <1>5 DEF LeaveCodec
<1>6. ASSUME c.hasRead, ~c.hasWrite
      PROVE  LeaveCodec(c, FALSE) = Unwritable(c.rk)
  BY <1>1, <1>6 DEF LeaveCodec, Unwritable, CodecSetup
<1> QED
  BY <1>2, <1>3, <1>4, <1>5, <1>6

\* A rekey keeps the read cipher and sets or drops the write cipher, also when
\* the session had lost it.
LEMMA RekeySetsUp ==
  ASSUME NEW c \in Codec, c.attached, c.isEncrypted, c.hasRead, c.rk = K,
         NEW k \in Cipher, NEW d,
         \/ d = SetupWriteCipher(c, k)
         \/ d = [c EXCEPT !.hasWrite = FALSE]
  PROVE  /\ d.attached /\ d.isEncrypted /\ d.hasRead /\ d.rk = K
         /\ d = SetupWriteCipher(c, k) => d.hasWrite /\ d.wk = k
         /\ d = [c EXCEPT !.hasWrite = FALSE] => ~d.hasWrite
  BY DEF SetupWriteCipher, Codec

\* The steps of sqlite3_rekey_v2 between its page writes.
LEMMA RekeyControlStep ==
  ASSUME IInv, SafeEnv,
         \/ \E k \in Keys : BeginEncrypt(k) \/ BeginRekey(k)
         \/ BeginDecrypt
         \/ \E k \in Cipher : RefuseRekey(k)
         \/ RekeyBeginTrans \/ RekeyBeginError
         \/ RekeyCommit \/ RekeyError \/ LeaveRekey
  PROVE  KInv'
<1> USE DEF IInv, KInv, TInv
<1>0. jrnl' = jrnl /\ disk' = disk
  BY DEF StartRekey, BeginEncrypt, BeginRekey, BeginDecrypt, RefuseRekey,
         RekeyBeginTrans, RekeyBeginError, RekeyCommit, RekeyError, LeaveRekey
<1>a. Journalled' = Journalled
  BY <1>0 DEF Journalled
<1>b. OneKey' /\ K' = K
  BY <1>0, SameFiles DEF Recovered
<1>1. ASSUME NEW c \in Codec, StartRekey(c), cache' \in {cache, EmptyCache}
      PROVE  /\ ControlInv' /\ JournalInv' /\ CacheInv' /\ LoopInv'
             /\ pc' = "begin" /\ rc' = TRUE /\ codec' = c
  <2>1. Journalled = {} /\ dirty = {} /\ needSync = {} /\ estate = "OPEN"
    BY <1>1 DEF StartRekey, HotJournal, SafeEnv, ControlInv, JournalInv,
                CleanOutside, InTxn
  <2>2. pc' = "begin" /\ rc' = TRUE /\ codec' = c /\ next' = 1
        /\ UNCHANGED <<estate, dirty, needSync, trusted>> /\ pc = "idle"
    BY <1>1 DEF StartRekey
  <2>3. ControlInv'
    BY <2>2 DEF ControlInv, InTxn
  <2>4. JournalInv' /\ LoopInv'
    BY <1>0, <1>a, <2>1, <2>2 DEF JournalInv, LoopInv, InTxn
  <2>5. CacheInv'
    BY <1>0, <1>1, <2>1, <2>2 DEF CacheInv, EmptyCache
  <2> QED
    BY <2>2, <2>3, <2>4, <2>5
<1>2. ASSUME NEW k \in Keys, BeginEncrypt(k)
      PROVE  KInv'
  <2>1. k \in Cipher /\ k # Plain
    BY CipherAssumption DEF Cipher
  <2>2. SetupWriteCipher(NoCodec, k) \in Codec
    BY <2>1, CodecTyped
  <2>3. K = Plain
    BY <1>2 DEF BeginEncrypt, StartRekey, CodecInv, CodecOf, Unwritable,
                InSession, CodecSetup
  <2>4. CodecInv'
    BY <1>b, <1>1, <1>2, <2>2, <2>3
    DEF BeginEncrypt, CodecInv, InSession, InRekey, SetupWriteCipher, NoCodec
  <2> QED
    BY <1>b, <1>1, <1>2, <2>2, <2>4 DEF BeginEncrypt
<1>3. ASSUME NEW k \in Keys, BeginRekey(k)
      PROVE  KInv'
  <2>1. k \in Cipher
    BY DEF Cipher
  <2>2. SetupWriteCipher(codec, k) \in Codec
    BY <2>1, CodecTyped
  <2>3. /\ K # Plain
        /\ codec.attached /\ codec.isEncrypted /\ codec.hasRead /\ codec.rk = K
    BY <1>3 DEF BeginRekey, StartRekey, CodecInv, CodecOf, Unwritable,
                InSession, NoCodec, CodecSetup
  <2>4. /\ codec' = SetupWriteCipher(codec, k)
        /\ pc' = "begin" /\ rc' = TRUE
    BY <1>1, <1>3, <2>2 DEF BeginRekey
  <2>5. CodecInv'
    BY <1>b, <2>1, <2>3, <2>4, RekeySetsUp
    DEF CodecInv, InSession, InRekey, TypeOK
  <2> QED
    BY <1>b, <1>1, <1>3, <2>2, <2>5 DEF BeginRekey
<1>4. CASE BeginDecrypt
  <2>1. [codec EXCEPT !.hasWrite = FALSE] \in Codec
    BY CodecTyped DEF Cipher
  <2>2. /\ K # Plain
        /\ codec.attached /\ codec.isEncrypted /\ codec.hasRead /\ codec.rk = K
    BY <1>4 DEF BeginDecrypt, StartRekey, CodecInv, CodecOf, Unwritable,
                InSession, NoCodec, CodecSetup
  <2>3. CodecInv'
    BY <1>b, <1>1, <1>4, <2>1, <2>2, RekeySetsUp
    DEF BeginDecrypt, CodecInv, InSession, InRekey, Cipher, TypeOK
  <2> QED
    BY <1>b, <1>1, <1>4, <2>1, <2>3 DEF BeginDecrypt
<1>5. ASSUME NEW k \in Cipher, RefuseRekey(k)
      PROVE  KInv'
  <2>1. /\ K # Plain
        /\ codec.attached /\ codec.isEncrypted /\ codec.hasRead /\ codec.rk = K
    BY <1>5 DEF RefuseRekey, CodecInv, CodecOf, Unwritable, InSession,
                NoCodec, CodecSetup
  <2>2. CodecInv'
    BY <1>5, <1>b, <2>1, RekeySetsUp
    DEF RefuseRekey, CodecInv, InSession, InRekey, TypeOK
  <2>3. ControlInv'
    BY <1>5 DEF RefuseRekey, ControlInv, InTxn
  <2>4. JournalInv' /\ LoopInv'
    BY <1>5, <1>0, <1>a DEF RefuseRekey, JournalInv, LoopInv, InTxn
  <2>5. CacheInv'
    BY <1>5, <1>0 DEF RefuseRekey, CacheInv
  <2> QED
    BY <1>b, <2>2, <2>3, <2>4, <2>5
<1>6. CASE RekeyBeginTrans
  <2>1. Journalled = {} /\ estate = "OPEN" /\ dirty = {} /\ needSync = {}
    BY <1>6 DEF RekeyBeginTrans, ControlInv, InTxn, CleanOutside, JournalInv
  <2>2. Fetch(1) = disk[1].val
    BY <1>6, <2>1, OnePage, FetchesStored, ReadsWithKey
    DEF RekeyBeginTrans, InRekey
  <2>3. CodecInv'
    BY <1>6, <1>b DEF RekeyBeginTrans, CodecInv, InSession, InRekey
  <2>4. ControlInv'
    BY <1>6 DEF RekeyBeginTrans, ControlInv, InTxn
  <2>5. JournalInv'
    BY <1>6, <1>0, <1>a, <2>1 DEF RekeyBeginTrans, JournalInv, InTxn
  <2>6. next = 1
    BY <1>6 DEF RekeyBeginTrans, LoopInv
  <2>7. LoopInv'
    BY <1>6, <1>0, <1>a, <2>1, <2>6 DEF RekeyBeginTrans, LoopInv, Page
  <2>8. CacheInv'
    BY <1>6, <1>0, <1>b, <2>1, <2>2 DEF RekeyBeginTrans, TypeOK, CacheInv
  <2> QED
    BY <1>b, <2>3, <2>4, <2>5, <2>7, <2>8
<1>7. CASE RekeyBeginError
  <2>1. PageOneValid /\ ~FetchFails(1)
    <3>1. Journalled = {} /\ estate # "ERROR"
      BY <1>7 DEF RekeyBeginError, ControlInv, InTxn, JournalInv
    <3>2. Fetch(1) \in Vals /\ ~FetchFails(1)
      BY <1>7, <3>1, OnePage, FetchesStored, ReadsWithKey
      DEF RekeyBeginError, InRekey
    <3> QED
      BY <3>2, ValueAssumption DEF PageOneValid
  <2>2. "busy" \in Env /\ cache' = cache
    BY <1>7, <2>1 DEF RekeyBeginError
  <2>3. CodecInv'
    BY <1>7, <1>b, <2>2
    DEF RekeyBeginError, CodecInv, InSession, InRekey, SafeEnv
  <2>4. ControlInv'
    BY <1>7 DEF RekeyBeginError, ControlInv, InTxn
  <2>5. JournalInv' /\ LoopInv' /\ CacheInv'
    BY <1>7, <1>0, <1>a, <2>2
    DEF RekeyBeginError, JournalInv, LoopInv, CacheInv, InTxn
  <2> QED
    BY <1>b, <2>3, <2>4, <2>5
<1>8. CASE RekeyCommit
  <2>1. CodecInv'
    BY <1>8, <1>b DEF RekeyCommit, CodecInv, InSession, InRekey
  <2>2. ControlInv'
    BY <1>8 DEF RekeyCommit, ControlInv, InTxn
  <2>3. JournalInv' /\ CacheInv'
    BY <1>8, <1>0, <1>a DEF RekeyCommit, JournalInv, CacheInv, InTxn
  <2>4. Journalled = Page
    BY <1>8, OnePage DEF RekeyCommit, LoopInv, TypeOK, Page, Journalled
  <2>5. LoopInv'
    BY <1>8, <1>0, <1>a, <2>4 DEF RekeyCommit, LoopInv, WriteCipher
  <2> QED
    BY <1>b, <2>1, <2>2, <2>3, <2>5
<1>9. CASE RekeyError
  <2>1. "busy" \in Env /\ estate = "CACHEMOD"
    BY <1>9 DEF RekeyError, SafeEnv
  <2>2. CodecInv'
    BY <1>9, <1>b, <2>1 DEF RekeyError, CodecInv, InSession, InRekey, SafeEnv
  <2>3. ControlInv'
    BY <1>9, <2>1 DEF RekeyError, ControlInv, InTxn
  <2>4. JournalInv' /\ CacheInv' /\ LoopInv'
    BY <1>9, <1>0, <1>a DEF RekeyError, JournalInv, CacheInv, LoopInv, InTxn
  <2> QED
    BY <1>b, <2>2, <2>3, <2>4
<1>10. CASE LeaveRekey
  <2>1. codec' = LeaveCodec(codec, rc) /\ pc = "leave" /\ pc' = "idle"
        /\ rc' = TRUE
    BY <1>10 DEF LeaveRekey
  <2>2. CodecInv'
    <3>1. CASE rc = TRUE
      <4>1. codec.attached /\ codec.isEncrypted /\ K = WriteCipher
        BY <2>1, <3>1 DEF CodecInv
      <4>2. codec.hasWrite => codec.wk # Plain /\ K = codec.wk
        BY <2>1, <3>1, <4>1, CipherAssumption DEF CodecInv, WriteCipher
      <4>3. ~codec.hasWrite => K = Plain
        BY <4>1 DEF WriteCipher
      <4>4. codec' = IF K = Plain THEN NoCodec ELSE CodecSetup(K)
        BY <2>1, <3>1, <4>1, <4>2, <4>3, LeavesOneKey DEF TypeOK
      <4> QED
        BY <1>b, <2>1, <4>4 DEF CodecInv, CodecOf, InSession, InRekey
    <3>2. CASE rc = FALSE
      <4>1. /\ codec.attached /\ codec.isEncrypted
            /\ IF K = Plain THEN ~codec.hasRead
                            ELSE codec.hasRead /\ codec.rk = K
        BY <2>1, <3>2 DEF CodecInv, InRekey
      <4>2. \/ codec' = CodecOf(K)
            \/ K # Plain /\ codec' = Unwritable(K)
        BY <2>1, <3>2, <4>1, LeavesOneKey DEF TypeOK, CodecOf
      <4> QED
        BY <1>b, <2>1, <4>2 DEF CodecInv, InSession, InRekey
    <3> QED
      BY <3>1, <3>2 DEF TypeOK
  <2>3. ControlInv'
    BY <1>10 DEF LeaveRekey, ControlInv, InTxn
  <2>4. cache' \in {cache, EmptyCache} /\ dirty = {}
    BY <1>10 DEF LeaveRekey, CleanOutside
  <2>5. JournalInv' /\ LoopInv'
    BY <1>10, <1>0, <1>a, <2>4 DEF LeaveRekey, JournalInv, LoopInv, InTxn
  <2>6. CacheInv'
    BY <1>10, <1>0, <2>4 DEF LeaveRekey, CacheInv, EmptyCache
  <2> QED
    BY <1>b, <2>2, <2>3, <2>5, <2>6
<1> QED
  BY <1>2, <1>3, <1>4, <1>5, <1>6, <1>7, <1>8, <1>9, <1>10

(***************************************************************************)
(* Steps that write to the cache and the journal.                          *)
(***************************************************************************)

\* Journalling pages changes nothing an opener can see, and keeps what the
\* invariant says of journal and clean pages.
LEMMA JournalsStored ==
  ASSUME IInv, ReadCipher = K, estate # "ERROR", InTxn,
         NEW p \in Page, NEW v, PagerWrite(p, v),
         disk' = disk, estate' = estate, pc' = pc
  PROVE  /\ Recovered' = Recovered
         /\ p \in SectorToWrite(p) /\ SectorToWrite(p) \subseteq Page
         /\ \A q \in SectorToWrite(p) : q # p => q \notin Journalled
         /\ Journalled' = Journalled \cup SectorToWrite(p)
         /\ \A q \in Journalled' \ Journalled : jrnl'[q] = disk[q]
         /\ \A q \in Journalled : jrnl'[q] = jrnl[q]
         /\ JournalInv'
<1> USE DEF IInv, KInv, TInv
<1> DEFINE S == SectorToWrite(p)
<1>1. S \subseteq Page /\ \A q \in S : q # p => q \notin Journalled
  BY DEF SectorToWrite, Journalled
<1>2. p \in S
  <2>1. p \in 1 .. NPage + 1
    BY OnePage DEF Page
  <2> QED
    BY <2>1 DEF SectorToWrite, Sector
<1>3. \A q \in Page \ Journalled : JournalRecord(q) = disk[q]
  BY FetchesStored
<1>4. \A q \in Page : jrnl'[q] = IF q \in S /\ q \notin Journalled
                                THEN disk[q] ELSE jrnl[q]
  BY <1>3 DEF PagerWrite, Journalled
<1>5. \A q \in Page : disk[q] \in Content /\ disk[q] # NoRec
  BY RecordAssumption DEF TypeOK
<1>6. Journalled' = Journalled \cup S
  BY <1>1, <1>4, <1>5 DEF Journalled
<1>7. \A q \in Page : Recovered'[q] = Recovered[q]
  BY <1>4, <1>5 DEF Recovered, Journalled
<1>8. Recovered' = Recovered
  BY <1>7 DEF Recovered
<1>9. \A q \in Journalled' \ Journalled : jrnl'[q] = disk[q]
  BY <1>1, <1>4, <1>6
<1>10. \A q \in Journalled : jrnl'[q] = jrnl[q]
  BY <1>4 DEF Journalled
<1>11. JournalInv'
  <2>1. needSync' = needSync \cup (S \ Journalled) /\ dirty' = dirty \cup S
    BY <1>1 DEF PagerWrite, Journalled
  <2>2. needSync' \subseteq Journalled' /\ dirty' \subseteq Journalled'
    BY <1>6, <2>1 DEF JournalInv
  <2>3. \A q \in needSync' : disk'[q] = jrnl'[q]
    BY <1>6, <1>9, <1>10, <2>1 DEF JournalInv
  <2>4. estate' = "CACHEMOD" => \A q \in Journalled' : disk'[q] = jrnl'[q]
    BY <1>9, <1>10 DEF JournalInv
  <2> QED
    BY <2>2, <2>3, <2>4 DEF JournalInv, InTxn
<1> QED
  BY <1>1, <1>2, <1>6, <1>8, <1>9, <1>10, <1>11

\* A write of the application.
LEMMA UserWriteStep ==
  ASSUME IInv, NEW p \in Page, NEW v \in Vals, UserWrite(p, v)
  PROVE  KInv'
<1> USE DEF IInv, KInv, TInv
<1>0. ReadCipher = K /\ pc = "user" /\ estate # "ERROR"
  BY ReadsWithKey DEF UserWrite, InSession
<1>1. UNCHANGED <<pc, rc, next, codec, estate, disk, trusted>> /\ PagerWrite(p, v)
  BY DEF UserWrite
<1>2. /\ Recovered' = Recovered /\ JournalInv'
      /\ SectorToWrite(p) \subseteq Page
      /\ \A q \in SectorToWrite(p) : q # p => q \notin Journalled
  BY <1>0, <1>1, JournalsStored DEF InTxn
<1>3. OneKey' /\ K' = K
  BY <1>2, SameFiles
<1>4. CodecInv' /\ ControlInv' /\ LoopInv'
  BY <1>0, <1>1, <1>3
  DEF CodecInv, ControlInv, LoopInv, InSession, InRekey, InTxn
<1>5. CacheInv'
  <2>1. dirty' = dirty \cup SectorToWrite(p)
    BY <1>1 DEF PagerWrite
  <2>2. \A q \in Page \ dirty' : cache'[q] \in {NotCached, disk[q].val}
    <3> SUFFICES ASSUME NEW q \in Page \ dirty'
                 PROVE  cache'[q] \in {NotCached, disk[q].val}
      OBVIOUS
    <3>1. q \notin SectorToWrite(p) /\ q \notin dirty
      BY <2>1
    <3>2. q # p
      BY <1>0, <1>1, <3>1, JournalsStored DEF InTxn
    <3>3. cache'[q] = cache[q]
      BY <1>1, <3>1, <3>2 DEF PagerWrite
    <3> QED
      BY <1>0, <3>1, <3>3 DEF CacheInv
  <2>3. \A q \in dirty' : cache'[q] \in Vals
    <3> SUFFICES ASSUME NEW q \in dirty' PROVE cache'[q] \in Vals
      OBVIOUS
    <3>1. q \in Page
      BY <1>2, <2>1 DEF TypeOK
    <3>2. CASE q = p
      BY <1>1, <3>1, <3>2 DEF PagerWrite
    <3>3. CASE q # p /\ q \in SectorToWrite(p)
      BY <1>0, <1>1, <1>2, <3>1, <3>3, FetchesStored DEF PagerWrite
    <3>4. CASE q # p /\ q \notin SectorToWrite(p)
      BY <1>0, <1>1, <2>1, <3>1, <3>4 DEF PagerWrite, CacheInv
    <3> QED
      BY <3>2, <3>3, <3>4
  <2> QED
    BY <1>0, <1>1, <1>3, <2>2, <2>3 DEF CacheInv
<1> QED
  BY <1>2, <1>3, <1>4, <1>5

\* A page is read with the old key to be written with the new one.
LEMMA RekeyPageStep ==
  ASSUME IInv, RekeyPage
  PROVE  KInv'
<1> USE DEF IInv, KInv, TInv
<1> DEFINE S == SectorToWrite(next)
<1>0. ReadCipher = K /\ pc = "rekey" /\ estate # "ERROR" /\ next \in Page
  BY ReadsWithKey DEF RekeyPage, InRekey, TypeOK, Page
<1>1. /\ UNCHANGED <<pc, rc, codec, estate, disk, trusted>>
      /\ PagerWrite(next, Fetch(next)) /\ next' = next + 1
  BY DEF RekeyPage, NextPage
<1>2. /\ Recovered' = Recovered /\ JournalInv'
      /\ next \in S /\ S \subseteq Page
      /\ \A q \in S : q # next => q \notin Journalled
      /\ Journalled' = Journalled \cup S
      /\ \A q \in Journalled' \ Journalled : jrnl'[q] = disk[q]
      /\ \A q \in Journalled : jrnl'[q] = jrnl[q]
  BY <1>0, <1>1, JournalsStored DEF InTxn
<1>3. OneKey' /\ K' = K
  BY <1>2, SameFiles
<1>4. dirty' = dirty \cup S
  BY <1>1 DEF PagerWrite
<1>5. \A q \in Page \ S : cache'[q] = cache[q]
  BY <1>1, <1>2 DEF PagerWrite
<1>6. \A q \in S : cache'[q] = Fetch(q)
  BY <1>1, <1>2 DEF PagerWrite
<1>7. CodecInv' /\ ControlInv'
  BY <1>0, <1>1, <1>3
  DEF CodecInv, ControlInv, InSession, InRekey, InTxn, WriteCipher
<1>8. CacheInv'
  BY <1>0, <1>1, <1>4, <1>5 DEF CacheInv
<1>9. LoopInv'
  <2>1. \A q \in Journalled' :
          IF q \in dirty' THEN cache'[q] = jrnl'[q].val
          ELSE disk[q] = [val |-> jrnl'[q].val, enc |-> WriteCipher]
    <3> SUFFICES ASSUME NEW q \in Journalled'
                 PROVE  IF q \in dirty' THEN cache'[q] = jrnl'[q].val
                        ELSE disk[q] = [val |-> jrnl'[q].val, enc |-> WriteCipher]
      OBVIOUS
    <3>0. q \in Page
      BY DEF Journalled
    <3>1. CASE q \notin Journalled
      <4>1. q \in S /\ q \in dirty' /\ jrnl'[q] = disk[q]
        BY <1>2, <1>4, <3>1
      <4>2. cache'[q] = Fetch(q) /\ Fetch(q) = disk[q].val
        BY <1>0, <1>6, <3>0, <3>1, <4>1, FetchesStored
      <4> QED
        BY <4>1, <4>2
    <3>2. CASE q \in Journalled /\ q = next
      <4>1. next >= next
        BY <1>0, OnePage DEF Page
      <4>2. q \in dirty /\ q \in dirty' /\ jrnl'[q] = jrnl[q]
        BY <1>0, <1>2, <1>4, <3>2, <4>1 DEF LoopInv
      <4>3. cache[q] = jrnl[q].val /\ cache[q] # NotCached
        BY <1>0, <3>2, <4>2 DEF LoopInv, DirtyCached
      <4>4. cache'[q] = cache[q]
        BY <1>2, <1>6, <3>2, <4>3 DEF Fetch
      <4> QED
        BY <4>2, <4>3, <4>4
    <3>3. CASE q \in Journalled /\ q # next
      <4>1. q \notin S /\ jrnl'[q] = jrnl[q] /\ cache'[q] = cache[q]
        BY <1>2, <1>5, <3>0, <3>3
      <4> QED
        BY <1>0, <1>4, <3>3, <4>1 DEF LoopInv
    <3> QED
      BY <3>1, <3>2, <3>3
  <2>2. \A q \in Page : q < next' => q \in Journalled'
    <3> SUFFICES ASSUME NEW q \in Page, q < next + 1 PROVE q \in Journalled'
      BY <1>1
    <3>1. q < next \/ q = next
      BY <1>0, OnePage DEF Page
    <3> QED
      BY <1>0, <1>2, <3>1 DEF LoopInv
  <2>3. \A q \in Journalled' : q >= next' => q \in dirty'
    <3> SUFFICES ASSUME NEW q \in Journalled', q >= next + 1 PROVE q \in dirty'
      BY <1>1
    <3>1. q >= next
      BY <1>0, OnePage DEF Page, Journalled
    <3> QED
      BY <1>0, <1>2, <1>4, <3>1 DEF LoopInv
  <2>4. WriteCipher' = WriteCipher /\ pc' = "rekey" /\ disk' = disk
    BY <1>0, <1>1 DEF WriteCipher
  <2> QED
    BY <2>1, <2>2, <2>3, <2>4 DEF LoopInv
<1> QED
  BY <1>2, <1>3, <1>7, <1>8, <1>9

(***************************************************************************)
(* Steps that write to the database file.                                  *)
(***************************************************************************)

\* A page that is written to the file has a record, which stays.
LEMMA SpillsRecorded ==
  ASSUME TypeOK, JournalInv, NEW p \in Page, p \in dirty
  PROVE  /\ p \in Journalled
         /\ UnsyncedAfterSpill(p) \subseteq needSync
         /\ p \notin UnsyncedAfterSpill(p)
  BY DEF JournalInv, UnsyncedAfterSpill

\* A dirty page leaves the cache for the file.
LEMMA SpillStep ==
  ASSUME IInv, NEW p \in Page, Spill(p)
  PROVE  KInv'
<1> USE DEF IInv, KInv, TInv
<1>0. /\ p \in dirty /\ estate # "ERROR" /\ estate' = "DBMOD"
      /\ pc \in {"user", "ucommit", "rekey", "rcommit"}
      /\ pc = "rekey" => p < next
      /\ dirty' = dirty \ {p} /\ needSync' = UnsyncedAfterSpill(p)
      /\ disk' = [disk EXCEPT ![p] = PageToFile(p)]
      /\ UNCHANGED <<pc, rc, next, codec, cache, jrnl, trusted>>
  BY DEF Spill, CanSpill, InWriteTxn, Committing, Spillable
<1>1. /\ p \in Journalled /\ Journalled' = Journalled
      /\ needSync' \subseteq needSync /\ p \notin needSync'
  BY <1>0, SpillsRecorded DEF Journalled
<1>2. \A q \in Page : q # p => disk'[q] = disk[q]
  BY <1>0 DEF TypeOK
<1>3. disk'[p] = [val |-> cache[p], enc |-> WriteCipher]
  BY <1>0 DEF TypeOK, PageToFile
<1>4. \A q \in Page : Recovered'[q] = Recovered[q]
  BY <1>0, <1>1, <1>2 DEF Recovered, Journalled
<1>5. Recovered' = Recovered
  BY <1>4 DEF Recovered
<1>6. OneKey' /\ K' = K
  BY <1>5, SameFiles
<1>7. CodecInv' /\ ControlInv'
  BY <1>0, <1>6
  DEF CodecInv, ControlInv, InSession, InRekey, InTxn, WriteCipher
<1>8. JournalInv'
  BY <1>0, <1>1, <1>2 DEF JournalInv, InTxn, TypeOK
<1>9. CacheInv'
  <2>1. \A q \in Page \ dirty' : cache'[q] \in {NotCached, disk'[q].val}
    BY <1>0, <1>2, <1>3 DEF CacheInv
  <2>2. ASSUME pc \in {"user", "ucommit"}
        PROVE  /\ \A q \in Page : disk'[q].enc = K /\ disk'[q].val \in Vals
               /\ \A q \in dirty' : cache'[q] \in Vals
    <3>1. WriteCipher = K
      BY <2>2, WritesWithKey DEF InSession, CodecInv
    <3> QED
      BY <1>0, <1>2, <1>3, <2>2, <3>1 DEF CacheInv
  <2> QED
    BY <1>0, <1>6, <2>1, <2>2 DEF CacheInv
<1>10. LoopInv'
  <2>1. ASSUME pc \in {"rekey", "rcommit"}, NEW q \in Journalled
        PROVE  IF q \in dirty' THEN cache[q] = jrnl[q].val
               ELSE disk'[q] = [val |-> jrnl[q].val, enc |-> WriteCipher]
    <3>1. q \in Page
      BY DEF Journalled
    <3>2. CASE q = p
      BY <1>0, <1>3, <2>1, <3>2 DEF LoopInv
    <3>3. CASE q # p
      BY <1>0, <1>2, <2>1, <3>1, <3>3 DEF LoopInv
    <3> QED
      BY <3>2, <3>3
  <2>2. ASSUME pc = "rekey", NEW q \in Journalled, q >= next
        PROVE  q \in dirty'
    <3>1. q # p
      BY <1>0, <2>2, OnePage DEF Page, TypeOK, Journalled
    <3> QED
      BY <1>0, <2>2, <3>1 DEF LoopInv
  <2>3. WriteCipher' = WriteCipher
    BY <1>0 DEF WriteCipher
  <2> QED
    BY <1>0, <1>1, <2>1, <2>2, <2>3 DEF LoopInv
<1> QED
  BY <1>6, <1>7, <1>8, <1>9, <1>10

\* That fails.
LEMMA SpillErrorStep ==
  ASSUME IInv, SafeEnv, NEW p \in Page, SpillError(p)
  PROVE  KInv'
<1> USE DEF IInv, KInv, TInv
<1>0. /\ p \in dirty /\ estate' = "ERROR" /\ pc \in {"user", "rekey"}
      /\ needSync' = UnsyncedAfterSpill(p)
      /\ disk' \in {disk, [disk EXCEPT ![p] = Torn]}
      /\ pc' = IF pc = "rekey" THEN "rollback" ELSE pc
      /\ rc' = IF pc = "rekey" THEN FALSE ELSE rc
      /\ UNCHANGED <<next, codec, cache, dirty, jrnl, trusted>>
  BY DEF SpillError, CanSpill, InWriteTxn, Committing, SafeEnv
<1>1. /\ p \in Journalled /\ Journalled' = Journalled
      /\ needSync' \subseteq needSync /\ p \notin needSync'
  BY <1>0, SpillsRecorded DEF Journalled
<1>2. \A q \in Page : q # p => disk'[q] = disk[q]
  BY <1>0 DEF TypeOK
<1>3. \A q \in Page : Recovered'[q] = Recovered[q]
  BY <1>0, <1>1, <1>2 DEF Recovered, Journalled
<1>4. Recovered' = Recovered
  BY <1>3 DEF Recovered
<1>5. OneKey' /\ K' = K
  BY <1>4, SameFiles
<1>6. CodecInv'
  BY <1>0, <1>5 DEF CodecInv, InSession, InRekey
<1>7. ControlInv' /\ CacheInv' /\ LoopInv'
  BY <1>0 DEF ControlInv, CacheInv, LoopInv, InTxn
<1>8. JournalInv'
  BY <1>0, <1>1, <1>2 DEF JournalInv, InTxn, TypeOK
<1> QED
  BY <1>5, <1>6, <1>7, <1>8

\* The commit of the pager.
LEMMA CommitStep ==
  ASSUME IInv, Commit
  PROVE  KInv'
<1> USE DEF IInv, KInv, TInv
<1>0. /\ pc \in {"ucommit", "rcommit"} /\ dirty = {} /\ estate # "ERROR"
      /\ jrnl' = NoRecords /\ needSync' = {} /\ estate' = "OPEN"
      /\ pc' = IF pc = "rcommit" THEN "leave" ELSE "idle"
      /\ UNCHANGED <<rc, next, codec, cache, dirty, disk, trusted>>
  BY DEF Commit, Committing
<1>1. Journalled' = {} /\ Recovered' = disk
  <2>1. \A q \in Page : jrnl'[q] = NoRec
    BY <1>0 DEF NoRecords
  <2>2. \A q \in Page : Recovered'[q] = disk[q]
    BY <1>0, <2>1 DEF Recovered
  <2> QED
    BY <2>1, <2>2 DEF Journalled, Recovered, TypeOK
<1>2. K' = disk[1].enc
  BY <1>1 DEF K, DatabaseKey
<1>3. JournalInv' /\ LoopInv'
  BY <1>0, <1>1 DEF JournalInv, LoopInv, InTxn
<1>4. ControlInv'
  BY <1>0 DEF ControlInv, InTxn
<1>5. CacheInv'
  BY <1>0 DEF CacheInv
<1>6. CASE pc = "ucommit"
  <2>1. \A q \in Page : disk[q].enc = K /\ disk[q].val \in Vals
    BY <1>0, <1>6 DEF CacheInv
  <2>2. OneKey' /\ K' = K
    BY <1>1, <1>2, <2>1, OnePage DEF OneKey
  <2>3. CodecInv'
    BY <1>0, <1>6, <2>2 DEF CodecInv, InSession, InRekey
  <2> QED
    BY <1>3, <1>4, <1>5, <2>2, <2>3
<1>7. CASE pc = "rcommit"
  <2>1. \A q \in Page : disk[q] = [val |-> jrnl[q].val, enc |-> WriteCipher]
    BY <1>0, <1>7 DEF LoopInv
  <2>2. \A q \in Page : jrnl[q].val \in Vals
    BY <1>7, Stored DEF LoopInv
  <2>3. ASSUME NEW q \in Page
        PROVE  disk[q].enc = WriteCipher /\ disk[q].val \in Vals
    <3>0. disk[q] = [val |-> jrnl[q].val, enc |-> WriteCipher]
      BY <2>1
    <3>1. disk[q].enc = WriteCipher /\ disk[q].val = jrnl[q].val
      BY <3>0
    <3> QED
      BY <2>2, <3>1
  <2>4. OneKey' /\ K' = WriteCipher
    BY <1>1, <1>2, <2>3, OnePage DEF OneKey
  <2>5. rc /\ WriteCipher' = WriteCipher
    BY <1>0, <1>7 DEF ControlInv, WriteCipher
  <2>6. CodecInv'
    BY <1>0, <1>7, <2>4, <2>5 DEF CodecInv, InSession, InRekey
  <2> QED
    BY <1>3, <1>4, <1>5, <2>4, <2>6
<1> QED
  BY <1>0, <1>6, <1>7

(***************************************************************************)
(* Rollback, crash, recovery.                                              *)
(***************************************************************************)

\* Records that were not synced may be forgotten.
LEMMA ForgetsNothing ==
  ASSUME TypeOK, JournalInv, NEW U, U \subseteq needSync,
         jrnl' = [q \in Page |-> IF q \in U THEN NoRec ELSE jrnl[q]],
         \A q \in Page : q \in U \/ q \notin Journalled => disk'[q] = disk[q]
  PROVE  Recovered' = Recovered
<1>1. ASSUME NEW q \in Page PROVE Recovered'[q] = Recovered[q]
  <2>1. Recovered'[q] = IF jrnl'[q] = NoRec THEN disk'[q] ELSE jrnl'[q]
    BY <1>1 DEF Recovered
  <2>2. Recovered[q] = IF q \in Journalled THEN jrnl[q] ELSE disk[q]
    BY <1>1 DEF Recovered, Journalled
  <2>3. q \in U => disk'[q] = jrnl[q] /\ q \in Journalled
    BY <1>1 DEF JournalInv
  <2>4. q \in Journalled <=> jrnl[q] # NoRec
    BY <1>1 DEF Journalled
  <2> QED
    BY <1>1, <2>1, <2>2, <2>3, <2>4
<1> QED
  BY <1>1 DEF Recovered

\* A step after which the connection is gone and recovery gives what it gave.
LEMMA DisconnectStep ==
  ASSUME OneKey, Disconnected, Recovered' = Recovered
  PROVE  KInv'
<1> USE DEF KInv
<1>1. OneKey'
  BY SameFiles
<1>2. CodecInv' /\ ControlInv'
  BY DEF Disconnected, CodecInv, ControlInv, InSession, InRekey, InTxn
<1>3. JournalInv' /\ CacheInv' /\ LoopInv'
  BY DEF Disconnected, JournalInv, CacheInv, LoopInv, InTxn, EmptyCache
<1> QED
  BY <1>1, <1>2, <1>3

\* A crash.
LEMMA CrashStep ==
  ASSUME IInv,
         \/ Crash
         \/ \E p \in Page : CrashInSpill(p)
         \/ \E R \in SUBSET Page : CrashInPlayback(R)
  PROVE  KInv'
<1> USE DEF IInv, KInv, TInv
<1>1. ASSUME Crash PROVE Disconnected /\ Recovered' = Recovered
  BY <1>1, ForgetsNothing DEF Crash, SyncedRecords
<1>2. ASSUME NEW p \in Page, CrashInSpill(p)
      PROVE  Disconnected /\ Recovered' = Recovered
  <2>1. /\ p \in Journalled /\ UnsyncedAfterSpill(p) \subseteq needSync
        /\ p \notin UnsyncedAfterSpill(p)
    BY <1>2, SpillsRecorded DEF CrashInSpill, CanSpill
  <2>2. \A q \in Page : q # p => disk'[q] = disk[q]
    BY <1>2 DEF CrashInSpill, TypeOK
  <2> QED
    BY <1>2, <2>1, <2>2, ForgetsNothing DEF CrashInSpill
<1>3. ASSUME NEW R \in SUBSET Page, CrashInPlayback(R)
      PROVE  Disconnected /\ Recovered' = Recovered
  <2>1. R \subseteq Journalled \ needSync
    BY <1>3 DEF CrashInPlayback, RecordsToFile
  <2>2. \A q \in Page : q \notin R => disk'[q] = disk[q]
    BY <1>3 DEF CrashInPlayback, RestoredFile
  <2> QED
    BY <1>3, <2>1, <2>2, ForgetsNothing DEF CrashInPlayback, SyncedRecords
<1> QED
  BY <1>1, <1>2, <1>3, DisconnectStep

\* A transaction is left with its journal.
LEMMA AbandonStep ==
  ASSUME IInv, AbandonTxn
  PROVE  KInv'
<1> USE DEF IInv, KInv, TInv
<1>0. /\ pc \in {"user", "ucommit", "rollback"}
      /\ pc' = IF pc = "rollback" THEN "leave" ELSE "idle"
      /\ estate' = "OPEN" /\ cache' = EmptyCache /\ dirty' = {} /\ needSync' = {}
      /\ jrnl' = SyncedRecords
      /\ UNCHANGED <<rc, next, codec, disk, trusted>>
  BY DEF AbandonTxn, AfterRollback
<1>1. OneKey' /\ K' = K
  BY <1>0, ForgetsNothing, SameFiles DEF SyncedRecords
<1>2. pc = "rollback" => ~rc
  BY DEF ControlInv
<1>3. CodecInv' /\ ControlInv'
  BY <1>0, <1>1, <1>2 DEF CodecInv, ControlInv, InSession, InRekey, InTxn
<1>4. JournalInv' /\ CacheInv' /\ LoopInv'
  BY <1>0, <1>2 DEF JournalInv, CacheInv, LoopInv, InTxn, EmptyCache
<1> QED
  BY <1>1, <1>3, <1>4

\* A playback with the key of the database leaves it as it was, in place.
LEMMA PlaybackRestores ==
  ASSUME TypeOK, OneKey, JournalInv,
         estate = "CACHEMOD" \/ WriteCipher = K,
         disk' = RestoredFile(RecordsToFile)
  PROVE  disk' = Recovered
<1>1. ASSUME NEW q \in Page PROVE disk'[q] = Recovered[q]
  <2>1. disk'[q] = IF q \in RecordsToFile
                   THEN [val |-> jrnl[q].val, enc |-> WriteCipher] ELSE disk[q]
    BY <1>1 DEF RestoredFile
  <2>2. /\ Recovered[q] = IF q \in Journalled THEN jrnl[q] ELSE disk[q]
        /\ Recovered[q] = [val |-> Recovered[q].val, enc |-> K]
    BY <1>1, Stored
  <2>3. CASE q \in RecordsToFile
    BY <2>1, <2>2, <2>3 DEF RecordsToFile
  <2>4. CASE q \notin RecordsToFile
    BY <1>1, <2>1, <2>2, <2>4 DEF RecordsToFile, JournalInv
  <2> QED
    BY <2>3, <2>4
<1> QED
  BY <1>1 DEF Recovered, RestoredFile

\* The journal is played back by the connection that wrote it.
LEMMA RollbackStep ==
  ASSUME IInv, Rollback
  PROVE  KInv'
<1> USE DEF IInv, KInv, TInv
<1>0. /\ pc \in {"user", "ucommit", "rollback"} /\ estate # "ERROR"
      /\ pc' = IF pc = "rollback" THEN "leave" ELSE "idle"
      /\ estate' = "OPEN" /\ cache' = RestoredCache /\ dirty' = {}
      /\ jrnl' = NoRecords /\ needSync' = {}
      /\ disk' = RestoredFile(RecordsToFile)
      /\ UNCHANGED <<rc, next, codec, trusted>>
  BY DEF Rollback, AfterRollback
<1>1. pc = "rollback" => ~rc /\ estate = "CACHEMOD"
  BY <1>0 DEF ControlInv
<1>2. disk' = Recovered
  BY <1>0, <1>1, PlaybackRestores, WritesWithKey DEF InSession, CodecInv
<1>3. Journalled' = {} /\ Recovered' = disk'
  <2>1. \A q \in Page : jrnl'[q] = NoRec
    BY <1>0 DEF NoRecords
  <2>2. disk' \in [Page -> Content]
    BY <1>2, KeyTyped
  <2> QED
    BY <2>1, <2>2 DEF Journalled, Recovered
<1>4. OneKey' /\ K' = K
  BY <1>2, <1>3, SameFiles
<1>5. CodecInv' /\ ControlInv'
  BY <1>0, <1>1, <1>4 DEF CodecInv, ControlInv, InSession, InRekey, InTxn
<1>6. JournalInv' /\ LoopInv'
  BY <1>0, <1>3 DEF JournalInv, LoopInv, InTxn
<1>7. CacheInv'
  <2>1. ASSUME NEW q \in Page PROVE cache'[q] \in {NotCached, disk'[q].val}
    <3>1. Recovered[q] = IF q \in Journalled THEN jrnl[q] ELSE disk[q]
      BY <2>1, Stored
    <3>2. cache'[q] = IF q \in Journalled /\ cache[q] # NotCached
                      THEN jrnl[q].val ELSE cache[q]
      BY <1>0, <2>1 DEF RestoredCache
    <3>3. q \notin Journalled => cache[q] \in {NotCached, disk[q].val}
      BY <1>0, <2>1 DEF JournalInv, CacheInv
    <3> QED
      BY <1>2, <3>1, <3>2, <3>3
  <2> QED
    BY <1>0, <2>1 DEF CacheInv
<1> QED
  BY <1>4, <1>5, <1>6, <1>7

\* A hot journal is found by a session only, and can be decrypted.
LEMMA HotIsReadable ==
  ASSUME IInv, pc \in {"idle", "begin"}, HotJournal
  PROVE  /\ pc = "idle" /\ RecordsReadable
         /\ SafeEnv /\ MayWrite => WriteCipher = K
<1> USE DEF IInv, KInv, TInv
<1>1. pc = "idle"
  BY DEF HotJournal, JournalInv
<1>2. ReadCipher = K /\ (SafeEnv /\ MayWrite => WriteCipher = K)
  BY <1>1, ReadsWithKey, WritesWithKey, MayWriteSafely DEF InSession
<1>3. ASSUME NEW q \in Journalled PROVE jrnl[q].enc = ReadCipher
  BY <1>2, Stored DEF Journalled
<1> QED
  BY <1>1, <1>2, <1>3 DEF RecordsReadable

\* The journal is played back by the next connection.
LEMMA RecoverStep ==
  ASSUME IInv, SafeEnv, Recover \/ RecoverRefused \/ RecoverDiscards
  PROVE  KInv'
<1> USE DEF IInv, KInv, TInv
<1>0. Recover /\ pc = "idle" /\ WriteCipher = K
  BY HotIsReadable DEF Recover, RecoverRefused, RecoverDiscards
<1>1. /\ disk' = RestoredFile(RecordsToFile)
      /\ jrnl' = NoRecords /\ needSync' = {} /\ cache' = EmptyCache
      /\ UNCHANGED <<pc, rc, next, codec, estate, dirty, trusted>>
  BY <1>0 DEF Recover
<1>2. disk' = Recovered
  BY <1>0, <1>1, PlaybackRestores
<1>3. Journalled' = {} /\ Recovered' = disk'
  <2>1. \A q \in Page : jrnl'[q] = NoRec
    BY <1>1 DEF NoRecords
  <2>2. disk' \in [Page -> Content]
    BY <1>2, KeyTyped
  <2> QED
    BY <2>1, <2>2 DEF Journalled, Recovered
<1>4. OneKey' /\ K' = K
  BY <1>2, <1>3, SameFiles
<1>5. CodecInv' /\ ControlInv'
  BY <1>0, <1>1, <1>4 DEF CodecInv, ControlInv, InSession, InRekey, InTxn
<1>6. JournalInv' /\ CacheInv' /\ LoopInv'
  BY <1>0, <1>1, <1>3
  DEF JournalInv, CacheInv, LoopInv, InTxn, EmptyCache, CleanOutside
<1> QED
  BY <1>4, <1>5, <1>6

(***************************************************************************)
(* Connections with a wrong key, when pages are authenticated.             *)
(***************************************************************************)

\* A connection is opened with a wrong key.
LEMMA StrangerOpens ==
  ASSUME IInv, SafeEnv, \E c \in Cipher : Open(c) /\ c # K
  PROVE  StrangerKept'
<1> USE DEF IInv, KInv, TInv
<1>1. PICK c \in Cipher : Open(c) /\ c # K
  OBVIOUS
<1>2. c \in Keys /\ "wrongkey" \in Env
  BY <1>1 DEF Open, SafeEnv, K, DatabaseKey
<1>3. /\ pc = "closed" /\ pc' = "idle" /\ codec' = CodecSetup(c)
      /\ trusted' = FALSE
      /\ UNCHANGED <<estate, cache, needSync, jrnl, disk>>
  BY <1>1, <1>2, CipherAssumption DEF Open, K, DatabaseKey
<1>4. OneKey' /\ K' = K
  BY <1>3, SameFiles DEF Recovered
<1>5. cache = EmptyCache /\ estate = "OPEN" /\ needSync = {}
  BY <1>3 DEF ControlInv, JournalInv, CacheInv, InTxn
<1>6. Auth
  BY <1>2 DEF SafeEnv
<1> QED
  BY <1>1, <1>2, <1>3, <1>4, <1>5, <1>6 DEF StrangerKept, CodecSetup

\* It can read nothing: no page of the file, and no record of a hot journal.
LEMMA StrangerBlind ==
  ASSUME TInv, StrangerKept
  PROVE  /\ Detects
         /\ Journalled = {} => \A p \in Page : FetchFails(p)
         /\ Journalled # {} => ~RecordsReadable
<1> USE DEF StrangerKept
<1>1. ReadCipher \in Keys /\ ReadCipher # K
  BY DEF ReadCipher
<1>2. Detects
  BY <1>1, CipherAssumption DEF Detects
<1>3. ASSUME Journalled = {}, NEW p \in Page PROVE FetchFails(p)
  <2>1. disk[p].enc = K
    BY <1>3, Stored DEF TInv
  <2> QED
    BY <1>1, <1>2, <2>1 DEF FetchFails, EmptyCache
<1>4. ASSUME NEW q \in Journalled PROVE jrnl[q].enc = K
  BY Stored DEF Journalled, TInv
<1> QED
  BY <1>1, <1>2, <1>3, <1>4 DEF RecordsReadable

\* It changes neither file nor journal, and what it calls fails, until it is
\* gone.
LEMMA StrangerStays ==
  ASSUME SafeEnv, TInv, StrangerKept, Next
  PROVE  Recovered' = Recovered /\ jrnl' = jrnl /\ (KInv' \/ StrangerKept')
<1> USE DEF StrangerKept
<1>1. Detects /\ (Journalled = {} => \A p \in Page : FetchFails(p))
      /\ (Journalled # {} => ~RecordsReadable)
  BY StrangerBlind
<1>2. HotJournal <=> Journalled # {}
  BY DEF HotJournal
<1>3. SyncedRecords = jrnl
  BY DEF SyncedRecords, TInv, TypeOK
<1>4. /\ ~\E c \in Cipher : Open(c)
      /\ ~\E p \in Page : Read(p) \/ Evict(p) \/ CrashInSpill(p)
      /\ ~\E R \in SUBSET Page : CrashInPlayback(R)
      /\ ~Recover /\ ~RecoverDiscards
  BY <1>1, <1>2
  DEF Open, Read, Evict, CrashInSpill, CanSpill, InWriteTxn, Committing,
      CrashInPlayback, Recover, RecoverDiscards, EmptyCache
<1>5. ~PageOneValid \/ HotJournal
  BY <1>1, <1>2, OnePage DEF PageOneValid
<1>6. ~Transaction
  BY <1>5
  DEF Transaction, BeginUser, UserCommit, Commit, CommitError, FetchError, Spill,
      SpillError, CanSpill, InWriteTxn, Committing, UserWrite, Rollback, AbandonTxn
<1>7. CASE Close \/ Crash
  <2>1. jrnl' = jrnl /\ disk' = disk /\ Disconnected
    BY <1>3, <1>7 DEF Close, Crash
  <2>2. Recovered' = Recovered
    BY <2>1 DEF Recovered
  <2> QED
    BY <2>1, <2>2, DisconnectStep
<1>8. CASE RekeyCall \/ RecoverRefused
  <2>1. /\ UNCHANGED <<estate, jrnl, needSync, disk, trusted>>
        /\ pc' \in {"idle", "begin", "leave"} /\ (pc' = "leave" => ~rc')
        /\ cache' \in {cache, EmptyCache}
    <3>1. CASE RecoverRefused
      BY <3>1 DEF RecoverRefused
    <3>2. CASE RekeyCall
      BY <1>5, <3>2
      DEF RekeyCall, BeginEncrypt, BeginRekey, BeginDecrypt, StartRekey,
          RefuseRekey, RekeyBeginTrans, RekeyBeginError, RekeyPage,
          RekeyCommit, RekeyError, LeaveRekey
    <3> QED
      BY <1>8, <3>1, <3>2
  <2>2. /\ codec'.attached /\ codec'.isEncrypted /\ codec'.hasRead
        /\ codec'.rk = codec.rk
    <3>1. codec \in Codec
      BY DEF TInv, TypeOK
    <3>2. \/ codec' = codec \/ codec' = [codec EXCEPT !.hasWrite = FALSE]
          \/ codec' = LeaveCodec(codec, FALSE)
          \/ \E k \in Cipher : codec' = SetupWriteCipher(codec, k)
      <4>1. Keys \subseteq Cipher
        BY DEF Cipher
      <4>2. CASE LeaveRekey \/ RecoverRefused
        BY <4>2 DEF LeaveRekey, RecoverRefused, TInv, TypeOK
      <4>3. CASE RekeyCall /\ ~LeaveRekey
        BY <1>5, <4>1, <4>3
        DEF RekeyCall, BeginEncrypt, BeginRekey, BeginDecrypt, StartRekey,
            RefuseRekey, RekeyBeginTrans, RekeyBeginError, RekeyPage,
            RekeyCommit, RekeyError
      <4> QED
        BY <1>8, <4>2, <4>3
    <3>3. LeaveCodec(codec, FALSE) = [codec EXCEPT !.wk = codec.rk]
      BY <3>1 DEF LeaveCodec, Codec
    <3> QED
      BY <3>1, <3>2, <3>3 DEF Codec, SetupWriteCipher
  <2>3. pc' = "begin" => Journalled = {}
    <3>1. CASE RecoverRefused
      BY <1>2, <3>1 DEF RecoverRefused
    <3>2. CASE RekeyCall /\ pc = "idle"
      BY <1>2, <3>2
      DEF RekeyCall, BeginEncrypt, BeginRekey, BeginDecrypt, StartRekey,
          RefuseRekey, RekeyBeginTrans, RekeyBeginError, RekeyPage,
          RekeyCommit, RekeyError, LeaveRekey, SafeEnv
    <3>3. CASE RekeyCall /\ pc # "idle"
      BY <3>3
      DEF RekeyCall, BeginEncrypt, BeginRekey, BeginDecrypt, StartRekey,
          RefuseRekey, RekeyBeginTrans, RekeyBeginError, RekeyPage,
          RekeyCommit, RekeyError, LeaveRekey
    <3> QED
      BY <1>8, <3>1, <3>2, <3>3
  <2>4. Recovered' = Recovered /\ Journalled' = Journalled
    BY <2>1 DEF Recovered, Journalled
  <2>5. OneKey' /\ K' = K
    BY <2>4, SameFiles
  <2> QED
    BY <2>1, <2>2, <2>3, <2>4, <2>5
<1> QED
  BY <1>4, <1>6, <1>7, <1>8 DEF Next

\* What a connection with the right key does keeps the invariant, and so does
\* an opener with a wrong one.
LEMMA KnownStep == SafeEnv /\ IInv /\ [Next]_vars => SafeInv'
<1> SUFFICES ASSUME SafeEnv, IInv, [Next]_vars PROVE SafeInv'
  OBVIOUS
<1>1. TInv'
  BY TypeStep DEF IInv
<1>2. CASE UNCHANGED vars
  BY <1>1, <1>2
  DEF vars, SafeInv, IInv, KInv, OneKey, CodecInv, ControlInv, JournalInv, CacheInv, LoopInv,
      InSession, InRekey, InTxn, K, DatabaseKey, Recovered, Journalled, WriteCipher
<1>3. ASSUME Next
      PROVE  KInv' \/ StrangerKept'
  <2>0. CASE \E c \in Cipher : Open(c) /\ c # K
    BY <2>0, StrangerOpens
  <2>1. CASE \/ \E c \in Cipher : Open(c) /\ c = K
             \/ Close
             \/ \E p \in Page : Read(p) \/ Evict(p)
             \/ BeginUser \/ UserCommit \/ CommitError
             \/ \E p \in Page : FetchError(p)
    BY <2>1, SessionStep
  <2>2. CASE RekeyCall
    <3>1. CASE RekeyPage
      BY <3>1, RekeyPageStep
    <3>2. CASE ~RekeyPage
      BY <2>2, <3>2, RekeyControlStep DEF RekeyCall
    <3> QED
      BY <3>1, <3>2
  <2>3. CASE Commit
    BY <2>3, CommitStep
  <2>4. CASE \E p \in Page : Spill(p) \/ SpillError(p)
    BY <2>4, SpillStep, SpillErrorStep
  <2>5. CASE \E p \in Page, v \in Vals : UserWrite(p, v)
    BY <2>5, UserWriteStep
  <2>6. CASE Rollback \/ AbandonTxn
    BY <2>6, RollbackStep, AbandonStep
  <2>7. CASE \/ Crash
             \/ \E p \in Page : CrashInSpill(p)
             \/ \E R \in SUBSET Page : CrashInPlayback(R)
    BY <2>7, CrashStep
  <2>8. CASE Recover \/ RecoverRefused \/ RecoverDiscards
    BY <2>8, RecoverStep
  <2> QED
    BY <1>3, <2>0, <2>1, <2>2, <2>3, <2>4, <2>5, <2>6, <2>7, <2>8 DEF Next, Transaction
<1> QED
  BY <1>1, <1>2, <1>3 DEF SafeInv, IInv, KInv

\* Every step keeps the invariant.
LEMMA InvStep == SafeEnv /\ SafeInv /\ [Next]_vars => SafeInv'
<1> SUFFICES ASSUME SafeEnv, SafeInv, [Next]_vars PROVE SafeInv'
  OBVIOUS
<1>1. TInv'
  BY TypeStep DEF SafeInv
<1>2. CASE KInv
  BY <1>2, KnownStep DEF SafeInv, IInv
<1>3. CASE StrangerKept /\ Next
  BY <1>1, <1>3, StrangerStays DEF SafeInv
<1>4. CASE StrangerKept /\ UNCHANGED vars
  BY <1>1, <1>4
  DEF vars, SafeInv, StrangerKept, OneKey, K, DatabaseKey, Recovered, Journalled
<1> QED
  BY <1>2, <1>3, <1>4 DEF SafeInv

\* The invariant holds in every state.
LEMMA Invariance == SafeEnv => (Spec => []SafeInv)
<1> SUFFICES ASSUME SafeEnv PROVE Spec => []SafeInv
  OBVIOUS
<1>1. SafeInv /\ [Next]_vars => SafeInv'
  BY InvStep
<1>2. Init => SafeInv
  BY InvInit DEF SafeInv, IInv
<1> QED
  BY <1>1, <1>2, PTL DEF Spec

\* Whatever transactions and rekeys run, and wherever they fail or the process
\* dies, the file and its rollback journal are one database under one key.
THEOREM DatabaseHasOneKey == SafeEnv => (Spec => []OneKey)
<1> SUFFICES ASSUME SafeEnv PROVE Spec => []OneKey
  OBVIOUS
<1>1. SafeInv => OneKey
  BY DEF SafeInv, KInv, StrangerKept
<1> QED
  BY <1>1, Invariance, PTL

\* A session holds the key the database has, before and after every rekey,
\* whether it succeeded or failed, except that one whose removal of the
\* encryption has failed writes plain pages, and does not begin to.
THEOREM SessionFollowsKey == SafeEnv => (Spec => []SessionKeyCurrent)
<1> SUFFICES ASSUME SafeEnv PROVE Spec => []SessionKeyCurrent
  OBVIOUS
<1>1. ASSUME IInv PROVE SessionKeyCurrent
  <2>1. InSession => ReadCipher = K
    BY <1>1, ReadsWithKey DEF IInv, KInv
  <2>2. InSession => WriteCipher = K \/ (pc = "idle" /\ RemovalFailed)
    BY <1>1, WritesWithKey DEF IInv, KInv, CodecInv, Unwritable, RemovalFailed
  <2> QED
    BY <2>1, <2>2 DEF SessionKeyCurrent, InSession, K, DatabaseKey
<1>2. StrangerKept => SessionKeyCurrent
  BY DEF StrangerKept, SessionKeyCurrent
<1>3. SafeInv => SessionKeyCurrent
  BY <1>1, <1>2 DEF SafeInv, IInv
<1> QED
  BY <1>3, Invariance, PTL

\* A write transaction, a rekey included, can always decrypt its own journal.
THEOREM JournalStaysReadable == SafeEnv => (Spec => []OwnJournalReadable)
<1> SUFFICES ASSUME SafeEnv PROVE Spec => []OwnJournalReadable
  OBVIOUS
<1>1. ASSUME IInv PROVE OwnJournalReadable
  <2> SUFFICES ASSUME pc \in {"user", "ucommit", "rekey", "rcommit", "rollback"},
                      NEW p \in Journalled
               PROVE  jrnl[p].enc = ReadCipher
    BY DEF OwnJournalReadable, RecordsReadable
  <2>1. ReadCipher = K
    BY <1>1, ReadsWithKey DEF IInv, KInv, InSession, InRekey
  <2>2. p \in Page
    BY DEF Journalled
  <2> QED
    BY <1>1, <2>1, <2>2, Stored DEF IInv, KInv, TInv
<1>2. StrangerKept => OwnJournalReadable
  BY DEF StrangerKept, OwnJournalReadable
<1>3. SafeInv => OwnJournalReadable
  BY <1>1, <1>2 DEF SafeInv, IInv
<1> QED
  BY <1>3, Invariance, PTL

\* What an idle session has cached is what the database holds.
THEOREM CacheStaysCoherent == SafeEnv => (Spec => []CacheCoherent)
<1> SUFFICES ASSUME SafeEnv PROVE Spec => []CacheCoherent
  OBVIOUS
<1>1. ASSUME IInv PROVE CacheCoherent
  <2> SUFFICES ASSUME pc = "idle", NEW p \in Page, cache[p] # NotCached
               PROVE  cache[p] = Recovered[p].val
    BY DEF CacheCoherent
  <2>1. Journalled = {} \/ cache = EmptyCache
    BY <1>1 DEF IInv, KInv, JournalInv, InTxn
  <2>2. Journalled = {}
    BY <2>1 DEF EmptyCache
  <2>3. Recovered[p] = disk[p]
    BY <2>2 DEF Recovered, Journalled
  <2>4. dirty = {} /\ estate = "OPEN"
    BY <1>1 DEF IInv, KInv, TInv, CleanOutside, ControlInv, InTxn
  <2> QED
    BY <1>1, <2>3, <2>4 DEF IInv, KInv, CacheInv
<1>2. StrangerKept => CacheCoherent
  BY DEF StrangerKept, CacheCoherent
<1>3. SafeInv => CacheCoherent
  BY <1>1, <1>2 DEF SafeInv, IInv
<1> QED
  BY <1>3, Invariance, PTL

\* A session that plays a journal back restores what the file held, with the
\* very cipher it was stored under, and releases no record it has not restored.
THEOREM PlaybackIsVerbatim ==
  SafeEnv => (Spec => PlaybackVerbatim /\ HotJournalRestored)
<1> SUFFICES ASSUME SafeEnv
             PROVE  Spec => PlaybackVerbatim /\ HotJournalRestored
  OBVIOUS
<1>1. ASSUME IInv, Rollback \/ Recover
      PROVE  disk' = Recovered
  <2>1. CASE Rollback
    <3>1. estate = "CACHEMOD" \/ InSession
      BY <1>1, <2>1 DEF IInv, KInv, ControlInv, InSession, Rollback
    <3> QED
      BY <1>1, <2>1, <3>1, PlaybackRestores, WritesWithKey
      DEF IInv, KInv, TInv, Rollback, CodecInv
  <2>2. CASE Recover
    <3>1. WriteCipher = K
      BY <1>1, <2>2, HotIsReadable DEF Recover
    <3> QED
      BY <1>1, <2>2, <3>1, PlaybackRestores DEF IInv, KInv, TInv, Recover
  <2> QED
    BY <1>1, <2>1, <2>2
<1>2. ASSUME IInv, Rollback \/ Recover, NEW p \in RecordsToFile
      PROVE  disk'[p] = jrnl[p]
  <2>1. disk' = Recovered
    BY <1>1, <1>2
  <2>2. p \in Page /\ p \in Journalled
    BY <1>2 DEF RecordsToFile, Journalled
  <2> QED
    BY <1>2, <2>1, <2>2, Stored DEF IInv, KInv, TInv
<1>3. ASSUME IInv, [Next]_vars, HotJournal, jrnl' = NoRecords
      PROVE  disk' = Recovered
  <2>1. jrnl' # jrnl /\ estate = "OPEN"
    <3>1. PICK p \in Page : jrnl[p] # NoRec
      BY <1>3 DEF HotJournal, Journalled
    <3>2. jrnl'[p] = NoRec
      BY <1>3 DEF NoRecords
    <3> QED
      BY <1>3, <3>1, <3>2 DEF HotJournal
  <2>2. ~InTxn /\ needSync = {}
    BY <1>3, <2>1 DEF IInv, KInv, ControlInv, JournalInv
  <2>3. SyncedRecords = jrnl
    BY <1>3, <2>2 DEF SyncedRecords, IInv, TInv, TypeOK
  <2>4. Recover \/ RecoverDiscards
    <3>1. Next
      BY <1>3, <2>1 DEF vars
    <3>2. ~Crash /\ ~AbandonTxn /\ ~\E R \in SUBSET Page : CrashInPlayback(R)
      BY <2>1, <2>3 DEF Crash, AbandonTxn, CrashInPlayback
    <3>3. ~RekeyCall
      BY <2>1, <2>2
      DEF RekeyCall, BeginEncrypt, BeginRekey, BeginDecrypt, StartRekey,
          RefuseRekey, RekeyBeginTrans, RekeyBeginError, RekeyPage,
          RekeyCommit, RekeyError, LeaveRekey, InTxn
    <3>4. ~Transaction
      BY <2>1, <2>2, <3>2
      DEF Transaction, BeginUser, UserCommit, Commit, CommitError, FetchError,
          Spill, SpillError, UserWrite, Rollback, InTxn, Committing
    <3>5. ~\E p \in Page : CrashInSpill(p)
      BY <2>2 DEF CrashInSpill, CanSpill, InWriteTxn, Committing, InTxn
    <3>6. /\ ~Close /\ ~RecoverRefused /\ ~\E c \in Cipher : Open(c)
          /\ ~\E p \in Page : Read(p) \/ Evict(p)
      BY <2>1 DEF Open, Close, Read, Evict, RecoverRefused
    <3> QED
      BY <3>1, <3>2, <3>3, <3>4, <3>5, <3>6 DEF Next
  <2>5. Recover
    BY <1>3, <2>4, HotIsReadable DEF RecoverDiscards
  <2> QED
    BY <1>1, <1>3, <2>5
<1>4. ASSUME TInv, StrangerKept
      PROVE  ~Rollback /\ ~Recover /\ ~trusted
  BY <1>4, StrangerBlind DEF StrangerKept, Rollback, Recover, HotJournal
<1>5. SafeInv /\ [Next]_vars =>
        [Rollback \/ Recover => \A p \in RecordsToFile : disk'[p] = jrnl[p]]_vars
  BY <1>2, <1>4 DEF SafeInv, IInv
<1>6. SafeInv /\ [Next]_vars =>
        [HotJournal /\ jrnl' = NoRecords /\ trusted => disk' = Recovered]_vars
  BY <1>3, <1>4 DEF SafeInv, IInv
<1> QED
  BY <1>5, <1>6, Invariance, PTL
  DEF Spec, PlaybackVerbatim, HotJournalRestored

\* With a wrong key, if pages are authenticated, a hot journal cannot be
\* decrypted, and it stays as it is for whoever has its key: neither opening,
\* nor a rekey that fails, nor a crash takes a record of it away.
THEOREM WrongKeyKeepsJournal == SafeEnv => (Spec => UnreadableJournalKept)
<1> SUFFICES ASSUME SafeEnv PROVE Spec => UnreadableJournalKept
  OBVIOUS
<1>1. ASSUME IInv, [Next]_vars, HotJournal, ~RecordsReadable
      PROVE  jrnl' = jrnl
  <2>1. pc \notin {"idle", "begin"}
    BY <1>1, HotIsReadable
  <2>2. pc \in {"closed", "leave"} /\ needSync = {}
    BY <1>1, <2>1
    DEF HotJournal, IInv, KInv, TInv, TypeOK, ControlInv, JournalInv, InTxn
  <2>3. SyncedRecords = jrnl
    BY <1>1, <2>2 DEF SyncedRecords, IInv, TInv, TypeOK
  <2>4. CASE UNCHANGED vars
    BY <2>4 DEF vars
  <2>5. CASE Transaction \/ RekeyCall
    BY <2>2, <2>5
    DEF Transaction, BeginUser, UserCommit, Commit, CommitError, FetchError, Spill,
        SpillError, UserWrite, Rollback, AbandonTxn, Committing,
        RekeyCall, BeginEncrypt, BeginRekey, BeginDecrypt, StartRekey,
        RefuseRekey, RekeyBeginTrans, RekeyBeginError, RekeyPage,
        RekeyCommit, RekeyError, LeaveRekey
  <2>6. CASE Next /\ ~Transaction /\ ~RekeyCall
    BY <2>2, <2>3, <2>6
    DEF Next, Open, Close, Read, Evict, Crash, CrashInSpill, CanSpill, InWriteTxn,
        Committing, CrashInPlayback, Recover, RecoverRefused, RecoverDiscards
  <2> QED
    BY <1>1, <2>4, <2>5, <2>6
<1>2. ASSUME TInv, StrangerKept, [Next]_vars
      PROVE  jrnl' = jrnl
  BY <1>2, StrangerStays DEF vars
<1>3. SafeInv /\ [Next]_vars =>
        [HotJournal /\ ~RecordsReadable => jrnl' = jrnl]_vars
  BY <1>1, <1>2 DEF SafeInv, IInv
<1> QED
  BY <1>3, Invariance, PTL DEF Spec, UnreadableJournalKept

-----------------------------------------------------------------------------
(***************************************************************************)
(* The database implements a keyed store.                                  *)
(***************************************************************************)

\* Only a commit is observable.
LEMMA OnlyCommitsObservable ==
  ASSUME SafeEnv, IInv, [Next]_vars, ~Commit
  PROVE  Recovered' = Recovered
<1> USE DEF IInv, KInv, TInv
<1>1. CASE UNCHANGED <<disk, jrnl>>
  BY <1>1 DEF Recovered
<1>2. ASSUME NEW p \in Page, NEW v \in Vals, UserWrite(p, v)
      PROVE  Recovered' = Recovered
  <2>1. ReadCipher = K
    BY <1>2, ReadsWithKey DEF UserWrite, InSession
  <2> QED
    BY <1>2, <2>1, JournalsStored DEF UserWrite, InTxn
<1>3. CASE RekeyPage
  <2>1. ReadCipher = K /\ next \in Page
    BY <1>3, ReadsWithKey DEF RekeyPage, InRekey, TypeOK, Page
  <2> QED
    BY <1>3, <2>1, JournalsStored DEF RekeyPage, InTxn
<1>4. ASSUME NEW p \in Page, Spill(p) \/ SpillError(p)
      PROVE  Recovered' = Recovered
  <2>1. p \in Journalled /\ jrnl' = jrnl
    BY <1>4, SpillsRecorded DEF Spill, SpillError, CanSpill
  <2>2. \A q \in Page : q # p => disk'[q] = disk[q]
    BY <1>4 DEF Spill, SpillError, TypeOK
  <2>3. \A q \in Page : Recovered'[q] = Recovered[q]
    BY <2>1, <2>2 DEF Recovered, Journalled
  <2> QED
    BY <2>3 DEF Recovered
<1>5. CASE Rollback \/ Recover \/ RecoverDiscards
  <2>1. Rollback \/ Recover
    BY <1>5, HotIsReadable DEF RecoverDiscards
  <2>2. estate = "CACHEMOD" \/ WriteCipher = K
    BY <2>1, HotIsReadable, WritesWithKey
    DEF Rollback, Recover, ControlInv, InSession, CodecInv
  <2>3. disk' = Recovered /\ jrnl' = NoRecords
    BY <2>1, <2>2, PlaybackRestores DEF Rollback, Recover
  <2>4. \A q \in Page : Recovered'[q] = Recovered[q]
    BY <2>3 DEF Recovered, NoRecords
  <2> QED
    BY <2>4 DEF Recovered
<1>6. CASE Crash \/ AbandonTxn
  BY <1>6, ForgetsNothing DEF Crash, AbandonTxn, SyncedRecords
<1>7. ASSUME NEW p \in Page, CrashInSpill(p)
      PROVE  Recovered' = Recovered
  <2>1. /\ p \in Journalled /\ UnsyncedAfterSpill(p) \subseteq needSync
        /\ p \notin UnsyncedAfterSpill(p)
    BY <1>7, SpillsRecorded DEF CrashInSpill, CanSpill
  <2>2. \A q \in Page : q # p => disk'[q] = disk[q]
    BY <1>7 DEF CrashInSpill, TypeOK
  <2> QED
    BY <1>7, <2>1, <2>2, ForgetsNothing DEF CrashInSpill
<1>8. ASSUME NEW R \in SUBSET Page, CrashInPlayback(R)
      PROVE  Recovered' = Recovered
  <2>1. R \subseteq Journalled \ needSync
    BY <1>8 DEF CrashInPlayback, RecordsToFile
  <2>2. \A q \in Page : q \notin R => disk'[q] = disk[q]
    BY <1>8 DEF CrashInPlayback, RestoredFile
  <2> QED
    BY <1>8, <2>1, <2>2, ForgetsNothing DEF CrashInPlayback, SyncedRecords
<1>9. CASE \/ \E c \in Cipher : Open(c)
           \/ Close
           \/ \E p \in Page : Read(p) \/ Evict(p) \/ FetchError(p)
           \/ BeginUser \/ UserCommit \/ CommitError \/ RecoverRefused
           \/ RekeyCall /\ ~RekeyPage
           \/ UNCHANGED vars
  <2>1. UNCHANGED <<disk, jrnl>>
    BY <1>9
    DEF Open, Close, Read, Evict, FetchError, BeginUser, UserCommit, CommitError,
        RecoverRefused, RekeyCall, BeginEncrypt, BeginRekey, BeginDecrypt,
        StartRekey, RefuseRekey, RekeyBeginTrans, RekeyBeginError,
        RekeyCommit, RekeyError, LeaveRekey, vars
  <2> QED
    BY <1>1, <2>1
<1> QED
  BY <1>2, <1>3, <1>4, <1>5, <1>6, <1>7, <1>8, <1>9 DEF Next, Transaction

\* A commit replaces the content, or the key, and never both.
LEMMA CommitsOneThing ==
  ASSUME IInv, Commit
  PROVE  \/ DatabaseContent' \in [Page -> Vals] /\ DatabaseKey' = DatabaseKey
         \/ DatabaseKey' \in Cipher /\ DatabaseContent' = DatabaseContent
<1> USE DEF IInv, KInv, TInv
<1>1. disk' = disk /\ dirty = {} /\ estate # "ERROR" /\ pc \in {"ucommit", "rcommit"}
  BY DEF Commit, Committing
<1>2. \A p \in Page : Recovered'[p] = disk[p]
  BY DEF Commit, NoRecords, Recovered
<1>3. CASE pc = "ucommit"
  <2>1. \A p \in Page : disk[p].enc = K /\ disk[p].val \in Vals
    BY <1>1, <1>3 DEF CacheInv
  <2>2. DatabaseKey' = DatabaseKey
    BY <1>2, <2>1, OnePage DEF DatabaseKey, K
  <2>3. DatabaseContent' \in [Page -> Vals]
    BY <1>2, <2>1 DEF DatabaseContent
  <2> QED
    BY <2>2, <2>3
<1>4. CASE pc = "rcommit"
  <2>1. ASSUME NEW p \in Page PROVE Recovered'[p].val = Recovered[p].val
    <3>1. Journalled = Page
      BY <1>4 DEF LoopInv
    <3>2. disk[p] = [val |-> jrnl[p].val, enc |-> WriteCipher]
      BY <1>1, <1>4, <3>1 DEF LoopInv
    <3>3. Recovered[p] = jrnl[p]
      BY <3>1, Stored
    <3> QED
      BY <1>2, <3>2, <3>3
  <2>2. DatabaseContent' = DatabaseContent
    BY <2>1 DEF DatabaseContent
  <2>3. DatabaseKey' \in Cipher
    BY <1>2, OnePage DEF DatabaseKey, TypeOK, Content
  <2> QED
    BY <2>2, <2>3
<1> QED
  BY <1>1, <1>3, <1>4

\* To whoever opens it, the database is a keyed store: rekeys change the key
\* and keep the content, transactions change the content and keep the key, and
\* no spill, error, rollback, crash or recovery can be observed.
THEOREM DatabaseIsStore == SafeEnv => (Spec => ImplementsStore)
<1> SUFFICES ASSUME SafeEnv PROVE Spec => ImplementsStore
  OBVIOUS
<1>1. Init => Store!Init
  <2> SUFFICES ASSUME Init PROVE Store!Init
    OBVIOUS
  <2>1. TypeOK /\ OneKey
    BY InvInit DEF IInv, KInv, TInv
  <2>2. DatabaseKey \in Cipher
    BY <2>1, KeyTyped DEF K
  <2>3. DatabaseContent \in [Page -> Vals]
    BY <2>1 DEF DatabaseContent, OneKey
  <2> QED
    BY <2>2, <2>3 DEF Store!Init, Store!Cipher, Cipher
<1>2. SafeInv /\ [Next]_vars => [Store!Next]_(Store!vars)
  <2> SUFFICES ASSUME SafeInv, [Next]_vars PROVE [Store!Next]_(Store!vars)
    OBVIOUS
  <2>1. CASE KInv /\ Commit
    BY <2>1, CommitsOneThing
    DEF SafeInv, IInv, Store!Next, Store!Write, Store!ChangeKey, Store!Cipher, Cipher
  <2>2. CASE ~(KInv /\ Commit)
    <3>1. KInv => Recovered' = Recovered
      BY <2>2, OnlyCommitsObservable DEF SafeInv, IInv
    <3>2. StrangerKept /\ Next => Recovered' = Recovered
      BY StrangerStays DEF SafeInv
    <3>3. UNCHANGED vars => Recovered' = Recovered
      BY DEF vars, Recovered
    <3>4. Recovered' = Recovered
      BY <3>1, <3>2, <3>3 DEF SafeInv
    <3> QED
      BY <3>4 DEF Store!vars, DatabaseContent, DatabaseKey
  <2> QED
    BY <2>1, <2>2
<1> QED
  BY <1>1, <1>2, Invariance, PTL DEF Spec, ImplementsStore, Store!Spec
=============================================================================
