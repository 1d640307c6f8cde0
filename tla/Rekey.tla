------------------------------- MODULE Rekey -------------------------------
(***************************************************************************)
(* The codec of one database connection (codecext.c, cipher_common.c) on   *)
(* top of SQLite's pager in rollback-journal mode, with the VFS that calls *)
(* it on every page transfer (sqlite3mc_vfs.c).                            *)
(*                                                                         *)
(* A codec holds two ciphers.  Pages are read, and journalled, under the   *)
(* READ cipher and written to the database file under the WRITE cipher.    *)
(* The two differ only while sqlite3_rekey_v2 runs: it installs the new    *)
(* key as write cipher, makes every page dirty, commits, and only then     *)
(* makes the two ciphers equal again.  The module follows a connection     *)
(* through ordinary write transactions, the three kinds of rekey           *)
(* (encrypting, re-encrypting, decrypting), cache spills, evictions, I/O   *)
(* errors, crashes, re-opening and hot-journal recovery.                   *)
(*                                                                         *)
(* A page on disk is the pair of its content and the cipher it is stored   *)
(* under; reading it with any other cipher yields Garbage, or an error if  *)
(* the cipher authenticates pages.  The two ways of rewriting the file,    *)
(* in place and through the VACUUM code (when the number of reserved bytes *)
(* changes), both read every page of the database, journal it and make it  *)
(* dirty in one write transaction: as long as nothing fails one loop       *)
(* stands for both.  The failures are those of the rewriting in place.     *)
(***************************************************************************)
EXTENDS Integers

CONSTANTS
  Keys,         \* the keys
  Plain,        \* the absence of a cipher
  Vals,         \* contents of a page
  Garbage,      \* what a page looks like under a wrong cipher
  NotCached,    \* the page is not in the page cache
  NoRec,        \* the page has no record in the rollback journal
  NPage,        \* pages of the database
  SectorPages,  \* pages per disk sector: Pager.sectorSize / Pager.pageSize
  Auth,         \* decryption detects a wrong key (HMAC or AEAD tag)
  Ops,          \* the kinds of rekey the application uses
  Env           \* what the environment may do, see EnvChoices

EnvChoices ==
  { "crash",      \* the process dies at any moment
    "busy",       \* an operation fails before a database page was written
    "ioerr",      \* it fails after pages were written, and is rolled back
    "pagererr",   \* an error puts the pager into the ERROR state
    "wrongkey",   \* a database is opened with a key that is not its key
    "nokey",      \* a database is opened without a key although it has one
    "coldrekey",  \* rekey is the first access after a crash
    "plainwrite" } \* a session without write cipher goes on, see MayWrite

ASSUME CipherAssumption == Plain \notin Keys
ASSUME ValueAssumption ==
  /\ Garbage \notin Vals
  /\ NotCached \notin Vals \cup {Garbage}
ASSUME PageAssumption == NPage \in Nat \ {0} /\ SectorPages \in Nat \ {0}
ASSUME EnvAssumption ==
  /\ Auth \in BOOLEAN
  /\ Ops \subseteq {"encrypt", "rekey", "decrypt"}
  /\ Env \subseteq EnvChoices

Page    == 1 .. NPage
Cipher  == Keys \cup {Plain}
Content == [val : Vals \cup {Garbage}, enc : Cipher]
Torn    == [val |-> Garbage, enc |-> Plain]  \* a page write that was cut short

ASSUME RecordAssumption == NoRec \notin Content

VARIABLES
  pc,        \* what the connection is doing
  rc,        \* TRUE: the running rekey has returned SQLITE_OK so far
  next,      \* loop counter of the rewriting loop of rekey
  codec,     \* the Codec attached to the main database file
  estate,    \* Pager.eState
  cache,     \* the page cache
  dirty,     \* cached pages that differ from the file or must be rewritten
  jrnl,      \* records of the rollback journal
  needSync,  \* pages whose journal record is not yet synced (NEED_SYNC)
  disk,      \* the database file
  trusted    \* TRUE: the connection was opened with the database's cipher

vars == <<pc, rc, next, codec, estate, cache, dirty, jrnl, needSync, disk,
          trusted>>

Codec ==
  [attached : BOOLEAN, isEncrypted : BOOLEAN,
   hasRead  : BOOLEAN, rk : Cipher,    \* m_hasReadCipher,  m_readCipher
   hasWrite : BOOLEAN, wk : Cipher]    \* m_hasWriteCipher, m_writeCipher

NoCodec == [attached |-> FALSE, isEncrypted |-> FALSE,
            hasRead |-> FALSE, rk |-> Plain, hasWrite |-> FALSE, wk |-> Plain]

TypeOK ==
  /\ pc \in {"closed", "idle", "user", "ucommit",
             "begin", "rekey", "rcommit", "rollback", "leave"}
  /\ rc \in BOOLEAN
  /\ next \in 1 .. NPage + 1
  /\ codec \in Codec
  /\ estate \in {"OPEN", "CACHEMOD", "DBMOD", "ERROR"}
  /\ cache \in [Page -> Vals \cup {Garbage, NotCached}]
  /\ dirty \subseteq Page
  /\ jrnl \in [Page -> Content \cup {NoRec}]
  /\ needSync \subseteq Page
  /\ disk \in [Page -> Content]
  /\ trusted \in BOOLEAN

-----------------------------------------------------------------------------
(***************************************************************************)
(* The codec: sqlite3mcCodec and the functions that build its two ciphers. *)
(***************************************************************************)

\* Mode 3: pages of the file and of the journal are decrypted with this one.
ReadCipher ==
  IF codec.isEncrypted /\ codec.hasRead THEN codec.rk ELSE Plain

\* Mode 6: pages on their way to the database file.
WriteCipher ==
  IF codec.isEncrypted /\ codec.hasWrite THEN codec.wk ELSE Plain

\* Slip: journal pages are encrypted like pages of the file.
JournalCipherSlip ==
  IF codec.isEncrypted /\ codec.hasWrite THEN codec.wk ELSE Plain

\* Mode 7: pages on their way to the rollback journal.
JournalCipher ==
  IF codec.isEncrypted /\ codec.hasRead THEN codec.rk ELSE Plain

\* Slip: the error of the decryption is dropped.
DetectsSlip == FALSE

\* Decryption reports an error, instead of handing out garbage.
Detects == Auth /\ ReadCipher # Plain

Decode(c, k) == IF c.enc = k THEN c.val ELSE Garbage

\* sqlite3mcCodecSetup, with a key: both ciphers are that key's.
CodecSetup(k) ==
  [attached |-> TRUE, isEncrypted |-> TRUE,
   hasRead |-> TRUE, rk |-> k, hasWrite |-> TRUE, wk |-> k]

\* sqlite3mcSetupWriteCipher; k = Plain when the cipher cannot be allocated.
SetupWriteCipher(c, k) ==
  [c EXCEPT !.attached = TRUE, !.isEncrypted = TRUE,
            !.hasWrite = TRUE, !.wk = k]

\* Slip: a failed rekey keeps the new write cipher.
LeaveCodecSlip(c, ok) ==
  LET done == IF ok
              THEN IF c.hasWrite
                   THEN [c EXCEPT !.rk = c.wk, !.hasRead = TRUE]
                   ELSE [c EXCEPT !.isEncrypted = FALSE]
              ELSE IF c.hasRead THEN c ELSE [c EXCEPT !.isEncrypted = FALSE]
  IN  IF done.isEncrypted THEN done ELSE NoCodec

\* What sqlite3_rekey_v2 does to the codec after it has left the mutex.
LeaveCodec(c, ok) ==
  LET done == IF ok
              THEN IF c.hasWrite
                   THEN [c EXCEPT !.rk = c.wk, !.hasRead = TRUE]
                   ELSE [c EXCEPT !.isEncrypted = FALSE]
              ELSE IF c.hasRead
                   THEN [c EXCEPT !.wk = c.rk]
                   ELSE [c EXCEPT !.isEncrypted = FALSE]
  IN  IF done.isEncrypted THEN done ELSE NoCodec

\* The error exit does not set m_hasWriteCipher again: a session whose removal
\* of the encryption has failed reads with its key and writes plain pages.
RemovalFailed == codec.attached /\ ~codec.hasWrite

\* What an application has to see to: such a session does not write, itself or
\* by recovering a hot journal.  It may read, repeat the rekey, or be closed.
MayWrite == pc = "idle" /\ RemovalFailed => "plainwrite" \in Env

-----------------------------------------------------------------------------
(***************************************************************************)
(* The pager, as far as ciphers are concerned.                             *)
(***************************************************************************)
NoRecords  == [p \in Page |-> NoRec]
EmptyCache == [p \in Page |-> NotCached]
Journalled == {p \in Page : jrnl[p] # NoRec}
HotJournal == estate = "OPEN" /\ Journalled # {}

\* The content of a page: from the cache, or read and decrypted.
Fetch(p) ==
  IF cache[p] # NotCached THEN cache[p] ELSE Decode(disk[p], ReadCipher)

\* The codec reports an error for a page and puts the pager in ERROR state.
FetchFails(p) ==
  cache[p] = NotCached /\ disk[p].enc # ReadCipher /\ Detects

\* Pages that share a disk sector are journalled and made dirty together.
Sector(p) ==
  {q \in 1 .. NPage + 1 : (q - 1) \div SectorPages = (p - 1) \div SectorPages}
SectorToWrite(p) == {q \in Sector(p) \cap Page : q = p \/ jrnl[q] = NoRec}

\* What the journal keeps of a page that is about to change.
JournalRecord(p) == [val |-> Fetch(p), enc |-> JournalCipher]

\* sqlite3PagerWrite: journal the old content, cache the new one.
PagerWrite(p, v) ==
  LET S == SectorToWrite(p) IN
  /\ \A q \in S : ~FetchFails(q)
  /\ jrnl' = [q \in Page |-> IF q \in S /\ jrnl[q] = NoRec
                             THEN JournalRecord(q) ELSE jrnl[q]]
  /\ needSync' = needSync \cup {q \in S : jrnl[q] = NoRec}
  /\ cache' = [q \in Page |-> IF q = p THEN v
                              ELSE IF q \in S THEN Fetch(q) ELSE cache[q]]
  /\ dirty' = dirty \cup S

Committing == pc \in {"ucommit", "rcommit"}
InWriteTxn == pc \in {"user", "rekey"} \/ Committing

\* Slip: the journal is not synced before the database file is written.
UnsyncedAfterSpillSlip(p) == needSync

\* Journal records that are still unsynced when page p reaches the file.
UnsyncedAfterSpill(p) ==
  IF p \in needSync \/ estate = "CACHEMOD" \/ Committing THEN {} ELSE needSync

PageToFile(p) == [val |-> cache[p], enc |-> WriteCipher]

\* Records that a playback by a later opener counts as part of the journal.
SyncedRecords == [p \in Page |-> IF p \in needSync THEN NoRec ELSE jrnl[p]]

\* Every record decrypts to what its checksum was computed from.
RecordsReadable == \A p \in Journalled : jrnl[p].enc = ReadCipher

\* Slip: only the process that wrote the journal restores the file.
RecordsToFileSlip ==
  IF estate # "DBMOD" THEN {} ELSE Journalled \ needSync

\* A playback writes to the file unless the file was never written to.
RecordsToFile ==
  IF estate = "CACHEMOD" THEN {} ELSE Journalled \ needSync

\* The file when the records of R are back: sqlite3OsWrite, hence mode 6.
RestoredFile(R) ==
  [p \in Page |-> IF p \in R THEN [val |-> jrnl[p].val, enc |-> WriteCipher]
                  ELSE disk[p]]

\* Slip: the cache survives a rollback as it is.
RestoredCacheSlip == cache

\* The cache when a transaction of this connection has been played back.
RestoredCache ==
  [p \in Page |-> IF p \in Journalled /\ cache[p] # NotCached
                  THEN jrnl[p].val ELSE cache[p]]

\* Everything a connection holds in memory is gone.
Disconnected ==
  /\ pc' = "closed"
  /\ codec' = NoCodec
  /\ cache' = EmptyCache
  /\ dirty' = {}
  /\ needSync' = {}
  /\ estate' = "OPEN"
  /\ next' = 1
  /\ rc' = TRUE
  /\ trusted' = FALSE

\* The file as the recovery of the journal would leave it.
Recovered == [p \in Page |-> IF jrnl[p] = NoRec THEN disk[p] ELSE jrnl[p]]

Init ==
  /\ \E c \in Cipher, f \in [Page -> Vals] :
       disk = [p \in Page |-> [val |-> f[p], enc |-> c]]
  /\ pc = "closed" /\ rc = TRUE /\ next = 1
  /\ codec = NoCodec /\ estate = "OPEN"
  /\ cache = EmptyCache /\ dirty = {}
  /\ jrnl = NoRecords /\ needSync = {}
  /\ trusted = FALSE

-----------------------------------------------------------------------------
(***************************************************************************)
(* Opening, closing, reading, ordinary write transactions.                 *)
(***************************************************************************)

\* sqlite3_open_v2 and sqlite3_key_v2; c = Plain: no key is given.
Open(c) ==
  /\ pc = "closed"
  /\ \/ c = Recovered[1].enc
     \/ c \in Keys /\ "wrongkey" \in Env
     \/ c = Plain /\ "nokey" \in Env
  /\ pc' = "idle"
  /\ codec' = IF c = Plain THEN NoCodec ELSE CodecSetup(c)
  /\ trusted' = (c = Recovered[1].enc)
  /\ UNCHANGED <<rc, next, estate, cache, dirty, jrnl, needSync, disk>>

Close ==
  /\ pc = "idle"
  /\ Disconnected
  /\ UNCHANGED <<jrnl, disk>>

\* sqlite3PagerGet outside a write transaction.
Read(p) ==
  /\ pc = "idle" /\ ~HotJournal
  /\ cache[p] = NotCached /\ ~FetchFails(p)
  /\ cache' = [cache EXCEPT ![p] = Fetch(p)]
  /\ UNCHANGED <<pc, rc, next, codec, estate, dirty, jrnl, needSync, disk,
                 trusted>>

\* pcache1 recycles a clean page; page 1 is referenced during a transaction.
Evict(p) ==
  /\ cache[p] # NotCached /\ p \notin dirty
  /\ p = 1 => ~InWriteTxn
  /\ cache' = [cache EXCEPT ![p] = NotCached]
  /\ UNCHANGED <<pc, rc, next, codec, estate, dirty, jrnl, needSync, disk,
                 trusted>>

\* lockBtree accepts page 1.
PageOneValid == ~FetchFails(1) /\ Fetch(1) # Garbage

BeginUser ==
  /\ pc = "idle" /\ ~HotJournal /\ PageOneValid /\ MayWrite
  /\ pc' = "user"
  /\ estate' = "CACHEMOD"
  /\ cache' = [cache EXCEPT ![1] = Fetch(1)]
  /\ UNCHANGED <<rc, next, codec, dirty, jrnl, needSync, disk, trusted>>

UserWrite(p, v) ==
  /\ pc = "user" /\ estate # "ERROR"
  /\ PagerWrite(p, v)
  /\ UNCHANGED <<pc, rc, next, codec, estate, disk, trusted>>

UserCommit ==
  /\ pc = "user" /\ estate # "ERROR"
  /\ pc' = "ucommit"
  /\ UNCHANGED <<rc, next, codec, estate, cache, dirty, jrnl, needSync, disk,
                 trusted>>

(***************************************************************************)
(* A dirty page reaches the database file: under memory pressure           *)
(* (pagerStress) or in the first phase of a commit.  Page 1 is referenced  *)
(* by the b-tree, so only a commit writes it.  The rewriting loop puts the *)
(* cache under pressure only when it fetches a page that is not cached,    *)
(* and while the pages of one sector are journalled none of them may be    *)
(* spilled (SPILLFLAG_NOSYNC): a page is spilled only when the loop has    *)
(* gone past its sector.                                                   *)
(***************************************************************************)

\* Slip: pages are spilled while their sector is being journalled.
SpillableSlip(p) == TRUE

Spillable(p) == pc = "rekey" => p < next /\ next \notin Sector(p)

CanSpill(p) ==
  /\ InWriteTxn /\ estate # "ERROR" /\ p \in dirty
  /\ p = 1 => Committing
  /\ Spillable(p)

Spill(p) ==
  /\ CanSpill(p)
  /\ disk' = [disk EXCEPT ![p] = PageToFile(p)]
  /\ dirty' = dirty \ {p}
  /\ needSync' = UnsyncedAfterSpill(p)
  /\ estate' = "DBMOD"
  /\ UNCHANGED <<pc, rc, next, codec, cache, jrnl, trusted>>

\* The write of the page fails; some of its bytes may have been written.
SpillError(p) ==
  /\ "pagererr" \in Env
  /\ CanSpill(p) /\ ~Committing
  /\ disk' \in {disk, [disk EXCEPT ![p] = Torn]}
  /\ needSync' = UnsyncedAfterSpill(p)
  /\ estate' = "ERROR"
  /\ pc' = IF pc = "rekey" THEN "rollback" ELSE pc
  /\ rc' = IF pc = "rekey" THEN FALSE ELSE rc
  /\ UNCHANGED <<next, codec, cache, dirty, jrnl, trusted>>

\* The journal is deleted: pager_end_transaction.
Commit ==
  /\ Committing /\ dirty = {} /\ estate # "ERROR"
  /\ jrnl' = NoRecords /\ needSync' = {}
  /\ estate' = "OPEN"
  /\ pc' = IF pc = "rcommit" THEN "leave" ELSE "idle"
  /\ UNCHANGED <<rc, next, codec, cache, dirty, disk, trusted>>

\* The journal cannot be deleted: sqlite3PagerCommitPhaseTwo, pager_error.
CommitError ==
  /\ "pagererr" \in Env
  /\ Committing /\ dirty = {} /\ estate # "ERROR"
  /\ estate' = "ERROR"
  /\ pc' = IF pc = "rcommit" THEN "rollback" ELSE "user"
  /\ rc' = IF pc = "rcommit" THEN FALSE ELSE rc
  /\ UNCHANGED <<next, codec, cache, dirty, jrnl, needSync, disk, trusted>>

-----------------------------------------------------------------------------
(***************************************************************************)
(* sqlite3_rekey_v2.                                                       *)
(***************************************************************************)

\* The three kinds of rekey set up the codec before the transaction begins.
StartRekey(c) ==
  /\ pc = "idle"
  /\ HotJournal => "coldrekey" \in Env
  /\ pc' = "begin" /\ rc' = TRUE /\ next' = 1
  /\ codec' = c
  /\ UNCHANGED <<estate, dirty, jrnl, needSync, disk, trusted>>

\* sqlite3mcSetCodec attaches the new codec and clears the page cache.
BeginEncrypt(k) ==
  /\ "encrypt" \in Ops /\ ~codec.attached
  /\ StartRekey(SetupWriteCipher(NoCodec, k))
  /\ cache' = EmptyCache

BeginRekey(k) ==
  /\ "rekey" \in Ops /\ codec.attached
  /\ StartRekey(SetupWriteCipher(codec, k))
  /\ UNCHANGED cache

BeginDecrypt ==
  /\ "decrypt" \in Ops /\ codec.attached
  /\ StartRekey([codec EXCEPT !.hasWrite = FALSE])
  /\ UNCHANGED cache

\* The write cipher cannot be set up, or it requires another page size.
RefuseRekey(k) ==
  /\ "busy" \in Env
  /\ pc = "idle" /\ "rekey" \in Ops /\ codec.attached
  /\ pc' = "leave" /\ rc' = FALSE /\ next' = 1
  /\ codec' = SetupWriteCipher(codec, k)
  /\ UNCHANGED <<estate, cache, dirty, jrnl, needSync, disk, trusted>>

\* sqlite3BtreeBeginTrans: a hot journal is recovered first, see Recover.
RekeyBeginTrans ==
  /\ pc = "begin" /\ ~HotJournal /\ PageOneValid
  /\ pc' = "rekey"
  /\ estate' = "CACHEMOD"
  /\ cache' = [cache EXCEPT ![1] = Fetch(1)]
  /\ UNCHANGED <<rc, next, codec, dirty, jrnl, needSync, disk, trusted>>

\* The file is locked, cannot be read, or page 1 is not that of a database.
RekeyBeginError ==
  /\ pc = "begin"
  /\ \/ "busy" \in Env
     \/ ~HotJournal /\ ~PageOneValid
  /\ pc' = "leave" /\ rc' = FALSE
  /\ cache' = IF FetchFails(1) THEN EmptyCache ELSE cache
  /\ UNCHANGED <<next, codec, estate, dirty, jrnl, needSync, disk, trusted>>

\* Slip: the loop steps twice.
NextPageSlip(n) == n + 2

NextPage(n) == n + 1

\* sqlite3PagerGet and sqlite3PagerWrite of the next page.
RekeyPage ==
  /\ pc = "rekey" /\ next <= NPage /\ estate # "ERROR"
  /\ PagerWrite(next, Fetch(next))
  /\ next' = NextPage(next)
  /\ UNCHANGED <<pc, rc, codec, estate, disk, trusted>>

\* A page does not decrypt, or not as it was read: mcReportCodecError.
FetchError(p) ==
  /\ \/ pc = "rekey" /\ p = next
     \/ pc = "user"
  /\ estate # "ERROR"
  /\ \E q \in SectorToWrite(p) :
       \/ FetchFails(q)
       \/ cache[q] = NotCached /\ Detects /\ "pagererr" \in Env
  /\ estate' = "ERROR"
  /\ pc' = IF pc = "rekey" THEN "rollback" ELSE pc
  /\ rc' = IF pc = "rekey" THEN FALSE ELSE rc
  /\ UNCHANGED <<next, codec, cache, dirty, jrnl, needSync, disk, trusted>>

RekeyCommit ==
  /\ pc = "rekey" /\ next > NPage
  /\ pc' = "rcommit"
  /\ UNCHANGED <<rc, next, codec, estate, cache, dirty, jrnl, needSync, disk,
                 trusted>>

\* The journal cannot be extended, a page not be read, a lock not be had...
RekeyError ==
  /\ pc \in {"rekey", "rcommit"} /\ estate # "ERROR"
  /\ IF estate = "CACHEMOD" THEN "busy" \in Env ELSE "ioerr" \in Env
  /\ pc' = "rollback" /\ rc' = FALSE
  /\ UNCHANGED <<next, codec, estate, cache, dirty, jrnl, needSync, disk,
                 trusted>>

\* After leave_rekey: the mutex is free, the ciphers are made equal.
LeaveRekey ==
  /\ pc = "leave"
  /\ pc' = "idle" /\ rc' = TRUE /\ next' = 1
  /\ codec' = LeaveCodec(codec, rc)
  /\ cache' = IF LeaveCodec(codec, rc).attached THEN cache ELSE EmptyCache
  /\ UNCHANGED <<estate, dirty, jrnl, needSync, disk, trusted>>

-----------------------------------------------------------------------------
(***************************************************************************)
(* Rollback, crash, recovery.                                              *)
(***************************************************************************)
AfterRollback == IF pc = "rollback" THEN "leave" ELSE "idle"

\* The pager is in ERROR state: the cache is discarded, the journal stays.
AbandonTxn ==
  /\ pc \in {"user", "ucommit", "rollback"} /\ estate = "ERROR"
  /\ pc' = AfterRollback
  /\ estate' = "OPEN"
  /\ cache' = EmptyCache /\ dirty' = {}
  /\ jrnl' = SyncedRecords /\ needSync' = {}
  /\ UNCHANGED <<rc, next, codec, disk, trusted>>

\* sqlite3PagerRollback: the connection plays its own journal back.
Rollback ==
  /\ pc \in {"user", "ucommit", "rollback"} /\ estate # "ERROR"
  /\ RecordsReadable
  /\ pc' = AfterRollback
  /\ disk' = RestoredFile(RecordsToFile)
  /\ cache' = RestoredCache /\ dirty' = {}
  /\ jrnl' = NoRecords /\ needSync' = {}
  /\ estate' = "OPEN"
  /\ UNCHANGED <<rc, next, codec, trusted>>

\* The process dies; what it had not synced of the journal does not count.
Crash ==
  /\ "crash" \in Env /\ pc # "closed"
  /\ jrnl' = SyncedRecords
  /\ Disconnected
  /\ UNCHANGED disk

\* It dies while it writes a page to the database file.
CrashInSpill(p) ==
  /\ "crash" \in Env /\ CanSpill(p)
  /\ disk' = [disk EXCEPT ![p] = Torn]
  /\ jrnl' = [q \in Page |-> IF q \in UnsyncedAfterSpill(p)
                             THEN NoRec ELSE jrnl[q]]
  /\ Disconnected

\* It dies while a journal is being played back.
CrashInPlayback(R) ==
  /\ "crash" \in Env /\ Journalled # {} /\ RecordsReadable
  /\ \/ HotJournal /\ pc \in {"idle", "begin"} /\ MayWrite
     \/ pc \in {"user", "ucommit", "rollback"} /\ estate = "DBMOD"
  /\ R \subseteq RecordsToFile
  /\ disk' = RestoredFile(R)
  /\ jrnl' = SyncedRecords
  /\ Disconnected

\* sqlite3PagerSharedLock finds a hot journal and plays it back.
Recover ==
  /\ pc \in {"idle", "begin"} /\ HotJournal /\ MayWrite
  /\ RecordsReadable
  /\ disk' = RestoredFile(RecordsToFile)
  /\ jrnl' = NoRecords /\ needSync' = {}
  /\ cache' = EmptyCache
  /\ UNCHANGED <<pc, rc, next, codec, estate, dirty, trusted>>

(***************************************************************************)
(* The records do not decrypt to what was checksummed.  If decryption says *)
(* so, recovery fails and the journal stays: the access fails, and so does *)
(* a rekey that was about to begin.  Otherwise the checksum is taken to    *)
(* mean that the journal ends here, and the journal is deleted.            *)
(***************************************************************************)
RecoverRefused ==
  /\ pc \in {"idle", "begin"} /\ HotJournal /\ MayWrite
  /\ ~RecordsReadable /\ Detects
  /\ pc' = IF pc = "begin" THEN "leave" ELSE pc
  /\ rc' = (pc = "idle")
  /\ UNCHANGED <<next, codec, estate, cache, dirty, jrnl, needSync, disk,
                 trusted>>

RecoverDiscards ==
  /\ pc \in {"idle", "begin"} /\ HotJournal /\ MayWrite
  /\ ~RecordsReadable /\ ~Detects
  /\ jrnl' = NoRecords /\ needSync' = {}
  /\ cache' = EmptyCache
  /\ UNCHANGED <<pc, rc, next, codec, estate, dirty, disk, trusted>>

-----------------------------------------------------------------------------
RekeyCall ==
  \/ \E k \in Keys : BeginEncrypt(k) \/ BeginRekey(k)
  \/ \E k \in Cipher : RefuseRekey(k)
  \/ BeginDecrypt \/ RekeyBeginTrans \/ RekeyBeginError
  \/ RekeyPage \/ RekeyCommit \/ RekeyError \/ LeaveRekey

Transaction ==
  \/ BeginUser \/ UserCommit \/ Commit \/ CommitError
  \/ \E p \in Page : FetchError(p) \/ Spill(p) \/ SpillError(p)
                     \/ \E v \in Vals : UserWrite(p, v)
  \/ Rollback \/ AbandonTxn

Next ==
  \/ \E c \in Cipher : Open(c)
  \/ Close
  \/ \E p \in Page : Read(p) \/ Evict(p) \/ CrashInSpill(p)
  \/ \E R \in SUBSET Page : CrashInPlayback(R)
  \/ Transaction
  \/ RekeyCall
  \/ Crash
  \/ Recover \/ RecoverRefused \/ RecoverDiscards

Spec == Init /\ [][Next]_vars

-----------------------------------------------------------------------------
(***************************************************************************)
(* Properties.                                                             *)
(***************************************************************************)

\* At every moment, whatever the connection is doing and wherever it may be
\* cut off, the database file together with its rollback journal is a
\* complete database under a single cipher: the rewriting loop of
\* sqlite3_rekey_v2, its commits, rollbacks and crashes never leave pages of
\* two keys, and never lose a page.
OneKey ==
  /\ \A p \in Page : Recovered[p].enc = Recovered[1].enc
  /\ \A p \in Page : Recovered[p].val \in Vals

\* A connection opened with the right key, and not inside a rekey, reads and
\* writes with the cipher the database has now, whether its rekeys succeeded
\* or failed and wherever they failed.  What sqlite3_rekey_v2 does not restore
\* is the write cipher after a failed removal of the encryption; a transaction
\* begins only with both ciphers.
SessionKeyCurrent ==
  pc \in {"idle", "user", "ucommit"} /\ trusted =>
    /\ ReadCipher = Recovered[1].enc
    /\ WriteCipher = Recovered[1].enc \/ (pc = "idle" /\ RemovalFailed)

\* After a rekey, failed or not, a session writes with the cipher it reads
\* with: sqlite3_rekey_v2 is to "restore write key if necessary".
WriteKeyRestored == pc = "idle" /\ trusted => WriteCipher = ReadCipher

\* During a write transaction, a rekey included, the connection can decrypt
\* every record of its own rollback journal: what sqlite3mcCodec encrypted in
\* mode 7 it decrypts in mode 3.
OwnJournalReadable ==
  pc \in {"user", "ucommit", "rekey", "rcommit", "rollback"} =>
    RecordsReadable

\* Outside transactions, what a connection that was opened with the right key
\* has in its cache is what the file holds: the cache survives no rollback,
\* recovery or change of codec that it should not survive.
CacheCoherent ==
  pc = "idle" /\ trusted =>
    \A p \in Page : cache[p] # NotCached => cache[p] = Recovered[p].val

\* A connection that has the right key never lets go of a hot journal without
\* having put every record of it back into the file: pager_playback ends with
\* the deletion of the journal, also when it stopped at a bad checksum.
HotJournalRestored ==
  [][ HotJournal /\ jrnl' = NoRecords /\ trusted => disk' = Recovered ]_vars

\* A hot journal that this connection cannot decrypt stays where it is, so that
\* the next opener can recover it: pager_playback returns the error "so that no
\* further harm will be done".
UnreadableJournalKept ==
  [][ HotJournal /\ ~RecordsReadable => jrnl' = jrnl ]_vars

\* A playback puts the journalled pages back as they were in the file, "as the
\* data was encrypted before it was written to the journal file".
PlaybackVerbatim ==
  [][ Rollback \/ Recover =>
        \A p \in RecordsToFile : disk'[p] = jrnl[p] ]_vars

\* The content and the key that an opener would find.
DatabaseContent == [p \in Page |-> Recovered[p].val]
DatabaseKey == Recovered[1].enc

Store == INSTANCE KeyedStore WITH content <- DatabaseContent,
                                  key <- DatabaseKey

\* The file and its journal implement a keyed store: every step of the pager
\* and of rekey either changes nothing an opener can observe, or commits new
\* contents under the same key, or changes the key and nothing else.
ImplementsStore == Store!Spec
=============================================================================
