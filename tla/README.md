# SQLite3 Multiple Ciphers: specification and proofs

SQLite3 Multiple Ciphers encrypts SQLite databases page by page. Its own code sits
in three places: *codec* functions that the pager's VFS calls for every page it
transfers (`codecext.c`, `cipher_common.c`), a *VFS shim* that makes those calls
(`sqlite3mc_vfs.c`), and a *configuration layer* that turns SQL functions, PRAGMAs,
URI parameters and C calls into a codec (`cipher_config.c`, `sqlite3mc.c`). The rest
is the amalgamation of SQLite with small patches, cryptography, and bundled tools.

The modules here model the state and control of that code, not the cryptography: a
cipher is a key, and a page on disk is the pair (content, cipher it is stored under).

## Inventory

| component | state it keeps | operations | interacts with | what is hard | what makes it correct |
|---|---|---|---|---|---|
| codec (`codecext.c`, `cipher_common.c`) | per main file a `Codec`: attached, `m_isEncrypted`, read cipher, write cipher | `sqlite3_key_v2`, `sqlite3_rekey_v2`, `sqlite3mcCodec` in modes 3, 6, 7 | called by the VFS on every page; drives the b-tree and pager during rekey | a rekey has two keys in force while pages, journal records and cache spills are interleaved; each error path restores something else | file and journal are always one database under one key; after a rekey the codec agrees with the file |
| SQLite pager (`sqlite3patched.c`) | `eState`, page cache, rollback journal, database file | write transaction, spill, commit, rollback, hot-journal recovery | asks the codec through the VFS; knows nothing of keys | crashes between any two writes; checksums are taken of plain pages | a rollback or recovery restores what was there, under the cipher it was there |
| VFS shim (`sqlite3mc_vfs.c`) | list of open main files with its mutex, page number of the next journal record, pointer from a journal or WAL to the main file | `mcVfsOpen`, `mcIoRead`, `mcIoWrite`, `mcIoClose`, file control | finds the codec of a journal through the main file's name | the page number of a record is learnt from an earlier 4-byte transfer; the list is shared by all threads and searched by address; results of the real VFS meet results of the cipher | every transfer uses the codec of the right file in the right mode with the right page number |
| WAL of an encrypted database (`sqlite3mc_vfs.c`, `codecext.c`, `sqlite3patched.c`) | frames, each under the key of its writer; the index; a codec and a snapshot per connection | transactions, rekey, checkpoint, restart, recovery, last close | several connections with codecs of their own share one file and one log | keys are derived from a salt in the file while page 1 may be in the log; old and new key are in one log; whoever closes last copies it | the holder of the passphrase reads the last commit; a snapshot stays readable |
| configuration (`cipher_config.c`) | per connection: parameters with a default and a transient value; flags for HMAC check and legacy WAL | `sqlite3mc_config`, `PRAGMA`, URI, `ATTACH ... KEY` | consumed by `sqlite3_key_v2` and `sqlite3_rekey_v2` | transient values are consumed by the next key operation | an operation uses the values that were set for it |
| rekey through VACUUM (`rekeyvacuum.c`) | connection flags saved and restored around a VACUUM | `sqlite3mcRunVacuumForRekey` | called by `sqlite3_rekey_v2` when the reserved bytes change | error exits with a transaction open | connection flags and transaction state are as before |
| cipher registry, start and shutdown (`sqlite3mc.c`, `cipher_common.c`, `sqlite3patched.c`) | tables of descriptors and of parameters, count, default cipher; `isInit`, the initialization mutex | `sqlite3_initialize`, `sqlite3mc_register_cipher`, opening and closing (copies of the tables), `sqlite3_shutdown` | read by the configuration; creates the default VFS shim | a flag read without a mutex, an initialization that calls itself, a full table, partial failure | past `sqlite3_initialize` the tables are complete; numbers and names agree everywhere |
| value-level encryption (`sqlite3mc_vle.c`) | key material of a connection | `vle_setKey`, `vle_encrypt`, `vle_decrypt` | SQL functions | a replacement of the key that fails part way | old key or new key, never half of each |
| secure memory (`memory_secure.c`) | allocator wrapper, a flag that only goes up | `sqlite3mcSetMemorySecurity` | all allocation | switched on while memory is allocated | memory is wiped once the flag is set |
| page layouts (`cipher_*.c`) | parameters of each cipher | encrypt and decrypt one page | called by `sqlite3mcEncrypt`/`Decrypt` | reserved bytes, plain header of page 1 | decrypting what was encrypted returns the page |

Not modelled at all, on purpose: the cryptographic primitives (bit-level algorithms
over large domains), the bundled shell and extensions (vendored SQLite code), and the
parts of the SQLite core that never meet a cipher.

## Modules

| module | what it is |
|---|---|
| `KeyedStore` | abstract specification: pages under one key; a step replaces contents or the key, never both |
| `Rekey` | the codec on the pager in rollback-journal mode: sessions, transactions, the three kinds of rekey, spills, errors, crashes, recovery |
| `MCRekey` | instances of `Rekey` for TLC: model values and symmetry |
| `RekeyProofs` | theorems about `Rekey`, checked by TLAPS |
| `RekeyStrangerProofs` | theorems about `Rekey` with sessions whose wrong or missing key is not detected |
| `JournalCodec` | the rollback journal as the VFS shim sees it, one transfer at a time: page numbers learnt from 4-byte transfers, headers, super-journal names, failed writes, handles that stay open |
| `MCJournalCodec` | instances of `JournalCodec` for TLC |
| `JournalCodecProofs` | theorems about `JournalCodec` |
| `CipherConfig` | the parameter table of a connection: set through four interfaces, read by the key operations of two schemas |
| `MCCipherConfig` | instances of `CipherConfig` for TLC |
| `CipherConfigProofs` | theorems about `CipherConfig` |
| `CipherRegistry` | start and shutdown of the library and the tables of ciphers, used by several threads |
| `MCCipherRegistry` | instances of `CipherRegistry` for TLC |
| `CipherRegistryProofs` | theorems about `CipherRegistry` |
| `WalCodec` | an encrypted database in WAL mode: connections with codecs of their own, frames, keys and salts, rekeys, checkpoints, crashes |
| `MCWalCodec` | instances of `WalCodec` for TLC |
| `WalCodecProofs` | theorems about `WalCodec` |
| `MainFiles` | the list of main files of the shim and their codecs, used by several threads; creation and destruction of the shim |
| `MCMainFiles` | instances of `MainFiles` for TLC |
| `MainFilesProofs` | theorems about `MainFiles` |
| `ShimFaults` | errors of the real VFS: what the shim makes of them, and the pager of that |
| `MCShimFaults` | instances of `ShimFaults` for TLC |
| `ShimFaultsProofs` | theorems about `ShimFaults` |

The parts meet in the codec. `CipherRegistry` says which ciphers there are,
`CipherConfig` with which settings a codec is made, `MainFiles` which file it belongs to
and how long it lives; `Rekey` and `WalCodec` say which of its ciphers meets which page,
`JournalCodec` under which number, and `ShimFaults` what happens when a transfer
fails. Each takes the others at their best: settings in `Rekey` are part of the key,
a key operation in `CipherConfig` succeeds or fails as a whole, and all but `ShimFaults`
have a VFS that works.

### How `Rekey` corresponds to the code

One connection uses one database file; after a crash or a close another session,
with the right key or without it, opens the file again.

| variable | code |
|---|---|
| `codec` | the `Codec` of the main file: `m_isEncrypted`, `m_hasReadCipher`/`m_readCipher`, `m_hasWriteCipher`/`m_writeCipher`; `attached` is `sqlite3mcGetCodec(...) != NULL` |
| `pc`, `rc`, `next` | where the connection is: outside a transaction (`idle`), in a user transaction (`user`, `ucommit`), in `sqlite3_rekey_v2` (`begin`, `rekey`, `rcommit`, `rollback`, `leave`), with its `rc` and its loop counter `n` |
| `estate` | `Pager.eState`: no write transaction, `WRITER_CACHEMOD`, `WRITER_DBMOD`, `ERROR` |
| `cache`, `dirty`, `needSync` | the page cache, its dirty list and the pages with `PGHDR_NEED_SYNC` |
| `jrnl` | records of the rollback journal; a record of `needSync` does not survive a crash |
| `disk` | the database file |
| `trusted` | history variable: the session was opened with the key of the database |

`sqlite3mcCodec` is the three operators `ReadCipher` (mode 3, decrypting what comes
from file or journal), `WriteCipher` (mode 6, to the file) and `JournalCipher` (mode 7,
to the journal). `PagerWrite` is `sqlite3PagerWrite`, including the journalling of all
pages that share a disk sector; `Spill` is `pagerStress` and also the first phase of a
commit, which writes the same pages without a choice of order that matters here;
`Rollback`, `AbandonTxn` and `Recover` are the three ways a journal is finished with.
The rewriting loop in place (`codecext.c:575`) and the one through VACUUM both read,
journal and dirty every page in one transaction and are one loop in the model, as far
as successful runs are concerned.

`Env` names what the environment may do in an instance: `crash` (the process dies
between any two steps, within the write of a page, or within a playback), `busy` (an
operation fails before a page of the file was written), `ioerr` (it fails afterwards),
`pagererr` (the failure puts the pager into its ERROR state), `wrongkey` and `nokey`
(sessions without the right key), `coldrekey` (a rekey is the first access after a
crash), `plainwrite` (a session goes on writing after its removal of the encryption has
failed, see finding 2). `Ops` says which kinds of rekey are used. Without `plainwrite` the
guard `MayWrite` keeps such a session from writing: it may read, repeat the rekey, and be
closed.

Abstractions: page contents are two or more interchangeable values; the number of
pages does not change during a transaction; a torn page write leaves an unreadable
page; the sync of the journal is atomic; the sectors of the file are `SectorPages`
pages long and may reach past its end.

### How `JournalCodec` corresponds to the code

`Rekey` takes for granted that a journal record is encrypted and decrypted under its
own page number. `JournalCodec` is about that number. `pageNo` is the field of
`sqlite3mc_file`; `CodeOf`, `After4` and `AfterRead` are `mcWriteMainJournal` and
`mcReadMainJournal`: what number a buffer of some length is encrypted under, and what
a transfer of four bytes, or of a page, leaves in `pageNo`. The rest is the pager, with
the order and the length of its transfers: `NewSegment` is `writeJournalHdr` with its
blocks of `min(pageSize, sectorSize)` bytes, `NewRecord` the three writes of a record,
`Sync` the 12-byte write of `syncJournal`, `CommitSync` the super-journal name and the
final sync, and `ReadSuper`, `ReadHeader`, `ReadRecord`, `NextHeader`, `EndPlayback`
the steps of `pager_playback`, which a crash may interrupt.

The journal is a sequence of segments (a header and its records), each with the number
it is encrypted under; 0 is "as it is". `want` is a history variable, the content as of
the last commit; a multi-file transaction commits when its super-journal is deleted.
`PageSize`, `SectorSize` and `SuperLen` are only compared; `Keep` says that the journal
handle stays open between transactions (exclusive locking mode, or a persistent
journal on a file system where it cannot be deleted while open).

Abstractions: checksums, lengths and header fields are one nonzero number that is not
that of a page; the file keeps its size; the key does not change; failing reads are
left out; a name decrypted to something else is taken for no name (with an
authenticating cipher the recovery fails instead). Statement journals have no number:
`mcVfsOpen` finds a codec only for files that are opened with a name, and they are not.

### How `CipherConfig` corresponds to the code

`value` and `default` are `m_value` and `m_default` of the parameters of one
connection's table, `codec` the settings of the codec of the main and of one attached
database: the cipher, the parameters it was allocated with, `m_hmacCheck` and
`m_walLegacy`. `clean`, `walAsked` and `bySql` are history variables: the parameters nobody
has set since a key operation that reads them, whether `mc_legacy_wal` was ever set by
a URI or a call, and which settings the SQL function was given although
`checkParameterValue`, which it does not call, refuses them.

The operators on a table `t` are the functions of the code. `SetGlobal` is
`sqlite3mc_config`, `SetCipher` is `sqlite3mc_config_cipher`, `SetSql` the SQL function,
`FromUri` is `sqlite3mcConfigureFromUri`. `TakeBack` is `sqlite3mcGetCipherParameter`,
which returns a value and puts the default back, `Allocate` is `m_allocateCipher`, which
does so for the parameters of one cipher, `NewCodec` is `sqlite3mcSetupWriteCipher` and
`CodecSetup` is `sqlite3mcCodecSetup`, where the second cipher is allocated from what
the first has left before it is overwritten by a copy. `Open` includes the key of the
URI, `Attach` has one action per branch of `sqlite3mcHandleAttachKey`, and both `Attach`
and `Rekey` can fail after the table was read.

What one sees in it, and a caller may not expect: ATTACH without a key reads, and
thereby clears, pending values of the main database's cipher; a rekey that fails keeps
the two flags it has read; SQLCipher in the versions 1 to 3 does not read
`plaintext_header_size`, which stays pending for the next codec.

Abstractions: the instances have two ciphers and up to three parameters of each; a
parameter is named by its cipher and its name; page sizes do not decide whether a key
operation succeeds. The client data `cipher_salt`, the global table used without a
connection, and failing allocations are left out.

### How `CipherRegistry` corresponds to the code

`descr` is `globalCodecDescriptorTable`, `slot` is `globalCodecParameterTable`, `count` is
`globalCipherCount`, `default` the common parameter `cipher`, `conn[t].table` the copy
`sqlite3mcCloneCodecParameterTable` makes for a connection. `initMutex`, `nRef`,
`inProgress`, `isInit` are those of `sqlite3_initialize`; `mainMutex` is
`SQLITE_MUTEX_STATIC_MAIN`.

A call is a record with a program counter. `CheckInit` to `UnrefInitMutex` are the
statements of `sqlite3_initialize` between two accesses to shared state, with the
tables emptied (`sqlite3mcInitCipherTables`), the built-in ciphers registered one by
one, in four steps each and with an allocation that may fail, and the shim created in
between. The nested calls of `sqlite3_initialize`, from `sqlite3_mutex_alloc`,
`sqlite3_vfs_register` and others, are the field `nest`. An application registers a
cipher (`LockRegistry` to `UnlockRegistry`), opens a connection (`CountTables`,
`CopyTables`: two passes without a mutex), selects a cipher, closes, and shuts down.

Abstractions: parameters are only the state of their memory (`none`, `empty`, `filled`,
`freed`); a section under the static mutex that does nothing else is one step; the
application shuts the library down while nothing else runs, as the manual requires.
`MaxFails` bounds failed allocations.

### How `WalCodec` corresponds to the code

The database is `db`, `wal` (pages and frames, each with the key it is stored under), and
the index: `mx` is `mxFrame`, `backfill` is `nBackfill`. A key is the pair of a passphrase
and a salt, because `mcReadDatabaseHeader` takes the salt from the first 16 bytes of the
*file*. A connection has its two ciphers, its snapshot (`lo`, `hi`, `direct` for
`WAL_READ_LOCK(0)`), the dirty pages of its cache, the number of frames it appended, and
the state of a checkpoint. `warm` is `pPager->pWal != 0`, which decides in
`sqlite3_rekey_v2` whether the salt is kept. `cur`, `seen` and `want` are history
variables: whether the connection has the current key, what its snapshot contained, what
was committed last under which passphrase.

`FrameKey` is `sqlite3mcPagerCodec` (the write cipher) and, in legacy mode, `mcWriteWal`
(the read cipher); `Fails` and `Copied` are `mcReadWal` followed by `mcWriteMainDb`;
`Valid` and `RecoveryFails` are `walDecodeFrame` on what `mcReadWal` returns. `Begin` is
the first read of a transaction with `walIndexReadHdr`, `walTryBeginRead` and the check
of page 1; `Rekey` goes on to dirty every page. `Restart`, `Spill`, `Commit`,
`RekeyCommit` are `walRestartLog` and `walFrames`; `CopyPage` is one turn of the loop of
`walCheckpoint`; the last connection closes with `Close`, `CopyPage`, `Unlink`. `Crash`
kills all processes between any two steps.

A rekey that fails, at its first access or later, ends in `Restored`: the write cipher is
that of reading again, but for a rekey without passphrase, which has dropped
`m_hasWriteCipher` and does not get it back (`write = Plain`).

`Careful` restricts the application: a legacy log or a cipher without authentication is
opened with the right passphrase only, and not rekeyed (`Allowed`); and a connection that is left
without a write cipher does not write, copy the log or close last before it has repeated the
rekey (`MayWrite`). `ColdRekey` lets a rekey be the
first access of its connection. What happens without these restrictions is described
under "Further behaviours".

Abstractions: locks that are denied at a step the code repeats; savepoints; the
number of pages does not change; an accepted frame is not lost. `MaxFrames` bounds the
log.

### How `MainFiles` corresponds to the code

A connection stands for its pager, its `sqlite3mc_file` and its `sqlite3` handle. `pMain`
and `file[c].next` are the list, `mutex` is the one of the shim, `dbMutex` is
`db->mutex`, `file[c].name` the address by which `mcFindDbMainFileName` searches, and
`live` the codecs that are allocated; addresses of names and codecs are used again after
they were freed. A call is a record with a program counter: open (`mcVfsOpen`,
`mcMainListAdd`), key, rekey with its exits, a page or a journal that needs its
codec, close (`mcIoClose`, `mcMainListRemove`), and creation and destruction of the
shim. Every access to shared state is a step: one comparison of the search, one pointer
of the list, the replacement and the freeing of a codec in `sqlite3mcSetCodec`.

The exits of `sqlite3_rekey_v2` are those of an unchanged plain database, a codec that cannot be
set up (`SetupFails`, `RekeyNoMemory`), one that is attached and completed, and `PageSizeDiffers`
(`codecext.c:491`), where the allocated codec is set up and never attached: `leave_rekey`
completes it, replaces the codec of the file with none and forgets the other one. From there on the
operation is called `rekeyRefused`.

Two contracts of the application are in the guards and can be broken by `Careless`:
`"rekey"`, nobody uses a connection while another thread rekeys it; `"destroy"`, no file of
a shim is opened or closed while it is destroyed.

Abstractions: no shared cache (the comment above `sqlite3mcSetCodec` says that it
is not supported properly); a rekey's work on the pages is one step, it is `Rekey`.

### How `ShimFaults` corresponds to the code

One connection on a plain database (`plain`), one under a cipher without tags (`bare`) or
with tags (`auth`), in mode DELETE or WAL. `Reads` is `mcIoRead` of a page: the result
of the real read is lost unless it is a short read (`sqlite3mc_vfs.c:819`), and the
result of the decryption is returned, so that with `auth` an error shows as a
page that fails and otherwise not at all; the unfilled buffer is `Garbage`.
`RecordReads` adds the plain parts of a journal record, `RecoveredLogs` those of a log.
`Writes` hands the error on. The actions are the users of these results: `readDbPage`
(`Fetch`), `pager_write` (`Write`), commit and rollback in both modes, `pager_playback`
(`Restore`), `walCheckpoint` (`CopyFrame`), and recovery (`Reopen`).

`Unguarded` allows errors in reads of bytes nothing authenticates. `MaxFaults` bounds the
errors; death and reopening are possible at any step and not bounded.

Abstractions: pages other than page 1; a write has happened or not; each error of a
write is one the pager reports.

## Properties and runs

| property | meaning |
|---|---|
| `TypeOK` | the type invariant |
| `OneKey` | at every moment, file and journal together are a complete database under one cipher |
| `SessionKeyCurrent` | outside a rekey, a session opened with the right key reads and writes with the cipher the database has; only after a failed removal of the encryption, and outside transactions, it has no write cipher |
| `WriteKeyRestored` | after a rekey, failed or not, the write cipher is the read cipher (violated, finding 2) |
| `OwnJournalReadable` | within a write transaction, every record of the journal decrypts with the read cipher |
| `CacheCoherent` | an idle session has in its cache what the database holds |
| `HotJournalRestored` | a session with the right key releases a hot journal only when all of it is back in the file |
| `UnreadableJournalKept` | a hot journal that does not decrypt stays |
| `PlaybackVerbatim` | a playback writes records back as they were stored in the file |
| `ImplementsStore` | `Rekey` implements `KeyedStore` under the mapping content = contents, key = cipher of the recovered file |

| property of `JournalCodec` | meaning |
|---|---|
| `CrashSafe` | whenever the process dies, file and journal together are the last committed content, as a new process reads them |
| `RollbackComplete` | between transactions file and cache are the committed content |
| `PlaybackRestores` | a playback puts only committed content into the file |

| property of `CipherConfig` | meaning |
|---|---|
| `NoStaleSetting` | a parameter nobody has set since a key operation read it has its default |
| `HmacOffOnlyIfAsked` | a codec whose page authentication is off was made, or changed, by the first key operation after somebody asked for it, or by its URI, or copied from the main database |
| `UncheckedOnlyBySql` | a codec has a value `checkParameterValue` refuses only if the SQL function was given that value of that parameter |
| `SettingsValid` | a codec has only values `checkParameterValue` accepts (violated, see "Further behaviours") |

| property of `CipherRegistry` | meaning |
|---|---|
| `InitMutexKept` | the initialization mutex exists while a thread waits for it or is inside, and only its holder is inside |
| `InitComplete` | once `isInit` is set, nobody works on the tables, every built-in cipher has a number, and the shim is the default VFS |
| `TablesAgree` | between registrations both tables name the same ciphers by the same numbers, with their parameters |
| `CopyUsable` | the copy of a connection is complete, and its numbers mean what the descriptors mean |
| `SelectedRegistered` | the cipher a connection would use next has a descriptor (proved, in no run) |
| `NumbersKept` | while the library is in use a number is not given twice |
| `CallsReturn` | every call returns |

| property of `WalCodec` | meaning |
|---|---|
| `HolderReads` | whatever dies at this moment: who opens the database with the passphrase of the last commit derives the key of every page and reads what was committed |
| `SnapshotReadable` | a transaction reads its snapshot with the key it began with until it ends |
| `SessionCurrent` | a connection with the current passphrase has the codec of the database, after rekeys that succeed and rekeys that fail; only after a failed removal of the encryption, and not in a write transaction, it has no write cipher |
| `StaleIsHarmless` | a connection with another key puts nothing into the file but frames as they are |

| property of `MainFiles` | meaning |
|---|---|
| `ListIsOpenFiles` | while nobody holds its mutex the list ends, and has every open file and no other |
| `FindsOwn` | a search finds the file of the caller, although addresses are used again |
| `CodecInUse` | the codec a thread works with, or completes at the end of a rekey, is not freed, and is that of its file; the one a refused rekey completes is no file's |
| `CodecsOwned` | no codec belongs to two files or calls, and one that belongs to any is not freed |
| `OnlyRefusedLost` | no step loses a codec, except the end of a rekey refused for its page size |
| `VfsKept` | the shim is not freed while a file uses it |
| `CallsReturn` | every call returns: no exit keeps a mutex |

| property of `ShimFaults` | meaning |
|---|---|
| `CommittedKept` | what was committed is in the journal, the log or the database, whatever error strikes at whatever step |
| `CacheTrue` | a page in the cache that no transaction has changed is what was committed |

| run | expects | shows |
|---|---|---|
| `RekeyErrors` | pass | all three kinds of rekey, succeeding and failing with busy errors, pager errors and crashes at every step, two pages per sector, ciphers that authenticate pages, and sessions with a wrong key: one key, a readable journal, a codec that follows the key of the database, a coherent cache, verbatim playback, a journal that is kept, the refinement |
| `RekeyStranger` | pass | sessions without the key, ciphers that detect nothing, in competition with the owner of the key |
| `RekeyRollback` | violation | see finding 1 |
| `RekeyRemoval` | violation | see finding 2 |
| `JournalKept` | pass | pages larger than a sector, a handle that stays open, spills, failed writes, multi-file commits, crashes at every step |
| `ConfigOnce` | pass | values set through C, SQL, PRAGMA and URIs, with and without new defaults, key operations on two schemas, failing rekeys and ATTACHes: each value is used once, and what must be refused gets in through SQL only |
| `RegistryStart` | pass | two threads that open connections and register ciphers, with a full table and a failing allocation, through start, shutdown and restart |
| `WalShared` | pass | two connections, transactions, spills, rekeys that succeed and fail, checkpoints and crashes, with an authenticating cipher, and with a legacy log |
| `WalColdRekey` | violation | see finding 3 |
| `MainShared` | pass | two threads on two connections: open, key, rekey and its exits, journals, close, creation and destruction of the shim; under fairness every call returns |
| `ShimErrors` | pass | two errors anywhere, as long as the cipher authenticates what is read |
| `ShimReadError` | violation | see finding 4 |

Bounds. Three pages are one before, one in and one after the sector or the position
the loop is at; with two pages per sector the second sector is cut off by the end of
the file, which is the boundary case of `pagerWriteLargeSector`. Two keys and the
absence of a cipher cover every combination of old and new cipher; two contents
distinguish old from new. Keys and contents are only compared for equality, so they
are declared symmetric. The counter `next` is bounded by the number of pages. Nothing
else is bounded: sessions, transactions, crashes and rekeys may repeat for ever.

For `JournalCodec` three pages give a journal of up to three segments with spilled and
unspilled records in each; two contents distinguish old from new. Numbers of pages are
small, the other numbers are `Sj` and `Sum`. Segments are bounded by the pages, as a
page is journalled once. The sizes are one instance of each order of page, sector and
name; nothing else about them matters.

For `CipherConfig` two ciphers and two schemas are what a value can leak between. The
inputs are values that differ from the default, one that is out of range, one that only
`checkParameterValue` refuses (through every interface, and in a URI), and a version
of SQLCipher, which sets other parameters. Opening, closing and configuring may repeat for
ever.

For `CipherRegistry` two threads are what a mutex is about, and three would only add a
second one that waits. Two built-in ciphers, one of an application and a table of three
entries let the table become full, and a gap in the numbers is possible with one failed
allocation. `nest` is one level deep, as `inProgress` stops the next.

For `WalCodec` two connections give every pair of actors, a second connection that
is stale included; two pages are the one with the header and one that can be
spilled; three frames let a log hold a commit and a rekey, or two commits of which one
is copied. Two salts are the old and a new one.

For `MainFiles` two connections give a list with two ends, each of which is removed, and two calls
that wait for each other; two names and two codecs let memory be used again while the old codec
is still being freed. Codecs that are lost use up `Codecs`, after which no key is set any more; that
none is lost otherwise is what `OnlyRefusedLost` says. There is no symmetry, as the run checks
liveness. The theorems hold for any number of threads, connections, names and codecs.

For `ShimFaults` three pages are one that is written before the error, one that meets it
and one after it; two errors let the second strike the repair of the first. `MaxFaults`
is one in `ShimReadError`, where one is enough.

### Fairness and liveness

`CipherRegistry` and `MainFiles` have threads, so that "every call returns" is a question.
`FairSpec` assumes weak fairness of the steps a thread can take on its own, since the
system schedules every thread, and strong fairness of the steps that wait for a mutex: a
mutex that is released again and again is granted to each thread that waits for it, which
the mutexes of the operating system that SQLite uses provide. No fairness is assumed of
the application, which need not make any call. `Work` and `Wait` of each module are these
two groups. The other modules have one caller that may stop at any time: nothing has to
happen in them.

### Findings

1. `RekeyRollback`. A rekey that is rolled back in the same process after pages reached the
   file plays its journal back through the write cipher, which is still the new one
   (`sqlite3mc_vfs.c:914`): the file is left with pages of two keys.
2. `RekeyRemoval`. A rekey without a key clears `m_hasWriteCipher` (`codecext.c:513`). When it fails,
   `leave_rekey` copies the read cipher over the write cipher (`codecext.c:627`) and does not set the
   flag again (`cipher_common.c:535`), although the comment there says "Restore write key if
   necessary". The codec stays encrypted: the session decrypts what it reads, and what it writes
   next, to the file or to the log, is plain. `Rekey` and `WalCodec` have this exit; what holds of
   sessions that write on is described under "Further behaviours".
3. `WalColdRekey`. `usesWal` in `sqlite3_rekey_v2` is true only if the connection has read the
   database before (`codecext.c:440`). PRAGMA key followed by PRAGMA rekey, without an access
   in between, draws a new salt although the database is in WAL mode. Page 1 with the new
   salt is only in the log while keys are derived from the salt in the file, so that
   after a crash no passphrase opens the database. The refusal to encrypt a plain database
   in WAL mode (`codecext.c:442`) is bypassed in the same way. `CHANGELOG.md:30` says that the
   previous salt is kept in WAL mode.
4. `ShimReadError`. `mcIoRead` hands on a short read only; any other error of the real VFS is
   replaced by the result of the decryption (`sqlite3mc_vfs.c:819`), which is `SQLITE_OK` for
   a plain database and for a cipher without tags. The buffer that was not filled is
   changed and committed, or copied over the database by a checkpoint that reports success.

Findings 3 and 4 were reproduced with the library built from this source: 4 with a VFS below the
shim that fails one read during a checkpoint, which leaves a plain and an `aes256cbc`
database malformed, while the same error without the shim is reported and does no harm.

### Further behaviours

The following were met while modelling, and have no run of their own. Each shows as a
violation of a property that is stated in the modules, in the instance that is named.

* `Rekey`, `OneKey` (`Ops = {"decrypt"}`, `Env = {"busy", "plainwrite"}`). A session that goes on
  writing after finding 2 leaves plain pages in the encrypted database.
* `WalCodec`, `HolderReads` (`Careful = FALSE`, `Modes <- AuthNewOnly`). The same with a log: the
  frames of its next commit are plain, and its next checkpoint writes plain pages over encrypted
  ones.
* `CipherConfig`, `SettingsValid` (`Inputs <- HeaderInputs`, `Uris <- BareUris`). The SQL function
  `sqlite3mc_config` compares a value with its bounds and does not call `checkParameterValue`
  (`cipher_config.c:720`), unlike the other interfaces: a codec can have a `plaintext_header_size`
  of SQLCipher that is no multiple of 16, and a `legacy_page_size` that is no page size, against
  `CHANGELOG.md:289` and `:290`. `UncheckedOnlyBySql` says that no other interface lets one in.
* `MainFiles`, `CodecsOwned` with "none is lost" added. A rekey that would encrypt a plain database with
  another page size is refused after the codec was set up and before it is attached
  (`codecext.c:491`): `leave_rekey` sets the codec of the file to none (`codecext.c:641`) and the
  allocated codec, with its keys, is never freed. `OnlyRefusedLost` says that nothing else loses one.
* `JournalCodec`, `RollbackComplete` (`PageSize = SectorSize`). With pages not larger than a
  sector (512-byte pages, or up to 4096 bytes with `psow=0`), the header of the second
  segment of a journal, and the first header of a later transaction on a handle that
  stayed open, is encrypted like a page under the checksum of the record before it
  (`sqlite3mc_vfs.c:946`). A ROLLBACK, or a recovery, stops there and leaves changes in
  the file.
* `JournalCodec`, `CrashSafe` (`SuperLen = PageSize`). A super-journal name as long as a page is
  encrypted under the number of the lock page and decrypted under its checksum
  (`sqlite3mc_vfs.c:707`): a journal of a committed multi-file transaction is played back
  after a crash, or cannot be recovered.
* `CipherConfig`, `UriKeyIsUsed` (`Uris <- SomeUris`). `sqlite3mcCodecQueryParameters` drops the
  result of `sqlite3_key_v2` (`cipher_config.c:1291`, `:1296`, `:1300`): an ATTACH whose URI has a
  key and a cipher the build does not know succeeds, and the database is plain.
* `CipherConfig`, `LegacyWalDefault` (`LegacyWal = 1`). `sqlite3mcConfigureFromUri` stores 0 in
  `mc_legacy_wal` when the URI does not mention it (`cipher_config.c:797`, `:810`), so that
  `SQLITE3MC_LEGACY_WAL=1` has no effect, against `cipher_common.h:257`.
* `CipherRegistry`, `BuiltinsFound`. `sqlite3mcInitCipherTables` empties the tables but leaves
  `globalCipherCount` (`sqlite3mc.c:671`): when an initialization failed part way and is tried
  again, the ciphers get numbers behind a gap of empty names, at which every search
  stops. `sqlite3_initialize` succeeds and no cipher is found by name.
* `CipherRegistry`, `SelectedHasParams`. A connection can select a cipher that was registered
  after it was opened; its copy has no parameters for it.
* `CipherRegistry`, `CopyUsable` (`RegisterAnytime = TRUE`). A connection opened while another
  thread registers a cipher copies an entry whose parameters are not there yet
  (`cipher_common.c:74`).
* `WalCodec`, `HolderReads` (`Modes <- AuthLegacyOnly`). In legacy mode the checksum of a frame
  covers the page as it is in the cache, reserved bytes included; encrypting fills these and
  decrypting does not restore them, so that recovery takes every frame for invalid
  (`sqlite3mc_vfs.c:798`) and commits are lost. `CHANGELOG.md:647` recommends the mode to
  recover logs without data loss.
* `WalCodec`, `HolderReads` (`Careful = FALSE`). A rekey in legacy mode appends frames under the
  old key (`sqlite3mc_vfs.c:1066`). After a crash, a connection without the key, or under a
  wrong one with a cipher that does not authenticate, finds no valid frame in a legacy log,
  or copies garbage to the file when it closes.
* `MainFiles`, `CodecInUse` (`Careless = {"rekey"}`). `sqlite3_rekey_v2` reads the codec before it
  enters `db->mutex` and finishes it after it has left (`codecext.c:439`, `:599`): a second
  thread that rekeys the same connection frees it in between.
* `MainFiles`, `VfsKept` (`Careless = {"destroy"}`). `mcVfsDestroy` tests the list without its mutex
  and frees mutex and VFS (`sqlite3mc_vfs.c:1409`). Files of temporary and in-memory
  databases are never in the list, so that the test does not see them at all.

Those of `CipherConfig`, and those of `WalCodec` in legacy mode, were reproduced with the library
built from this source.

Two more show when `Env` of `RekeyErrors` is extended.

* With `"nokey"`, `UnreadableJournalKept` fails: a session without the key takes the records of
  an encrypted hot journal for the end of the journal and deletes it
  (`sqlite3patched.c:62634`), as a plain SQLite would.
* With `"coldrekey"`, `PlaybackVerbatim` fails: a rekey that is the first access after a crash
  recovers the hot journal through the new write cipher (`codecext.c:528` before
  `codecext.c:562`). It has the cause of finding 1.

## What is proved

`RekeyProofs` proves, for every number of pages, every sector size, all sets of keys
and contents, and ciphers with or without authentication:

* `TypeCorrect`, of `Spec` without further assumption: the type invariant, and that a
  dirty page is always cached.
* Under `SafeEnv`: `DatabaseHasOneKey`, `SessionFollowsKey`, `JournalStaysReadable`,
  `CacheStaysCoherent`, `PlaybackIsVerbatim` (with `HotJournalRestored`),
  `WrongKeyKeepsJournal` and `DatabaseIsStore`, the refinement of `KeyedStore`.

`SafeEnv` is an assumption on the constants. It allows rekeys of all kinds that succeed and that
fail, crashes, busy errors and pager errors, and sessions with a wrong key if ciphers
authenticate pages. The run `RekeyErrors` is an instance of it. It excludes what
finding 1 and the two remarks on `Env` above are about, and `plainwrite`: that a session writes after
its removal of the encryption has failed. Such a session is part of the proofs up to
there (`Unwritable` in `CodecInv`).

The safety properties are not inductive. The invariant `SafeInv` says that the connection
has the right key and satisfies `IInv`, or has a wrong one and satisfies
`StrangerKept`: it sees no page, as none authenticates, caches nothing, begins no transaction, and
none of its rekeys succeeds. `IInv` adds to the properties:

* `CodecInv`, which cipher the codec holds in every phase. In a rekey the read cipher
  is the key of the database until the commit, and the write cipher is afterwards;
* `ControlInv`, which pager states go with which phase. In particular a rollback of a
  rekey happens only before the file was written, or in the ERROR state;
* `JournalInv`: dirty pages have journal records, and records which a crash forgets
  repeat what the file still holds. This is what makes an early crash harmless;
* `CacheInv`: clean pages are as in the file. This is what makes the record of a page
  that was read back equal to the page on disk;
* `LoopInv`: a page the loop has passed is either waiting in the cache with its old
  content or stored under the new cipher with its old content, and the pages of the
  sector the loop is in are all waiting. At the commit this is the whole file.

The proof that a step preserves `SafeInv` has one lemma per group of actions; what an
opener would find (`Recovered`) changes in `Commit` only, which is also the whole
argument for the refinement.

`RekeyStrangerProofs` proves what is left when wrong keys are not detected, or a session has
no key at all. Such a session may take a hot journal for an empty one, delete it and leave
pages of several keys behind; no property of `IInv` but its types survives that. Under `StrangerEnv` (no write
error, no rekey as first access after a crash, no removal of the encryption; any session,
any cipher; `RekeyStranger` is an instance):

* `StrangersReadOwnJournal`: a transaction or rekey can decrypt its own journal, whoever began it;
* `StrangersPlayBackVerbatim`: a playback stores each page under the cipher of its record;
* `TrustedRestoresAfterStrangers`: a session opened with the right key does not release a
  hot journal before all of it is in the file.

The invariant `SInv` is about page 1, as a transaction begins by reading it and every opener
judges the key by it. All records of a journal have one cipher; in a transaction it is the one
the connection reads with, and page 1 is stored under it until it is
written (`PageOneInv`). So what a crash leaves is a journal under the key that an opener finds in page
1 (`RecordInv`), and who has that key can read the journal (`TrustInv`), however many keys the
other pages have.

`CipherConfigProofs` proves four theorems. `SettingsServeOnce` is `Spec => []NoStaleSetting`, for all sets of
ciphers, parameters, inputs, URIs and interfaces that satisfy `ConfigAssumption`.
`NoStaleSetting` is inductive as it stands. The argument is one fact about each operator
that reads (`TakeBackAtDefault`, `AllocateAtDefault`, `NewCodecAtDefault`,
`CodecSetupAtDefault`): whatever had its default still has it, and so has whatever was
read. `NewCodecAtDefault` is the step with content: the global parameters are put back
first, and that must not change which parameters SQLCipher reads, as this depends on
the value of `legacy`. `Used` counts only what is read, so the theorem says nothing of
`plaintext_header_size` under the SQLCipher versions 1 to 3.

`TypeCorrect`, `CodecsValid` and `HmacStaysOn` rest on a second invariant, `IInv`: every slot of
the table *fits* its value and its default, and every codec has the parameters of its
cipher. A legal value (`m_minValue`, `m_maxValue`) is more than a type, and
`checkParameterValue` asks for more than a legal value (a page size is a power of two, a
header length a multiple of 16). The SQL function does not ask, so what fits is said relative to
the settings that function was given: value, default and codec have a value `checkParameterValue`
accepts, or one in `bySql`. Nothing is assumed of the interfaces or the inputs; `CodecsValid` is
`Spec => []UncheckedOnlyBySql`. That every codec has accepted values, `SettingsValid`, is false
(see "Further behaviours") and follows as long as `bySql` is empty. The part of `IInv` the action property
needs is that the default of `hmac_check` is 1 at any time: only then does a key operation
that puts defaults back never turn the check off.

`ShimFaultsProofs` proves `TypeCorrect`, `CommittedIsKept` and `CacheIsTrue` of `ShimFaults`, for
every number of pages and every bound on the errors, under `Guarded`: errors of the real VFS
hit writes, and reads of pages under a cipher with tags. The other reads are where
finding 4 is. `IInv` adds to the two properties:

* `ControlInv`, which job of the pager goes with which mode, and what the job has left:
  a commit pages that were changed, a playback pages that are in the journal, a
  checkpoint pages that are in the log;
* `FileInv`: every record and every frame is the committed page, and so is every page of
  the database that has neither, except that behind a commit the file has what the
  transaction wrote;
* `CacheInv`: the cache has what the transaction sees, the journal has exactly the
  pages the transaction changed, and behind a playback the cache has what was committed.
  Without the second part a commit that fails could not be undone.

Each action has a lemma. The step with content is `Restore`: a record that cannot be read
ends in the error state with the journal in place, so that `FileInv` need not say anything
of the pages that were not reached.

`JournalCodecProofs` proves `TypeCorrect` of `JournalCodec` for all lengths, and under `Lengths`
`CrashesAreSafe`, `RollbacksRestore` and `PlaybacksAreTrue`. `Lengths` says of an encrypted database
that a page is longer than a sector and not as long as the name of a super-journal; the
two cases it leaves out are those of "Further behaviours", where the properties fail.
`TypeCorrect` needs `Form`, that no playback gets past the records that were written. The other
three need `JInv`, which adds

* `Coded`: headers are plain, all segments but the last are synced, and every record is
  encrypted under the number of its page and is the only one of that page in its segment;
* `Pages`: what is dirty is in the journal, what is not in the journal has not changed,
  and in a playback every page that is not restored yet is still `Ahead`;
* `Outcome`: a transaction of several files is committed when the super-journal is gone,
  and then file and cache are the new content; before that, `Restores`: records have
  the old content, and a page of the file that has not is in a *synced* segment.

The last is where the order "sync, then write the page" of `Spill` and `CommitSync` enters,
and what makes `Durable`, the journal after a crash, as good as the journal before it.
That a name which exists makes every segment synced is the part without which a crash
in a rollback would not be covered. The bound `NumPages` in `Saved` loses nothing, as pages
of a segment are distinct (`SegmentIsShort`).

`MainFilesProofs` proves seven theorems for every finite set of connections, each with threads
of its own, in three layers:

* the list. `ListKept` and `SearchFindsOwn` hold whatever the application does. The
  invariant gives the list as a sequence `S` without repetition whose members are linked
  in this order; an insertion puts a file at its head, a removal takes one out, and
  a search is at a member of `S` with its own file `Ahead` of it. `ListIsOpenFiles` follows
  links only as often as there are connections, which is enough as `S` is no longer than
  that (`ListIsShort`);
* the codecs, if `"rekey" \notin Careless`. `CodecStays`, `CodecsHaveOwners` and the action property
  `CodecsNotLost` need which calls hold the mutex of a connection (`DbInv`), that no two calls
  are on one (`Excl`), that the codec a call works with is that of its file, or new and its own
  (`KeepInv`, `BareInv`), and that no codec has two owners, nor a freed one any (`OwnInv`);
* the shim, if `"destroy" \notin Careless`: `ShimOutlivesFiles`, by `VfsInv`.

`Careless` has no other use: it names the two rules for applications that nothing in the
code enforces.

`CipherRegistryProofs` proves seven theorems for every finite set of threads, every set of
ciphers and every size of the tables. The invariant `IInv` has the parts

* `Shape` and `Mutexes`: what a call is at each of its steps, and at which of them it holds
  the recursive mutex of the initialization and the static one of the registration;
* `References`: `nRefInitMutex` is the number of threads inside `sqlite3_initialize` plus the
  number of calls from within it, and the recursive mutex exists as long as it is not 0.
  `MutexLives` follows: the last thread out frees the mutex;
* `Tables`: descriptors and parameters agree but for the number that is being
  registered. `TablesStayTrue`, `SelectionRegistered` and the action
  property `NumbersStay` are consequences;
* `Built`: how many of the built-in ciphers are registered at each point of the
  initialization, of which `InitializedWholly` is the end.

`CopiesUsable` has a second layer, for applications that do not register ciphers while they
open connections (`RegisterAnytime = FALSE`): a copy under way agrees with the tables as far as
it has come, because nothing changes them.

`WalCodecProofs` proves `TypeCorrect`, `HolderAlwaysReads`, `SnapshotsReadable`, `SessionsCurrent`
and the action property `StaleHarmless` for every set of connections, passphrases, contents
and salts and every number of pages and frames, under `Sound`. `Sound` says three things:
applications are `Careful`, so that only ciphers with tags meet rekeys and wrong
passphrases, and a connection does not write on after its removal of the encryption has failed
(finding 2; rekeys, and failures of them, are not restricted otherwise); no rekey is the first
access of its connection (`~ColdRekey`, finding 3); and no legacy log has a cipher with tags. Without any of them `HolderReads` fails, see
"Findings" and "Further behaviours"; the instance of `WalShared` satisfies all three. The invariant `IInv` has
three layers:

* what is shared (`SharedOK`). `Kept`: the file with the log up to its last commit, `Ends`,
  is what the last commit wanted, all of it under the one key that its passphrase and the
  salt of the file give, and what is backfilled is in the file. `Salted`: without tags
  no other key ever occurs; with them, every committed frame of page 1 has the salt of the
  file. The second half is why rekeys have to keep the salt: a checkpoint that copies
  page 1 may not change the key of the pages it has not come to;
* every connection (`ConnOK`): its keys (`KeysOK`: a current connection has the right key, a
  write cipher differs from the read cipher only in a rekey, and then only by the
  passphrase, or is gone after a failed removal of the encryption), its snapshot (`SnapshotOK`: all of it readable, and the log from `lo` to `hi` and
  the file not ahead of it), its transaction (`WritingOK`: the log behind the last
  commit is its own, under its write cipher, and in a rekey every page is dirty or written,
  with the content it had) and its checkpoint (`CopyingOK`: `todo` has every page whose latest
  frame up to `safe` is not in the file yet);
* every two connections (`PairOK`): one writes, one copies, the last one closes alone, and
  a checkpoint stops at the snapshot of every reader.

The proofs of the invariant speak of records (`Shared`, one connection) in place of variables, so
that one lemma serves the state before and after a step. The steps with content are
`CommitShared` (the transaction becomes the last commit: its frames decide for the pages it
wrote, the log before for the others), `CopyShared` (copying the latest frame of a page changes
no read through the log) and `CopyIs` (a connection whose keys do not fit either fails on the
tag of the frame or copies it unchanged, from which `StaleHarmless` follows). `IndexRight` says that the
recovery of the index finds the same commit as the index that was lost, which
is where a legacy log with tags would fail.

What `Max` and `Min` of a set of numbers are is proved from the well-foundedness of the
naturals (`LeastNumber`); what the community modules' definitions compute is not assumed. A
commit that writes several frames is not a recursion: `CommitLog` is the log with the
frames written over, followed by the others in the order of their pages.

Every invariant and every action property of the passing runs is stated by one of these
theorems. Only model-checked: liveness under fairness (`CallsReturn`), which is out of the
prover's reach.

## Not modelled

* Value-level encryption (`sqlite3mc_vle.c`). Read, not modelled: `vle_setKey` replaces salt
  and algorithm before steps that can fail and keeps the old key then; options are matched
  by prefix; `vle_getScope` tests a pointer for 0 where it means a length (`:250`). Its
  state is one record per connection without concurrency.
* The error exits of a rekey through VACUUM (`rekeyvacuum.c:291`) and a rekey inside an open
  transaction (`codecext.c:562`): both need the autocommit and statement state of the
  connection, of which `Rekey` has none.
* Secure memory, page layouts and cryptography: what they promise is about bytes.
* Shared cache, savepoints, vacuum and changes of the size of a database.
* The rest of the amalgamation, the shell and the bundled extensions. They are most of the
  lines of the repository, are vendored, and do not know of ciphers; the models cover
  the parts of pager, WAL and initialization that meet the encryption layer.

## Plan

1. `Rekey`: a rekey within an open transaction, and the error exits of the VACUUM path.
2. `CipherConfig`: the client data `cipher_salt`; the table used without a connection.
3. `Vle` and page layouts.
