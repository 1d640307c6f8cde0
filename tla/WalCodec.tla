------------------------------ MODULE WalCodec ------------------------------
(***************************************************************************)
(* An encrypted database in WAL mode: several connections, each with its   *)
(* own codec, share a database file, a write-ahead log and the index of    *)
(* the log.  A frame of the log is encrypted when it is appended and       *)
(* decrypted when a reader or a checkpoint fetches it; a checkpoint writes *)
(* it to the database file through the codec once more.  A rekey appends a *)
(* frame under the new key for every page, and the old key stays in the    *)
(* file until a checkpoint, maybe of another connection, gets there.       *)
(*                                                                         *)
(* A key is derived from a passphrase and a salt, and the salt is read     *)
(* from the first 16 bytes of the database FILE, so a key is the pair of   *)
(* both.  Two properties of the cipher matter.  "auth": pages carry a      *)
(* nonce and a tag in reserved bytes; decrypting under a wrong key fails,  *)
(* and a page that was encrypted and decrypted differs from the original   *)
(* in these bytes.  Otherwise a wrong key yields garbage; encrypting it    *)
(* again under that key restores what was there, except on page 1 with its *)
(* header.  "legacy" is mc_legacy_wal: checksums of frames are taken over  *)
(* the page before it is encrypted, not over what is in the file.          *)
(*                                                                         *)
(* Left out: locks that are denied at a step the code repeats, several     *)
(* threads on one connection, changes of the number of pages, and a        *)
(* medium that loses frames the system has accepted.  Once a transaction   *)
(* is rolled back its frames are gone: a frame without a commit after it   *)
(* is never read.                                                          *)
(***************************************************************************)
EXTENDS Naturals, Sequences, FiniteSetsExt

CONSTANTS
  Conn,       \* connections
  NumPages,   \* pages of the database
  Vals,       \* contents of a page
  Garbage,    \* what decrypting under a wrong key yields
  Pass,       \* passphrases
  None,       \* no passphrase
  Salts,      \* salts a cipher may draw
  Header,     \* "SQLite format 3": where an encrypted file has its salt
  Modes,      \* kinds of cipher and log, records of auth and legacy
  Careful,    \* see Allowed
  ColdRekey,  \* a rekey may be the first access of a connection
  MaxFrames   \* bound: frames in the log

ASSUME WalAssumption ==
  /\ NumPages \in Nat \ {0} /\ MaxFrames \in Nat
  /\ Garbage \notin Vals /\ None \notin Pass \cup Vals \cup {Garbage}
  /\ Header \notin Salts
  /\ Modes \subseteq [auth : BOOLEAN, legacy : BOOLEAN]
  /\ Careful \in BOOLEAN /\ ColdRekey \in BOOLEAN

Page   == 1 .. NumPages
Plain  == <<None, Header>>
Key    == (Pass \X (Salts \cup {Header})) \cup {Plain}
Stored == [val : Vals \cup {Garbage}, key : Key]
Frame  == [pg : Page, page : Stored, commit : BOOLEAN]

VARIABLES
  mode,      \* the kind of cipher and log in use
  db,        \* the database file
  wal,       \* the frames of the log
  mx,        \* WalIndexHdr.mxFrame
  backfill,  \* WalCkptInfo.nBackfill
  conn,      \* the connections, see Connection
  want       \* history variable: contents and passphrase of the last commit

vars == <<mode, db, wal, mx, backfill, conn, want>>

Content == [Page -> Vals \cup {Garbage, None}]  \* None: no such page

Connection ==
  [st     : {"closed", "idle", "read", "write", "rekey", "ckpt", "closing"},
   read   : Key,                     \* read cipher, Plain if there is none
   write  : Key,                     \* write cipher
   warm   : BOOLEAN,                 \* pPager->pWal # 0
   lo     : Nat,                     \* Wal.minFrame
   hi     : Nat,                     \* the snapshot ends with this frame
   direct : BOOLEAN,                 \* WAL_READ_LOCK(0): the log is ignored
   dirty  : Content,                 \* dirty pages of the cache
   own    : Nat,                     \* frames appended by the transaction
   todo   : SUBSET Page,             \* pages a checkpoint has yet to copy
   safe   : Nat,                     \* mxSafeFrame
   cur    : BOOLEAN,                 \* history: no other one changed the key
   seen   : Content]                 \* history: what the snapshot contained

Clean == [p \in Page |-> None]
Closed == [st |-> "closed", read |-> Plain, write |-> Plain, warm |-> FALSE,
           lo |-> 1, hi |-> 0, direct |-> FALSE, dirty |-> Clean, own |-> 0,
           todo |-> {}, safe |-> 0, cur |-> FALSE, seen |-> Clean]

\* Between transactions a connection keeps its codec and the log it opened.
Idle(k) == [Closed EXCEPT !.st = "idle", !.read = k.read, !.write = k.write,
                          !.warm = k.warm, !.cur = k.cur]

-----------------------------------------------------------------------------
(* Pages, frames and keys.                                                 *)

\* Position of the last frame of page p from lo to hi, 0 if there is none.
Latest(p, lo, hi) == Max({0} \cup {i \in lo .. hi : wal[i].pg = p})

\* What a reader of the frames lo to hi fetches for page p.
At(p, lo, hi) ==
  LET i == Latest(p, lo, hi) IN IF i = 0 THEN db[p] ELSE wal[i].page

\* mcReadDatabaseHeader: the salt comes from the file, never from the log.
HeaderSalt == db[1].key[2]
KeyFor(pass) == IF pass = None THEN Plain ELSE <<pass, HeaderSalt>>

\* sqlite3mcPagerCodec uses mode 6, the write cipher; in legacy mode it does
\* nothing, and mcWriteWal uses mode 7, the read cipher.
FrameKey(k) == IF mode.legacy THEN k.read ELSE k.write

\* A slip: the error of a decryption is lost on the way.
FailsSlip(k, s) == FALSE

\* A page of the log on its way to the file: decrypted by mcReadWal,
\* encrypted by mcWriteMainDb.  Under a wrong key it either fails or becomes
\* garbage, unless the second step undoes the first.
Fails(k, s) == k.read # Plain /\ s.key # k.read /\ mode.auth

Copied(k, p, s) ==
  IF s.key = k.read THEN [s EXCEPT !.key = k.write]
  ELSE IF k.read = Plain \/ (k.read = k.write /\ p # 1) THEN s
  ELSE [val |-> Garbage, key |-> k.write]

\* What connection k reads in its snapshot.
View(k, p) == At(p, k.lo, IF k.direct THEN 0 ELSE k.hi)

-----------------------------------------------------------------------------
(* Recovery of the index, walIndexRecover, by a connection with read       *)
(* cipher k: the frames it takes for valid, and the last commit in them.   *)

\* walDecodeFrame compares with the sum of the bytes mcReadWal returns.
Valid(k, f) ==
  \/ ~mode.legacy
  \/ f.page.key = k /\ (k = Plain \/ ~mode.auth)

\* In legacy mode mcReadWal decrypts, and a failure ends the recovery.
RecoveryFails(k) ==
  /\ mode.legacy /\ mode.auth /\ k # Plain
  /\ wal # <<>> /\ wal[1].page.key # k

Recovered(k) ==
  Max({0} \cup {i \in DOMAIN wal : /\ wal[i].commit
                                   /\ \A j \in 1 .. i : Valid(k, wal[j])})

Set(c, k) == conn' = [conn EXCEPT ![c] = k]

\* Some connection keeps the index in shared memory alive.
IndexValid == \E c \in Conn : conn[c].warm
Writers    == {c \in Conn : conn[c].st \in {"write", "rekey"}}
Marked     == {c \in Conn : conn[c].st \in {"read", "write", "rekey"}
                            /\ ~conn[c].direct}

\* What an application does.  Where Careful holds, a log with checksums of
\* plain pages, or a cipher without authentication, is opened with the
\* right passphrase only and not rekeyed.
Allowed(pass, rekey) ==
  \/ ~Careful
  \/ mode.auth /\ ~mode.legacy
  \/ pass = want.pass /\ ~rekey

\* And a connection that has failed to remove the encryption, see Restored,
\* repeats the rekey before it writes, copies the log, or is the last to
\* close.
MayWrite(c) == Careful => conn[c].write = conn[c].read

-----------------------------------------------------------------------------
Init ==
  /\ mode \in Modes
  /\ want \in [val : [Page -> Vals], pass : Pass \cup {None}]
  /\ \E salt \in Salts :
       db = [p \in Page |->
              [val |-> want.val[p],
               key |-> IF want.pass = None THEN Plain ELSE <<want.pass, salt>>]]
  /\ wal = <<>> /\ mx = 0 /\ backfill = 0
  /\ conn = [c \in Conn |-> Closed]

\* sqlite3_open and sqlite3_key_v2: the key is derived, nothing is read yet.
Open(c, pass) ==
  /\ conn[c].st = "closed" /\ Allowed(pass, FALSE)
  /\ Set(c, [Closed EXCEPT !.st = "idle", !.read = KeyFor(pass),
                           !.write = KeyFor(pass), !.cur = pass = want.pass])
  /\ UNCHANGED <<mode, db, wal, mx, backfill, want>>

\* walTryBeginRead: a new snapshot, of the file alone if the log is copied.
Snapshot(k, n, b) ==
  [k EXCEPT !.warm = TRUE, !.lo = b + 1, !.hi = n, !.direct = n = b]

\* A slip: leave_rekey does not replace the write cipher.
RestoredSlip(k) == Idle(k)

\* leave_rekey with an error: sqlite3mcCopyCipher(codec, 1) makes the write
\* cipher that of reading.  A rekey to no key has dropped m_hasWriteCipher,
\* which is not set again: the connection reads with its key and writes plain.
Restored(k) == IF k.write = Plain THEN Idle(k)
               ELSE [Idle(k) EXCEPT !.write = k.read]

\* Begin a transaction: open the log, recover its index if nobody else has
\* it, take a snapshot, read page 1.  k is the connection if that works, and
\* a rekey goes on to read every page and to mark it dirty.
Begin(c, k) ==
  LET found == IndexValid \/ ~RecoveryFails(k.read)
      n == IF IndexValid THEN mx ELSE Recovered(k.read)
      b == IF IndexValid THEN backfill ELSE 0
      s == Snapshot(k, n, b)
      content == [p \in Page |-> View(s, p).val]
      failed == IF k.st = "rekey" THEN Restored(k) ELSE Idle(k)
  IN  /\ \A o \in Conn : conn[o].st # "closing"
      /\ mx' = n /\ backfill' = b
      /\ IF found /\ View(s, 1).key = k.read
           THEN Set(c, [s EXCEPT !.seen = content, !.dirty =
                          IF k.st = "rekey" THEN content ELSE Clean])
           ELSE Set(c, [failed EXCEPT !.warm = found])
      /\ UNCHANGED <<mode, db, wal, want>>

BeginRead(c) ==
  conn[c].st = "idle" /\ Begin(c, [conn[c] EXCEPT !.st = "read"])

EndRead(c) ==
  /\ conn[c].st = "read"
  /\ Set(c, Idle(conn[c]))
  /\ UNCHANGED <<mode, db, wal, mx, backfill, want>>

\* sqlite3WalBeginWriteTransaction from a snapshot that is still the latest.
BeginWrite(c) ==
  /\ conn[c].st = "read" /\ Writers = {} /\ MayWrite(c)
  /\ conn[c].hi = mx /\ (conn[c].direct => backfill = mx)
  /\ Set(c, [conn[c] EXCEPT !.st = "write"])
  /\ UNCHANGED <<mode, db, wal, mx, backfill, want>>

\* A slip: what is not copied yet is undone as well.
UndoneSlip(c) == SubSeq(wal, 1, backfill)

\* Without a commit after them frames are never read again.
Undone(c) == IF conn[c].own > 0 THEN SubSeq(wal, 1, mx) ELSE wal

\* What a transaction has made of page p.
Changed(c, p) ==
  IF conn[c].dirty[p] # None THEN conn[c].dirty[p]
  ELSE IF conn[c].direct THEN db[p].val
  ELSE At(p, conn[c].lo, mx + conn[c].own).val

\* The statement changes a page in the cache.
Write(c, p, v) ==
  /\ conn[c].st = "write" /\ v # Changed(c, p)
  /\ Set(c, [conn[c] EXCEPT !.dirty[p] = v])
  /\ UNCHANGED <<mode, db, wal, mx, backfill, want>>

-----------------------------------------------------------------------------
(* sqlite3_rekey_v2.                                                       *)

\* A slip: the salt of the file is not kept in WAL mode.
NewKeysSlip(c, pass) ==
  IF pass = None THEN {Plain} ELSE {<<pass, s>> : s \in Salts \ {HeaderSalt}}

\* sqlite3mcSetupWriteCipher: usesWal tells the cipher to keep the salt.
NewKeys(c, pass) ==
  IF pass = None THEN {Plain}
  ELSE {<<pass, s>> : s \in IF conn[c].warm THEN {HeaderSalt}
                                            ELSE Salts \ {HeaderSalt}}

\* Up to and with the loop over the pages.  A database without a key is not
\* rekeyed to no key, nor is it encrypted in WAL mode.
Rekey(c, pass) ==
  /\ conn[c].st = "idle" /\ Writers = {} /\ Allowed(pass, TRUE)
  /\ conn[c].warm \/ ColdRekey
  /\ conn[c].read = Plain => pass # None /\ ~conn[c].warm
  /\ \E w \in NewKeys(c, pass) :
       Begin(c, [conn[c] EXCEPT !.st = "rekey", !.write = w])

-----------------------------------------------------------------------------
(* Writing the log.                                                        *)

\* walRestartLog, before the first frame of a transaction that reads the
\* file only: the log starts again if nobody reads it.
Restart(c) ==
  LET k == conn[c]
      again == backfill > 0 /\ Marked = {}
  IN  /\ k.st \in {"write", "rekey"} /\ k.direct /\ k.dirty # Clean
      /\ wal' = IF again THEN <<>> ELSE wal
      /\ mx' = IF again THEN 0 ELSE mx
      /\ backfill' = IF again THEN 0 ELSE backfill
      /\ Set(c, [k EXCEPT !.direct = FALSE, !.lo = backfill' + 1, !.hi = mx'])
      /\ UNCHANGED <<mode, db, want>>

\* The log as the next frame of c finds it.
Log(c) == SubSeq(wal, 1, mx + conn[c].own)

NewFrame(c, p, v, commit) ==
  [pg |-> p, page |-> [val |-> v, key |-> FrameKey(conn[c])], commit |-> commit]

\* Where the transaction of c has put page p, 0 if it has not.
OwnFrame(c, p) == Latest(p, mx + 1, mx + conn[c].own)

\* walFrames for one page: its frame of this transaction is written over.
PutFrame(c, p, v) ==
  LET f == NewFrame(c, p, v, FALSE)
      i == OwnFrame(c, p)
  IN  IF i # 0 THEN [Log(c) EXCEPT ![i] = f] ELSE Append(Log(c), f)

\* pagerStress.  Page 1 is referenced as long as a transaction lasts.
Spill(c, p) ==
  LET k == conn[c]
  IN  /\ k.st \in {"write", "rekey"} /\ ~k.direct
      /\ p # 1 /\ k.dirty[p] # None /\ Len(Log(c)) < MaxFrames
      /\ wal' = PutFrame(c, p, k.dirty[p])
      /\ Set(c, [k EXCEPT !.dirty[p] = None, !.own = Len(wal') - mx])
      /\ UNCHANGED <<mode, db, mx, backfill, want>>

\* The pages of S, sorted.
InOrder(S) ==
  [i \in 1 .. Cardinality(S) |->
    CHOOSE p \in S : Cardinality({q \in S : q <= p}) = i]

\* The log once all dirty pages are written in order, the last one, always
\* appended, as commit.  sqlite3PagerCommitPhaseOne: if nothing is dirty,
\* page 1 carries it.
CommitLog(c) ==
  LET dirty == {p \in Page : conn[c].dirty[p] # None}
      last  == Max(dirty \cup {1})
      over  == {p \in dirty \ {last} : OwnFrame(c, p) # 0}
      added == InOrder((dirty \ over) \cup {last})
      New(p) == NewFrame(c, p, Changed(c, p), p = last)
  IN  [i \in DOMAIN Log(c) |->
         LET p == wal[i].pg
         IN  IF p \in over /\ i = OwnFrame(c, p) THEN New(p) ELSE wal[i]]
      \o [i \in DOMAIN added |-> New(added[i])]

Commit(c) ==
  LET k == conn[c]
  IN  /\ k.st = "write" /\ ~k.direct
      /\ k.dirty # Clean \/ k.own > 0
      /\ Len(Log(c)) + NumPages <= MaxFrames
      /\ wal' = CommitLog(c) /\ mx' = Len(wal')
      /\ want' = [want EXCEPT !.val = [p \in Page |-> Changed(c, p)]]
      /\ Set(c, Idle(k))
      /\ UNCHANGED <<mode, db, backfill>>

\* ROLLBACK, or an error: the index and the codec are as before.
Rollback(c) ==
  LET k == conn[c]
  IN  /\ k.st = "write"
      /\ wal' = Undone(c)
      /\ Set(c, Idle(k))
      /\ UNCHANGED <<mode, db, mx, backfill, want>>

\* leave_rekey with rc = SQLITE_OK: sqlite3mcCopyCipher(codec, 0).
Finished(k) ==
  [Idle(k) EXCEPT !.cur = TRUE, !.read = k.write]

RekeyCommit(c) ==
  LET k == conn[c]
  IN  /\ k.st = "rekey" /\ ~k.direct /\ Len(Log(c)) + NumPages <= MaxFrames
      /\ wal' = CommitLog(c) /\ mx' = Len(wal')
      /\ want' = [want EXCEPT !.pass = k.write[1]]
      /\ conn' = [o \in Conn |-> IF o = c THEN Finished(k)
                                 ELSE [conn[o] EXCEPT !.cur = FALSE]]
      /\ UNCHANGED <<mode, db, backfill>>

\* Any step of the rekey fails, a full disk for one.
RekeyFail(c) ==
  /\ conn[c].st = "rekey"
  /\ wal' = Undone(c)
  /\ Set(c, Restored(conn[c]))
  /\ UNCHANGED <<mode, db, mx, backfill, want>>

-----------------------------------------------------------------------------
(* Checkpoints, and the last connection to leave.                          *)

\* A slip: readers do not hold a checkpoint back.
SafeFrameSlip(c) == mx

\* mxSafeFrame: the end of the oldest snapshot that uses the log.
SafeFrame(c) == Min({mx} \cup {conn[o].hi : o \in Marked \ {c}})

\* walIteratorInit: pages whose last frame is not copied and safe to copy.
Work(safe) == {p \in Page : Latest(p, 1, mx) \in backfill + 1 .. safe}

\* sqlite3WalCheckpoint in passive mode up to the loop.  Nothing is copied
\* while somebody reads the file only.
Checkpoint(c, st) ==
  LET blocked == \E o \in Conn : /\ conn[o].st \in {"read", "write", "rekey"}
                                 /\ conn[o].direct
      safe == IF blocked THEN backfill ELSE SafeFrame(c)
  IN  /\ \A o \in Conn : conn[o].st \notin {"ckpt", "closing"}
      /\ Set(c, [conn[c] EXCEPT !.st = st, !.todo = Work(safe),
                                !.safe = Max({safe, backfill})])
      /\ UNCHANGED <<mode, db, wal, mx, backfill, want>>

BeginCheckpoint(c) ==
  /\ conn[c].st = "idle" /\ conn[c].warm /\ backfill < mx /\ MayWrite(c)
  /\ Checkpoint(c, "ckpt")

\* One page is copied.  A failure ends the checkpoint, and with it a close.
CopyPage(c) ==
  LET k == conn[c]
      p == Min(k.todo)
      s == wal[Latest(p, 1, k.safe)].page
  IN  /\ k.st \in {"ckpt", "closing"} /\ k.todo # {}
      /\ IF Fails(k, s)
           THEN /\ UNCHANGED db
                /\ IF k.st = "ckpt"
                     THEN /\ Set(c, Idle(k))
                          /\ UNCHANGED <<mx, backfill>>
                     ELSE /\ Set(c, Closed)
                          /\ mx' = 0 /\ backfill' = 0
           ELSE /\ db' = [db EXCEPT ![p] = Copied(k, p, s)]
                /\ Set(c, [k EXCEPT !.todo = @ \ {p}])
                /\ UNCHANGED <<mx, backfill>>
      /\ UNCHANGED <<mode, wal, want>>

EndCheckpoint(c) ==
  /\ conn[c].st = "ckpt" /\ conn[c].todo = {}
  /\ backfill' = conn[c].safe
  /\ Set(c, Idle(conn[c]))
  /\ UNCHANGED <<mode, db, wal, mx, want>>

\* sqlite3_close.  The last connection with the log open copies the log.
Close(c) ==
  /\ conn[c].st = "idle"
  /\ IF conn[c].warm /\ \A o \in Conn \ {c} : ~conn[o].warm
       THEN MayWrite(c) /\ Checkpoint(c, "closing")
       ELSE /\ Set(c, Closed)
            /\ UNCHANGED <<mode, db, wal, mx, backfill, want>>

\* It then deletes the log.
Unlink(c) ==
  /\ conn[c].st = "closing" /\ conn[c].todo = {}
  /\ wal' = <<>> /\ mx' = 0 /\ backfill' = 0
  /\ Set(c, Closed)
  /\ UNCHANGED <<mode, db, want>>

\* Every process dies, between any two steps.
Crash ==
  /\ \E c \in Conn : conn[c] # Closed
  /\ conn' = [c \in Conn |-> Closed]
  /\ wal' = IF Writers = {} THEN wal ELSE Undone(CHOOSE c \in Writers : TRUE)
  /\ mx' = 0 /\ backfill' = 0
  /\ UNCHANGED <<mode, db, want>>

Next ==
  \/ \E c \in Conn :
       \/ \E pass \in Pass \cup {None} : Open(c, pass) \/ Rekey(c, pass)
       \/ BeginRead(c) \/ EndRead(c) \/ BeginWrite(c)
       \/ \E p \in Page : Spill(c, p) \/ \E v \in Vals : Write(c, p, v)
       \/ Restart(c) \/ Commit(c) \/ Rollback(c)
       \/ RekeyCommit(c) \/ RekeyFail(c)
       \/ BeginCheckpoint(c) \/ CopyPage(c) \/ EndCheckpoint(c)
       \/ Close(c) \/ Unlink(c)
  \/ Crash

Spec == Init /\ [][Next]_vars

-----------------------------------------------------------------------------
(* Properties.                                                             *)

\* The log, the index and the connections are well formed, there is one
\* writer, and one connection copies the log at a time.
TypeOK ==
  /\ mode \in Modes
  /\ db \in [Page -> Stored]
  /\ wal \in Seq(Frame) /\ Len(wal) <= MaxFrames
  /\ mx \in 0 .. Len(wal) /\ backfill \in 0 .. mx
  /\ conn \in [Conn -> Connection]
  /\ want \in [val : [Page -> Vals], pass : Pass \cup {None}]
  /\ Cardinality(Writers) <= 1
  /\ Cardinality({c \in Conn : conn[c].st \in {"ckpt", "closing"}}) <= 1

\* What is in the file and the log for the one who knows the passphrase.
RightKey == KeyFor(want.pass)
Image == LET n == Recovered(RightKey) IN [p \in Page |-> At(p, 1, n)]

\* Whatever happens, a crash at this very moment included, whoever opens the
\* database with the passphrase of the last commit derives the key of every
\* page and reads what was committed.
HolderReads ==
  Image = [p \in Page |-> [val |-> want.val[p], key |-> RightKey]]

\* A transaction reads its snapshot to the end, with the key it started
\* with, while others commit, rekey, checkpoint or start the log again.
SnapshotReadable ==
  \A c \in Conn : conn[c].st \in {"read", "write", "rekey"} =>
    \A p \in Page :
      View(conn[c], p) = [val |-> conn[c].seen[p], key |-> conn[c].read]

\* A connection opened with the right passphrase, or the one that changed
\* it, can go on: its codec is that of the database, whatever rekeys have
\* succeeded or failed.  Only one that has failed to remove the encryption is
\* left without a write cipher; it reads, and writes nothing.
SessionCurrent ==
  \A c \in Conn : conn[c].st # "closed" /\ conn[c].cur =>
    /\ conn[c].read = Image[1].key
    /\ \/ conn[c].st = "rekey" \/ conn[c].write = conn[c].read
       \/ conn[c].st \in {"idle", "read"} /\ conn[c].write = Plain

\* A connection whose key is not, or no longer, the key of the database
\* leaves the file, and what is committed to the log, to the others; a
\* checkpoint without any codec copies frames as they are.
StaleIsHarmless ==
  [][\A c \in Conn :
       /\ conn[c].st # "closed" /\ ~conn[c].cur /\ ~conn'[c].cur
       /\ conn[c] # conn'[c]
       /\ \A o \in Conn \ {c} : conn[o] = conn'[o]
       => \A p \in Page : db'[p] # db[p] =>
            \E i \in 1 .. mx : wal[i].pg = p /\ wal[i].page = db'[p]]_vars
=============================================================================
