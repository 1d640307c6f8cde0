----------------------------- MODULE JournalCodec -----------------------------
(***************************************************************************)
(* The rollback journal of an encrypted database, one write at a time.     *)
(* The pager writes a journal as headers, records (page number, page,      *)
(* checksum) and possibly the name of a super-journal.  The VFS shim sees  *)
(* only buffers and their lengths: a buffer of 4 bytes is taken for a page *)
(* number and remembered in sqlite3mc_file.pageNo, a buffer of the page    *)
(* size is taken for a page and encrypted, or decrypted, under the number  *)
(* remembered.  This module keeps the lengths and the order of these       *)
(* transfers, and asks what a ROLLBACK or a recovery then finds.           *)
(*                                                                         *)
(* A checksum, a length and a header field are all the one number Sum,     *)
(* different from 0 and from every page number: only whether it is 0, and  *)
(* whether it is the number of the page, makes a difference.  The key is   *)
(* left out: Rekey.tla is about keys.  The file keeps its size, and what   *)
(* an earlier transaction left beyond the end of a persistent journal is   *)
(* left out: its checksums do not fit the new header.                      *)
(***************************************************************************)
EXTENDS Naturals, Sequences

CONSTANTS
  NumPages,    \* pages of the database
  Vals,        \* contents of a page
  Garbage,     \* what decrypting under a wrong number returns
  PageSize,    \* bytes of a page
  SectorSize,  \* Pager.sectorSize: JOURNAL_HDR_SZ
  SuperLen,    \* length of the name of a super-journal
  Encrypted,   \* sqlite3mcIsEncrypted(codec)
  Keep         \* the journal handle outlives a transaction

ASSUME SizesAssumption ==
  /\ NumPages \in Nat \ {0}
  /\ Garbage \notin Vals
  /\ PageSize \in Nat /\ PageSize >= 512
  /\ SectorSize \in Nat \ {0}
  /\ SuperLen \in Nat /\ SuperLen > 4
  /\ Encrypted \in BOOLEAN
  /\ Keep \in BOOLEAN

Page    == 1 .. NumPages
Sj      == NumPages + 1      \* PAGER_SJ_PGNO, the number of the lock page
Sum     == NumPages + 2      \* any other number written in four bytes
Number  == 0 .. Sum
NoName  == Sum + 1           \* the journal does not end with a name

VARIABLES
  disk,     \* the database file, decrypted
  jrnl,     \* the journal: a sequence of segments, see Segment
  name,     \* the number the super-journal's name is encrypted under
  super,    \* the super-journal exists
  open,     \* isOpen(Pager.jfd)
  pageNo,   \* sqlite3mc_file.pageNo of the journal handle
  cache,    \* page cache
  dirty,    \* its dirty pages
  dbmod,    \* Pager.eState >= PAGER_WRITER_DBMOD
  pc,       \* what the pager is doing
  hot,      \* the playback is of a hot journal
  at,       \* position of the playback: segment and record, 0 for the header
  want      \* history variable: content as of the last commit

fileVars == <<disk, jrnl, name, super>>
vars == <<disk, jrnl, name, super, open, pageNo, cache, dirty, dbmod, pc, hot,
          at, want>>

-----------------------------------------------------------------------------
(* The shim.  Number 0 stands for "stored as it is".                       *)

\* The number a buffer of count bytes is encrypted, or decrypted, under.
CodeOf(count, no) == IF Encrypted /\ count = PageSize THEN no ELSE 0

\* pageNo once four bytes with the value v went through the handle.
After4(no, v) == IF Encrypted THEN v ELSE no

\* pageNo once a page was read: mcReadMainJournal forgets the number.
AfterRead(no) == IF Encrypted THEN 0 ELSE no

-----------------------------------------------------------------------------
(* The journal.  A segment is a header and the records up to the next one. *)
(* nrec and the magic number are 0 until syncJournal writes both.          *)

Record == [pg : Page, val : Vals, code : Number]

Segment == [code   : Number,         \* number the header is encrypted under
            synced : BOOLEAN,        \* magic and nrec are written
            nrec   : Nat,
            recs   : Seq(Record)]

Last(s) == s[Len(s)]

\* writeJournalHdr: blocks of at most one page fill a sector.
NewSegment(no) ==
  LET nHeader == IF PageSize > SectorSize THEN SectorSize ELSE PageSize
  IN  [code |-> CodeOf(nHeader, no), synced |-> FALSE, nrec |-> 0,
       recs |-> <<>>]

\* A slip: the page goes out before its number.
NewRecordSlip(no, p) ==
  [pg |-> p, val |-> cache[p], code |-> CodeOf(PageSize, no)]

\* The three writes of a record.
NewRecord(no, p) ==
  [pg |-> p, val |-> cache[p], code |-> CodeOf(PageSize, After4(no, p))]
AfterRecord(no, p) == After4(After4(no, p), Sum)

AddRecord(j, r) == [j EXCEPT ![Len(j)].recs = Append(@, r)]

\* syncJournal: magic and nrec of the last header, in one write of 12 bytes.
Sync(j) == [j EXCEPT ![Len(j)].synced = TRUE,
                     ![Len(j)].nrec = Len(j[Len(j)].recs)]

\* What a crash leaves: a last segment that was not synced has no magic number.
Durable(j) ==
  IF j # <<>> /\ ~Last(j).synced THEN SubSeq(j, 1, Len(j) - 1) ELSE j

PagesOf(seg) == {seg.recs[k].pg : k \in 1 .. Len(seg.recs)}
InJournal    == UNION {PagesOf(jrnl[i]) : i \in 1 .. Len(jrnl)}
NeedSync     == IF Last(jrnl).synced THEN {} ELSE PagesOf(Last(jrnl))

\* A slip: the records of the last header are not estimated (ticket 2565).
CountSlip(i) == jrnl[i].nrec

\* How many records of segment i a playback reads.
Count(i) ==
  IF hot \/ jrnl[i].synced THEN jrnl[i].nrec ELSE Len(jrnl[i].recs)

-----------------------------------------------------------------------------
Init ==
  /\ disk \in [Page -> Vals]
  /\ cache = disk /\ want = disk
  /\ jrnl = <<>> /\ name = NoName /\ super = FALSE
  /\ open = FALSE /\ pageNo = 0
  /\ dirty = {} /\ dbmod = FALSE
  /\ pc = "idle" /\ hot = FALSE /\ at = <<0, 0>>

\* The journal and the handle as a transaction finds them: the first write
\* opens the journal, unless it is still open, and writes a header.
Started == IF jrnl = <<>> THEN <<NewSegment(pageNo)>> ELSE jrnl

\* sqlite3PagerWrite: journal the page unless it is there, then change it.
Write(p, v) ==
  /\ pc \in {"idle", "txn"}
  /\ pc' = "txn"
  /\ open' = TRUE
  /\ \/ /\ p \in InJournal
        /\ jrnl' = jrnl /\ pageNo' = pageNo
     \/ /\ p \notin InJournal
        /\ jrnl' = AddRecord(Started, NewRecord(pageNo, p))
        /\ pageNo' = AfterRecord(pageNo, p)
  /\ cache' = [cache EXCEPT ![p] = v]
  /\ dirty' = dirty \cup {p}
  /\ UNCHANGED <<disk, name, super, dbmod, hot, at, want>>

\* A slip: the result code of the failed write is stored as page number.
WriteFailsSlip(p) ==
  /\ pc \in {"idle", "txn"}
  /\ p \notin InJournal
  /\ open' = TRUE
  /\ jrnl' = Started
  /\ pageNo' \in {After4(pageNo, 10), After4(pageNo, p)}
  /\ dirty' = dirty \cup {p}
  /\ pc' = "super"
  /\ UNCHANGED <<disk, name, super, cache, dbmod, hot, at, want>>

\* One of the three writes of a record fails; the I/O error rolls the
\* transaction back.  A four-byte write that failed leaves 0 behind.
WriteFails(p) ==
  /\ pc \in {"idle", "txn"}
  /\ p \notin InJournal
  /\ open' = TRUE
  /\ jrnl' = Started
  /\ pageNo' \in {After4(pageNo, 0), After4(pageNo, p)}
  /\ dirty' = dirty \cup {p}
  /\ pc' = "super"
  /\ UNCHANGED <<disk, name, super, cache, dbmod, hot, at, want>>

\* pagerStress: sync the journal if the page needs it and start a new
\* segment, then write the page.
Spill(p) ==
  /\ pc = "txn"
  /\ p \in dirty
  /\ jrnl' = IF p \in NeedSync \/ ~dbmod
               THEN Append(Sync(jrnl), NewSegment(pageNo))
               ELSE jrnl
  /\ disk' = [disk EXCEPT ![p] = cache[p]]
  /\ dirty' = dirty \ {p}
  /\ dbmod' = TRUE
  /\ UNCHANGED <<name, super, open, pageNo, cache, pc, hot, at, want>>

\* sqlite3PagerCommitPhaseOne: write the name of the super-journal if the
\* transaction spans several files, then sync the journal for good.
CommitSync(multi) ==
  /\ pc = "txn"
  /\ pc' = "commit"
  /\ jrnl' = Sync(jrnl)
  /\ \/ /\ multi
        /\ super' = TRUE
        /\ name' = CodeOf(SuperLen, After4(pageNo, Sj))
        /\ pageNo' = After4(pageNo, Sum)
     \/ /\ ~multi
        /\ UNCHANGED <<super, name, pageNo>>
  /\ UNCHANGED <<disk, open, cache, dirty, dbmod, hot, at, want>>

\* pager_write_pagelist, one page at a time.
CommitWrite(p) ==
  /\ pc = "commit"
  /\ p \in dirty
  /\ disk' = [disk EXCEPT ![p] = cache[p]]
  /\ dirty' = dirty \ {p}
  /\ dbmod' = TRUE
  /\ UNCHANGED <<jrnl, name, super, open, pageNo, cache, pc, hot, at, want>>

\* pager_end_transaction: the journal is deleted, or its header is zeroed
\* and the handle stays open with the number it remembers.
Finalize ==
  /\ jrnl' = <<>>
  /\ name' = NoName
  /\ open' = Keep
  /\ pageNo' = IF Keep THEN pageNo ELSE 0
  /\ dirty' = {}
  /\ dbmod' = FALSE
  /\ pc' = "idle"
  /\ hot' = FALSE
  /\ at' = <<0, 0>>

\* sqlite3PagerCommitPhaseTwo of a transaction on this file only.
Commit ==
  /\ pc = "commit" /\ dirty = {} /\ name = NoName
  /\ Finalize
  /\ want' = cache
  /\ UNCHANGED <<disk, super, cache>>

\* vdbeCommit: every file is ready, deleting the super-journal commits all.
DeleteSuper ==
  /\ pc = "commit" /\ dirty = {} /\ name # NoName
  /\ super' = FALSE
  /\ want' = cache
  /\ pc' = "finish"
  /\ UNCHANGED <<disk, jrnl, name, open, pageNo, cache, dirty, dbmod, hot, at>>

FinishMulti ==
  /\ pc = "finish"
  /\ Finalize
  /\ UNCHANGED <<disk, super, cache, want>>

-----------------------------------------------------------------------------
(* Playback.                                                               *)

\* sqlite3PagerRollback: of the user, or after an error before the commit.
Rollback ==
  /\ pc \in {"txn", "commit"}
  /\ pc' = "super"
  /\ UNCHANGED <<fileVars, open, pageNo, cache, dirty, dbmod, hot, at, want>>

\* The process dies.  What was not synced is lost.
Crash ==
  /\ pc # "dead"
  /\ pc' = "dead"
  /\ jrnl' = Durable(jrnl)
  /\ open' = FALSE /\ pageNo' = 0
  /\ cache' = disk /\ dirty' = {} /\ dbmod' = FALSE
  /\ hot' = FALSE /\ at' = <<0, 0>>
  /\ UNCHANGED <<disk, name, super, want>>

\* sqlite3PagerSharedLock: the next process finds a hot journal, or none.
Reopen ==
  /\ pc = "dead"
  /\ cache' = disk
  /\ \/ /\ jrnl = <<>>
        /\ pc' = "idle" /\ hot' = FALSE /\ open' = FALSE
     \/ /\ jrnl # <<>>
        /\ pc' = "super" /\ hot' = TRUE /\ open' = TRUE
  /\ UNCHANGED <<fileVars, pageNo, dirty, dbmod, at, want>>

\* A slip: nobody asks whether the super-journal exists.
ReadSuperSlip ==
  /\ pc = "super"
  /\ pageNo' = After4(pageNo, Sum)
  /\ pc' = "undo"
  /\ at' = <<1, 0>>
  /\ UNCHANGED <<fileVars, open, cache, dirty, dbmod, hot, want>>

\* readSuperJournal and the test of pager_playback: a journal that names a
\* super-journal which does not exist is not played back.  Length and
\* checksum are read before the name; a name that was not decrypted to what
\* was written fails its checksum and is taken for none.
ReadSuper ==
  LET no     == After4(pageNo, Sum)
      absent == name # NoName /\ name = CodeOf(SuperLen, no) /\ ~super
  IN  /\ pc = "super"
      /\ pageNo' = no
      /\ pc' = IF absent THEN "end" ELSE "undo"
      /\ at' = IF absent THEN at ELSE <<1, 0>>
      /\ UNCHANGED <<fileVars, open, cache, dirty, dbmod, hot, want>>

\* readJournalHdr: the fields are read four bytes at a time and are not
\* decrypted.  Without the magic number the playback ends; the magic of the
\* last header is not tested in a rollback.  A first header that is not
\* plain has no valid sector or page size and ends the playback as well.
ReadHeader ==
  LET i     == at[1]
      found == i <= Len(jrnl) /\ (hot => jrnl[i].synced)
      valid == found /\ (i = 1 => jrnl[i].code = 0)
  IN  /\ pc = "undo" /\ at[2] = 0
      /\ pageNo' = IF found THEN After4(pageNo, Sum) ELSE pageNo
      /\ pc' = IF valid THEN pc ELSE "end"
      /\ at' = IF valid THEN <<i, 1>> ELSE at
      /\ UNCHANGED <<fileVars, open, cache, dirty, dbmod, hot, want>>

\* pager_playback_one_page: the number, the page, the checksum.  The checksum
\* starts from the header's cksumInit, so it fails when the header was not
\* plain, and the playback ends.  A page goes to the cache, and to the file
\* if the transaction reached it.
ReadRecord ==
  LET i    == at[1]
      r    == jrnl[i].recs[at[2]]
      no   == After4(pageNo, r.pg)
      val  == IF r.code = CodeOf(PageSize, no) THEN r.val ELSE Garbage
      good == val # Garbage /\ jrnl[i].code = 0
  IN  /\ pc = "undo" /\ at[2] > 0 /\ at[2] <= Count(i)
      /\ pageNo' = After4(AfterRead(no), Sum)
      /\ cache' = IF good THEN [cache EXCEPT ![r.pg] = val] ELSE cache
      /\ disk' = IF good /\ (hot \/ dbmod) THEN [disk EXCEPT ![r.pg] = val]
                                           ELSE disk
      /\ at' = IF good THEN <<i, at[2] + 1>> ELSE at
      /\ pc' = IF good THEN pc ELSE "end"
      /\ UNCHANGED <<jrnl, name, super, open, dirty, dbmod, hot, want>>

NextHeader ==
  /\ pc = "undo" /\ at[2] > 0 /\ at[2] > Count(at[1])
  /\ at' = <<at[1] + 1, 0>>
  /\ UNCHANGED <<fileVars, open, pageNo, cache, dirty, dbmod, pc, hot, want>>

\* end_playback: finish the journal, delete the super-journal it named (one
\* whose name was not readable is left over, but no later journal names it).
EndPlayback ==
  /\ pc = "end"
  /\ Finalize
  /\ super' = FALSE
  /\ UNCHANGED <<disk, cache, want>>

-----------------------------------------------------------------------------
Next ==
  \/ \E p \in Page, v \in Vals : Write(p, v)
  \/ \E p \in Page : WriteFails(p) \/ Spill(p) \/ CommitWrite(p)
  \/ \E multi \in BOOLEAN : CommitSync(multi)
  \/ Commit \/ DeleteSuper \/ FinishMulti
  \/ Rollback \/ Crash \/ Reopen
  \/ ReadSuper \/ ReadHeader \/ ReadRecord \/ NextHeader \/ EndPlayback

Spec == Init /\ [][Next]_vars

-----------------------------------------------------------------------------
(* Properties.                                                             *)

\* Every variable has its type.
TypeOK ==
  /\ disk \in [Page -> Vals] /\ want \in [Page -> Vals]
  /\ cache \in [Page -> Vals]
  /\ jrnl \in Seq(Segment)
  /\ name \in Number \cup {NoName}
  /\ super \in BOOLEAN /\ open \in BOOLEAN
  /\ pageNo \in Number
  /\ dirty \subseteq Page
  /\ dbmod \in BOOLEAN /\ hot \in BOOLEAN
  /\ pc \in {"idle", "txn", "commit", "finish", "super", "undo", "end", "dead"}
  /\ at \in Nat \X Nat

\* What the records a new process can read say of page p: it has to get past
\* every header up to the record, and to decrypt the record under the number
\* that stands before it.
Saved(p) ==
  {jrnl[ik[1]].recs[ik[2]].val : ik \in
     {ik \in (1 .. Len(jrnl)) \X (1 .. NumPages) :
        /\ ik[2] <= jrnl[ik[1]].nrec
        /\ jrnl[ik[1]].recs[ik[2]].pg = p
        /\ jrnl[ik[1]].recs[ik[2]].code = CodeOf(PageSize, After4(0, p))
        /\ \A m \in 1 .. ik[1] : jrnl[m].synced /\ jrnl[m].code = 0}}

\* A new process takes the transaction for committed.
TakenForCommitted ==
  name # NoName /\ name = CodeOf(SuperLen, After4(0, Sum)) /\ ~super

\* Whenever the process dies, the file and the journal together are the last
\* committed content: a page that differs from it is saved in a record the
\* next process can find and decrypt, and no record would undo a commit.
CrashSafe ==
  \A p \in Page :
    IF TakenForCommitted \/ Saved(p) = {} THEN disk[p] = want[p]
                                         ELSE Saved(p) = {want[p]}

\* Between transactions the file and the page cache are the committed
\* content: a ROLLBACK or a recovery has restored every page it had to.
RollbackComplete == pc = "idle" => disk = want /\ cache = want

\* A playback puts nothing but the committed content of a page into the file:
\* no page decrypted under the number of another one, no record of an
\* earlier transaction or behind a header that was not read.
PlaybackRestores ==
  [][pc = "undo" => \A p \in Page : disk'[p] \in {disk[p], want[p]}]_vars
=============================================================================
