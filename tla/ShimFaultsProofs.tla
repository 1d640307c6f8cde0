------------------------- MODULE ShimFaultsProofs -------------------------
(***************************************************************************)
(* Theorems about ShimFaults: as long as errors hit reads of bytes that a  *)
(* cipher authenticates, and writes, nothing that was committed is lost,   *)
(* for every number of pages and of errors.                                *)
(***************************************************************************)
EXTENDS ShimFaults, TLAPS

\* Errors that nobody notices are left out (mcIoRead, see ShimReadError).
Guarded == ~Unguarded

\* What page p is for the transaction at hand.
Now(p) == IF meant[p] # None THEN meant[p] ELSE committed[p]

-----------------------------------------------------------------------------
(* The inductive invariant.                                                *)

\* Which jobs there are in which mode, and what they have left to do.
ControlInv ==
  /\ pager = "error" => job = "none"
  /\ job \in {"commit", "undo", "reload"} => mode = "delete"
  /\ job = "checkpoint" => mode = "wal" /\ meant = Nothing
  /\ job = "commit" => todo \subseteq In(meant)
  /\ job \in {"undo", "reload"} => todo \subseteq In(jrnl)
  /\ job = "checkpoint" => todo \subseteq In(log)
  /\ mode = "delete" => log = Nothing
  /\ mode = "wal" => jrnl = Nothing

\* Every copy of a page is that of the last commit, except where a commit has
\* passed, and there the journal has it.
FileInv ==
  \A p \in Pages :
    /\ jrnl[p] # None => jrnl[p] = committed[p]
    /\ log[p] # None => log[p] = committed[p]
    /\ jrnl[p] = None /\ log[p] = None /\ job # "commit" => db[p] = committed[p]
    /\ mode = "delete" /\ pager = "open" /\ job \in {"none", "reload"} =>
         db[p] = committed[p]
    /\ job = "commit" /\ p \notin todo => db[p] = Now(p)
    /\ job \in {"undo", "checkpoint"} /\ p \notin todo => db[p] = committed[p]

\* The cache has what the transaction wrote; the pages it wrote are journalled.
\* A rollback restores them one by one.
CacheInv ==
  pager = "open" =>
    \A p \in Pages :
      /\ job \in {"none", "commit", "checkpoint"} =>
           /\ cache[p] # None => cache[p] = Now(p)
           /\ meant[p] # None => cache[p] # None
      /\ job \in {"none", "commit"} /\ mode = "delete" =>
           (meant[p] # None <=> jrnl[p] # None)
      /\ job \in {"undo", "reload"} /\ cache[p] # None =>
           cache[p] = IF p \in todo THEN Now(p) ELSE committed[p]

IInv == TypeOK /\ ControlInv /\ FileInv /\ CacheInv

-----------------------------------------------------------------------------
(* What the transfers return.                                              *)

\* A read that succeeds has read the page (mcIoRead under a cipher with tags).
LEMMA ReadsExact ==
  ASSUME Guarded, NEW b, NEW r \in Reads(b)
  PROVE  \/ r = Result("ok", b, FALSE)
         \/ r = Result("corrupt", None, TRUE) /\ MayFault
BY DEF Guarded, Reads

\* The same of a record of the journal (mcReadMainJournal).
LEMMA RecordReadsExact ==
  ASSUME Guarded, NEW b, NEW r \in RecordReads(b)
  PROVE  \/ r = Result("ok", b, FALSE)
         \/ r = Result("corrupt", None, TRUE) /\ MayFault
BY ReadsExact DEF Guarded, RecordReads

\* A write that fails says so (mcIoWrite).
LEMMA WritesReported ==
  ASSUME NEW w \in Writes
  PROVE  \/ w = Result("ok", None, FALSE)
         \/ w = Result("ioerr", None, TRUE) /\ MayFault
BY DEF Writes

\* A recovery finds the log (walIndexRecover).
LEMMA LogRecovered ==
  ASSUME Guarded, NEW r \in RecoveredLogs
  PROVE  r = Result("ok", log, FALSE)
BY DEF Guarded, RecoveredLogs

-----------------------------------------------------------------------------
(* Initial states and steps.                                               *)

\* The log, the journal and the cache are empty at first.
LEMMA InitIInv == Init => IInv
BY FaultsAssumption
   DEF Init, IInv, TypeOK, ControlInv, FileInv, CacheInv, Nothing, In, Now, Contents

\* Part of TypeOK that the steps need on its own.
LEMMA TwoModes == IInv => mode \in {"delete", "wal"}
BY FaultsAssumption DEF IInv, TypeOK

\* sqlite3PagerGet: a page comes into the cache, or the pager into its error
\* state.
LEMMA FetchKeeps ==
  ASSUME Guarded, IInv, NEW p \in Pages, Fetch(p)
  PROVE  IInv'
<1>1. PICK r \in Reads(Source(p)) :
        /\ cache' = [cache EXCEPT ![p] = r.data]
        /\ pager' = IF r.rc = "ok" THEN "open" ELSE "error"
        /\ Count(r)
  BY DEF Fetch
<1>2. /\ pager = "open" /\ job = "none" /\ cache[p] = None
      /\ UNCHANGED <<kind, mode, db, log, jrnl, meant, committed, job, todo>>
  BY DEF Fetch, Idle, files
<1>3. Source(p) = committed[p] /\ meant[p] = None
  <2>1. mode \in {"delete", "wal"}
    BY TwoModes
  <2>2. log[p] = None => db[p] = committed[p]
    BY <1>2, <2>1 DEF IInv, FileInv, ControlInv, Nothing
  <2>3. meant[p] = None
    BY <1>2 DEF IInv, CacheInv
  <2> QED
    BY <2>2, <2>3 DEF IInv, FileInv, Source
<1>4. \/ r = Result("ok", committed[p], FALSE)
      \/ r = Result("corrupt", None, TRUE) /\ MayFault
  BY <1>1, <1>3, ReadsExact
<1>5. TypeOK'
  BY <1>1, <1>2, <1>4, FaultsAssumption
     DEF IInv, TypeOK, Result, Count, MayFault, Contents
<1>6. ControlInv' /\ FileInv'
  BY <1>1, <1>2, <1>4 DEF IInv, ControlInv, FileInv, Now, In, Nothing, Result
<1>7. CacheInv'
  BY <1>1, <1>2, <1>3, <1>4 DEF IInv, TypeOK, CacheInv, Now, Result
<1> QED
  BY <1>5, <1>6, <1>7 DEF IInv

\* pager_write: the page is journalled before it is changed, and not changed
\* when that fails.
LEMMA WriteKeeps ==
  ASSUME IInv, NEW p \in Pages, NEW v \in Vals, Write(p, v)
  PROVE  IInv'
<1>1. /\ pager = "open" /\ job = "none" /\ cache[p] # None /\ meant[p] = None
      /\ UNCHANGED <<kind, mode, db, log, committed, pager, job, todo>>
  BY DEF Write, Idle
<1>2. cache[p] = committed[p] /\ committed[p] \in Vals /\ committed[p] # Garbage
  BY <1>1, FaultsAssumption DEF IInv, TypeOK, CacheInv, Now
<1>3. \/ UNCHANGED <<jrnl, cache, meant>>
      \/ /\ jrnl' = IF mode = "delete" THEN [jrnl EXCEPT ![p] = cache[p]] ELSE jrnl
         /\ cache' = [cache EXCEPT ![p] = v]
         /\ meant' = [meant EXCEPT ![p] = v]
  BY <1>2 DEF Write
<1>4. faults' \in 0 .. MaxFaults
  BY WritesReported, FaultsAssumption
     DEF Write, Count, Result, MayFault, IInv, TypeOK
<1>5. CASE UNCHANGED <<jrnl, cache, meant>>
  BY <1>1, <1>4, <1>5
     DEF IInv, TypeOK, ControlInv, FileInv, CacheInv, Now, In
<1>6. CASE /\ jrnl' = IF mode = "delete" THEN [jrnl EXCEPT ![p] = cache[p]] ELSE jrnl
           /\ cache' = [cache EXCEPT ![p] = v]
           /\ meant' = [meant EXCEPT ![p] = v]
  <2>1. TypeOK'
    BY <1>1, <1>2, <1>4, <1>6 DEF IInv, TypeOK, Contents
  <2>2. ControlInv'
    BY <1>1, <1>6, TwoModes DEF IInv, ControlInv
  <2>3. FileInv'
    BY <1>1, <1>2, <1>6 DEF IInv, TypeOK, FileInv, Now
  <2>4. CacheInv'
    BY <1>1, <1>2, <1>6, FaultsAssumption DEF IInv, TypeOK, CacheInv, Now
  <2> QED
    BY <2>1, <2>2, <2>3, <2>4 DEF IInv
<1> QED
  BY <1>3, <1>5, <1>6

\* walFrames: the frames of the pages that changed are appended to the log.
LEMMA CommitLogKeeps ==
  ASSUME IInv, CommitLog
  PROVE  IInv'
<1>1. /\ mode = "wal" /\ pager = "open" /\ job = "none" /\ meant' = Nothing
      /\ UNCHANGED <<kind, mode, db, jrnl, pager, job, todo>>
  BY DEF CommitLog, Idle
<1>2. jrnl = Nothing
  BY <1>1 DEF IInv, ControlInv
<1>3. \/ /\ log' = [p \in Pages |-> IF p \in In(meant) THEN cache[p] ELSE log[p]]
         /\ committed' = Over(committed, meant) /\ UNCHANGED cache
      \/ cache' = Dropped(In(meant)) /\ UNCHANGED <<log, committed>>
  BY DEF CommitLog
<1>4. faults' \in 0 .. MaxFaults
  BY WritesReported, FaultsAssumption
     DEF CommitLog, Count, Result, MayFault, IInv, TypeOK
<1>5. CASE /\ log' = [p \in Pages |-> IF p \in In(meant) THEN cache[p] ELSE log[p]]
           /\ committed' = Over(committed, meant) /\ UNCHANGED cache
  <2>1. TypeOK'
    BY <1>1, <1>4, <1>5 DEF IInv, TypeOK, Over, Nothing
  <2>2. ControlInv'
    BY <1>1, <1>2 DEF IInv, ControlInv
  <2>3. FileInv'
    BY <1>1, <1>2, <1>5 DEF IInv, TypeOK, FileInv, CacheInv, Now, Over, Nothing, In
  <2>4. CacheInv'
    BY <1>1, <1>5 DEF IInv, CacheInv, Now, Over, Nothing
  <2> QED
    BY <2>1, <2>2, <2>3, <2>4 DEF IInv
<1>6. CASE cache' = Dropped(In(meant)) /\ UNCHANGED <<log, committed>>
  <2>1. TypeOK'
    BY <1>1, <1>4, <1>6 DEF IInv, TypeOK, Dropped, Nothing
  <2>2. ControlInv' /\ FileInv'
    BY <1>1, <1>6 DEF IInv, ControlInv, FileInv, Now, Nothing
  <2>3. CacheInv'
    BY <1>1, <1>6 DEF IInv, CacheInv, Now, Dropped, Nothing, In
  <2> QED
    BY <2>1, <2>2, <2>3 DEF IInv
<1> QED
  BY <1>3, <1>5, <1>6

\* sqlite3WalUndo: the pages that changed leave the cache.
LEMMA RollbackLogKeeps ==
  ASSUME IInv, RollbackLog
  PROVE  IInv'
<1>1. /\ mode = "wal" /\ pager = "open" /\ job = "none"
      /\ cache' = Dropped(In(meant)) /\ meant' = Nothing
      /\ UNCHANGED <<kind, mode, db, log, jrnl, committed, pager, job, todo, faults>>
  BY DEF RollbackLog, Idle, files
<1>2. TypeOK'
  BY <1>1 DEF IInv, TypeOK, Dropped, Nothing
<1>3. ControlInv' /\ FileInv'
  BY <1>1 DEF IInv, ControlInv, FileInv, Now, Nothing
<1>4. CacheInv'
  BY <1>1 DEF IInv, CacheInv, Now, Dropped, Nothing, In
<1> QED
  BY <1>2, <1>3, <1>4 DEF IInv

\* sqlite3PagerCommitPhaseOne, up to the first page.
LEMMA StartCommitKeeps ==
  ASSUME IInv, StartCommit
  PROVE  IInv'
<1>1. /\ mode = "delete" /\ pager = "open" /\ job = "none"
      /\ job' = "commit" /\ todo' = In(meant)
      /\ UNCHANGED <<kind, mode, db, log, jrnl, cache, meant, committed, pager, faults>>
  BY DEF StartCommit, Begin, Idle, files
<1>2. TypeOK'
  BY <1>1 DEF IInv, TypeOK, In
<1>3. ControlInv' /\ CacheInv'
  BY <1>1 DEF IInv, ControlInv, CacheInv, Now, In
<1>4. FileInv'
  BY <1>1 DEF IInv, FileInv, Now, In
<1> QED
  BY <1>2, <1>3, <1>4 DEF IInv

\* pager_write_pagelist, one page: written, or the journal is played back.
LEMMA WritePageKeeps ==
  ASSUME IInv, NEW p \in Pages, WritePage(p)
  PROVE  IInv'
<1>1. /\ job = "commit" /\ p \in todo /\ pager = "open" /\ mode = "delete"
      /\ UNCHANGED <<kind, mode, log, jrnl, cache, meant, committed, pager>>
  BY DEF WritePage, IInv, TypeOK, ControlInv
<1>2. meant[p] # None /\ cache[p] = meant[p] /\ jrnl[p] # None
  BY <1>1 DEF IInv, ControlInv, CacheInv, Now, In
<1>3. \/ db' = [db EXCEPT ![p] = cache[p]] /\ job' = "commit" /\ todo' = todo \ {p}
      \/ job' = "undo" /\ todo' = In(jrnl) /\ UNCHANGED db
  BY DEF WritePage, Begin
<1>4. faults' \in 0 .. MaxFaults
  BY WritesReported, FaultsAssumption
     DEF WritePage, Count, Result, MayFault, IInv, TypeOK
<1>5. CASE db' = [db EXCEPT ![p] = cache[p]] /\ job' = "commit" /\ todo' = todo \ {p}
  <2>1. TypeOK'
    BY <1>1, <1>2, <1>4, <1>5 DEF IInv, TypeOK, Contents
  <2>2. ControlInv' /\ CacheInv'
    BY <1>1, <1>5 DEF IInv, ControlInv, CacheInv, Now, In
  <2>3. FileInv'
    BY <1>1, <1>2, <1>5 DEF IInv, TypeOK, FileInv, Now
  <2> QED
    BY <2>1, <2>2, <2>3 DEF IInv
<1>6. CASE job' = "undo" /\ todo' = In(jrnl) /\ UNCHANGED db
  <2>1. TypeOK'
    BY <1>1, <1>4, <1>6 DEF IInv, TypeOK, In
  <2>2. ControlInv'
    BY <1>1, <1>6 DEF IInv, ControlInv, In
  <2>3. CacheInv' /\ FileInv'
    BY <1>1, <1>6 DEF IInv, ControlInv, FileInv, CacheInv, Now, In
  <2> QED
    BY <2>1, <2>2, <2>3 DEF IInv
<1> QED
  BY <1>3, <1>5, <1>6

\* sqlite3PagerCommitPhaseTwo: without its journal the transaction is committed.
LEMMA EndCommitKeeps ==
  ASSUME IInv, EndCommit
  PROVE  IInv'
<1>1. /\ job = "commit" /\ todo = {} /\ pager = "open" /\ mode = "delete" /\ log = Nothing
      /\ jrnl' = Nothing /\ meant' = Nothing /\ job' = "none"
      /\ committed' = Over(committed, meant)
      /\ UNCHANGED <<kind, mode, db, log, cache, pager, todo, faults>>
  BY DEF EndCommit, DeleteJournal, IInv, TypeOK, ControlInv
<1>2. \A p \in Pages : committed'[p] = Now(p) /\ db[p] = committed'[p]
  BY <1>1 DEF IInv, FileInv, Now, Over
<1>3. TypeOK'
  BY <1>1 DEF IInv, TypeOK, Over, Nothing
<1>4. ControlInv'
  BY <1>1 DEF IInv, ControlInv
<1>5. FileInv'
  BY <1>1, <1>2 DEF FileInv, Now, Nothing
<1>6. CacheInv'
  BY <1>1, <1>2 DEF IInv, CacheInv, Now, Nothing
<1> QED
  BY <1>3, <1>4, <1>5, <1>6 DEF IInv

\* sqlite3PagerRollback of a transaction that has not reached the file.
LEMMA RollbackKeeps ==
  ASSUME IInv, Rollback
  PROVE  IInv'
<1>1. /\ mode = "delete" /\ pager = "open" /\ job = "none"
      /\ job' = "reload" /\ todo' = In(jrnl)
      /\ UNCHANGED <<kind, mode, db, log, jrnl, cache, meant, committed, pager, faults>>
  BY DEF Rollback, Begin, Idle, files
<1>2. TypeOK'
  BY <1>1 DEF IInv, TypeOK, In
<1>3. ControlInv' /\ CacheInv'
  BY <1>1 DEF IInv, ControlInv, CacheInv, Now, In
<1>4. FileInv'
  BY <1>1 DEF IInv, FileInv
<1> QED
  BY <1>2, <1>3, <1>4 DEF IInv

\* pager_playback_one_page: a record of the journal goes to the file and into
\* the cache, or the pager into its error state.
LEMMA RestoreKeeps ==
  ASSUME Guarded, IInv, NEW p \in Pages, Restore(p)
  PROVE  IInv'
<1>1. /\ job \in {"undo", "reload"} /\ p \in todo /\ pager = "open" /\ mode = "delete"
      /\ jrnl[p] = committed[p] /\ committed[p] # None /\ committed[p] # Garbage
      /\ UNCHANGED <<kind, mode, log, jrnl, meant, committed>>
  BY FaultsAssumption DEF Restore, IInv, TypeOK, ControlInv, FileInv, In
<1>2. PICK r \in RecordReads(jrnl[p]),
           w \in IF job = "undo" THEN Writes ELSE {Result("ok", None, FALSE)} :
        LET ends == r.data = Garbage /\ r.fault
            stop == r.rc # "ok" \/ w.rc # "ok"
        IN  /\ db' = IF ends \/ stop \/ job = "reload" THEN db
                     ELSE [db EXCEPT ![p] = r.data]
            /\ cache' = IF ends \/ stop \/ cache[p] = None THEN cache
                        ELSE [cache EXCEPT ![p] = r.data]
            /\ pager' = IF stop THEN "error" ELSE "open"
            /\ job' = IF stop THEN "none" ELSE job
            /\ todo' = IF ends \/ stop THEN {} ELSE todo \ {p}
            /\ faults' = IF r.fault \/ w.fault THEN faults + 1 ELSE faults
  BY ZenonT(60) DEF Restore
<1>3. /\ \/ r = Result("ok", committed[p], FALSE)
         \/ r = Result("corrupt", None, TRUE) /\ MayFault
      /\ \/ w = Result("ok", None, FALSE)
         \/ w = Result("ioerr", None, TRUE) /\ MayFault
  BY <1>1, <1>2, RecordReadsExact, WritesReported
<1>4. \/ /\ db' = IF job = "reload" THEN db ELSE [db EXCEPT ![p] = committed[p]]
         /\ cache' = IF cache[p] = None THEN cache
                     ELSE [cache EXCEPT ![p] = committed[p]]
         /\ pager' = "open" /\ job' = job /\ todo' = todo \ {p}
      \/ /\ pager' = "error" /\ job' = "none" /\ todo' = {}
         /\ UNCHANGED <<db, cache>>
  <2>1. /\ \/ r.rc = "ok" /\ r.data = committed[p] /\ r.fault = FALSE
           \/ r.rc = "corrupt"
        /\ w.rc = "ok" \/ w.rc = "ioerr"
    BY <1>3 DEF Result
  <2>2. r.data # Garbage \/ r.rc = "corrupt"
    BY <1>1, <2>1
  <2>3. CASE r.rc = "ok" /\ w.rc = "ok"
    BY <1>1, <1>2, <2>1, <2>2, <2>3
  <2>4. CASE r.rc = "corrupt" \/ w.rc = "ioerr"
    BY <1>1, <1>2, <2>4
  <2> QED
    BY <2>1, <2>3, <2>4
<1>5. faults' \in 0 .. MaxFaults
  BY <1>2, <1>3, FaultsAssumption DEF Result, MayFault, IInv, TypeOK
<1>6. CASE /\ db' = IF job = "reload" THEN db ELSE [db EXCEPT ![p] = committed[p]]
           /\ cache' = IF cache[p] = None THEN cache
                       ELSE [cache EXCEPT ![p] = committed[p]]
           /\ pager' = "open" /\ job' = job /\ todo' = todo \ {p}
  <2>1. TypeOK'
    BY <1>1, <1>5, <1>6 DEF IInv, TypeOK, Contents
  <2>2. ControlInv'
    BY <1>1, <1>6 DEF IInv, ControlInv, In
  <2>3. FileInv'
    BY <1>1, <1>6 DEF IInv, TypeOK, FileInv, Now
  <2>4. CacheInv'
    BY <1>1, <1>6 DEF IInv, TypeOK, CacheInv, Now
  <2> QED
    BY <2>1, <2>2, <2>3, <2>4 DEF IInv
<1>7. CASE /\ pager' = "error" /\ job' = "none" /\ todo' = {}
           /\ UNCHANGED <<db, cache>>
  <2>1. TypeOK'
    BY <1>1, <1>5, <1>7 DEF IInv, TypeOK
  <2>2. ControlInv' /\ CacheInv'
    BY <1>1, <1>7 DEF IInv, ControlInv, CacheInv
  <2>3. FileInv'
    BY <1>1, <1>7 DEF IInv, FileInv, ControlInv, Now, In
  <2> QED
    BY <2>1, <2>2, <2>3 DEF IInv
<1> QED
  BY <1>4, <1>6, <1>7

\* pager_end_transaction after a journal that was played back to its end.
LEMMA EndRollbackKeeps ==
  ASSUME IInv, EndRollback
  PROVE  IInv'
<1>1. /\ job \in {"undo", "reload"} /\ todo = {} /\ pager = "open" /\ mode = "delete"
      /\ log = Nothing /\ jrnl' = Nothing /\ meant' = Nothing /\ job' = "none"
      /\ UNCHANGED <<kind, mode, db, log, cache, committed, pager, todo, faults>>
  BY DEF EndRollback, DeleteJournal, IInv, TypeOK, ControlInv
<1>2. \A p \in Pages : db[p] = committed[p]
  BY <1>1 DEF IInv, FileInv
<1>3. TypeOK'
  BY <1>1 DEF IInv, TypeOK, Nothing
<1>4. ControlInv'
  BY <1>1 DEF IInv, ControlInv
<1>5. FileInv'
  BY <1>1, <1>2 DEF FileInv, Nothing
<1>6. CacheInv'
  BY <1>1 DEF IInv, CacheInv, Now, Nothing
<1> QED
  BY <1>3, <1>4, <1>5, <1>6 DEF IInv

\* walCheckpoint, up to the first frame.
LEMMA CheckpointKeeps ==
  ASSUME IInv, Checkpoint
  PROVE  IInv'
<1>1. /\ mode = "wal" /\ pager = "open" /\ job = "none" /\ meant = Nothing
      /\ job' = "checkpoint" /\ todo' = In(log)
      /\ UNCHANGED <<kind, mode, db, log, jrnl, cache, meant, committed, pager, faults>>
  BY DEF Checkpoint, Begin, Idle, files
<1>2. TypeOK'
  BY <1>1 DEF IInv, TypeOK, In
<1>3. ControlInv' /\ CacheInv'
  BY <1>1 DEF IInv, ControlInv, CacheInv, Now, In
<1>4. jrnl = Nothing
  BY <1>1 DEF IInv, ControlInv
<1>5. FileInv'
  BY <1>1, <1>4 DEF IInv, FileInv, In, Nothing
<1> QED
  BY <1>2, <1>3, <1>5 DEF IInv

\* walCheckpoint, one frame: copied to the database, or the log is kept.
LEMMA CopyFrameKeeps ==
  ASSUME Guarded, IInv, NEW p \in Pages, CopyFrame(p)
  PROVE  IInv'
<1>1. /\ job = "checkpoint" /\ p \in todo /\ pager = "open" /\ mode = "wal"
      /\ log[p] = committed[p] /\ jrnl = Nothing /\ meant = Nothing
      /\ UNCHANGED <<kind, mode, log, jrnl, cache, meant, committed>>
  BY DEF CopyFrame, IInv, TypeOK, ControlInv, FileInv, In
<1>2. PICK r \in Reads(log[p]), w \in Writes :
        LET stop == r.rc # "ok" \/ w.rc # "ok"
        IN  /\ db' = IF stop THEN db ELSE [db EXCEPT ![p] = r.data]
            /\ pager' = IF r.rc # "ok" THEN "error" ELSE "open"
            /\ job' = IF stop THEN "none" ELSE "checkpoint"
            /\ todo' = IF stop THEN {} ELSE todo \ {p}
            /\ faults' = IF r.fault \/ w.fault THEN faults + 1 ELSE faults
  BY DEF CopyFrame
<1>3. /\ \/ r = Result("ok", committed[p], FALSE)
         \/ r = Result("corrupt", None, TRUE) /\ MayFault
      /\ \/ w = Result("ok", None, FALSE)
         \/ w = Result("ioerr", None, TRUE) /\ MayFault
  BY <1>1, <1>2, ReadsExact, WritesReported
<1>4. \/ /\ db' = [db EXCEPT ![p] = committed[p]] /\ pager' = "open"
         /\ job' = "checkpoint" /\ todo' = todo \ {p}
      \/ /\ pager' \in {"open", "error"} /\ job' = "none" /\ todo' = {}
         /\ UNCHANGED db
  <2>1. /\ \/ r.rc = "ok" /\ r.data = committed[p]
           \/ r.rc = "corrupt"
        /\ w.rc = "ok" \/ w.rc = "ioerr"
    BY <1>3 DEF Result
  <2> QED
    BY <1>2, <2>1
<1>5. faults' \in 0 .. MaxFaults
  BY <1>2, <1>3, FaultsAssumption DEF Result, MayFault, IInv, TypeOK
<1>6. CASE /\ db' = [db EXCEPT ![p] = committed[p]] /\ pager' = "open"
           /\ job' = "checkpoint" /\ todo' = todo \ {p}
  <2>1. TypeOK'
    BY <1>1, <1>5, <1>6 DEF IInv, TypeOK, Contents
  <2>2. ControlInv' /\ CacheInv'
    BY <1>1, <1>6 DEF IInv, ControlInv, CacheInv, Now, In
  <2>3. FileInv'
    BY <1>1, <1>6 DEF IInv, TypeOK, FileInv, Now
  <2> QED
    BY <2>1, <2>2, <2>3 DEF IInv
<1>7. CASE /\ pager' \in {"open", "error"} /\ job' = "none" /\ todo' = {}
           /\ UNCHANGED db
  <2>1. TypeOK'
    BY <1>1, <1>5, <1>7 DEF IInv, TypeOK
  <2>2. ControlInv' /\ FileInv'
    BY <1>1, <1>7 DEF IInv, ControlInv, FileInv, Now, Nothing
  <2>3. CacheInv'
    BY <1>1, <1>7 DEF IInv, CacheInv, Now, Nothing
  <2> QED
    BY <2>1, <2>2, <2>3 DEF IInv
<1> QED
  BY <1>4, <1>6, <1>7

\* walCheckpoint, when every frame is in the database: the log starts anew.
LEMMA EndCheckpointKeeps ==
  ASSUME IInv, EndCheckpoint
  PROVE  IInv'
<1>1. /\ job = "checkpoint" /\ todo = {} /\ pager = "open" /\ mode = "wal"
      /\ meant = Nothing /\ jrnl = Nothing /\ log' = Nothing /\ job' = "none"
      /\ UNCHANGED <<kind, mode, db, jrnl, cache, meant, committed, pager, todo, faults>>
  BY DEF EndCheckpoint, IInv, TypeOK, ControlInv
<1>2. TypeOK'
  BY <1>1 DEF IInv, TypeOK, Nothing
<1>3. ControlInv' /\ CacheInv'
  BY <1>1 DEF IInv, ControlInv, CacheInv, Now
<1>4. FileInv'
  BY <1>1 DEF IInv, FileInv, Now, Nothing
<1> QED
  BY <1>2, <1>3, <1>4 DEF IInv

\* sqlite3PagerSharedLock on a database that was left behind: a hot journal is
\* played back, a log is recovered.
LEMMA ReopenKeeps ==
  ASSUME Guarded, IInv, Reopen
  PROVE  IInv'
<1>1. /\ cache' = Nothing /\ meant' = Nothing /\ pager' = "open"
      /\ log' = log /\ faults' = faults
      /\ job' = IF jrnl = Nothing THEN "none" ELSE "undo"
      /\ todo' = In(jrnl)
      /\ UNCHANGED <<kind, mode, db, jrnl, committed>>
  BY LogRecovered DEF Reopen, Begin, Hot, Count, Result
<1>2. TypeOK'
  BY <1>1 DEF IInv, TypeOK, In, Nothing
<1>3. ControlInv' /\ CacheInv'
  BY <1>1, TwoModes DEF IInv, ControlInv, CacheInv, Nothing, In
<1>4. \A p \in Pages : jrnl[p] = None /\ log[p] = None => db[p] = committed[p]
  BY DEF IInv, TypeOK, ControlInv, FileInv, CacheInv, Now, In
<1>5. jrnl # Nothing => mode = "delete" /\ log = Nothing
  BY TwoModes DEF IInv, ControlInv
<1>6. FileInv'
  BY <1>1, <1>4, <1>5 DEF IInv, TypeOK, ControlInv, FileInv, Nothing, In
<1> QED
  BY <1>2, <1>3, <1>6 DEF IInv

\* A step that changes nothing.
LEMMA StutterKeeps ==
  ASSUME IInv, UNCHANGED vars
  PROVE  IInv'
BY DEF vars, files, IInv, TypeOK, ControlInv, FileInv, CacheInv, Now, In

\* No step of the connection breaks the invariant.
LEMMA StepIInv ==
  ASSUME Guarded, IInv, [Next]_vars
  PROVE  IInv'
<1>1. CASE \E p \in Pages : Fetch(p) \/ WritePage(p) \/ Restore(p) \/ CopyFrame(p)
  BY <1>1, FetchKeeps, WritePageKeeps, RestoreKeeps, CopyFrameKeeps
<1>2. CASE \E p \in Pages, v \in Vals : Write(p, v)
  BY <1>2, WriteKeeps
<1>3. CASE CommitLog \/ RollbackLog \/ StartCommit \/ EndCommit
  BY <1>3, CommitLogKeeps, RollbackLogKeeps, StartCommitKeeps, EndCommitKeeps
<1>4. CASE Rollback \/ EndRollback \/ Checkpoint \/ EndCheckpoint \/ Reopen
  BY <1>4, RollbackKeeps, EndRollbackKeeps, CheckpointKeeps, EndCheckpointKeeps,
     ReopenKeeps
<1>5. CASE UNCHANGED vars
  BY <1>5, StutterKeeps
<1> QED
  BY <1>1, <1>2, <1>3, <1>4, <1>5 DEF Next

\* The invariant says what is to be shown of the files.
LEMMA IInvCommitted == IInv => CommittedKept
<1> SUFFICES ASSUME IInv, NEW p \in Pages
             PROVE  committed[p] = IF jrnl[p] # None THEN jrnl[p] ELSE Source(p)
  BY DEF CommittedKept
<1>1. jrnl[p] = None /\ log[p] = None => db[p] = committed[p]
  BY DEF IInv, TypeOK, ControlInv, FileInv, CacheInv, Now, In
<1> QED
  BY <1>1 DEF IInv, FileInv, Source

\* And what is to be shown of the cache.
LEMMA IInvCache == IInv => CacheTrue
BY DEF IInv, TypeOK, ControlInv, CacheInv, CacheTrue, Now, In

-----------------------------------------------------------------------------
(* Theorems.                                                               *)

\* The invariant of the files, the cache and the jobs of the pager
\* What the transactions, the rollbacks, the checkpoints and the recoveries of
\* the pager keep true of the files and the cache.
LEMMA Invariance == Guarded => (Spec => []IInv)
<1> SUFFICES ASSUME Guarded PROVE Spec => []IInv
  OBVIOUS
<1>1. IInv /\ [Next]_vars => IInv'
  BY StepIInv
<1> QED
  BY <1>1, InitIInv, PTL DEF Spec

\* In every reachable state a page of the file, of the journal and of the
\* cache is a content, and the pager is at one of its jobs.
THEOREM TypeCorrect == Guarded => (Spec => []TypeOK)
<1> SUFFICES ASSUME Guarded PROVE Spec => []TypeOK
  OBVIOUS
<1>1. IInv => TypeOK
  BY DEF IInv
<1> QED
  BY <1>1, Invariance, PTL

\* Whatever writes fail and whatever authenticated reads do, and wherever the
\* process dies, what was committed is in the journal, in the log or in the
\* database (mcIoRead, mcIoWrite, pager_playback, walCheckpoint).
THEOREM CommittedIsKept == Guarded => (Spec => []CommittedKept)
<1> SUFFICES ASSUME Guarded PROVE Spec => []CommittedKept
  OBVIOUS
<1> QED
  BY IInvCommitted, Invariance, PTL

\* As long as the pager is not in its error state it serves no page but what
\* was committed or what the transaction wrote (readDbPage, pager_playback).
THEOREM CacheIsTrue == Guarded => (Spec => []CacheTrue)
<1> SUFFICES ASSUME Guarded PROVE Spec => []CacheTrue
  OBVIOUS
<1> QED
  BY IInvCache, Invariance, PTL

===========================================================================
