----------------------------- MODULE ShimFaults -----------------------------
(***************************************************************************)
(* I/O errors of the real VFS and what the shim and the pager make of      *)
(* them.  mcIoRead hands on a short read only: every other error of the    *)
(* real read is replaced by the result of the decryption, which knows      *)
(* nothing of it, and the buffer that was not filled is taken for a page.  *)
(* The result of a write is handed on.                                     *)
(*                                                                         *)
(* One connection reads and writes pages other than page 1 in journal mode *)
(* DELETE or WAL, rolls back, checkpoints, dies and recovers.  An          *)
(* unfilled buffer is Garbage: to an authenticated cipher it is a page     *)
(* that fails, to any other cipher and to a plain database it is content.  *)
(***************************************************************************)
EXTENDS Naturals, FiniteSets

CONSTANTS
  Pages, Vals,
  Kinds,      \* "plain", "bare" (a cipher without tags), "auth" (with tags)
  Modes,      \* "delete", "wal"
  Unguarded,  \* errors also hit reads of bytes that nothing authenticates
  MaxFaults,  \* bound on the errors of the real VFS
  None, Garbage

ASSUME FaultsAssumption ==
  /\ Kinds \subseteq {"plain", "bare", "auth"} /\ Modes \subseteq {"delete", "wal"}
  /\ Unguarded \in BOOLEAN /\ MaxFaults \in Nat
  /\ None # Garbage /\ {None, Garbage} \cap Vals = {}

VARIABLES
  kind, mode,
  db,         \* content of the database file
  log,        \* content of the last frame of each page in the WAL, or None
  jrnl,       \* content of the record of each page in the journal, or None
  cache,      \* content of each page in the cache, or None
  meant,      \* what the transaction wrote to each page, or None
  committed,  \* what transactions have committed
  pager,      \* the pager is "open" or in state "error"
  job,        \* what the pager is doing: "none", "commit", "undo", "reload",
              \* "checkpoint"
  todo,       \* pages the job has left
  faults      \* errors so far

files == <<db, log, jrnl>>
vars  == <<kind, mode, files, cache, meant, committed, pager, job, todo, faults>>

Nothing   == [p \in Pages |-> None]
In(f)     == {p \in Pages : f[p] # None}
Contents  == Vals \cup {Garbage}
Idle      == pager = "open" /\ job = "none"

-----------------------------------------------------------------------------
(* Transfers: the results a call of the shim can have.  fault tells that   *)
(* an error of the real VFS is behind it.                                  *)

Result(rc, data, fault) == [rc |-> rc, data |-> data, fault |-> fault]
MayFault == faults < MaxFaults
Count(r) == faults' = IF r.fault THEN faults + 1 ELSE faults

\* Slip: a page that fails to decrypt, zero-filled, is returned without an
\* error.
ReadsSlip(bytes) ==
  {Result("ok", bytes, FALSE)} \cup
  (IF MayFault THEN {Result("ok", None, TRUE)} ELSE {})

\* mcIoRead of a page: an error of the real read shows as a failure of the
\* authentication, or not at all.
Reads(bytes) ==
  {Result("ok", bytes, FALSE)} \cup
  (CASE MayFault /\ kind = "auth" -> {Result("corrupt", None, TRUE)}
     [] MayFault /\ kind # "auth" /\ Unguarded -> {Result("ok", Garbage, TRUE)}
     [] OTHER -> {})

\* A journal record: its number and its checksum are read in the plain, and
\* a lost error there makes it the end of the journal, as a wrong checksum.
RecordReads(bytes) ==
  Reads(bytes) \cup
  (IF MayFault /\ Unguarded THEN {Result("ok", Garbage, TRUE)} ELSE {})

\* mcIoWrite of one page.
Writes == {Result("ok", None, FALSE)} \cup
          (IF MayFault THEN {Result("ioerr", None, TRUE)} ELSE {})

\* The log a recovery finds: an error that is lost while its header is read
\* leaves it empty.
RecoveredLogs ==
  {Result("ok", log, FALSE)} \cup
  (IF MayFault /\ Unguarded THEN {Result("ok", Nothing, TRUE)} ELSE {})

-----------------------------------------------------------------------------
Init ==
  /\ kind \in Kinds /\ mode \in Modes
  /\ db \in [Pages -> Vals] /\ committed = db
  /\ log = Nothing /\ jrnl = Nothing /\ cache = Nothing /\ meant = Nothing
  /\ pager = "open" /\ job = "none" /\ todo = {} /\ faults = 0

Source(p) == IF log[p] # None THEN log[p] ELSE db[p]

\* A page is read into the cache.  A failed decryption puts the pager into
\* its error state.
Fetch(p) ==
  /\ Idle /\ cache[p] = None
  /\ \E r \in Reads(Source(p)) :
       /\ cache' = [cache EXCEPT ![p] = r.data]
       /\ pager' = IF r.rc = "ok" THEN "open" ELSE "error"
       /\ Count(r)
  /\ UNCHANGED <<kind, mode, files, meant, committed, job, todo>>

\* Part of a page is changed: garbage stays garbage.  Unless the pager writes
\* a WAL, the page goes into the journal first, and is not changed when that
\* fails.
Write(p, v) ==
  /\ Idle /\ cache[p] # None /\ meant[p] = None /\ v \in Vals
  /\ \E w \in IF mode = "delete" THEN Writes ELSE {Result("ok", None, FALSE)} :
       /\ IF w.rc = "ok"
          THEN /\ jrnl' = IF mode = "delete" THEN [jrnl EXCEPT ![p] = cache[p]] ELSE jrnl
               /\ cache' = [cache EXCEPT ![p] = IF @ = Garbage THEN @ ELSE v]
               /\ meant' = [meant EXCEPT ![p] = v]
          ELSE UNCHANGED <<jrnl, cache, meant>>
       /\ Count(w)
  /\ UNCHANGED <<kind, mode, db, log, committed, pager, job, todo>>

Over(f, g) == [p \in Pages |-> IF g[p] # None THEN g[p] ELSE f[p]]

-----------------------------------------------------------------------------
(* The pages a transaction changed, out of the cache.                      *)

\* Slip: they stay.
DroppedSlip(ps) == cache

Dropped(ps) == [p \in Pages |-> IF p \in ps THEN None ELSE cache[p]]

(* Commit and rollback in WAL mode: the frames are appended, or not.       *)

CommitLog ==
  /\ mode = "wal" /\ Idle /\ In(meant) # {}
  /\ \E w \in Writes :
       /\ IF w.rc = "ok"
          THEN /\ log' = [p \in Pages |-> IF p \in In(meant) THEN cache[p] ELSE log[p]]
               /\ committed' = Over(committed, meant)
               /\ UNCHANGED cache
          ELSE /\ cache' = Dropped(In(meant))
               /\ UNCHANGED <<log, committed>>
       /\ Count(w)
  /\ meant' = Nothing
  /\ UNCHANGED <<kind, mode, db, jrnl, pager, job, todo>>

RollbackLog ==
  /\ mode = "wal" /\ Idle /\ In(meant) # {}
  /\ cache' = Dropped(In(meant)) /\ meant' = Nothing
  /\ UNCHANGED <<kind, mode, files, committed, pager, job, todo, faults>>

-----------------------------------------------------------------------------
(* Commit in mode DELETE: pages are written to the file one by one, then   *)
(* the journal is deleted.  When a write fails, the journal is played back.*)

Begin(j, ps) == job' = j /\ todo' = ps

StartCommit ==
  /\ mode = "delete" /\ Idle /\ In(meant) # {}
  /\ Begin("commit", In(meant))
  /\ UNCHANGED <<kind, mode, files, cache, meant, committed, pager, faults>>

WritePage(p) ==
  /\ job = "commit" /\ p \in todo
  /\ \E w \in Writes :
       /\ IF w.rc = "ok"
          THEN /\ db' = [db EXCEPT ![p] = cache[p]]
               /\ Begin("commit", todo \ {p})
          ELSE /\ Begin("undo", In(jrnl)) /\ UNCHANGED db
       /\ Count(w)
  /\ UNCHANGED <<kind, mode, log, jrnl, cache, meant, committed, pager>>

DeleteJournal == jrnl' = Nothing /\ meant' = Nothing /\ job' = "none"

EndCommit ==
  /\ job = "commit" /\ todo = {}
  /\ DeleteJournal
  /\ committed' = Over(committed, meant)
  /\ UNCHANGED <<kind, mode, db, log, cache, pager, todo, faults>>

\* A transaction that has not reached the file is rolled back in the cache.
Rollback ==
  /\ mode = "delete" /\ Idle /\ In(meant) # {}
  /\ Begin("reload", In(jrnl))
  /\ UNCHANGED <<kind, mode, files, cache, meant, committed, pager, faults>>

\* One record of the journal.  A failed decryption or write leaves the
\* journal behind; a wrong checksum is taken for the end of the journal.
Restore(p) ==
  /\ job \in {"undo", "reload"} /\ p \in todo
  /\ \E r \in RecordReads(jrnl[p]),
        w \in IF job = "undo" THEN Writes ELSE {Result("ok", None, FALSE)} :
       LET ends == r.data = Garbage /\ r.fault
           stop == r.rc # "ok" \/ w.rc # "ok"
       IN  /\ (ends \/ r.rc # "ok") => ~w.fault
           /\ db' = IF ends \/ stop \/ job = "reload" THEN db
                    ELSE [db EXCEPT ![p] = r.data]
           /\ cache' = IF ends \/ stop \/ cache[p] = None THEN cache
                       ELSE [cache EXCEPT ![p] = r.data]
           /\ pager' = IF stop THEN "error" ELSE "open"
           /\ job' = IF stop THEN "none" ELSE job
           /\ todo' = IF ends \/ stop THEN {} ELSE todo \ {p}
           /\ faults' = IF r.fault \/ w.fault THEN faults + 1 ELSE faults
  /\ UNCHANGED <<kind, mode, log, jrnl, meant, committed>>

EndRollback ==
  /\ job \in {"undo", "reload"} /\ todo = {}
  /\ DeleteJournal
  /\ UNCHANGED <<kind, mode, db, log, cache, committed, pager, todo, faults>>

-----------------------------------------------------------------------------
(* Checkpoint: frames are read and written to the database; when all are,  *)
(* the log starts anew.  An error stops it, and the log is kept.           *)

Checkpoint ==
  /\ mode = "wal" /\ Idle /\ meant = Nothing /\ log # Nothing
  /\ Begin("checkpoint", In(log))
  /\ UNCHANGED <<kind, mode, files, cache, meant, committed, pager, faults>>

CopyFrame(p) ==
  /\ job = "checkpoint" /\ p \in todo
  /\ \E r \in Reads(log[p]), w \in Writes :
       LET stop == r.rc # "ok" \/ w.rc # "ok"
       IN  /\ ~(r.fault /\ w.fault)
           /\ db' = IF stop THEN db ELSE [db EXCEPT ![p] = r.data]
           /\ pager' = IF r.rc # "ok" THEN "error" ELSE "open"
           /\ job' = IF stop THEN "none" ELSE "checkpoint"
           /\ todo' = IF stop THEN {} ELSE todo \ {p}
           /\ faults' = IF r.fault \/ w.fault THEN faults + 1 ELSE faults
  /\ UNCHANGED <<kind, mode, log, jrnl, cache, meant, committed>>

EndCheckpoint ==
  /\ job = "checkpoint" /\ todo = {}
  /\ log' = Nothing /\ job' = "none"
  /\ UNCHANGED <<kind, mode, db, jrnl, cache, meant, committed, pager, todo, faults>>

-----------------------------------------------------------------------------
\* Slip: a journal that was left behind is not played back.
HotSlip == {}

\* The records of a journal that was left behind.
Hot == In(jrnl)

\* The connection leaves its error state, or dies at any time; the database
\* is opened again, and the journal or the log recovered.
Reopen ==
  /\ cache' = Nothing /\ meant' = Nothing /\ pager' = "open"
  /\ \E r \in RecoveredLogs : log' = r.data /\ Count(r)
  /\ Begin(IF jrnl = Nothing THEN "none" ELSE "undo", Hot)
  /\ UNCHANGED <<kind, mode, db, jrnl, committed>>

Next ==
  \/ \E p \in Pages : \/ Fetch(p) \/ WritePage(p) \/ Restore(p) \/ CopyFrame(p)
                      \/ \E v \in Vals : Write(p, v)
  \/ CommitLog \/ RollbackLog \/ StartCommit \/ EndCommit
  \/ Rollback \/ EndRollback \/ Checkpoint \/ EndCheckpoint \/ Reopen

Spec == Init /\ [][Next]_vars

-----------------------------------------------------------------------------
(* Properties.                                                             *)

TypeOK ==
  /\ kind \in Kinds /\ mode \in Modes
  /\ db \in [Pages -> Contents]
  /\ {log, jrnl, cache} \subseteq [Pages -> Contents \cup {None}]
  /\ meant \in [Pages -> Vals \cup {None}] /\ committed \in [Pages -> Vals]
  /\ pager \in {"open", "error"}
  /\ job \in {"none", "commit", "undo", "reload", "checkpoint"}
  /\ todo \subseteq Pages
  /\ faults \in 0 .. MaxFaults

(* Whatever I/O error strikes at whatever step, what was committed is in   *)
(* the files: in the journal while there is one, in the log, or else in    *)
(* the database (readDbPage and walCheckpoint hand on the errors of their  *)
(* reads, mcIoRead does not).                                              *)
CommittedKept ==
  \A p \in Pages :
    committed[p] = IF jrnl[p] # None THEN jrnl[p] ELSE Source(p)

(* While no transaction has changed it, a page in the cache is what was    *)
(* committed last: not what a failed read left in the buffer, nor what a   *)
(* transaction wrote that was rolled back.                                 *)
CacheTrue ==
  pager = "open" =>
    \A p \in In(cache) : meant[p] = None => cache[p] = committed[p]
=============================================================================
