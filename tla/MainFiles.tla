----------------------------- MODULE MainFiles ------------------------------
(***************************************************************************)
(* The main database files of the VFS shim and their codecs, used by       *)
(* several threads.  The shim keeps its open main files in a linked list   *)
(* under a mutex of its own and finds a file by the address of the name    *)
(* its pager gave it; journals and WAL files, sqlite3_key, sqlite3_rekey   *)
(* and the pager all come to a codec through that list.  Most calls hold   *)
(* the mutex of the connection; sqlite3_rekey_v2 looks the codec up before *)
(* it takes that mutex and finishes the codec after it has released it.    *)
(*                                                                         *)
(* A connection has a pager of its own (no shared cache) and stands for    *)
(* it, for its sqlite3mc_file and for the sqlite3 handle.  Buffers of file *)
(* names and codecs are memory that is used again once it is freed.        *)
(***************************************************************************)
EXTENDS Naturals, FiniteSets

CONSTANTS
  Threads,
  Conns,
  Names,        \* addresses of file names
  Codecs,       \* addresses of codecs
  Careless,     \* contracts an application breaks: "rekey", "destroy"
  Null, Nobody

ASSUME FilesAssumption ==
  /\ Careless \subseteq {"rekey", "destroy"} /\ IsFiniteSet(Conns)
  /\ Null \notin Conns \cup Names \cup Codecs /\ Nobody \notin Threads

VARIABLES
  vfs,      \* the shim is "registered" or "freed"
  pMain,    \* first file of the list
  mutex,    \* holder of the mutex of the shim
  file,     \* sqlite3mc_file of each connection
  dbMutex,  \* holder of db->mutex of each connection
  live,     \* codecs that are allocated
  call      \* the call each thread is in

vars == <<vfs, pMain, mutex, file, dbMutex, live, call>>

(* journal is pMainDb of an open journal or WAL file, Null when none is    *)
(* open.                                                                   *)
NoFile == [state |-> "closed", name |-> Null, next |-> Null, codec |-> Null,
           journal |-> Null]

(* A call: op is the interface, pc the step the thread is at, cursor and   *)
(* found those of a search of the list, codec the codec it works with and  *)
(* prev the one it is about to free.                                       *)
NoCall == [op |-> "none", pc |-> "idle", conn |-> Null, cursor |-> Null,
           found |-> Null, codec |-> Null, prev |-> Null]

At(t, pc) == call[t].pc = pc
C(t)      == call[t].conn
Goto(t, pc) == call' = [call EXCEPT ![t].pc = pc]
Return(t)   == call' = [call EXCEPT ![t] = NoCall]

Rekeying == {"rekey", "rekeyAttach", "rekeyRefused", "rekeyDrop"}

(* What an application has to see to: nobody uses a connection that is     *)
(* being opened or closed, and unless it is careless, nobody uses one that *)
(* is being rekeyed, or destroys the shim while a file is opened or closed.*)
Alone(t, c) == \A u \in Threads \ {t} : C(u) # c
MayUse(t, c) ==
  /\ At(t, "idle") /\ file[c].state = "open"
  /\ \A u \in Threads : C(u) = c =>
       /\ call[u].op # "close"
       /\ call[u].op \in Rekeying => "rekey" \in Careless
Call(op, pc, c) == [NoCall EXCEPT !.op = op, !.pc = pc, !.conn = c]

Init ==
  /\ vfs = "registered" /\ pMain = Null /\ mutex = Nobody
  /\ file = [c \in Conns |-> NoFile]
  /\ dbMutex = [c \in Conns |-> Nobody]
  /\ live = {}
  /\ call = [t \in Threads |-> NoCall]

-----------------------------------------------------------------------------
(* The two mutexes.                                                        *)

EnterList(t) == mutex = Nobody /\ mutex' = t
LeaveList == mutex' = Nobody

EnterDb(t, c) == dbMutex[c] = Nobody /\ dbMutex' = [dbMutex EXCEPT ![c] = t]
LeaveDb(c) == dbMutex' = [dbMutex EXCEPT ![c] = Nobody]

-----------------------------------------------------------------------------
(* Opening a main file.  The name belongs to the pager.                    *)

\* Slip: the field codec keeps what lies in the memory of the file.
FreshSlip(n) ==
  [NoFile EXCEPT !.state = "opening", !.name = n, !.codec = Nobody]

\* The fields mcVfsOpen sets.
Fresh(n) == [NoFile EXCEPT !.state = "opening", !.name = n]

OpenDb(t, c) ==
  /\ At(t, "idle") /\ vfs = "registered" /\ file[c].state = "closed"
  /\ "destroy" \in Careless \/ \A u \in Threads : call[u].op # "destroy"
  /\ \E n \in Names \ {file[d].name : d \in Conns} :
       file' = [file EXCEPT ![c] = Fresh(n)]
  /\ call' = [call EXCEPT ![t] = Call("open", "xOpen", c)]
  /\ UNCHANGED <<vfs, pMain, mutex, dbMutex, live>>

\* The open of the underlying VFS succeeds, and the file is registered.
XOpen(t) ==
  /\ At(t, "xOpen")
  /\ Goto(t, "addEnter")
  /\ UNCHANGED <<vfs, pMain, mutex, file, dbMutex, live>>

\* Or it fails, and the pager is freed with the name.
XOpenFails(t) ==
  /\ At(t, "xOpen")
  /\ file' = [file EXCEPT ![C(t)] = NoFile]
  /\ Return(t)
  /\ UNCHANGED <<vfs, pMain, mutex, dbMutex, live>>

AddEnter(t) ==
  /\ At(t, "addEnter") /\ EnterList(t)
  /\ Goto(t, "addNext")
  /\ UNCHANGED <<vfs, pMain, file, dbMutex, live>>

AddNext(t) ==
  /\ At(t, "addNext")
  /\ file' = [file EXCEPT ![C(t)].next = pMain]
  /\ Goto(t, "addMain")
  /\ UNCHANGED <<vfs, pMain, mutex, dbMutex, live>>

AddMain(t) ==
  /\ At(t, "addMain")
  /\ pMain' = C(t)
  /\ file' = [file EXCEPT ![C(t)].state = "open"]
  /\ LeaveList /\ Return(t)
  /\ UNCHANGED <<vfs, dbMutex, live>>

-----------------------------------------------------------------------------
(* The search for the file with the name of the pager.                     *)

\* Where each call goes on after a search.
AfterFind == [key |-> "swap", journal |-> "attach", rekey |-> "get",
              rekeyAttach |-> "swap", rekeyDrop |-> "swap"]

FindEnter(t) ==
  /\ At(t, "find") /\ EnterList(t)
  /\ call' = [call EXCEPT ![t].pc = "walk", ![t].cursor = pMain]
  /\ UNCHANGED <<vfs, pMain, file, dbMutex, live>>

\* Slip: names are compared by content, and all files are the same database.
WalkEndsSlip(t) == TRUE

WalkEnds(t) ==
  LET f == call[t].cursor
  IN  f = Null \/ file[f].name = file[C(t)].name

FindNext(t) ==
  /\ At(t, "walk") /\ ~WalkEnds(t)
  /\ call' = [call EXCEPT ![t].cursor = file[@].next]
  /\ UNCHANGED <<vfs, pMain, mutex, file, dbMutex, live>>

FindLeave(t) ==
  /\ At(t, "walk") /\ WalkEnds(t)
  /\ LeaveList
  /\ call' = [call EXCEPT ![t].pc = AfterFind[call[t].op],
                          ![t].found = call[t].cursor, ![t].cursor = Null]
  /\ UNCHANGED <<vfs, pMain, file, dbMutex, live>>

-----------------------------------------------------------------------------
(* sqlite3mcSetCodec: the codec of the call takes the place of that of the *)
(* file, which is freed; without a file the codec of the call is freed.    *)

SwapCodec(t) ==
  LET f == call[t].found
      c == IF call[t].op = "rekeyDrop" THEN Null ELSE call[t].codec
  IN  /\ At(t, "swap")
      /\ file' = IF f = Null THEN file ELSE [file EXCEPT ![f].codec = c]
      /\ call' = [call EXCEPT ![t].pc = "free",
                              ![t].prev = IF f = Null THEN c ELSE file[f].codec]
      /\ UNCHANGED <<vfs, pMain, mutex, dbMutex, live>>

\* Slip: the codec that was replaced is not freed.
FreedSlip(t) == {}

\* Slip: the codec that was just attached is freed.
FreedNewSlip(t) == {call[t].codec} \ {Null}

\* sqlite3mcCodecFree.
Freed(t) == {call[t].prev}

\* A key is set under the mutex of the connection, which is left now.
FreeCodec(t) ==
  /\ At(t, "free")
  /\ live' = live \ Freed(t)
  /\ \/ /\ call[t].op = "key"
        /\ LeaveDb(C(t)) /\ Return(t)
     \/ /\ call[t].op = "rekeyAttach"
        /\ call' = [call EXCEPT ![t].pc = "work", ![t].prev = Null]
        /\ UNCHANGED dbMutex
     \/ /\ call[t].op = "rekeyDrop"
        /\ Return(t) /\ UNCHANGED dbMutex
  /\ UNCHANGED <<vfs, pMain, mutex, file>>

-----------------------------------------------------------------------------
(* The cipher of a new codec is set up with the key.                       *)

\* In a rekey the codec of a plain database is attached before it encrypts.
SetupCipher(t) ==
  /\ At(t, "setup")
  /\ call' = [call EXCEPT ![t].op = IF @ = "key" THEN "key" ELSE "rekeyAttach",
                          ![t].pc = "find"]
  /\ UNCHANGED <<vfs, pMain, mutex, file, dbMutex, live>>

\* Slip: the exit leaves db->mutex locked.
LeaveSetupSlip(t) == UNCHANGED dbMutex

\* Every exit after the mutex was entered leaves it.
LeaveSetup(t) == LeaveDb(C(t))

\* That fails: the codec is freed, the one of the file stays.
SetupFails(t) ==
  /\ At(t, "setup")
  /\ live' = live \ {call[t].codec}
  /\ LeaveSetup(t) /\ Return(t)
  /\ UNCHANGED <<vfs, pMain, mutex, file>>

\* Slip: the exit frees the codec, which the end of the rekey completes.
PageSizeDiffersSlip(t) ==
  /\ At(t, "setup") /\ call[t].op = "rekey"
  /\ live' = live \ {call[t].codec}
  /\ call' = [call EXCEPT ![t].op = "rekeyRefused", ![t].pc = "finish"]
  /\ LeaveSetup(t)
  /\ UNCHANGED <<vfs, pMain, mutex, file>>

\* A rekey of a plain database to a cipher with another page size is refused:
\* the codec is neither attached nor freed, and the rekey goes on to its end.
PageSizeDiffers(t) ==
  /\ At(t, "setup") /\ call[t].op = "rekey"
  /\ call' = [call EXCEPT ![t].op = "rekeyRefused", ![t].pc = "finish"]
  /\ LeaveSetup(t)
  /\ UNCHANGED <<vfs, pMain, mutex, file, live>>

-----------------------------------------------------------------------------
(* sqlite3_key, with a key or with an empty one, which removes the codec;  *)
(* reading or writing a page of the database or of its journal; opening    *)
(* and closing the journal.  All hold the mutex of the connection.         *)

Key(t, c) ==
  /\ MayUse(t, c) /\ EnterDb(t, c)
  /\ \E new \in (Codecs \ live) \cup {Null} :
       /\ live' = live \cup ({new} \ {Null})
       /\ LET pc == IF new = Null THEN "find" ELSE "setup"
          IN  call' = [call EXCEPT ![t] = [Call("key", pc, c) EXCEPT !.codec = new]]
  /\ UNCHANGED <<vfs, pMain, mutex, file>>

\* Page I/O finds the codec in the main file, and journals through pMainDb.
UsePage(t, c) ==
  /\ MayUse(t, c) /\ EnterDb(t, c)
  /\ \E f \in {c, file[c].journal} \ {Null} :
       call' = [call EXCEPT ![t] =
                  [Call("page", "codec", c) EXCEPT !.codec = file[f].codec]]
  /\ UNCHANGED <<vfs, pMain, mutex, file, live>>

PageDone(t) ==
  /\ At(t, "codec")
  /\ LeaveDb(C(t)) /\ Return(t)
  /\ UNCHANGED <<vfs, pMain, mutex, file, live>>

OpenJournal(t, c) ==
  /\ MayUse(t, c) /\ file[c].journal = Null /\ EnterDb(t, c)
  /\ call' = [call EXCEPT ![t] = Call("journal", "find", c)]
  /\ UNCHANGED <<vfs, pMain, mutex, file, live>>

AttachJournal(t) ==
  /\ At(t, "attach")
  /\ file' = [file EXCEPT ![C(t)].journal = call[t].found]
  /\ LeaveDb(C(t)) /\ Return(t)
  /\ UNCHANGED <<vfs, pMain, mutex, live>>

CloseJournal(t, c) ==
  /\ MayUse(t, c) /\ file[c].journal # Null /\ dbMutex[c] = Nobody
  /\ file' = [file EXCEPT ![c].journal = Null]
  /\ UNCHANGED <<vfs, pMain, mutex, dbMutex, live, call>>

-----------------------------------------------------------------------------
(* sqlite3_rekey_v2.                                                       *)

Rekey(t, c) ==
  /\ MayUse(t, c)
  /\ "rekey" \in Careless \/ Alone(t, c)
  /\ call' = [call EXCEPT ![t] = Call("rekey", "find", c)]
  /\ UNCHANGED <<vfs, pMain, mutex, file, dbMutex, live>>

CodecFound(t) == IF call[t].found = Null THEN Null ELSE file[call[t].found].codec

\* The codec is read before db->mutex is entered.
GetCodec(t) ==
  /\ At(t, "get")
  /\ call' = [call EXCEPT ![t].codec = CodecFound(t), ![t].pc = "enter"]
  /\ UNCHANGED <<vfs, pMain, mutex, file, dbMutex, live>>

\* Neither a key nor a codec: nothing to do.
RekeyNothing(t) ==
  /\ At(t, "get") /\ CodecFound(t) = Null
  /\ Return(t)
  /\ UNCHANGED <<vfs, pMain, mutex, file, dbMutex, live>>

RekeyEnter(t) ==
  /\ At(t, "enter") /\ EnterDb(t, C(t))
  /\ \/ /\ call[t].codec # Null
        /\ Goto(t, "work") /\ UNCHANGED live
     \/ /\ call[t].codec = Null
        /\ \E new \in Codecs \ live :
             /\ live' = live \cup {new}
             /\ call' = [call EXCEPT ![t].codec = new, ![t].pc = "setup"]
  /\ UNCHANGED <<vfs, pMain, mutex, file>>

\* No memory for a codec: the mutex is entered and left.
RekeyNoMemory(t) ==
  /\ At(t, "enter") /\ dbMutex[C(t)] = Nobody /\ call[t].codec = Null
  /\ Return(t)
  /\ UNCHANGED <<vfs, pMain, mutex, file, dbMutex, live>>

\* The pages are rewritten with the codec, then the mutex is left.
RekeyLeave(t) ==
  /\ At(t, "work")
  /\ LeaveDb(C(t)) /\ Goto(t, "finish")
  /\ UNCHANGED <<vfs, pMain, mutex, file, live>>

\* The keys of the codec are completed; unless the database is plain now,
\* that is all.
RekeyFinish(t) ==
  /\ At(t, "finish") /\ call[t].op # "rekeyRefused"
  /\ Return(t)
  /\ UNCHANGED <<vfs, pMain, mutex, file, dbMutex, live>>

\* A database that is plain is left without a codec.  The one of a rekey that
\* was refused is forgotten here.
RekeyDrop(t) ==
  /\ At(t, "finish")
  /\ call' = [call EXCEPT ![t].op = "rekeyDrop", ![t].pc = "find"]
  /\ UNCHANGED <<vfs, pMain, mutex, file, dbMutex, live>>

-----------------------------------------------------------------------------
(* Closing a main file: the pager closes its journal first.  mcIoClose     *)
(* takes the file off the list, frees its codec and closes the real file;  *)
(* the pager is freed with the name.                                       *)

CloseDb(t, c) ==
  /\ MayUse(t, c) /\ Alone(t, c)
  /\ file' = [file EXCEPT ![c].state = "closing", ![c].journal = Null]
  /\ call' = [call EXCEPT ![t] = Call("close", "removeEnter", c)]
  /\ UNCHANGED <<vfs, pMain, mutex, dbMutex, live>>

RemoveEnter(t) ==
  /\ At(t, "removeEnter") /\ EnterList(t)
  /\ Goto(t, "unlink")
  /\ UNCHANGED <<vfs, pMain, file, dbMutex, live>>

\* Slip: a file that is not the first of the list is not taken off.
UnlinkedSlip(c) == [file EXCEPT ![c].next = Null, ![c].state = "unlinked"]

\* The file before c, if there is one, is followed by the file after c.
Unlinked(c) ==
  [d \in Conns |->
     IF d = c THEN [file[c] EXCEPT !.next = Null, !.state = "unlinked"]
     ELSE IF file[d].next = c THEN [file[d] EXCEPT !.next = file[c].next]
     ELSE file[d]]

Unlink(t) ==
  /\ At(t, "unlink")
  /\ pMain' = IF pMain = C(t) THEN file[C(t)].next ELSE pMain
  /\ file' = Unlinked(C(t))
  /\ LeaveList /\ Goto(t, "release")
  /\ UNCHANGED <<vfs, dbMutex, live>>

ReleaseCodec(t) ==
  /\ At(t, "release")
  /\ live' = live \ {file[C(t)].codec}
  /\ file' = [file EXCEPT ![C(t)].codec = Null]
  /\ Goto(t, "xClose")
  /\ UNCHANGED <<vfs, pMain, mutex, dbMutex>>

XClose(t) ==
  /\ At(t, "xClose")
  /\ file' = [file EXCEPT ![C(t)] = NoFile]
  /\ Return(t)
  /\ UNCHANGED <<vfs, pMain, mutex, dbMutex, live>>

-----------------------------------------------------------------------------
(* sqlite3mc_vfs_create and sqlite3mc_vfs_destroy.                         *)

Create(t) ==
  /\ At(t, "idle") /\ vfs = "freed"
  /\ vfs' = "registered"
  /\ UNCHANGED <<pMain, mutex, file, dbMutex, live, call>>

\* Slip: the shim is destroyed whatever files are open.
NoMainFilesSlip == TRUE

\* The list is tested without its mutex.
NoMainFiles == pMain = Null

Destroy(t) ==
  /\ At(t, "idle") /\ vfs = "registered" /\ NoMainFiles
  /\ \/ "destroy" \in Careless
     \/ \A u \in Threads : call[u].op \notin {"open", "close", "destroy"}
  /\ call' = [call EXCEPT ![t] = Call("destroy", "destroy", Null)]
  /\ UNCHANGED <<vfs, pMain, mutex, file, dbMutex, live>>

FreeVfs(t) ==
  /\ At(t, "destroy")
  /\ vfs' = "freed"
  /\ Return(t)
  /\ UNCHANGED <<pMain, mutex, file, dbMutex, live>>

-----------------------------------------------------------------------------
(* The steps of a call under way, those that may wait for a mutex, and the *)
(* calls an application may make.                                          *)

Work(t) ==
  \/ XOpen(t) \/ XOpenFails(t) \/ AddNext(t) \/ AddMain(t)
  \/ FindNext(t) \/ FindLeave(t) \/ SwapCodec(t) \/ FreeCodec(t)
  \/ PageDone(t) \/ AttachJournal(t)
  \/ GetCodec(t) \/ RekeyNothing(t) \/ SetupCipher(t) \/ SetupFails(t)
  \/ PageSizeDiffers(t)
  \/ RekeyLeave(t) \/ RekeyFinish(t) \/ RekeyDrop(t)
  \/ Unlink(t) \/ ReleaseCodec(t) \/ XClose(t) \/ FreeVfs(t)

Wait(t) == AddEnter(t) \/ FindEnter(t) \/ RekeyEnter(t) \/ RekeyNoMemory(t)
           \/ RemoveEnter(t)

Start(t) ==
  \/ \E c \in Conns : \/ OpenDb(t, c) \/ Key(t, c) \/ UsePage(t, c)
                      \/ OpenJournal(t, c) \/ CloseJournal(t, c)
                      \/ Rekey(t, c) \/ CloseDb(t, c)
  \/ Create(t) \/ Destroy(t)

Next == \E t \in Threads : Work(t) \/ Wait(t) \/ Start(t)

Spec == Init /\ [][Next]_vars

(* The scheduler runs every thread, and a mutex that is released again and *)
(* again is granted at last to each that waits for it.                     *)
FairSpec == Spec /\ \A t \in Threads : WF_vars(Work(t)) /\ SF_vars(Wait(t))

-----------------------------------------------------------------------------
(* Properties.                                                             *)

TypeOK ==
  /\ vfs \in {"registered", "freed"}
  /\ pMain \in Conns \cup {Null} /\ mutex \in Threads \cup {Nobody}
  /\ file \in
       [Conns -> [state : {"closed", "opening", "open", "closing", "unlinked"},
                  name : Names \cup {Null}, next : Conns \cup {Null},
                  codec : Codecs \cup {Null}, journal : Conns \cup {Null}]]
  /\ dbMutex \in [Conns -> Threads \cup {Nobody}]
  /\ live \subseteq Codecs
  /\ \A t \in Threads :
       /\ C(t) \in Conns \cup {Null} /\ call[t].cursor \in Conns \cup {Null}
       /\ call[t].found \in Conns \cup {Null}
       /\ call[t].codec \in Codecs \cup {Null} /\ call[t].prev \in Codecs \cup {Null}

\* The files of the list, in its order; Null after the last one.
Chain[i \in 0 .. Cardinality(Conns)] ==
  IF i = 0 THEN pMain
  ELSE IF Chain[i - 1] = Null THEN Null ELSE file[Chain[i - 1]].next

(* Whenever nobody holds the mutex of the shim, its list ends, and it has  *)
(* every open main file and no other (mcMainListAdd, mcMainListRemove).    *)
ListIsOpenFiles ==
  mutex = Nobody =>
    LET n == Cardinality(Conns)
    IN  /\ Chain[n] = Null
        /\ {Chain[i] : i \in 0 .. n} \ {Null}
              = {c \in Conns : file[c].state \in {"open", "closing"}}

(* A search by the address of a file name finds the file of the caller:    *)
(* neither none nor that of another connection whose name lies, or lay, in *)
(* the same memory (mcFindDbMainFileName).  sqlite3_rekey_v2 would go on   *)
(* with a freed codec if sqlite3mcSetCodec did not find the file.          *)
FindsOwn ==
  \A t \in Threads : call[t].pc \in {"swap", "attach", "get"} => call[t].found = C(t)

(* The codec a thread reads or writes pages with, rewrites a database with *)
(* or completes at the end of a rekey has not been freed, and it is the    *)
(* one of its file; only a rekey that was refused completes a codec that   *)
(* no file has.                                                            *)
CodecInUse ==
  \A t \in Threads :
    /\ call[t].pc \in {"work", "finish"} => call[t].codec \in live
    /\ call[t].pc \in {"codec", "work", "finish"} =>
         IF call[t].op = "rekeyRefused"
           THEN \A c \in Conns : file[c].codec # call[t].codec
           ELSE call[t].codec = file[C(t)].codec /\ call[t].codec \in live \cup {Null}

\* The owners of codecs: files, and calls about to attach or to free one.
Attached == {c \in Conns : file[c].codec # Null}
New(t) ==
  \/ At(t, "setup")
  \/ call[t].op \in {"key", "rekeyAttach"} /\ call[t].pc \in {"find", "walk", "swap"}
  \/ call[t].op = "rekeyRefused"
Held(t) == ({call[t].prev} \cup IF New(t) THEN {call[t].codec} ELSE {}) \ {Null}
Owned == {file[c].codec : c \in Attached} \cup UNION {Held(t) : t \in Threads}

(* No codec has two owners, and one that has an owner is not freed.        *)
CodecsOwned ==
  /\ Owned \subseteq live
  /\ \A c, d \in Attached : c # d => file[c].codec # file[d].codec
  /\ \A t \in Threads, c \in Attached : file[c].codec \notin Held(t)
  /\ \A t, u \in Threads : t # u => Held(t) \cap Held(u) = {}

(* On every other exit of sqlite3_key and sqlite3_rekey, and when a file   *)
(* is closed, a codec that loses its owner is freed: only the end of a     *)
(* rekey refused for its page size forgets the codec it had allocated.     *)
OnlyRefusedLost ==
  [][\A k \in (live' \ Owned') \ (live \ Owned) :
       \E t \in Threads :
         call[t].op = "rekeyRefused" /\ At(t, "finish") /\ call[t].codec = k]_vars

(* The shim is not freed while a file is opened, open or closed with it    *)
(* (mcVfsDestroy tests the list without the mutex).                        *)
VfsKept ==
  vfs = "freed" => mutex = Nobody /\ \A c \in Conns : file[c].state = "closed"

(* Every call returns: no exit of it keeps the mutex of the shim or of the *)
(* connection, and no two calls wait for each other.                       *)
CallsReturn == \A t \in Threads : call[t].pc # "idle" ~> call[t].pc = "idle"
=============================================================================
