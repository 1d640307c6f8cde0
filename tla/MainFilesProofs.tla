-------------------------- MODULE MainFilesProofs ---------------------------
(***************************************************************************)
(* Theorems about MainFiles, for every number of threads, connections,     *)
(* names and codecs: the list of main files is the set of open files, and  *)
(* a search of it finds the file of the caller; if nobody uses a           *)
(* connection during its rekey, no codec has two owners or is freed while  *)
(* it has one, and only a rekey that is refused loses the codec it had     *)
(* allocated; if nobody opens or closes files while the shim is destroyed, *)
(* it is not freed under them.                                             *)
(***************************************************************************)
EXTENDS MainFiles, FiniteSetTheorems, WellFoundedInduction, TLAPS

Op(t) == call[t].op

\* The calls of an application on an open connection.
Users == {"key", "page", "journal", "rekey", "rekeyAttach", "rekeyRefused",
          "rekeyDrop"}

\* The steps at which a thread holds the mutex of the shim.
InList(t) == call[t].pc \in {"addNext", "addMain", "walk", "unlink"}

-----------------------------------------------------------------------------
(* The first invariant.  It holds whatever the application does.           *)

Ops == Users \cup {"none", "open", "close", "destroy"}
Pcs == {"idle", "xOpen", "addEnter", "addNext", "addMain", "find", "walk", "swap",
        "free", "setup", "codec", "attach", "get", "enter", "work", "finish",
        "removeEnter", "unlink", "release", "xClose", "destroy"}

Calls == [op : Ops, pc : Pcs, conn : Conns \cup {Null},
          cursor : Conns \cup {Null}, found : Conns \cup {Null},
          codec : Codecs \cup {Null}, prev : Codecs \cup {Null}]

TypeInv == TypeOK /\ call \in [Threads -> Calls]

\* The steps of each call.
Shape(t) ==
  \/ Op(t) = "none" /\ At(t, "idle") /\ C(t) = Null
  \/ Op(t) = "destroy" /\ At(t, "destroy") /\ C(t) = Null
  \/ /\ C(t) \in Conns
     /\ \/ Op(t) = "open" /\ call[t].pc \in {"xOpen", "addEnter", "addNext", "addMain"}
        \/ Op(t) = "close" /\ call[t].pc \in {"removeEnter", "unlink", "release", "xClose"}
        \/ Op(t) = "page" /\ At(t, "codec")
        \/ Op(t) = "journal" /\ call[t].pc \in {"find", "walk", "attach"}
        \/ Op(t) = "key" /\ call[t].pc \in {"setup", "find", "walk", "swap", "free"}
        \/ Op(t) = "rekey" /\ call[t].pc \in {"find", "walk", "get", "enter", "setup",
                                              "work", "finish"}
        \/ Op(t) = "rekeyAttach" /\ call[t].pc \in {"find", "walk", "swap", "free",
                                                    "work", "finish"}
        \/ Op(t) = "rekeyRefused" /\ At(t, "finish")
        \/ Op(t) = "rekeyDrop" /\ call[t].pc \in {"find", "walk", "swap", "free"}

\* What a call relies on: the state of its file, and what it has found.
Relies(t) ==
  /\ Op(t) = "open" => file[C(t)].state = "opening"
  /\ Op(t) = "close" =>
       file[C(t)].state = IF call[t].pc \in {"removeEnter", "unlink"} THEN "closing"
                                                                      ELSE "unlinked"
  /\ Op(t) \in Users => file[C(t)].state = "open"
  /\ At(t, "addMain") => file[C(t)].next = pMain
  /\ call[t].pc \in {"swap", "attach", "get"} => call[t].found = C(t)

CallInv == \A t \in Threads : Shape(t) /\ Relies(t)

MutexInv == \A t \in Threads : mutex = t <=> InList(t)

\* A file that is being opened or closed is used by nobody else.
AloneInv ==
  \A t, u \in Threads :
    t # u /\ C(t) = C(u) /\ Op(t) \in {"open", "close"} => C(t) = Null

\* What is known of a file in each of its states.
FileOK(c) ==
  /\ file[c].journal \in {Null, c}
  /\ file[c].state = "closed" => file[c].name = Null /\ file[c].next = Null
  /\ file[c].state # "closed" => file[c].name # Null
  /\ file[c].state = "opening" =>
       \E t \in Threads : /\ C(t) = c /\ Op(t) = "open"
                          /\ file[c].next # Null => At(t, "addMain")
  /\ file[c].state \in {"closing", "unlinked"} =>
       \E t \in Threads : C(t) = c /\ Op(t) = "close"
  /\ file[c].state = "unlinked" => file[c].next = Null

NameInv ==
  \A c, d \in Conns : c # d /\ file[c].name = file[d].name => file[c].name = Null

FileInv == \A c \in Conns : FileOK(c)

\* The list as a sequence: the files that are open or about to be taken off.
\* A search has not passed the file it is made for.
Linked(n, S) ==
  /\ S \in [1 .. n -> Conns]
  /\ \A i, j \in 1 .. n : S[i] = S[j] => i = j
  /\ pMain = IF n = 0 THEN Null ELSE S[1]
  /\ \A i \in 1 .. n : file[S[i]].next = IF i = n THEN Null ELSE S[i + 1]
  /\ \A c \in Conns :
       file[c].state \in {"open", "closing"} <=> \E i \in 1 .. n : S[i] = c

Ahead(n, S, t) ==
  \E i, j \in 1 .. n : i <= j /\ call[t].cursor = S[i] /\ C(t) = S[j]

ListOK(n, S) ==
  Linked(n, S) /\ \A t \in Threads : At(t, "walk") => Ahead(n, S, t)

ListInv == \E n \in Nat : \E S \in [1 .. n -> Conns] : ListOK(n, S)

IInv == TypeInv /\ CallInv /\ MutexInv /\ AloneInv /\ FileInv /\ NameInv /\ ListInv

-----------------------------------------------------------------------------
(* Initial states, and the steps that leave the list alone.                *)

\* Nothing is open and no call is under way at first.
LEMMA InitIInv == Init => IInv
<1> SUFFICES ASSUME Init PROVE IInv
  OBVIOUS
<1>1. TypeInv
  <2>1. call \in [Threads -> Calls]
    BY DEF Init, Calls, NoCall, Ops, Pcs, Users
  <2>2. file \in
          [Conns -> [state : {"closed", "opening", "open", "closing", "unlinked"},
                     name : Names \cup {Null}, next : Conns \cup {Null},
                     codec : Codecs \cup {Null}, journal : Conns \cup {Null}]]
    BY DEF Init, NoFile
  <2> QED
    BY <2>1, <2>2 DEF Init, TypeInv, TypeOK, NoCall, C
<1>2. CallInv /\ MutexInv /\ AloneInv
  BY FilesAssumption
     DEF Init, CallInv, Shape, Relies, MutexInv, InList, AloneInv, NoCall, C, Op, At, Users
<1>3. FileInv /\ NameInv
  BY DEF Init, FileInv, FileOK, NameInv, NoFile
<1>4. ListInv
  <2> DEFINE S == [i \in 1 .. 0 |-> Null]
  <2>1. S \in [1 .. 0 -> Conns] /\ \A i \in 1 .. 0 : FALSE
    OBVIOUS
  <2>2. ListOK(0, S)
    BY <2>1 DEF Init, ListOK, Linked, NoFile, NoCall, At
  <2> HIDE DEF S
  <2> QED
    BY <2>1, <2>2 DEF ListInv
<1> QED
  BY <1>1, <1>2, <1>3, <1>4 DEF IInv

\* A step of one thread that neither is about the list nor opens or closes a
\* file, and after which the thread itself is as it should be.
Quiet(t) ==
  /\ UNCHANGED <<pMain, mutex>>
  /\ \A c \in Conns : /\ file'[c].state = file[c].state
                      /\ file'[c].name = file[c].name
                      /\ file'[c].next = file[c].next
                      /\ file'[c].journal \in {Null, c}
  /\ \A u \in Threads \ {t} : call'[u] = call[u]
  /\ Shape(t)' /\ Relies(t)'
  /\ ~InList(t) /\ ~InList(t)'
  /\ \/ Op(t)' = Op(t) /\ C(t)' = C(t)
     \/ /\ Op(t) \notin {"open", "close"} /\ Op(t)' \notin {"open", "close"}
        /\ C(t)' = Null \/ file[C(t)'].state = "open"

\* A quiet step keeps the first invariant.
LEMMA QuietStep ==
  ASSUME IInv, TypeInv', NEW t \in Threads, Quiet(t)
  PROVE  IInv'
<1> USE DEF Quiet
<1>1. CallInv'
  <2> SUFFICES ASSUME NEW u \in Threads, u # t PROVE (Shape(u) /\ Relies(u))'
    BY DEF CallInv
  <2>1. call'[u] = call[u] /\ Shape(u) /\ Relies(u)
    BY DEF IInv, CallInv
  <2> QED
    BY <2>1 DEF Shape, Relies, C, Op, At, Users
<1>2. MutexInv'
  BY DEF IInv, MutexInv, InList
<1>3. AloneInv'
  BY DEF IInv, AloneInv, CallInv, Relies, C, Op, At
<1>4. FileInv'
  BY DEF IInv, FileInv, FileOK, C, Op, At, InList
<1>5. NameInv'
  BY DEF IInv, NameInv
<1>6. ListInv'
  <2> PICK n \in Nat : \E S \in [1 .. n -> Conns] : ListOK(n, S)
    BY DEF IInv, ListInv
  <2> PICK S \in [1 .. n -> Conns] : ListOK(n, S)
    OBVIOUS
  <2>1. Linked(n, S)'
    BY DEF ListOK, Linked
  <2>2. ASSUME NEW u \in Threads, At(u, "walk")'
        PROVE  Ahead(n, S, u)'
    <3>1. u # t /\ call'[u] = call[u]
      BY <2>2 DEF InList, At
    <3>2. Ahead(n, S, u)
      BY <2>2, <3>1 DEF ListOK, At
    <3> QED
      BY <3>1, <3>2 DEF Ahead, C
  <2> QED
    BY <2>1, <2>2 DEF ListInv, ListOK
<1> QED
  BY <1>1, <1>2, <1>3, <1>4, <1>5, <1>6 DEF IInv

(* Every action keeps the types.                                           *)

\* What TypeOK says of a call is the type of its record.
LEMMA CallsTyped ==
  ASSUME call \in [Threads -> Calls], NEW t \in Threads
  PROVE  /\ C(t) \in Conns \cup {Null} /\ call[t].cursor \in Conns \cup {Null}
         /\ call[t].found \in Conns \cup {Null}
         /\ call[t].codec \in Codecs \cup {Null} /\ call[t].prev \in Codecs \cup {Null}
BY DEF Calls, C

Files == [state : {"closed", "opening", "open", "closing", "unlinked"},
          name : Names \cup {Null}, next : Conns \cup {Null},
          codec : Codecs \cup {Null}, journal : Conns \cup {Null}]

Vars == /\ vfs \in {"registered", "freed"}
        /\ pMain \in Conns \cup {Null} /\ mutex \in Threads \cup {Nobody}
        /\ file \in [Conns -> Files]
        /\ dbMutex \in [Conns -> Threads \cup {Nobody}]
        /\ live \subseteq Codecs
        /\ call \in [Threads -> Calls]

\* A file in which one field changes stays one.
LEMMA FileFields ==
  ASSUME NEW f \in Files
  PROVE  /\ \A x \in Conns \cup {Null} : [f EXCEPT !.next = x] \in Files
         /\ \A x \in Conns \cup {Null} : [f EXCEPT !.journal = x] \in Files
         /\ \A x \in Codecs \cup {Null} : [f EXCEPT !.codec = x] \in Files
         /\ [f EXCEPT !.state = "open"] \in Files
BY DEF Files

\* So does a call that goes on.
LEMMA CallFields ==
  ASSUME NEW r \in Calls
  PROVE  /\ \A x \in Conns \cup {Null} : [r EXCEPT !.pc = "walk", !.cursor = x] \in Calls
         /\ \A x \in Codecs \cup {Null} : [r EXCEPT !.pc = "free", !.prev = x] \in Calls
         /\ \A x \in Codecs \cup {Null} : [r EXCEPT !.codec = x, !.pc = "setup"] \in Calls
<1>1. \A x \in Conns \cup {Null} : [r EXCEPT !.pc = "walk", !.cursor = x] \in Calls
  BY DEF Calls, Pcs
<1>2. \A x \in Codecs \cup {Null} : [r EXCEPT !.pc = "free", !.prev = x] \in Calls
  BY DEF Calls, Pcs
<1>3. \A x \in Codecs \cup {Null} : [r EXCEPT !.codec = x, !.pc = "setup"] \in Calls
  BY DEF Calls, Pcs
<1> QED
  BY <1>1, <1>2, <1>3

\* The type invariant, one variable at a time.
LEMMA TypeInvIsVars == TypeInv <=> Vars
BY CallsTyped DEF TypeInv, TypeOK, Vars, Files

\* The same of the next state.
LEMMA TypeInvIsVarsNext == TypeInv' <=> Vars'
BY TypeInvIsVars, PTL

\* Every operation of the shim and of the interface keeps the types.
LEMMA StepTypes ==
  ASSUME Vars, CallInv, NEW t \in Threads, Work(t) \/ Wait(t) \/ Start(t)
  PROVE  Vars'
<1>1. CASE XOpen(t)
  BY <1>1 DEF XOpen, Vars, Files, Calls, Ops, Pcs, Users, C, At, Goto
<1>2. CASE XOpenFails(t)
  BY <1>2 DEF XOpenFails, Vars, Files, Calls, Ops, Pcs, Users, C, At, Return, NoCall, NoFile
<1>3. CASE AddEnter(t)
  BY <1>3 DEF AddEnter, Vars, Files, Calls, Ops, Pcs, Users, C, At, Goto, EnterList
<1>4. CASE AddNext(t)
  <2>1. call' \in [Threads -> Calls]
    BY <1>4 DEF AddNext, Vars, Calls, Ops, Pcs, Users, C, At, Goto
  <2>2. file' \in [Conns -> Files]
    <3>1. C(t) \in Conns
      BY <1>4 DEF AddNext, CallInv, Shape, At
    <3>2. file' = [file EXCEPT ![C(t)] = [file[C(t)] EXCEPT !.next = pMain]]
      BY <1>4 DEF AddNext
    <3>3. [file[C(t)] EXCEPT !.next = pMain] \in Files
      BY <3>1, FileFields DEF Vars
    <3> QED
      BY <3>2, <3>3 DEF Vars
  <2> QED
    BY <1>4, <2>1, <2>2 DEF AddNext, Vars, Calls, C, At, Goto
<1>5. CASE AddMain(t)
  <2>1. call' \in [Threads -> Calls]
    BY <1>5 DEF AddMain, Vars, Calls, Ops, Pcs, Users, C, At, Return, NoCall, LeaveList
  <2>2. file' \in [Conns -> Files]
    <3>1. C(t) \in Conns
      BY <1>5 DEF AddMain, CallInv, Shape, At
    <3>2. file' = [file EXCEPT ![C(t)] = [file[C(t)] EXCEPT !.state = "open"]]
      BY <1>5 DEF AddMain
    <3>3. [file[C(t)] EXCEPT !.state = "open"] \in Files
      BY <3>1, FileFields DEF Vars
    <3> QED
      BY <3>2, <3>3 DEF Vars
  <2> QED
    BY <1>5, <2>1, <2>2 DEF AddMain, Vars, Calls, C, At, Return, NoCall, LeaveList
<1>6. CASE FindEnter(t)
  <2>1. call' = [call EXCEPT ![t] = [call[t] EXCEPT !.pc = "walk", !.cursor = pMain]]
    BY <1>6 DEF FindEnter, EnterList
  <2>2. [call[t] EXCEPT !.pc = "walk", !.cursor = pMain] \in Calls
    BY CallFields DEF Vars
  <2> QED
    BY <1>6, <2>1, <2>2 DEF FindEnter, Vars, EnterList
<1>7. CASE FindNext(t)
  BY <1>7 DEF FindNext, Vars, Files, Calls, Ops, Pcs, Users, C, At, WalkEnds
<1>8. CASE FindLeave(t)
  <2>1. call' = [call EXCEPT ![t] = [call[t] EXCEPT !.pc = AfterFind[call[t].op], !.found = call[t].cursor,
                                                    !.cursor = Null]]
    BY <1>8 DEF FindLeave
  <2>2. AfterFind[Op(t)] \in Pcs
    BY <1>8 DEF FindLeave, CallInv, Shape, At, AfterFind, Pcs
  <2>3. [call[t] EXCEPT !.pc = AfterFind[call[t].op], !.found = call[t].cursor,
                                                    !.cursor = Null] \in Calls
    BY <2>2 DEF Vars, Calls, Op
  <2> QED
    BY <1>8, <2>1, <2>3 DEF FindLeave, LeaveList, Vars
<1>9. CASE SwapCodec(t)
  <2> DEFINE f == call[t].found
             c == IF Op(t) = "rekeyDrop" THEN Null ELSE call[t].codec
             p == IF f = Null THEN c ELSE file[f].codec
  <2>1. f \in Conns \cup {Null} /\ c \in Codecs \cup {Null} /\ p \in Codecs \cup {Null}
    BY DEF Vars, Calls, Files
  <2>2. /\ call' = [call EXCEPT ![t] = [call[t] EXCEPT !.pc = "free", !.prev = p]]
        /\ file' = IF f = Null THEN file ELSE [file EXCEPT ![f].codec = c]
    BY <1>9 DEF SwapCodec, Op
  <2> HIDE DEF f, c, p
  <2>3. [call[t] EXCEPT !.pc = "free", !.prev = p] \in Calls
    BY <2>1, CallFields DEF Vars
  <2>4. file' \in [Conns -> Files]
    <3>1. CASE f = Null
      BY <2>2, <3>1 DEF Vars
    <3>2. CASE f # Null
      <4>1. [file[f] EXCEPT !.codec = c] \in Files
        BY <2>1, <3>2, FileFields DEF Vars
      <4>2. file' = [file EXCEPT ![f] = [file[f] EXCEPT !.codec = c]]
        BY <2>2, <3>2
      <4> QED
        BY <4>1, <4>2 DEF Vars
    <3> QED
      BY <3>1, <3>2
  <2> QED
    BY <1>9, <2>2, <2>3, <2>4 DEF SwapCodec, Vars
<1>10. CASE FreeCodec(t)
  BY <1>10 DEF FreeCodec, Vars, Files, Calls, Ops, Pcs, Users, C, At, Freed, LeaveDb,
       Return, NoCall
<1>11. CASE SetupCipher(t)
  BY <1>11 DEF SetupCipher, Vars, Files, Calls, Ops, Pcs, Users, C, At
<1>12. CASE SetupFails(t)
  BY <1>12 DEF SetupFails, Vars, Files, Calls, Ops, Pcs, Users, C, At, LeaveSetup, LeaveDb,
       Return, NoCall
<1>13. CASE PageDone(t)
  BY <1>13 DEF PageDone, Vars, Files, Calls, Ops, Pcs, Users, C, At, LeaveDb, Return, NoCall
<1>14. CASE AttachJournal(t)
  <2>1. call[t].found \in Conns \cup {Null} /\ NoCall \in Calls
    BY DEF Vars, Calls, NoCall, Ops, Pcs
  <2>2. file' \in [Conns -> Files]
    <3>1. C(t) \in Conns
      BY <1>14 DEF AttachJournal, CallInv, Shape, At
    <3>2. file' = [file EXCEPT ![C(t)] = [file[C(t)] EXCEPT !.journal = call[t].found]]
      BY <1>14 DEF AttachJournal
    <3>3. [file[C(t)] EXCEPT !.journal = call[t].found] \in Files
      BY <2>1, <3>1, FileFields DEF Vars
    <3> QED
      BY <3>2, <3>3 DEF Vars
  <2> QED
    BY <1>14, <2>1, <2>2 DEF AttachJournal, Vars, LeaveDb, Return
<1>15. CASE GetCodec(t)
  BY <1>15 DEF GetCodec, Vars, Files, Calls, Ops, Pcs, Users, C, At, CodecFound
<1>16. CASE RekeyNothing(t)
  BY <1>16 DEF RekeyNothing, Vars, Files, Calls, Ops, Pcs, Users, C, At, Return, NoCall
<1>17. CASE RekeyEnter(t)
  <2>1. dbMutex' \in [Conns -> Threads \cup {Nobody}]
    BY <1>17 DEF RekeyEnter, Vars, EnterDb
  <2>2. CASE call' = [call EXCEPT ![t].pc = "work"] /\ UNCHANGED live
    <3>1. call' \in [Threads -> Calls]
      BY <2>2 DEF Vars, Calls, Pcs
    <3> QED
      BY <1>17, <2>1, <2>2, <3>1 DEF RekeyEnter, Vars
  <2>3. ASSUME NEW new \in Codecs, live' = live \cup {new},
               call' = [call EXCEPT ![t].codec = new, ![t].pc = "setup"]
        PROVE  Vars'
    <3>1. call' = [call EXCEPT ![t] = [call[t] EXCEPT !.codec = new, !.pc = "setup"]]
      BY <2>3
    <3>2. [call[t] EXCEPT !.codec = new, !.pc = "setup"] \in Calls
      BY CallFields DEF Vars
    <3>3. /\ vfs' = vfs /\ pMain' = pMain /\ mutex' = mutex /\ file' = file
      BY <1>17 DEF RekeyEnter
    <3>4. live' \subseteq Codecs
      BY <2>3 DEF Vars
    <3>5. call' \in [Threads -> Calls]
      BY <3>1, <3>2 DEF Vars
    <3> QED
      BY <2>1, <3>3, <3>4, <3>5 DEF Vars
  <2> QED
    BY <1>17, <2>2, <2>3 DEF RekeyEnter, Goto
<1>18. CASE RekeyLeave(t)
  <2>1. call' \in [Threads -> Calls]
    BY <1>18 DEF RekeyLeave, Vars, Calls, Ops, Pcs, Users, C, At, LeaveDb, Goto
  <2>2. file' \in [Conns -> Files]
    BY <1>18 DEF RekeyLeave, Vars, Files, C, At, LeaveDb, Goto
  <2> QED
    BY <1>18, <2>1, <2>2 DEF RekeyLeave, Vars, Calls, C, At, LeaveDb, Goto
<1>19. CASE RekeyFinish(t)
  BY <1>19 DEF RekeyFinish, Vars, Files, Calls, Ops, Pcs, Users, C, At, Return, NoCall
<1>20. CASE RekeyDrop(t)
  BY <1>20 DEF RekeyDrop, Vars, Files, Calls, Ops, Pcs, Users, C, At
<1>36. CASE PageSizeDiffers(t)
  BY <1>36 DEF PageSizeDiffers, Vars, Files, Calls, Ops, Pcs, Users, C, At, LeaveSetup, LeaveDb
<1>37. CASE RekeyNoMemory(t)
  BY <1>37 DEF RekeyNoMemory, Vars, Files, Calls, Ops, Pcs, Users, C, At, Return, NoCall
<1>21. CASE RemoveEnter(t)
  BY <1>21 DEF RemoveEnter, Vars, Files, Calls, Ops, Pcs, Users, C, At, EnterList, Goto
<1>22. CASE Unlink(t)
  <2>1. C(t) \in Conns
    BY <1>22 DEF Unlink, CallInv, Shape, At
  <2>2. pMain' \in Conns \cup {Null}
    BY <1>22, <2>1 DEF Unlink, Vars, Files
  <2>3. call' \in [Threads -> Calls]
    BY <1>22 DEF Unlink, Goto, Vars, Calls, Pcs
  <2>4. ASSUME NEW d \in Conns
        PROVE  Unlinked(C(t))[d] \in Files
    <3>1. file[d] \in Files /\ file[C(t)] \in Files /\ file[C(t)].next \in Conns \cup {Null}
      BY <2>1 DEF Vars, Files
    <3>2. [file[C(t)] EXCEPT !.next = Null, !.state = "unlinked"] \in Files
      BY <3>1 DEF Files
    <3>3. [file[d] EXCEPT !.next = file[C(t)].next] \in Files
      BY <3>1 DEF Files
    <3> QED
      BY <3>1, <3>2, <3>3 DEF Unlinked
  <2>5. file' \in [Conns -> Files]
    BY <1>22, <2>4 DEF Unlink, Unlinked
  <2> QED
    BY <1>22, <2>2, <2>3, <2>5 DEF Unlink, LeaveList, Vars
<1>23. CASE ReleaseCodec(t)
  <2>1. call' \in [Threads -> Calls]
    BY <1>23 DEF ReleaseCodec, Vars, Calls, Ops, Pcs, Users, C, At, Goto
  <2>2. file' \in [Conns -> Files]
    <3>1. C(t) \in Conns
      BY <1>23 DEF ReleaseCodec, CallInv, Shape, At
    <3>2. file' = [file EXCEPT ![C(t)] = [file[C(t)] EXCEPT !.codec = Null]]
      BY <1>23 DEF ReleaseCodec
    <3>3. [file[C(t)] EXCEPT !.codec = Null] \in Files
      BY <3>1, FileFields DEF Vars
    <3> QED
      BY <3>2, <3>3 DEF Vars
  <2> QED
    BY <1>23, <2>1, <2>2 DEF ReleaseCodec, Vars, Calls, C, At, Goto
<1>24. CASE XClose(t)
  BY <1>24 DEF XClose, Vars, Files, Calls, Ops, Pcs, Users, C, At, Return, NoCall, NoFile
<1>25. CASE Create(t)
  BY <1>25 DEF Create, Vars, Files, Calls, Ops, Pcs, Users, C, At
<1>26. CASE Destroy(t)
  BY <1>26 DEF Destroy, Vars, Files, Calls, Ops, Pcs, Users, C, At, Call, NoCall
<1>27. CASE FreeVfs(t)
  BY <1>27 DEF FreeVfs, Vars, Files, Calls, Ops, Pcs, Users, C, At, Return, NoCall
<1>28. ASSUME NEW c \in Conns, \/ OpenDb(t, c) \/ Key(t, c) \/ UsePage(t, c)
                              \/ OpenJournal(t, c) \/ CloseJournal(t, c)
                              \/ Rekey(t, c) \/ CloseDb(t, c)
       PROVE  Vars'
  <2>1. CASE OpenDb(t, c)
    <3>1. PICK n \in Names : file' = [file EXCEPT ![c] = Fresh(n)]
      BY <2>1 DEF OpenDb
    <3>2. Fresh(n) \in Files
      BY DEF Fresh, NoFile, Files
    <3>3. Call("open", "xOpen", c) \in Calls
      BY DEF Call, NoCall, Calls, Ops, Pcs
    <3> QED
      BY <2>1, <3>1, <3>2, <3>3 DEF OpenDb, Vars
  <2>2. CASE Key(t, c)
    <3>1. PICK new \in (Codecs \ live) \cup {Null} :
             /\ live' = live \cup ({new} \ {Null})
             /\ LET pc == IF new = Null THEN "find" ELSE "setup"
                IN  call' = [call EXCEPT ![t] = [Call("key", pc, c) EXCEPT !.codec = new]]
      BY <2>2 DEF Key
    <3>2. ASSUME NEW pc \in Pcs PROVE [Call("key", pc, c) EXCEPT !.codec = new] \in Calls
      BY DEF Call, NoCall, Calls, Ops, Users
    <3>3. call' \in [Threads -> Calls]
      BY <3>1, <3>2 DEF Vars, Pcs
    <3> QED
      BY <2>2, <3>1, <3>3 DEF Key, EnterDb, Vars
  <2>3. CASE UsePage(t, c)
    <3>1. PICK f \in {c, file[c].journal} \ {Null} :
             call' = [call EXCEPT ![t] =
                        [Call("page", "codec", c) EXCEPT !.codec = file[f].codec]]
      BY <2>3 DEF UsePage
    <3>2. file[f].codec \in Codecs \cup {Null}
      BY DEF Vars, Files
    <3>3. [Call("page", "codec", c) EXCEPT !.codec = file[f].codec] \in Calls
      BY <3>2 DEF Call, NoCall, Calls, Ops, Pcs, Users
    <3> QED
      BY <2>3, <3>1, <3>3 DEF UsePage, EnterDb, Vars
  <2>4. CASE OpenJournal(t, c)
    BY <2>4 DEF OpenJournal, MayUse, Vars, Files, Calls, Ops, Pcs, Users, C, At, EnterDb,
         Call, NoCall
  <2>5. CASE CloseJournal(t, c)
    BY <2>5 DEF CloseJournal, MayUse, Vars, Files, Calls, Ops, Pcs, Users, C, At
  <2>6. CASE Rekey(t, c)
    BY <2>6 DEF Rekey, MayUse, Vars, Files, Calls, Ops, Pcs, Users, C, At, Call, NoCall
  <2>7. CASE CloseDb(t, c)
    <3>1. file' = [file EXCEPT ![c] = [file[c] EXCEPT !.state = "closing", !.journal = Null]]
      BY <2>7 DEF CloseDb
    <3>2. [file[c] EXCEPT !.state = "closing", !.journal = Null] \in Files
      BY DEF Vars, Files
    <3>3. Call("close", "removeEnter", c) \in Calls
      BY DEF Call, NoCall, Calls, Ops, Pcs
    <3> QED
      BY <2>7, <3>1, <3>2, <3>3 DEF CloseDb, Vars
  <2> QED
    BY <1>28, <2>1, <2>2, <2>3, <2>4, <2>5, <2>6, <2>7
<1> QED
  BY <1>1, <1>2, <1>3, <1>4, <1>5, <1>6, <1>7, <1>8, <1>9, <1>10, <1>11, <1>12, <1>13,
       <1>36, <1>37,
       <1>14, <1>15, <1>16, <1>17, <1>18, <1>19, <1>20, <1>21, <1>22, <1>23, <1>24, <1>25, <1>26, <1>27, <1>28
     DEF Work, Wait, Start

\* A call of an application on an open connection begins quietly.
LEMMA StartsQuiet ==
  ASSUME IInv, NEW t \in Threads, NEW c \in Conns, MayUse(t, c), NEW r,
         r.conn = c,
         \/ r.op = "key" /\ r.pc \in {"setup", "find"}
         \/ r.op = "page" /\ r.pc = "codec"
         \/ r.op \in {"journal", "rekey"} /\ r.pc = "find",
         call' = [call EXCEPT ![t] = r], UNCHANGED <<pMain, mutex, file>>
  PROVE  Quiet(t)
<1>1. call'[t] = r /\ \A u \in Threads \ {t} : call'[u] = call[u]
  BY DEF IInv, TypeInv
<1>2. Shape(t)' /\ ~InList(t)'
  BY <1>1 DEF Shape, InList, C, Op, At
<1>3. file[c].state = "open" /\ At(t, "idle")
  BY DEF MayUse
<1>4. Relies(t)'
  BY <1>1, <1>3 DEF Relies, C, Op, At, Users
<1>5. ~InList(t) /\ Op(t) = "none"
  BY <1>3 DEF IInv, CallInv, Shape, InList, At
<1>6. \A d \in Conns : file[d].journal \in {Null, d}
  BY DEF IInv, FileInv, FileOK
<1> QED
  BY <1>1, <1>2, <1>3, <1>4, <1>5, <1>6 DEF Quiet, C, Op

\* sqlite3_rekey_v2 goes on with the codec it has, or with a new one.
LEMMA EnterCall ==
  ASSUME Vars, NEW t \in Threads, RekeyEnter(t)
  PROVE  \E r : /\ call' = [call EXCEPT ![t] = r] /\ r.pc \in {"work", "setup"}
                 /\ r.op = call[t].op /\ r.conn = call[t].conn
<1>0. call[t] \in Calls
  BY DEF Vars
<1>1. CASE Goto(t, "work")
  <2> DEFINE r == [call[t] EXCEPT !.pc = "work"]
  <2>1. call' = [call EXCEPT ![t] = r]
    BY <1>1 DEF Goto
  <2>2. r.pc = "work" /\ r.op = call[t].op /\ r.conn = call[t].conn
    BY <1>0 DEF Calls
  <2> QED
    BY <2>1, <2>2
<1>2. CASE \E new \in Codecs \ live :
             call' = [call EXCEPT ![t].codec = new, ![t].pc = "setup"]
  <2> PICK new \in Codecs \ live :
             call' = [call EXCEPT ![t].codec = new, ![t].pc = "setup"]
    BY <1>2
  <2> DEFINE r == [call[t] EXCEPT !.codec = new, !.pc = "setup"]
  <2>1. call' = [call EXCEPT ![t] = r]
    OBVIOUS
  <2>2. r.pc = "setup" /\ r.op = call[t].op /\ r.conn = call[t].conn
    BY <1>0 DEF Calls
  <2> QED
    BY <2>1, <2>2
<1> QED
  BY Zenon, <1>1, <1>2 DEF RekeyEnter

\* The calls that begin with an open connection and leave the files alone.
LEMMA StartActions ==
  ASSUME IInv, NEW t \in Threads, NEW c \in Conns,
         Key(t, c) \/ UsePage(t, c) \/ OpenJournal(t, c) \/ Rekey(t, c)
  PROVE  Quiet(t)
<1>1. CASE Key(t, c)
  <2>1. PICK new \in (Codecs \ live) \cup {Null} :
           LET pc == IF new = Null THEN "find" ELSE "setup"
           IN  call' = [call EXCEPT ![t] = [Call("key", pc, c) EXCEPT !.codec = new]]
    BY <1>1 DEF Key
  <2> DEFINE pc == IF new = Null THEN "find" ELSE "setup"
             r == [Call("key", pc, c) EXCEPT !.codec = new]
  <2>2. r.conn = c /\ r.op = "key" /\ r.pc \in {"setup", "find"}
    BY DEF Call, NoCall
  <2>3. call' = [call EXCEPT ![t] = r] /\ MayUse(t, c) /\ UNCHANGED <<pMain, mutex, file>>
    BY <1>1, <2>1 DEF Key
  <2> HIDE DEF r
  <2> QED
    BY <2>2, <2>3, StartsQuiet
<1>2. CASE UsePage(t, c)
  <2>1. PICK f \in {c, file[c].journal} \ {Null} :
           call' = [call EXCEPT ![t] =
                      [Call("page", "codec", c) EXCEPT !.codec = file[f].codec]]
    BY <1>2 DEF UsePage
  <2> DEFINE r == [Call("page", "codec", c) EXCEPT !.codec = file[f].codec]
  <2>2. r.conn = c /\ r.op = "page" /\ r.pc = "codec"
    BY DEF Call, NoCall
  <2>3. call' = [call EXCEPT ![t] = r] /\ MayUse(t, c) /\ UNCHANGED <<pMain, mutex, file>>
    BY <1>2, <2>1 DEF UsePage
  <2> HIDE DEF r
  <2> QED
    BY <2>2, <2>3, StartsQuiet
<1>3. CASE OpenJournal(t, c)
  <2> DEFINE r == Call("journal", "find", c)
  <2>1. r.conn = c /\ r.op = "journal" /\ r.pc = "find"
    BY DEF Call, NoCall
  <2>2. call' = [call EXCEPT ![t] = r] /\ MayUse(t, c) /\ UNCHANGED <<pMain, mutex, file>>
    BY <1>3 DEF OpenJournal
  <2> HIDE DEF r
  <2> QED
    BY <2>1, <2>2, StartsQuiet
<1>4. CASE Rekey(t, c)
  <2> DEFINE r == Call("rekey", "find", c)
  <2>1. r.conn = c /\ r.op = "rekey" /\ r.pc = "find"
    BY DEF Call, NoCall
  <2>2. call' = [call EXCEPT ![t] = r] /\ MayUse(t, c) /\ UNCHANGED <<pMain, mutex, file>>
    BY <1>4 DEF Rekey
  <2> HIDE DEF r
  <2> QED
    BY ZenonT(60), <2>1, <2>2, StartsQuiet
<1> QED
  BY <1>1, <1>2, <1>3, <1>4

\* sqlite3_rekey_v2 goes on with the codec of the file it found.
LEMMA GetCall ==
  ASSUME Vars, NEW t \in Threads, GetCodec(t)
  PROVE  \E r : /\ call' = [call EXCEPT ![t] = r] /\ r.pc = "enter"
                 /\ r.op = call[t].op /\ r.conn = call[t].conn
<1>1. PICK k : k = CodecFound(t)
  OBVIOUS
<1> DEFINE r == [call[t] EXCEPT !.codec = k, !.pc = "enter"]
<1>2. call' = [call EXCEPT ![t] = r]
  BY <1>1 DEF GetCodec
<1>3. r.pc = "enter" /\ r.op = call[t].op /\ r.conn = call[t].conn
  BY DEF Vars, Calls
<1> QED
  BY <1>2, <1>3

\* A codec that is put in the place of another changes nothing else of the file.
LEMMA SwapCall ==
  ASSUME Vars, NEW t \in Threads, SwapCodec(t)
  PROVE  /\ \E r : /\ call' = [call EXCEPT ![t] = r] /\ r.pc = "free"
                    /\ r.op = call[t].op /\ r.conn = call[t].conn
         /\ \A d \in Conns : /\ file'[d].state = file[d].state
                            /\ file'[d].name = file[d].name
                            /\ file'[d].next = file[d].next
                            /\ file'[d].journal = file[d].journal
<1> DEFINE f == call[t].found
           c == IF Op(t) = "rekeyDrop" THEN Null ELSE call[t].codec
           p == IF f = Null THEN c ELSE file[f].codec
           r == [call[t] EXCEPT !.pc = "free", !.prev = p]
<1>1. /\ call' = [call EXCEPT ![t] = r]
      /\ file' = IF f = Null THEN file ELSE [file EXCEPT ![f].codec = c]
  BY DEF SwapCodec, Op
<1>2. r.pc = "free" /\ r.op = call[t].op /\ r.conn = call[t].conn
  BY DEF Vars, Calls
<1> HIDE DEF f, c, r
<1>3. ASSUME NEW d \in Conns
      PROVE  /\ file'[d].state = file[d].state /\ file'[d].name = file[d].name
             /\ file'[d].next = file[d].next /\ file'[d].journal = file[d].journal
  BY <1>1 DEF Vars, Files
<1> QED
  BY <1>1, <1>2, <1>3

\* The operations that are neither about the list nor about opening a file.
LEMMA QuietActions ==
  ASSUME IInv, Vars', NEW t \in Threads,
         \/ XOpen(t) \/ SwapCodec(t) \/ FreeCodec(t) \/ SetupCipher(t)
         \/ SetupFails(t) \/ PageDone(t) \/ AttachJournal(t) \/ GetCodec(t)
         \/ RekeyNothing(t) \/ RekeyEnter(t) \/ RekeyLeave(t) \/ RekeyFinish(t)
         \/ RekeyDrop(t) \/ ReleaseCodec(t) \/ Destroy(t) \/ FreeVfs(t)
         \/ PageSizeDiffers(t) \/ RekeyNoMemory(t) \/ Create(t)
         \/ \E c \in Conns : \/ Key(t, c) \/ UsePage(t, c) \/ OpenJournal(t, c)
                              \/ CloseJournal(t, c) \/ Rekey(t, c)
  PROVE  IInv'
<1> SUFFICES Quiet(t)
  BY QuietStep, TypeInvIsVarsNext
<1>0. ASSUME RekeyEnter(t)
      PROVE  \E r : /\ call' = [call EXCEPT ![t] = r] /\ r.pc \in {"work", "setup"}
                     /\ r.op = call[t].op /\ r.conn = call[t].conn
  BY <1>0, EnterCall, TypeInvIsVars DEF IInv
<1>20. ASSUME GetCodec(t)
       PROVE  \E r : /\ call' = [call EXCEPT ![t] = r] /\ r.pc = "enter"
                      /\ r.op = call[t].op /\ r.conn = call[t].conn
  BY <1>20, GetCall, TypeInvIsVars DEF IInv
<1>21. ASSUME SwapCodec(t)
       PROVE  /\ \E r : /\ call' = [call EXCEPT ![t] = r] /\ r.pc = "free"
                         /\ r.op = call[t].op /\ r.conn = call[t].conn
              /\ \A d \in Conns : /\ file'[d].state = file[d].state
                                 /\ file'[d].name = file[d].name
                                 /\ file'[d].next = file[d].next
                                 /\ file'[d].journal = file[d].journal
  BY <1>21, SwapCall, TypeInvIsVars DEF IInv
<1>19. ASSUME NEW c \in Conns, Key(t, c) \/ UsePage(t, c) \/ OpenJournal(t, c) \/ Rekey(t, c)
       PROVE  Quiet(t)
  BY <1>19, StartActions
<1> USE DEF IInv, Vars, Calls, Files, CallInv, FileInv, FileOK, Quiet, Shape, Relies,
     InList, C, Op, At, Users
<1>1. CASE XOpen(t)
  BY <1>1, TypeInvIsVars DEF XOpen, Goto
<1>2. CASE SwapCodec(t)
  <2>1. PICK r :
           /\ call' = [call EXCEPT ![t] = r] /\ r.pc = "free"
           /\ r.op = call[t].op /\ r.conn = call[t].conn
    BY <1>2, <1>21
  <2>2. call'[t] = r /\ \A u \in Threads \ {t} : call'[u] = call[u]
    BY <2>1, TypeInvIsVars
  <2>3. UNCHANGED <<pMain, mutex>> /\ At(t, "swap")
    BY <1>2 DEF SwapCodec
  <2>4. \A d \in Conns : /\ file'[d].state = file[d].state
                        /\ file'[d].name = file[d].name
                        /\ file'[d].next = file[d].next
                        /\ file'[d].journal = file[d].journal
    BY <1>2, <1>21
  <2>5. Op(t)' = Op(t) /\ C(t)' = C(t) /\ call'[t].pc = "free"
    BY <2>1, <2>2
  <2>6. Op(t) \in {"key", "rekeyAttach", "rekeyDrop"} /\ C(t) \in Conns
    BY <2>3
  <2>7. Shape(t)'
    BY <2>5, <2>6
  <2>8. Relies(t)'
    BY <2>4, <2>5, <2>6
  <2>9. \A d \in Conns : file'[d].journal \in {Null, d}
    BY <2>4
  <2>10. ~InList(t) /\ ~InList(t)'
    BY <2>3, <2>5
  <2> QED
    BY <2>2, <2>3, <2>4, <2>5, <2>7, <2>8, <2>9, <2>10
<1>3. CASE FreeCodec(t)
  BY <1>3, TypeInvIsVars DEF FreeCodec, Freed, LeaveDb, Return, NoCall
<1>4. CASE SetupCipher(t)
  BY <1>4, TypeInvIsVars DEF SetupCipher
<1>5. CASE SetupFails(t)
  BY <1>5, TypeInvIsVars DEF SetupFails, LeaveSetup, LeaveDb, Return, NoCall
<1>6. CASE PageDone(t)
  BY <1>6, TypeInvIsVars DEF PageDone, LeaveDb, Return, NoCall
<1>7. CASE AttachJournal(t)
  BY <1>7, TypeInvIsVars DEF AttachJournal, LeaveDb, Return, NoCall
<1>8. CASE GetCodec(t)
  <2>1. PICK r :
           /\ call' = [call EXCEPT ![t] = r] /\ r.pc = "enter"
           /\ r.op = call[t].op /\ r.conn = call[t].conn
    BY <1>8, <1>20
  <2>2. call'[t] = r /\ \A u \in Threads \ {t} : call'[u] = call[u]
    BY <2>1, TypeInvIsVars
  <2>3. UNCHANGED <<pMain, mutex, file>> /\ At(t, "get")
    BY <1>8 DEF GetCodec
  <2> QED
    BY <2>1, <2>2, <2>3, TypeInvIsVars
<1>9. CASE RekeyNothing(t)
  BY <1>9, TypeInvIsVars DEF RekeyNothing, Return, NoCall
<1>10. CASE RekeyEnter(t)
  <2>1. PICK r :
           /\ call' = [call EXCEPT ![t] = r] /\ r.pc \in {"work", "setup"}
           /\ r.op = call[t].op /\ r.conn = call[t].conn
    BY <1>10, <1>0
  <2>2. call'[t] = r /\ \A u \in Threads \ {t} : call'[u] = call[u]
    BY <2>1, TypeInvIsVars
  <2>3. UNCHANGED <<pMain, mutex, file>> /\ At(t, "enter")
    BY <1>10 DEF RekeyEnter
  <2> QED
    BY <2>1, <2>2, <2>3, TypeInvIsVars
<1>11. CASE RekeyLeave(t)
  BY <1>11, TypeInvIsVars DEF RekeyLeave, LeaveDb, Goto
<1>12. CASE RekeyFinish(t)
  BY <1>12, TypeInvIsVars DEF RekeyFinish, Return, NoCall
<1>13. CASE RekeyDrop(t)
  BY <1>13, TypeInvIsVars DEF RekeyDrop
<1>14. CASE ReleaseCodec(t)
  BY <1>14, TypeInvIsVars DEF ReleaseCodec, Goto
<1>22. CASE PageSizeDiffers(t)
  BY <1>22, TypeInvIsVars DEF PageSizeDiffers, LeaveSetup, LeaveDb
<1>23. CASE RekeyNoMemory(t)
  BY <1>23, TypeInvIsVars DEF RekeyNoMemory, Return, NoCall
<1>15. CASE Destroy(t)
  BY <1>15, TypeInvIsVars DEF Destroy, Call, NoCall
<1>16. CASE FreeVfs(t)
  BY <1>16, TypeInvIsVars DEF FreeVfs, Return, NoCall
<1>17. CASE Create(t)
  BY <1>17, TypeInvIsVars DEF Create
<1>18. ASSUME NEW c \in Conns, CloseJournal(t, c) PROVE Quiet(t)
  BY <1>18, TypeInvIsVars DEF CloseJournal, MayUse
<1> QED
  BY ZenonT(60), <1>1, <1>2, <1>3, <1>4, <1>5, <1>6, <1>7, <1>8, <1>9, <1>10, <1>11, <1>12, <1>13,
       <1>14, <1>15, <1>16, <1>17, <1>18, <1>19, <1>22, <1>23

-----------------------------------------------------------------------------
(* The steps that open and close a file, or walk the list.                 *)

InChain == {"open", "closing"}

\* Nobody else uses a file that is being opened or closed, or is closed.
LEMMA NobodyElse ==
  ASSUME IInv, NEW t \in Threads, NEW c \in Conns, NEW u \in Threads \ {t},
         \/ C(t) = c /\ Op(t) \in {"open", "close"}
         \/ file[c].state = "closed"
  PROVE  C(u) # c
<1>1. c # Null
  BY FilesAssumption
<1>2. CASE C(t) = c /\ Op(t) \in {"open", "close"}
  BY <1>1, <1>2 DEF IInv, AloneInv
<1>3. CASE file[c].state = "closed"
  <2> SUFFICES ASSUME C(u) = c PROVE FALSE
    OBVIOUS
  <2>1. Op(u) \in Users \cup {"open", "close"}
    BY <1>1 DEF IInv, CallInv, Shape, Users
  <2> QED
    BY <1>3, <2>1 DEF IInv, CallInv, Relies
<1> QED
  BY <1>2, <1>3

\* A step of a thread on a file that is its own.
LEMMA OwnStep ==
  ASSUME IInv, NEW t \in Threads, NEW c \in Conns,
         C(t) \in {c, Null}, C(t)' \in {c, Null},
         \A u \in Threads \ {t} : C(u) # c /\ call'[u] = call[u],
         \A d \in Conns \ {c} :
           /\ file'[d].state = file[d].state /\ file'[d].name = file[d].name
           /\ file'[d].journal = file[d].journal
           /\ file[d].state \notin InChain => file'[d].next = file[d].next,
         UNCHANGED pMain \/ mutex = t,
         Shape(t)', Relies(t)', FileOK(c)',
         \/ file'[c].name \in {file[c].name, Null}
         \/ \A d \in Conns : file[d].name # file'[c].name,
         mutex' = t <=> InList(t)',
         UNCHANGED mutex \/ {mutex, mutex'} = {t, Nobody}
  PROVE  CallInv' /\ MutexInv' /\ AloneInv' /\ FileInv' /\ NameInv'
<1>1. ASSUME NEW u \in Threads \ {t} PROVE (Shape(u) /\ Relies(u))'
  <2>1. call'[u] = call[u] /\ Shape(u) /\ Relies(u) /\ C(u) # c
    BY DEF IInv, CallInv
  <2>2. Shape(u)'
    BY <2>1 DEF Shape, C, Op, At
  <2>3. C(u) \in Conns => file'[C(u)].state = file[C(u)].state
    BY <2>1
  <2>4. Op(u) \in Users \cup {"open", "close"} => C(u) \in Conns
    BY <2>1 DEF Shape, Users
  <2>5. At(u, "addMain") => /\ UNCHANGED pMain /\ C(u) \in Conns
                            /\ file'[C(u)].next = file[C(u)].next
    <3> SUFFICES ASSUME At(u, "addMain")
                 PROVE  /\ UNCHANGED pMain /\ C(u) \in Conns
                        /\ file'[C(u)].next = file[C(u)].next
      OBVIOUS
    <3>1. mutex = u
      BY DEF IInv, MutexInv, InList, At
    <3>2. Op(u) = "open" /\ C(u) \in Conns
      BY <2>1 DEF Shape, At
    <3>3. file[C(u)].state = "opening"
      BY <2>1, <3>2 DEF Relies
    <3> QED
      BY <2>1, <3>1, <3>2, <3>3 DEF InChain
  <2>6. Relies(u)'
    BY <2>1, <2>3, <2>4, <2>5 DEF Relies, C, Op, At
  <2> QED
    BY <2>2, <2>6
<1>2. CallInv'
  BY <1>1 DEF CallInv
<1>3. MutexInv'
  <2> SUFFICES ASSUME NEW u \in Threads \ {t} PROVE (mutex = u <=> InList(u))'
    BY DEF MutexInv
  <2>1. InList(u)' <=> mutex = u
    BY DEF IInv, MutexInv, InList
  <2> QED
    BY <2>1, FilesAssumption
<1>4. AloneInv'
  BY DEF IInv, AloneInv, C, Op
<1>5. FileInv'
  <2> SUFFICES ASSUME NEW d \in Conns \ {c} PROVE FileOK(d)'
    BY DEF FileInv
  <2>1. FileOK(d) /\ d # Null
    BY FilesAssumption DEF IInv, FileInv
  <2>2. \A u \in Threads : C(u) = d => u # t
    BY <2>1
  <2>3. \A u \in Threads \ {t} : C(u)' = C(u) /\ Op(u)' = Op(u) /\ (At(u, "addMain")' <=> At(u, "addMain"))
    BY DEF C, Op, At
  <2> QED
    BY <2>1, <2>2, <2>3 DEF FileOK, InChain
<1>6. NameInv'
  <2>1. \A d, e \in Conns : d # e /\ file[d].name = file[e].name => file[d].name = Null
    BY DEF IInv, NameInv
  <2> QED
    BY <2>1 DEF NameInv
<1> QED
  BY <1>2, <1>3, <1>4, <1>5, <1>6

\* The list stays as it is.
LEMMA LinkedSame ==
  ASSUME NEW n \in Nat, NEW S \in [1 .. n -> Conns], Linked(n, S), UNCHANGED pMain,
         \A d \in Conns :
           /\ file'[d].state \in InChain <=> file[d].state \in InChain
           /\ file[d].state \in InChain => file'[d].next = file[d].next
  PROVE  Linked(n, S)'
BY Zenon DEF Linked, InChain

\* A step that neither adds nor takes off a file keeps the list.
LEMMA ListSame ==
  ASSUME ListInv, UNCHANGED pMain,
         \A d \in Conns :
           /\ file'[d].state \in InChain <=> file[d].state \in InChain
           /\ file[d].state \in InChain => file'[d].next = file[d].next,
         \A u \in Threads : At(u, "walk")' => call'[u] = call[u]
  PROVE  ListInv'
<1> PICK n \in Nat : \E S \in [1 .. n -> Conns] : ListOK(n, S)
  BY DEF ListInv
<1> PICK S \in [1 .. n -> Conns] : ListOK(n, S)
  OBVIOUS
<1>1. Linked(n, S)'
  BY LinkedSame DEF ListOK
<1>2. \A u \in Threads : At(u, "walk")' => Ahead(n, S, u)'
  BY DEF ListOK, At, Ahead, C
<1> QED
  BY <1>1, <1>2 DEF ListInv, ListOK

\* A new file is not on the list yet, and its name is its own.
LEMMA OpenDbStep ==
  ASSUME IInv, NEW t \in Threads, NEW c \in Conns, OpenDb(t, c)
  PROVE  CallInv' /\ MutexInv' /\ AloneInv' /\ FileInv' /\ NameInv' /\ ListInv'
<1>1. PICK n \in Names \ {file[d].name : d \in Conns} : file' = [file EXCEPT ![c] = Fresh(n)]
  BY DEF OpenDb
<1>2. /\ file'[c] = Fresh(n) /\ \A d \in Conns \ {c} : file'[d] = file[d]
      /\ call'[t] = Call("open", "xOpen", c) /\ \A u \in Threads \ {t} : call'[u] = call[u]
  BY <1>1 DEF OpenDb, IInv, TypeInv, TypeOK
<1>3. /\ Fresh(n).state = "opening" /\ Fresh(n).name = n /\ Fresh(n).next = Null
      /\ Fresh(n).journal = Null
  BY DEF Fresh, NoFile
<1>4. Op(t)' = "open" /\ At(t, "xOpen")' /\ C(t)' = c
  BY <1>2 DEF Call, NoCall, Op, At, C
<1>5. Op(t) = "none" /\ At(t, "idle") /\ C(t) = Null /\ file[c].state = "closed"
  BY DEF OpenDb, IInv, CallInv, Shape, At
<1>6. \A u \in Threads \ {t} : C(u) # c
  BY <1>5, NobodyElse
<1>7. Shape(t)'
  BY <1>4 DEF Shape, At
<1>8. Relies(t)'
  BY <1>2, <1>3, <1>4 DEF Relies, Users, At, Op
<1>9. FileOK(c)'
  BY <1>2, <1>3, <1>4, FilesAssumption DEF FileOK
<1>10. UNCHANGED <<pMain, mutex>> /\ ~InList(t) /\ ~InList(t)'
  BY <1>4, <1>5 DEF OpenDb, InList, At
<1>11. mutex # t
  BY <1>10 DEF IInv, MutexInv
<1>12. CallInv' /\ MutexInv' /\ AloneInv' /\ FileInv' /\ NameInv'
  BY <1>2, <1>3, <1>4, <1>5, <1>6, <1>7, <1>8, <1>9, <1>10, <1>11, OwnStep
<1>13. ListInv'
  BY <1>2, <1>3, <1>4, <1>5, <1>10, ListSame DEF IInv, InChain, At
<1> QED
  BY <1>12, <1>13

\* The real open fails: the file was never on the list.
LEMMA XOpenFailsStep ==
  ASSUME IInv, NEW t \in Threads, XOpenFails(t)
  PROVE  CallInv' /\ MutexInv' /\ AloneInv' /\ FileInv' /\ NameInv' /\ ListInv'
<1> PICK c : c = C(t)
  OBVIOUS
<1>1. Op(t) = "open" /\ c \in Conns /\ At(t, "xOpen")
  BY DEF XOpenFails, IInv, CallInv, Shape, At
<1>2. file[c].state = "opening"
  BY <1>1 DEF IInv, CallInv, Relies
<1>3. /\ file'[c] = NoFile /\ \A d \in Conns \ {c} : file'[d] = file[d]
      /\ call'[t] = NoCall /\ \A u \in Threads \ {t} : call'[u] = call[u]
  BY <1>1 DEF XOpenFails, Return, IInv, TypeInv, TypeOK, C
<1>4. Op(t)' = "none" /\ At(t, "idle")' /\ C(t)' = Null
  BY <1>3 DEF NoCall, Op, At, C
<1>5. NoFile.state = "closed" /\ NoFile.name = Null /\ NoFile.next = Null /\ NoFile.journal = Null
  BY DEF NoFile
<1>6. \A u \in Threads \ {t} : C(u) # c
  BY <1>1, NobodyElse
<1>7. Shape(t)' /\ Relies(t)'
  BY <1>4 DEF Shape, Relies, Users, At, Op
<1>8. FileOK(c)'
  BY <1>3, <1>5 DEF FileOK
<1>9. UNCHANGED <<pMain, mutex>> /\ ~InList(t) /\ ~InList(t)'
  BY <1>4, <1>1 DEF XOpenFails, InList, At
<1>10. mutex # t
  BY <1>9 DEF IInv, MutexInv
<1>11. CallInv' /\ MutexInv' /\ AloneInv' /\ FileInv' /\ NameInv'
  BY <1>1, <1>3, <1>4, <1>5, <1>6, <1>7, <1>8, <1>9, <1>10, OwnStep
<1>12. ListInv'
  BY <1>1, <1>2, <1>3, <1>4, <1>5, <1>9, ListSame DEF IInv, InChain, At
<1> QED
  BY <1>11, <1>12

\* mcMainListAdd enters the mutex of the shim.
LEMMA AddEnterStep ==
  ASSUME IInv, NEW t \in Threads, AddEnter(t)
  PROVE  CallInv' /\ MutexInv' /\ AloneInv' /\ FileInv' /\ NameInv' /\ ListInv'
<1> PICK c : c = C(t)
  OBVIOUS
<1>1. Op(t) = "open" /\ c \in Conns /\ At(t, "addEnter")
  BY DEF AddEnter, IInv, CallInv, Shape, At
<1>2. file[c].state = "opening" /\ FileOK(c)
  BY <1>1 DEF IInv, CallInv, Relies, FileInv
<1>3. /\ UNCHANGED file /\ \A u \in Threads \ {t} : call'[u] = call[u]
      /\ call'[t] = [call[t] EXCEPT !.pc = "addNext"]
  BY DEF AddEnter, Goto, IInv, TypeInv
<1>4. Op(t)' = "open" /\ At(t, "addNext")' /\ C(t)' = c
  BY <1>1, <1>3 DEF Op, At, C, IInv, TypeInv, Calls
<1>5. \A u \in Threads \ {t} : C(u) # c
  BY <1>1, NobodyElse
<1>6. Shape(t)' /\ Relies(t)'
  BY <1>1, <1>2, <1>3, <1>4 DEF Shape, Relies, Users, At, Op
<1>7. file[c].next = Null
  <2>1. \A u \in Threads : C(u) = c => u = t
    BY <1>5
  <2>2. ~ At(t, "addMain")
    BY <1>1 DEF At
  <2> QED
    BY <1>2, <2>1, <2>2 DEF FileOK
<1>8. FileOK(c)'
  BY <1>2, <1>3, <1>4, <1>7 DEF FileOK
<1>9. UNCHANGED pMain /\ mutex = Nobody /\ mutex' = t /\ InList(t)'
  BY <1>4 DEF AddEnter, EnterList, InList, At
<1>10. CallInv' /\ MutexInv' /\ AloneInv' /\ FileInv' /\ NameInv'
  BY <1>1, <1>3, <1>4, <1>5, <1>6, <1>8, <1>9, OwnStep
<1>11. ListInv'
  BY <1>3, <1>4, <1>9, ListSame DEF IInv, At
<1> QED
  BY <1>10, <1>11

\* The file that is added is followed by the first of the list.
LEMMA AddNextStep ==
  ASSUME IInv, NEW t \in Threads, AddNext(t)
  PROVE  CallInv' /\ MutexInv' /\ AloneInv' /\ FileInv' /\ NameInv' /\ ListInv'
<1> PICK c : c = C(t)
  OBVIOUS
<1>1. Op(t) = "open" /\ c \in Conns /\ At(t, "addNext")
  BY DEF AddNext, IInv, CallInv, Shape, At
<1>2. file[c].state = "opening" /\ FileOK(c)
  BY <1>1 DEF IInv, CallInv, Relies, FileInv
<1>3. /\ \A d \in Conns \ {c} : file'[d] = file[d]
      /\ file'[c] = [file[c] EXCEPT !.next = pMain]
      /\ \A u \in Threads \ {t} : call'[u] = call[u]
      /\ call'[t] = [call[t] EXCEPT !.pc = "addMain"]
  BY <1>1 DEF AddNext, Goto, IInv, TypeInv, TypeOK
<1>4. Op(t)' = "open" /\ At(t, "addMain")' /\ C(t)' = c
  BY <1>1, <1>3 DEF Op, At, C, IInv, TypeInv, Calls
<1>5. \A u \in Threads \ {t} : C(u) # c
  BY <1>1, NobodyElse
<1>6. /\ file'[c].state = "opening" /\ file'[c].next = pMain
      /\ file'[c].name = file[c].name /\ file'[c].journal = file[c].journal
  BY <1>1, <1>2, <1>3 DEF IInv, TypeInv, TypeOK
<1>7. UNCHANGED <<pMain, mutex>> /\ mutex = t /\ InList(t)'
  BY <1>1, <1>4 DEF AddNext, InList, At, IInv, MutexInv
<1>8. Shape(t)' /\ Relies(t)'
  BY <1>1, <1>4, <1>6, <1>7 DEF Shape, Relies, Users, At, Op
<1>9. FileOK(c)'
  BY <1>2, <1>4, <1>6 DEF FileOK
<1>10. CallInv' /\ MutexInv' /\ AloneInv' /\ FileInv' /\ NameInv'
  BY <1>1, <1>3, <1>4, <1>5, <1>6, <1>7, <1>8, <1>9, OwnStep
<1>11. ListInv'
  BY <1>1, <1>2, <1>3, <1>4, <1>6, <1>7, ListSame DEF IInv, At, InChain
<1> QED
  BY <1>10, <1>11

\* The file that is added becomes the first of the list.
LEMMA AddMainStep ==
  ASSUME IInv, NEW t \in Threads, AddMain(t)
  PROVE  CallInv' /\ MutexInv' /\ AloneInv' /\ FileInv' /\ NameInv' /\ ListInv'
<1> PICK c : c = C(t)
  OBVIOUS
<1>1. Op(t) = "open" /\ c \in Conns /\ At(t, "addMain")
  BY DEF AddMain, IInv, CallInv, Shape, At
<1>2. file[c].state = "opening" /\ file[c].next = pMain /\ FileOK(c)
  BY <1>1 DEF IInv, CallInv, Relies, FileInv
<1>3. /\ \A d \in Conns \ {c} : file'[d] = file[d]
      /\ file'[c] = [file[c] EXCEPT !.state = "open"]
      /\ call'[t] = NoCall /\ \A u \in Threads \ {t} : call'[u] = call[u]
  BY <1>1 DEF AddMain, Return, IInv, TypeInv, TypeOK
<1>4. Op(t)' = "none" /\ At(t, "idle")' /\ C(t)' = Null
  BY <1>3 DEF NoCall, Op, At, C
<1>5. \A u \in Threads \ {t} : C(u) # c
  BY <1>1, NobodyElse
<1>6. /\ file'[c].state = "open" /\ file'[c].next = pMain
      /\ file'[c].name = file[c].name /\ file'[c].journal = file[c].journal
  BY <1>1, <1>2, <1>3 DEF IInv, TypeInv, TypeOK
<1>7. mutex = t /\ mutex' = Nobody /\ ~InList(t)' /\ pMain' = c
  BY <1>1, <1>4 DEF AddMain, LeaveList, InList, At, IInv, MutexInv
<1>8. Shape(t)' /\ Relies(t)'
  BY <1>4 DEF Shape, Relies, Users, At, Op
<1>9. FileOK(c)'
  BY <1>2, <1>6 DEF FileOK
<1>10. CallInv' /\ MutexInv' /\ AloneInv' /\ FileInv' /\ NameInv'
  BY FilesAssumption, <1>1, <1>3, <1>4, <1>5, <1>6, <1>7, <1>8, <1>9, OwnStep
<1>11. ListInv'
  <2> PICK n \in Nat : \E S \in [1 .. n -> Conns] : ListOK(n, S)
    BY DEF IInv, ListInv
  <2> PICK S \in [1 .. n -> Conns] : ListOK(n, S)
    OBVIOUS
  <2>1. \E T \in [1 .. n + 1 -> Conns] : T[1] = c /\ \A i \in 1 .. n : T[i + 1] = S[i]
    <3> DEFINE T == [i \in 1 .. n + 1 |-> IF i = 1 THEN c ELSE S[i - 1]]
    <3>1. T \in [1 .. n + 1 -> Conns]
      BY <1>1
    <3>2. T[1] = c /\ \A i \in 1 .. n : T[i + 1] = S[i]
      OBVIOUS
    <3> QED
      BY <3>1, <3>2
  <2>2. PICK T \in [1 .. n + 1 -> Conns] : T[1] = c /\ \A i \in 1 .. n : T[i + 1] = S[i]
    BY <2>1
  <2>3. \A i \in 1 .. n + 1 : i = 1 \/ \E j \in 1 .. n : i = j + 1
    <3> TAKE i \in 1 .. n + 1
    <3>1. i = 1 \/ (i - 1 \in 1 .. n /\ i = (i - 1) + 1)
      OBVIOUS
    <3> QED
      BY <3>1
  <2>4. Linked(n, S) /\ \A i \in 1 .. n : S[i] # c
    BY Zenon, <1>2 DEF ListOK, Linked
  <2>5. ASSUME NEW i \in 1 .. n + 1, NEW j \in 1 .. n + 1, T[i] = T[j]
        PROVE  i = j
    <3>1. \A k, l \in 1 .. n : S[k] = S[l] => k = l
      BY <2>4 DEF Linked
    <3>2. i = 1 \/ \E k \in 1 .. n : i = k + 1 /\ T[i] = S[k]
      BY <2>2, <2>3
    <3>3. j = 1 \/ \E k \in 1 .. n : j = k + 1 /\ T[j] = S[k]
      BY <2>2, <2>3
    <3> QED
      BY <2>2, <2>4, <2>5, <3>1, <3>2, <3>3
  <2>6. \A i \in 1 .. n + 1 : file'[T[i]].next = IF i = n + 1 THEN Null ELSE T[i + 1]
    <3>1. file'[T[1]].next = IF 1 = n + 1 THEN Null ELSE T[2]
      <4>1. CASE n = 0
        BY <4>1, <1>6, <2>2, <2>4 DEF Linked
      <4>2. CASE n # 0
        <5>1. 1 \in 1 .. n /\ 1 + 1 = 2
          BY <4>2
        <5>2. pMain = S[1]
          BY <4>2, <2>4 DEF Linked
        <5> QED
          BY <4>2, <5>1, <5>2, <1>6, <2>2
      <4> QED
        BY <4>1, <4>2
    <3>2. ASSUME NEW j \in 1 .. n
          PROVE  file'[T[j + 1]].next = IF j + 1 = n + 1 THEN Null ELSE T[(j + 1) + 1]
      <4>1. T[j + 1] = S[j] /\ file'[S[j]] = file[S[j]]
        BY <1>3, <2>2, <2>4
      <4>2. file[S[j]].next = IF j = n THEN Null ELSE S[j + 1]
        BY <2>4 DEF Linked
      <4>3. j # n => T[(j + 1) + 1] = S[j + 1]
        BY <2>2
      <4> QED
        BY <4>1, <4>2, <4>3
    <3> SUFFICES ASSUME NEW i \in 1 .. n + 1
                 PROVE  file'[T[i]].next = IF i = n + 1 THEN Null ELSE T[i + 1]
      OBVIOUS
    <3>3. CASE i = 1
      BY <3>1, <3>3
    <3>4. CASE \E j \in 1 .. n : i = j + 1
      BY <3>2, <3>4
    <3> QED
      BY <2>3, <3>3, <3>4
  <2>7. ASSUME NEW d \in Conns
        PROVE  file'[d].state \in InChain <=> \E i \in 1 .. n + 1 : T[i] = d
    <3>1. file[d].state \in InChain <=> \E i \in 1 .. n : S[i] = d
      BY <2>4 DEF Linked, InChain
    <3>2. CASE d = c
      <4>1. 1 \in 1 .. n + 1
        OBVIOUS
      <4> QED
        BY <3>2, <4>1, <1>6, <2>2 DEF InChain
    <3>3. CASE d # c
      <4>1. file'[d] = file[d]
        BY <3>3, <1>3
      <4>2. (\E i \in 1 .. n + 1 : T[i] = d) <=> \E i \in 1 .. n : S[i] = d
        <5>1. ASSUME NEW i \in 1 .. n, S[i] = d PROVE \E j \in 1 .. n + 1 : T[j] = d
          BY <5>1, <2>2, i + 1 \in 1 .. n + 1
        <5> QED
          BY ZenonT(60), <5>1, <2>2, <2>3, <3>3
      <4> QED
        BY <3>1, <4>1, <4>2
    <3> QED
      BY <3>2, <3>3
  <2>8. Linked(n + 1, T)'
    BY <1>7, <2>1, <2>2, <2>5, <2>6, <2>7 DEF Linked, InChain
  <2>9. \A u \in Threads : ~ At(u, "walk")'
    <3> SUFFICES ASSUME NEW u \in Threads, At(u, "walk")' PROVE FALSE
      OBVIOUS
    <3>1. u # t /\ At(u, "walk")
      BY <1>3, <1>4 DEF At
    <3>2. mutex = u
      BY <3>1 DEF IInv, MutexInv, InList, At
    <3> QED
      BY <1>7, <3>1, <3>2
  <2>10. n + 1 \in Nat
    OBVIOUS
  <2> QED
    BY <2>1, <2>8, <2>9, <2>10 DEF ListInv, ListOK
<1> QED
  BY <1>10, <1>11

\* A step of a search.
LEMMA WalkStep ==
  ASSUME IInv, NEW t \in Threads, UNCHANGED <<pMain, file>>,
         \A u \in Threads \ {t} : call'[u] = call[u],
         UNCHANGED <<C(t), Op(t)>>, Op(t) \in Users, Shape(t)', Relies(t)',
         mutex' = t <=> InList(t)',
         UNCHANGED mutex \/ {mutex, mutex'} = {t, Nobody}
  PROVE  CallInv' /\ MutexInv' /\ AloneInv' /\ FileInv' /\ NameInv'
<1>1. CallInv'
  <2> SUFFICES ASSUME NEW u \in Threads \ {t} PROVE (Shape(u) /\ Relies(u))'
    BY DEF CallInv
  <2>1. call'[u] = call[u] /\ Shape(u) /\ Relies(u)
    BY DEF IInv, CallInv
  <2> QED
    BY <2>1 DEF Shape, Relies, C, Op, At
<1>2. MutexInv'
  <2> SUFFICES ASSUME NEW u \in Threads \ {t} PROVE (mutex = u <=> InList(u))'
    BY DEF MutexInv
  <2>1. InList(u)' <=> mutex = u
    BY DEF IInv, MutexInv, InList
  <2> QED
    BY <2>1, FilesAssumption
<1>3. AloneInv'
  BY DEF IInv, AloneInv, C, Op
<1>4. FileInv'
  <2> SUFFICES ASSUME NEW d \in Conns PROVE FileOK(d)'
    BY DEF FileInv
  <2>1. FileOK(d)
    BY DEF IInv, FileInv
  <2>2. \A u \in Threads : Op(u) \in {"open", "close"} =>
           C(u)' = C(u) /\ Op(u)' = Op(u) /\ (At(u, "addMain")' <=> At(u, "addMain"))
    BY DEF C, Op, At, Users
  <2> QED
    BY <2>1, <2>2 DEF FileOK
<1>5. NameInv'
  BY DEF IInv, NameInv
<1> QED
  BY <1>1, <1>2, <1>3, <1>4, <1>5

\* A thread that searches the list uses an open connection.
LEMMA Searching ==
  ASSUME IInv, NEW t \in Threads, call[t].pc \in {"find", "walk"}
  PROVE  /\ Op(t) \in {"key", "journal", "rekey", "rekeyAttach", "rekeyDrop"}
         /\ C(t) \in Conns /\ file[C(t)].state = "open"
BY DEF IInv, CallInv, Shape, Relies, Users, At

\* A search begins at the first file, with the one it is for ahead.
LEMMA FindEnterStep ==
  ASSUME IInv, NEW t \in Threads, FindEnter(t)
  PROVE  CallInv' /\ MutexInv' /\ AloneInv' /\ FileInv' /\ NameInv' /\ ListInv'
<1>1. At(t, "find") /\ mutex = Nobody /\ mutex' = t /\ UNCHANGED <<pMain, file>>
  BY DEF FindEnter, EnterList
<1>2. call' = [call EXCEPT ![t] = [call[t] EXCEPT !.pc = "walk", !.cursor = pMain]]
  BY DEF FindEnter
<1>3. /\ Op(t) \in {"key", "journal", "rekey", "rekeyAttach", "rekeyDrop"}
      /\ C(t) \in Conns /\ file[C(t)].state = "open"
  BY <1>1, Searching DEF At
<1>4. /\ UNCHANGED <<C(t), Op(t)>> /\ At(t, "walk")' /\ call'[t].cursor = pMain
      /\ \A u \in Threads \ {t} : call'[u] = call[u]
  BY <1>2 DEF IInv, TypeInv, Calls, C, Op, At
<1>5. Shape(t)' /\ Relies(t)' /\ InList(t)'
  BY <1>1, <1>3, <1>4 DEF Shape, Relies, InList, Users, C, Op, At
<1>6. CallInv' /\ MutexInv' /\ AloneInv' /\ FileInv' /\ NameInv'
  BY <1>1, <1>3, <1>4, <1>5, WalkStep DEF Users
<1>7. ListInv'
  <2> PICK n \in Nat : \E S \in [1 .. n -> Conns] : ListOK(n, S)
    BY DEF IInv, ListInv
  <2> PICK S \in [1 .. n -> Conns] : ListOK(n, S)
    OBVIOUS
  <2>1. Linked(n, S) /\ Linked(n, S)'
    BY <1>1 DEF ListOK, Linked
  <2>2. PICK j \in 1 .. n : S[j] = C(t)
    BY <1>3, <2>1 DEF Linked
  <2>3. 1 \in 1 .. n /\ n # 0 /\ 1 <= j
    BY <2>2
  <2>4. pMain = S[1]
    BY <2>1, <2>3 DEF Linked
  <2>5. Ahead(n, S, t)'
    BY <1>4, <2>2, <2>3, <2>4 DEF Ahead, C
  <2>6. \A u \in Threads : At(u, "walk")' => Ahead(n, S, u)'
    BY <1>4, <2>5 DEF ListOK, Ahead, C, At
  <2> QED
    BY <2>1, <2>6 DEF ListInv, ListOK
<1> QED
  BY <1>6, <1>7

\* A search does not pass the file it is for.
LEMMA FindNextStep ==
  ASSUME IInv, NEW t \in Threads, FindNext(t)
  PROVE  CallInv' /\ MutexInv' /\ AloneInv' /\ FileInv' /\ NameInv' /\ ListInv'
<1>1. At(t, "walk") /\ ~ WalkEnds(t) /\ UNCHANGED <<mutex, pMain, file>>
  BY DEF FindNext
<1>2. /\ \A u \in Threads \ {t} : call'[u] = call[u]
      /\ call'[t] = [call[t] EXCEPT !.cursor = file[call[t].cursor].next]
  BY DEF FindNext, IInv, TypeInv
<1>3. /\ Op(t) \in {"key", "journal", "rekey", "rekeyAttach", "rekeyDrop"}
      /\ C(t) \in Conns /\ file[C(t)].state = "open"
  BY <1>1, Searching DEF At
<1>4. /\ UNCHANGED <<C(t), Op(t)>> /\ At(t, "walk")'
      /\ call'[t].cursor = file[call[t].cursor].next
  BY <1>1, <1>2 DEF IInv, TypeInv, Calls, C, Op, At
<1>5. Shape(t)' /\ Relies(t)' /\ InList(t)'
  BY <1>1, <1>3, <1>4 DEF Shape, Relies, InList, Users, C, Op, At
<1>6. mutex = t
  BY <1>1 DEF IInv, MutexInv, InList, At
<1>7. CallInv' /\ MutexInv' /\ AloneInv' /\ FileInv' /\ NameInv'
  BY <1>1, <1>2, <1>3, <1>4, <1>5, <1>6, WalkStep DEF Users
<1>8. ListInv'
  <2> PICK n \in Nat : \E S \in [1 .. n -> Conns] : ListOK(n, S)
    BY DEF IInv, ListInv
  <2> PICK S \in [1 .. n -> Conns] : ListOK(n, S)
    OBVIOUS
  <2>1. Linked(n, S) /\ Linked(n, S)'
    BY <1>1 DEF ListOK, Linked
  <2>2. PICK i \in 1 .. n, j \in 1 .. n : i <= j /\ call[t].cursor = S[i] /\ C(t) = S[j]
    BY <1>1 DEF ListOK, Ahead
  <2>3. i # j
    BY <1>1, <2>2 DEF WalkEnds
  <2>4. i + 1 \in 1 .. n /\ i # n /\ i + 1 <= j
    BY <2>2, <2>3
  <2>5. call'[t].cursor = S[i + 1]
    BY <1>4, <2>1, <2>2, <2>4 DEF Linked
  <2>6. Ahead(n, S, t)'
    BY <1>4, <2>2, <2>4, <2>5 DEF Ahead
  <2>7. \A u \in Threads : At(u, "walk")' => Ahead(n, S, u)'
    <3> SUFFICES ASSUME NEW u \in Threads \ {t}, At(u, "walk")' PROVE Ahead(n, S, u)'
      BY <2>6
    <3>1. call'[u] = call[u] /\ At(u, "walk")
      BY <1>2 DEF At
    <3> QED
      BY <3>1 DEF ListOK, Ahead, C
  <2> QED
    BY <2>1, <2>7 DEF ListInv, ListOK
<1> QED
  BY <1>7, <1>8

\* A search ends at the file of the caller: its name is no other's.
LEMMA FindLeaveStep ==
  ASSUME IInv, NEW t \in Threads, FindLeave(t)
  PROVE  CallInv' /\ MutexInv' /\ AloneInv' /\ FileInv' /\ NameInv' /\ ListInv'
<1>1. At(t, "walk") /\ WalkEnds(t) /\ mutex' = Nobody /\ UNCHANGED <<pMain, file>>
  BY DEF FindLeave, LeaveList
<1>2. call' = [call EXCEPT ![t] = [call[t] EXCEPT !.pc = AfterFind[call[t].op],
                                                  !.found = call[t].cursor, !.cursor = Null]]
  BY DEF FindLeave
<1>3. /\ Op(t) \in {"key", "journal", "rekey", "rekeyAttach", "rekeyDrop"}
      /\ C(t) \in Conns /\ file[C(t)].state = "open"
  BY <1>1, Searching DEF At
<1>4. /\ UNCHANGED <<C(t), Op(t)>> /\ call'[t].pc = AfterFind[Op(t)]
      /\ call'[t].found = call[t].cursor
      /\ \A u \in Threads \ {t} : call'[u] = call[u]
  BY <1>2 DEF IInv, TypeInv, Calls, C, Op
<1>5. call[t].cursor = C(t)
  <2> PICK n \in Nat : \E S \in [1 .. n -> Conns] : ListOK(n, S)
    BY DEF IInv, ListInv
  <2> PICK S \in [1 .. n -> Conns] : ListOK(n, S)
    OBVIOUS
  <2>1. call[t].cursor \in Conns
    BY <1>1 DEF ListOK, Ahead
  <2>2. file[call[t].cursor].name = file[C(t)].name
    BY <1>1, <2>1, FilesAssumption DEF WalkEnds
  <2>3. file[C(t)].name # Null
    BY <1>3 DEF IInv, FileInv, FileOK
  <2> QED
    BY <1>3, <2>1, <2>2, <2>3 DEF IInv, NameInv
<1>6. /\ Op(t) = "key" => AfterFind[Op(t)] = "swap"
      /\ Op(t) = "journal" => AfterFind[Op(t)] = "attach"
      /\ Op(t) = "rekey" => AfterFind[Op(t)] = "get"
      /\ Op(t) = "rekeyAttach" => AfterFind[Op(t)] = "swap"
      /\ Op(t) = "rekeyDrop" => AfterFind[Op(t)] = "swap"
  BY DEF AfterFind
<1>7. Shape(t)' /\ Relies(t)' /\ ~InList(t)'
  <2>1. Shape(t)'
    BY <1>3, <1>4, <1>6 DEF Shape, C, Op, At
  <2>2. Relies(t)'
    BY <1>1, <1>3, <1>4, <1>5, <1>6 DEF Relies, Users, C, Op, At
  <2>3. ~InList(t)'
    BY <1>3, <1>4, <1>6 DEF InList
  <2> QED
    BY <2>1, <2>2, <2>3
<1>8. mutex = t
  BY <1>1 DEF IInv, MutexInv, InList, At
<1>9. CallInv' /\ MutexInv' /\ AloneInv' /\ FileInv' /\ NameInv'
  BY <1>1, <1>3, <1>4, <1>7, <1>8, FilesAssumption, WalkStep DEF Users
<1>10. ListInv'
  BY <1>1, <1>4, <1>7, ListSame DEF IInv, At, InList
<1> QED
  BY <1>9, <1>10

\* A file that begins to close stays on the list.
LEMMA CloseDbStep ==
  ASSUME IInv, NEW t \in Threads, NEW c \in Conns, CloseDb(t, c)
  PROVE  CallInv' /\ MutexInv' /\ AloneInv' /\ FileInv' /\ NameInv' /\ ListInv'
<1>1. /\ At(t, "idle") /\ file[c].state = "open" /\ UNCHANGED <<pMain, mutex>>
      /\ \A u \in Threads \ {t} : C(u) # c
  BY DEF CloseDb, MayUse, Alone
<1>2. Op(t) = "none" /\ C(t) = Null
  BY <1>1 DEF IInv, CallInv, Shape, At
<1>3. /\ file' = [file EXCEPT ![c] = [file[c] EXCEPT !.state = "closing", !.journal = Null]]
      /\ call' = [call EXCEPT ![t] = Call("close", "removeEnter", c)]
  BY DEF CloseDb
<1>4. /\ \A d \in Conns \ {c} : file'[d] = file[d]
      /\ file'[c].state = "closing" /\ file'[c].journal = Null
      /\ file'[c].name = file[c].name /\ file'[c].next = file[c].next
  BY <1>3 DEF IInv, TypeInv, TypeOK
<1>5. /\ \A u \in Threads \ {t} : call'[u] = call[u]
      /\ Op(t)' = "close" /\ At(t, "removeEnter")' /\ C(t)' = c
  BY <1>3 DEF IInv, TypeInv, Call, NoCall, Op, At, C
<1>6. Shape(t)' /\ Relies(t)' /\ ~InList(t)' /\ ~InList(t)
  BY <1>1, <1>4, <1>5 DEF Shape, Relies, InList, Users, At, Op
<1>7. FileOK(c)'
  BY <1>1, <1>4, <1>5 DEF FileOK, IInv, FileInv
<1>8. mutex # t
  BY <1>6 DEF IInv, MutexInv
<1>9. CallInv' /\ MutexInv' /\ AloneInv' /\ FileInv' /\ NameInv'
  BY <1>1, <1>2, <1>4, <1>5, <1>6, <1>7, <1>8, OwnStep
<1>10. ListInv'
  BY <1>1, <1>4, <1>5, ListSame DEF IInv, InChain, At
<1> QED
  BY <1>9, <1>10

\* mcMainListRemove enters the mutex of the shim.
LEMMA RemoveEnterStep ==
  ASSUME IInv, NEW t \in Threads, RemoveEnter(t)
  PROVE  CallInv' /\ MutexInv' /\ AloneInv' /\ FileInv' /\ NameInv' /\ ListInv'
<1> PICK c : c = C(t)
  OBVIOUS
<1>1. Op(t) = "close" /\ c \in Conns /\ At(t, "removeEnter")
  BY DEF RemoveEnter, IInv, CallInv, Shape, At
<1>2. file[c].state = "closing" /\ FileOK(c)
  BY <1>1 DEF IInv, CallInv, Relies, FileInv, At
<1>3. /\ UNCHANGED file /\ \A u \in Threads \ {t} : call'[u] = call[u]
      /\ call'[t] = [call[t] EXCEPT !.pc = "unlink"]
  BY DEF RemoveEnter, Goto, IInv, TypeInv
<1>4. Op(t)' = "close" /\ At(t, "unlink")' /\ C(t)' = c
  BY <1>1, <1>3 DEF Op, At, C, IInv, TypeInv, Calls
<1>5. \A u \in Threads \ {t} : C(u) # c
  BY <1>1, NobodyElse
<1>6. Shape(t)' /\ Relies(t)'
  BY <1>1, <1>2, <1>3, <1>4 DEF Shape, Relies, Users, At, Op
<1>7. FileOK(c)'
  BY <1>2, <1>3, <1>4 DEF FileOK
<1>8. UNCHANGED pMain /\ mutex = Nobody /\ mutex' = t /\ InList(t)'
  BY <1>4 DEF RemoveEnter, EnterList, InList, At
<1>9. CallInv' /\ MutexInv' /\ AloneInv' /\ FileInv' /\ NameInv'
  BY <1>1, <1>3, <1>4, <1>5, <1>6, <1>7, <1>8, OwnStep
<1>10. ListInv'
  BY <1>3, <1>4, <1>8, ListSame DEF IInv, At
<1> QED
  BY <1>9, <1>10

\* A file that is off the list is closed.
LEMMA XCloseStep ==
  ASSUME IInv, NEW t \in Threads, XClose(t)
  PROVE  CallInv' /\ MutexInv' /\ AloneInv' /\ FileInv' /\ NameInv' /\ ListInv'
<1> PICK c : c = C(t)
  OBVIOUS
<1>1. Op(t) = "close" /\ c \in Conns /\ At(t, "xClose")
  BY DEF XClose, IInv, CallInv, Shape, At
<1>2. file[c].state = "unlinked"
  BY <1>1 DEF IInv, CallInv, Relies, At
<1>3. /\ file'[c] = NoFile /\ \A d \in Conns \ {c} : file'[d] = file[d]
      /\ call'[t] = NoCall /\ \A u \in Threads \ {t} : call'[u] = call[u]
  BY <1>1 DEF XClose, Return, IInv, TypeInv, TypeOK
<1>4. Op(t)' = "none" /\ At(t, "idle")' /\ C(t)' = Null
  BY <1>3 DEF NoCall, Op, At, C
<1>5. NoFile.state = "closed" /\ NoFile.name = Null /\ NoFile.next = Null /\ NoFile.journal = Null
  BY DEF NoFile
<1>6. \A u \in Threads \ {t} : C(u) # c
  BY <1>1, NobodyElse
<1>7. Shape(t)' /\ Relies(t)'
  BY <1>4 DEF Shape, Relies, Users, At, Op
<1>8. FileOK(c)'
  BY <1>3, <1>5 DEF FileOK
<1>9. UNCHANGED <<pMain, mutex>> /\ ~InList(t) /\ ~InList(t)'
  BY <1>4, <1>1 DEF XClose, InList, At
<1>10. mutex # t
  BY <1>9 DEF IInv, MutexInv
<1>11. CallInv' /\ MutexInv' /\ AloneInv' /\ FileInv' /\ NameInv'
  BY <1>1, <1>3, <1>4, <1>5, <1>6, <1>7, <1>8, <1>9, <1>10, OwnStep
<1>12. ListInv'
  BY <1>1, <1>2, <1>3, <1>4, <1>5, <1>9, ListSame DEF IInv, InChain, At
<1> QED
  BY <1>11, <1>12

\* Taking a file off the list: the file before it is followed by the one
\* after it.
LEMMA UnlinkStep ==
  ASSUME IInv, NEW t \in Threads, Unlink(t)
  PROVE  CallInv' /\ MutexInv' /\ AloneInv' /\ FileInv' /\ NameInv' /\ ListInv'
<1> PICK c : c = C(t)
  OBVIOUS
<1>1. Op(t) = "close" /\ c \in Conns /\ At(t, "unlink")
  BY DEF Unlink, IInv, CallInv, Shape, At
<1>2. file[c].state = "closing" /\ FileOK(c)
  BY <1>1 DEF IInv, CallInv, Relies, FileInv, At
<1>3. /\ \A u \in Threads \ {t} : call'[u] = call[u]
      /\ call'[t] = [call[t] EXCEPT !.pc = "release"]
  BY DEF Unlink, Goto, IInv, TypeInv
<1>4. Op(t)' = "close" /\ At(t, "release")' /\ C(t)' = c
  BY <1>1, <1>3 DEF Op, At, C, IInv, TypeInv, Calls
<1>5. \A u \in Threads \ {t} : C(u) # c
  BY <1>1, NobodyElse
<1>6. file'[c] = [file[c] EXCEPT !.next = Null, !.state = "unlinked"]
  BY <1>1 DEF Unlink, Unlinked
<1>7. /\ file'[c].state = "unlinked" /\ file'[c].next = Null
      /\ file'[c].name = file[c].name /\ file'[c].journal = file[c].journal
  BY <1>1, <1>6 DEF IInv, TypeInv, TypeOK
<1>8. ASSUME NEW d \in Conns \ {c}
      PROVE  file'[d] = IF file[d].next = c THEN [file[d] EXCEPT !.next = file[c].next]
                                            ELSE file[d]
  BY <1>1 DEF Unlink, Unlinked
<1>9. ASSUME NEW d \in Conns \ {c}
      PROVE  /\ file'[d].state = file[d].state /\ file'[d].name = file[d].name
             /\ file'[d].journal = file[d].journal
             /\ file'[d].next = IF file[d].next = c THEN file[c].next ELSE file[d].next
  BY ZenonT(60), <1>8 DEF IInv, TypeInv, TypeOK
<1>10. mutex = t /\ mutex' = Nobody /\ ~InList(t)'
  BY <1>1, <1>4 DEF Unlink, LeaveList, InList, At, IInv, MutexInv
<1>11. ASSUME NEW d \in Conns \ {c}, file[d].state \notin InChain
       PROVE  file'[d].next = file[d].next
  <2>1. FileOK(d) /\ c # Null
    BY <1>1, FilesAssumption DEF IInv, FileInv
  <2>2. file[d].state \in {"closed", "opening", "unlinked"}
    BY <1>11 DEF IInv, TypeInv, TypeOK, InChain
  <2>3. \A u \in Threads : ~ (Op(u) = "open" /\ At(u, "addMain"))
    <3> SUFFICES ASSUME NEW u \in Threads, Op(u) = "open", At(u, "addMain") PROVE FALSE
      OBVIOUS
    <3>1. mutex = u
      BY DEF IInv, MutexInv, InList, At
    <3> QED
      BY <1>1, <1>10, <3>1
  <2>4. file[d].next = Null
    BY <2>1, <2>2, <2>3 DEF FileOK
  <2> QED
    BY <1>9, <2>1, <2>4
<1>12. Shape(t)' /\ Relies(t)'
  BY <1>1, <1>4, <1>7 DEF Shape, Relies, Users, At, Op
<1>13. FileOK(c)'
  BY <1>2, <1>4, <1>7 DEF FileOK
<1>14. CallInv' /\ MutexInv' /\ AloneInv' /\ FileInv' /\ NameInv'
  BY <1>1, <1>3, <1>4, <1>5, <1>7, <1>9, <1>10, <1>11, <1>12, <1>13, FilesAssumption, OwnStep
<1>15. ListInv'
  <2> PICK n \in Nat : \E S \in [1 .. n -> Conns] : ListOK(n, S)
    BY DEF IInv, ListInv
  <2> PICK S \in [1 .. n -> Conns] : ListOK(n, S)
    OBVIOUS
  <2>1. /\ \A i, j \in 1 .. n : S[i] = S[j] => i = j
        /\ pMain = IF n = 0 THEN Null ELSE S[1]
        /\ \A i \in 1 .. n : file[S[i]].next = IF i = n THEN Null ELSE S[i + 1]
        /\ \A d \in Conns : file[d].state \in InChain <=> \E i \in 1 .. n : S[i] = d
    BY DEF ListOK, Linked, InChain
  <2>2. PICK k \in 1 .. n : S[k] = c
    BY <1>1, <1>2, <2>1 DEF InChain
  <2>3. c # Null /\ file[c].next = IF k = n THEN Null ELSE S[k + 1]
    BY <1>1, <2>1, <2>2, FilesAssumption
  <2>4. \E T \in [1 .. n - 1 -> Conns] :
           \A i \in 1 .. n - 1 : T[i] = IF i < k THEN S[i] ELSE S[i + 1]
    <3> DEFINE T == [i \in 1 .. n - 1 |-> IF i < k THEN S[i] ELSE S[i + 1]]
    <3>1. T \in [1 .. n - 1 -> Conns]
      OBVIOUS
    <3> QED
      BY <3>1
  <2>5. PICK T \in [1 .. n - 1 -> Conns] :
           \A i \in 1 .. n - 1 : T[i] = IF i < k THEN S[i] ELSE S[i + 1]
    BY <2>4
  <2>6. ASSUME NEW i \in 1 .. n, i # k
        PROVE  /\ S[i] \in Conns \ {c}
               /\ file'[S[i]].next = IF i + 1 = k THEN file[c].next
                                     ELSE IF i = n THEN Null ELSE S[i + 1]
    <3>1. S[i] \in Conns \ {c}
      BY <2>1, <2>2, <2>6
    <3>2. file[S[i]].next = IF i = n THEN Null ELSE S[i + 1]
      BY <2>1
    <3>3. CASE i + 1 = k
      BY <1>9, <2>2, <3>1, <3>2, <3>3
    <3>4. CASE i + 1 # k
      <4>1. i # n => S[i + 1] # c
        BY <2>1, <2>2, <3>4
      <4>2. file[S[i]].next # c
        BY <2>3, <3>2, <4>1
      <4> QED
        BY <1>9, <3>1, <3>2, <3>4, <4>2
    <3> QED
      BY <3>3, <3>4
  <2>7. ASSUME NEW i \in 1 .. n - 1
        PROVE  file'[T[i]].next = IF i = n - 1 THEN Null ELSE T[i + 1]
    <3>1. CASE i + 1 = k
      <4>1. T[i] = S[i] /\ i \in 1 .. n /\ i # k
        BY <2>5, <3>1
      <4>2. file'[T[i]].next = IF k = n THEN Null ELSE S[k + 1]
        BY <2>3, <2>6, <3>1, <4>1
      <4>3. i # n - 1 => T[i + 1] = S[k + 1]
        BY <2>5, <3>1
      <4> QED
        BY <3>1, <4>2, <4>3
    <3>2. CASE i + 1 < k
      <4>1. T[i] = S[i] /\ T[i + 1] = S[i + 1] /\ i \in 1 .. n /\ i # k /\ i # n /\ i # n - 1
        BY <2>5, <3>2
      <4> QED
        BY <2>6, <3>2, <4>1
    <3>3. CASE k < i + 1
      <4>1. T[i] = S[i + 1] /\ i + 1 \in 1 .. n /\ i + 1 # k /\ (i + 1) + 1 # k
        BY <2>5, <3>3
      <4>2. i # n - 1 => T[i + 1] = S[(i + 1) + 1]
        BY <2>5, <3>3
      <4>3. file'[S[i + 1]].next = IF i + 1 = n THEN Null ELSE S[(i + 1) + 1]
        BY <2>6, <4>1
      <4>4. i + 1 = n <=> i = n - 1
        OBVIOUS
      <4>5. file'[T[i]].next = IF i + 1 = n THEN Null ELSE S[(i + 1) + 1]
        BY <4>1, <4>3
      <4>6. CASE i = n - 1
        BY <4>4, <4>5, <4>6, Zenon
      <4>7. CASE i # n - 1
        BY <4>2, <4>4, <4>5, <4>7, Zenon
      <4> QED
        BY <4>6, <4>7
    <3> QED
      BY <3>1, <3>2, <3>3
  <2>8. ASSUME NEW i \in 1 .. n - 1, NEW j \in 1 .. n - 1, T[i] = T[j]
        PROVE  i = j
    BY <2>1, <2>5, <2>8
  <2>9. pMain' = IF n - 1 = 0 THEN Null ELSE T[1]
    <3>1. pMain' = IF pMain = c THEN file[c].next ELSE pMain
      BY DEF Unlink
    <3>2. n # 0 /\ pMain = S[1] /\ 1 \in 1 .. n
      BY <2>1, <2>2
    <3>3. CASE k = 1
      BY <2>2, <2>3, <2>5, <3>1, <3>2, <3>3
    <3>4. CASE k # 1
      <4>1. pMain # c
        BY <2>1, <2>2, <3>2, <3>4
      <4>2. n - 1 # 0 /\ T[1] = S[1]
        BY <2>5, <3>4
      <4> QED
        BY <3>1, <3>2, <4>1, <4>2
    <3> QED
      BY <3>3, <3>4
  <2>10. ASSUME NEW d \in Conns
         PROVE  file'[d].state \in InChain <=> \E i \in 1 .. n - 1 : T[i] = d
    <3>1. CASE d = c
      <4>1. \A i \in 1 .. n - 1 : T[i] # c
        BY <2>1, <2>2, <2>5
      <4> QED
        BY <1>7, <3>1, <4>1 DEF InChain
    <3>2. CASE d # c
      <4>1. file'[d].state \in InChain <=> \E i \in 1 .. n : S[i] = d
        BY <1>9, <2>1, <3>2
      <4>2. ASSUME NEW i \in 1 .. n, S[i] = d
            PROVE  \E j \in 1 .. n - 1 : T[j] = d
        <5>1. CASE i < k
          BY <2>5, <4>2, <5>1
        <5>2. CASE k < i
          <6>1. i - 1 \in 1 .. n - 1 /\ T[i - 1] = S[(i - 1) + 1] /\ (i - 1) + 1 = i
            BY <2>5, <5>2
          <6> QED
            BY <4>2, <6>1
        <5> QED
          BY <2>2, <3>2, <4>2, <5>1, <5>2
      <4>3. ASSUME NEW j \in 1 .. n - 1, T[j] = d
            PROVE  \E i \in 1 .. n : S[i] = d
        BY <2>5, <4>3
      <4> QED
        BY <4>1, <4>2, <4>3
    <3> QED
      BY <3>1, <3>2
  <2>11. n - 1 \in Nat
    BY <2>2
  <2>12. Linked(n - 1, T)'
    BY <2>5, <2>7, <2>8, <2>9, <2>10 DEF Linked, InChain
  <2>13. \A u \in Threads : ~ At(u, "walk")'
    <3> SUFFICES ASSUME NEW u \in Threads, At(u, "walk")' PROVE FALSE
      OBVIOUS
    <3>1. u # t /\ At(u, "walk")
      BY <1>3, <1>4 DEF At
    <3>2. mutex = u
      BY <3>1 DEF IInv, MutexInv, InList, At
    <3> QED
      BY <1>10, <3>1, <3>2
  <2> QED
    BY <2>11, <2>12, <2>13 DEF ListInv, ListOK
<1> QED
  BY <1>14, <1>15

-----------------------------------------------------------------------------
\* The invariant holds in every state.
LEMMA StepIInv ==
  ASSUME IInv, [Next]_vars
  PROVE  IInv'
<1>1. CASE UNCHANGED vars
  <2>1. UNCHANGED <<vfs, pMain, mutex, file, dbMutex, live, call>>
    BY <1>1 DEF vars
  <2>2. TypeInv' /\ MutexInv' /\ AloneInv' /\ NameInv'
    BY <2>1 DEF IInv, TypeInv, TypeOK, MutexInv, InList, AloneInv, NameInv, C, Op
  <2>3. CallInv'
    BY <2>1 DEF IInv, CallInv, Shape, Relies, C, Op, At
  <2>4. FileInv'
    BY <2>1 DEF IInv, FileInv, FileOK, C, Op, At
  <2>5. ListInv'
    BY <2>1, ListSame DEF IInv
  <2> QED
    BY <2>2, <2>3, <2>4, <2>5 DEF IInv
<1>2. ASSUME NEW t \in Threads, Work(t) \/ Wait(t) \/ Start(t)
      PROVE  IInv'
  <2>1. Vars'
    BY <1>2, StepTypes, TypeInvIsVars DEF IInv
  <2>2. TypeInv'
    BY <2>1, TypeInvIsVarsNext
  <2>3. CASE \/ XOpen(t) \/ SwapCodec(t) \/ FreeCodec(t) \/ SetupCipher(t)
             \/ SetupFails(t) \/ PageDone(t) \/ AttachJournal(t) \/ GetCodec(t)
             \/ RekeyNothing(t) \/ RekeyEnter(t) \/ RekeyLeave(t) \/ RekeyFinish(t)
             \/ RekeyDrop(t) \/ ReleaseCodec(t) \/ Destroy(t) \/ FreeVfs(t)
             \/ PageSizeDiffers(t) \/ RekeyNoMemory(t) \/ Create(t)
             \/ \E c \in Conns : \/ Key(t, c) \/ UsePage(t, c) \/ OpenJournal(t, c)
                                  \/ CloseJournal(t, c) \/ Rekey(t, c)
    BY <2>1, <2>3, QuietActions
  <2>4. CASE \/ XOpenFails(t) \/ AddEnter(t) \/ AddNext(t) \/ AddMain(t)
             \/ FindEnter(t) \/ FindNext(t) \/ FindLeave(t)
             \/ RemoveEnter(t) \/ Unlink(t) \/ XClose(t)
             \/ \E c \in Conns : OpenDb(t, c) \/ CloseDb(t, c)
    BY <2>2, <2>4, XOpenFailsStep, AddEnterStep, AddNextStep, AddMainStep, FindEnterStep,
       FindNextStep, FindLeaveStep, RemoveEnterStep, UnlinkStep, XCloseStep, OpenDbStep,
       CloseDbStep DEF IInv
  <2> QED
    BY <1>2, <2>3, <2>4 DEF Work, Wait, Start
<1> QED
  BY <1>1, <1>2 DEF Next

\* The first invariant holds in every state the shim reaches.
THEOREM Invariance == Spec => []IInv
BY InitIInv, StepIInv, PTL DEF Spec

-----------------------------------------------------------------------------
(* What the first invariant means for the list.                            *)

\* A set of natural numbers that is not empty has a least element.
LEMMA LeastNumber ==
  ASSUME NEW T \in SUBSET Nat, T # {}
  PROVE  \E i \in T : \A j \in T : ~ (j < i)
<1>1. IsWellFoundedOn(OpToRel(<, Nat), Nat)
  BY NatLessThanWellFounded
<1>2. \E i \in T : \A j \in T : ~ (<<j, i>> \in OpToRel(<, Nat))
  BY <1>1, WFMin
<1>3. \A i, j \in Nat : <<j, i>> \in OpToRel(<, Nat) <=> j < i
  BY DEF OpToRel
<1> QED
  BY <1>2, <1>3

\* The list has no more files than there are connections.
LEMMA ListIsShort ==
  ASSUME NEW n \in Nat, NEW S \in [1 .. n -> Conns], Linked(n, S)
  PROVE  Cardinality(Conns) \in Nat /\ n <= Cardinality(Conns)
<1>1. IsFiniteSet(Conns)
  BY FilesAssumption
<1>2. S \in Injection(1 .. n, Conns)
  BY DEF Linked, Injection, IsInjective
<1>3. Cardinality(1 .. n) <= Cardinality(Conns)
  BY <1>1, <1>2, FS_Injection
<1>4. Cardinality(1 .. n) = n
  BY FS_Interval
<1> QED
  BY <1>1, <1>3, <1>4, FS_CardinalityType

\* Following the links from the first file visits the files of the list.
LEMMA ChainIsList ==
  ASSUME NEW n \in Nat, NEW S \in [1 .. n -> Conns], Linked(n, S)
  PROVE  \A i \in 0 .. Cardinality(Conns) : Chain[i] = IF i < n THEN S[i + 1] ELSE Null
<1> PICK N : N = Cardinality(Conns)
  OBVIOUS
<1>1. N \in Nat
  BY ListIsShort
<1> DEFINE Steps(g) == [i \in 0 .. N |-> IF i = 0 THEN pMain
                                         ELSE IF g[i - 1] = Null THEN Null ELSE file[g[i - 1]].next]
           f == [i \in 0 .. N |-> IF i < n THEN S[i + 1] ELSE Null]
<1>2. \A i \in 1 .. n : S[i] \in Conns /\ S[i] # Null
  BY FilesAssumption
<1>3. f = Steps(f)
  <2>1. ASSUME NEW i \in 0 .. N PROVE f[i] = Steps(f)[i]
    <3>1. CASE i = 0
      BY <1>1, <3>1 DEF Linked
    <3>2. CASE i # 0 /\ n < i
      BY <1>1, <3>2
    <3>3. CASE i # 0 /\ i <= n
      <4>1. f[i - 1] = S[i] /\ i \in 1 .. n
        BY <1>1, <3>3
      <4>2. file[S[i]].next = IF i = n THEN Null ELSE S[i + 1]
        BY <4>1 DEF Linked
      <4> QED
        BY <1>2, <3>3, <4>1, <4>2
    <3> QED
      BY <1>1, <3>1, <3>2, <3>3
  <2> HIDE DEF Steps
  <2>2. Steps(f) = [i \in 0 .. N |-> Steps(f)[i]]
    BY DEF Steps
  <2> QED
    BY <2>1, <2>2
<1>4. Chain = CHOOSE g : g = Steps(g)
  BY DEF Chain
<1>5. Chain = Steps(Chain)
  <2> HIDE DEF Steps, f
  <2> QED
    BY <1>3, <1>4
<1>6. \A i \in 0 .. N : Chain[i] = f[i]
  <2> DEFINE B == {i \in 0 .. N : Chain[i] # f[i]}
  <2> SUFFICES ASSUME B # {} PROVE FALSE
    OBVIOUS
  <2>1. B \in SUBSET Nat
    BY <1>1
  <2>2. PICK i \in B : \A j \in B : ~ (j < i)
    BY <2>1, LeastNumber
  <2>3. i \in 0 .. N /\ Chain[i] # f[i]
    OBVIOUS
  <2>4. Chain[i] = Steps(Chain)[i] /\ f[i] = Steps(f)[i]
    BY <1>3, <1>5
  <2>5. CASE i = 0
    BY <2>3, <2>4, <2>5
  <2>6. CASE i # 0
    <3>1. i - 1 \in 0 .. N /\ i - 1 < i
      BY <1>1, <2>3, <2>6
    <3>2. Chain[i - 1] = f[i - 1]
      BY <2>2, <3>1
    <3> HIDE DEF f
    <3> QED
      BY <2>3, <2>4, <2>6, <3>2
  <2> QED
    BY <2>5, <2>6
<1> QED
  BY <1>6

\* Whenever nobody holds the mutex of the shim, its list ends and has every
\* open file and no other.
LEMMA IInvList == IInv => ListIsOpenFiles
<1> SUFFICES ASSUME IInv, mutex = Nobody
             PROVE  /\ Chain[Cardinality(Conns)] = Null
                    /\ {Chain[i] : i \in 0 .. Cardinality(Conns)} \ {Null}
                         = {c \in Conns : file[c].state \in {"open", "closing"}}
  BY DEF ListIsOpenFiles
<1> PICK n \in Nat : \E S \in [1 .. n -> Conns] : ListOK(n, S)
  BY DEF IInv, ListInv
<1> PICK S \in [1 .. n -> Conns] : ListOK(n, S)
  OBVIOUS
<1> PICK N : N = Cardinality(Conns)
  OBVIOUS
<1>1. N \in Nat /\ n <= N
  BY ListIsShort DEF ListOK
<1>2. \A i \in 0 .. N : Chain[i] = IF i < n THEN S[i + 1] ELSE Null
  BY ChainIsList DEF ListOK
<1>3. Chain[N] = Null
  BY <1>1, <1>2
<1>4. \A c \in Conns : c # Null /\ (file[c].state \in InChain <=> \E i \in 1 .. n : S[i] = c)
  BY FilesAssumption DEF ListOK, Linked, InChain
<1>5. ASSUME NEW i \in 0 .. N, Chain[i] # Null
      PROVE  Chain[i] \in Conns /\ file[Chain[i]].state \in InChain
  <2>1. i + 1 \in 1 .. n /\ Chain[i] = S[i + 1]
    BY <1>1, <1>2, <1>5
  <2> QED
    BY <1>4, <2>1
<1>6. ASSUME NEW c \in Conns, file[c].state \in InChain
      PROVE  c # Null /\ \E i \in 0 .. N : Chain[i] = c
  <2>1. PICK i \in 1 .. n : S[i] = c
    BY <1>4, <1>6
  <2>2. i - 1 \in 0 .. N /\ i - 1 < n /\ (i - 1) + 1 = i
    BY <1>1
  <2> QED
    BY <1>2, <1>4, <2>1, <2>2
<1> QED
  BY <1>3, <1>5, <1>6 DEF InChain

\* Type correctness of the model.
THEOREM TypeCorrect == Spec => []TypeOK
<1>1. IInv => TypeOK
  BY DEF IInv, TypeInv
<1> QED
  BY <1>1, Invariance, PTL

\* Whenever nobody holds the mutex of the shim, its list has every open main
\* file and no other, whatever the application does (mcMainListAdd,
\* mcMainListRemove).
THEOREM ListKept == Spec => []ListIsOpenFiles
BY IInvList, Invariance, PTL

\* A search by the address of a file name finds the file of the caller
\* (mcFindDbMainFileName), whatever the application does.
THEOREM SearchFindsOwn == Spec => []FindsOwn
<1>1. IInv => FindsOwn
  BY DEF IInv, CallInv, Relies, FindsOwn
<1> QED
  BY <1>1, Invariance, PTL

-----------------------------------------------------------------------------
(* The second invariant: what holds when nobody uses a connection that is  *)
(* being rekeyed.                                                          *)

\* The steps at which a call holds the mutex of its connection.
HoldsDb(t) ==
  \/ Op(t) \in {"key", "page", "journal"}
  \/ Op(t) = "rekey" /\ call[t].pc \in {"setup", "work"}
  \/ Op(t) = "rekeyAttach" /\ ~ At(t, "finish")

DbInv == \A t \in Threads, c \in Conns : dbMutex[c] = t <=> C(t) = c /\ HoldsDb(t)

\* No two calls are on one connection.
Excl == \A t, u \in Threads : t # u /\ C(t) = C(u) => C(t) = Null

\* The codec of a call and that of its file.
Keeps(t) ==
  /\ call[t].prev # Null => At(t, "free")
  /\ At(t, "setup") => call[t].codec # Null
  /\ Op(t) = "rekey" /\ call[t].pc \in {"enter", "work", "finish"} =>
       call[t].codec = file[C(t)].codec
  /\ call[t].pc \in {"work", "finish"} => call[t].codec # Null
  /\ Op(t) = "rekey" /\ At(t, "setup") => file[C(t)].codec = Null
  /\ Op(t) = "rekeyAttach" /\ New(t) =>
       call[t].codec # Null /\ file[C(t)].codec = Null
  /\ Op(t) = "rekeyAttach" /\ ~ New(t) =>
       call[t].prev = Null /\ call[t].codec # Null /\ call[t].codec = file[C(t)].codec
  /\ Op(t) = "page" => call[t].codec = file[C(t)].codec
  /\ Op(t) \in {"none", "destroy"} => call[t].codec = Null
  /\ Op(t) = "close" /\ At(t, "xClose") => file[C(t)].codec = Null

KeepInv == \A t \in Threads : Keeps(t)

BareInv ==
  \A c \in Conns : file[c].state \in {"closed", "opening"} => file[c].codec = Null

\* Whose a codec is.
Has(t) == {x \in Codecs : x = call[t].prev \/ (New(t) /\ x = call[t].codec)}
Its(c) == {x \in Codecs : x = file[c].codec}
HasOwner(x) == (\E c \in Conns : x \in Its(c)) \/ \E t \in Threads : x \in Has(t)

OwnInv ==
  /\ \A x \in Codecs : HasOwner(x) => x \in live
  /\ \A c, d \in Conns : c # d => Its(c) \cap Its(d) = {}
  /\ \A t \in Threads, c \in Conns : Has(t) \cap Its(c) = {}
  /\ \A t, u \in Threads : t # u => Has(t) \cap Has(u) = {}

KInv == IInv /\ DbInv /\ Excl /\ KeepInv /\ BareInv /\ OwnInv

\* What a step of t may do to the codecs: only the end of a rekey that was
\* refused loses one.
Forgets(t, x) == Op(t) = "rekeyRefused" /\ At(t, "finish") /\ call[t].codec = x
Loses(x) == x \in live' /\ ~ HasOwner(x)' /\ ~ (x \in live /\ ~ HasOwner(x))
LosesOnly(t) == \A x \in Codecs : Loses(x) => Forgets(t, x)

\* A thread that is about to use a connection is alone on it.
LEMMA StartsAlone ==
  ASSUME KInv, "rekey" \notin Careless, NEW t \in Threads, NEW c \in Conns,
         MayUse(t, c), dbMutex[c] = Nobody
  PROVE  \A u \in Threads \ {t} : C(u) # c
<1> SUFFICES ASSUME NEW u \in Threads \ {t}, C(u) = c PROVE FALSE
  OBVIOUS
<1>1. c # Null
  BY FilesAssumption
<1>2. Shape(u) /\ Relies(u) /\ file[c].state = "open"
  BY DEF KInv, IInv, CallInv, MayUse
<1>3. Op(u) \notin {"rekey", "rekeyAttach", "rekeyRefused", "rekeyDrop", "close"}
  BY DEF MayUse, Rekeying, Op
<1>4. Op(u) \in {"key", "page", "journal"}
  BY <1>1, <1>2, <1>3 DEF Shape, Relies
<1>5. dbMutex[c] = u
  BY <1>4 DEF KInv, DbInv, HoldsDb
<1> QED
  BY <1>5, FilesAssumption

\* Only the thread that makes a step changes the mutex of a connection.
LEMMA DbStep ==
  ASSUME DbInv, NEW t \in Threads, \A u \in Threads \ {t} : call'[u] = call[u],
         \A c \in Conns : /\ dbMutex'[c] = t <=> C(t)' = c /\ HoldsDb(t)'
                          /\ \/ dbMutex'[c] = dbMutex[c]
                             \/ dbMutex[c] \in {t, Nobody} /\ dbMutex'[c] \in {t, Nobody}
  PROVE  DbInv'
<1> SUFFICES ASSUME NEW u \in Threads \ {t}, NEW c \in Conns
             PROVE  (dbMutex[c] = u <=> C(u) = c /\ HoldsDb(u))'
  BY DEF DbInv
<1>1. (C(u) = c /\ HoldsDb(u))' <=> C(u) = c /\ HoldsDb(u)
  BY DEF C, HoldsDb, Op, At
<1>2. dbMutex[c] = u <=> C(u) = c /\ HoldsDb(u)
  BY DEF DbInv
<1>3. u # Nobody
  BY FilesAssumption
<1> QED
  BY <1>1, <1>2, <1>3

\* The other calls keep what they know when the codec of their files stays.
LEMMA OthersKeep ==
  ASSUME KInv, NEW t \in Threads, NEW u \in Threads \ {t}, call'[u] = call[u],
         C(u) \in Conns => file'[C(u)].codec = file[C(u)].codec
  PROVE  Keeps(u)'
<1>1. Keeps(u) /\ Shape(u)
  BY DEF KInv, KeepInv, IInv, CallInv
<1>2. Op(u) \in Users \cup {"open", "close"} => C(u) \in Conns
  BY <1>1 DEF Shape, Users
<1>3. call[u].pc \in {"work", "finish", "setup", "enter"} => Op(u) \in Users
  BY <1>1 DEF Shape, Users, At
<1> QED
  BY <1>1, <1>2, <1>3 DEF Keeps, New, Users, C, Op, At

\* Codecs pass between a call, its file and the memory that is free.
LEMMA OwnMove ==
  ASSUME OwnInv, NEW t \in Threads, NEW c \in Conns,
         \A u \in Threads \ {t} : call'[u] = call[u],
         \A d \in Conns \ {c} : file'[d].codec = file[d].codec,
         Has(t)' \cap Its(c)' = {},
         \A x \in Codecs :
           x \in live' <=> \/ x \in Has(t)' \cup Its(c)'
                           \/ x \in live /\ x \notin Has(t) \cup Its(c),
         \A x \in Has(t)' \cup Its(c)' : x \in live => x \in Has(t) \cup Its(c)
  PROVE  OwnInv' /\ LosesOnly(t)
<1> PICK H, A, HN, AN : H = Has(t) /\ A = Its(c) /\ HN = Has(t)' /\ AN = Its(c)'
  OBVIOUS
<1>1. \A u \in Threads \ {t} : Has(u)' = Has(u)
  BY DEF Has, New, Op, At
<1>2. \A d \in Conns \ {c} : Its(d)' = Its(d)
  BY DEF Its
<1>3. /\ \A u \in Threads : Has(u) \subseteq Codecs /\ Has(u)' \subseteq Codecs
      /\ \A d \in Conns : Its(d) \subseteq Codecs /\ Its(d)' \subseteq Codecs
  BY DEF Has, Its
<1>4. ASSUME NEW x \in Codecs
      PROVE  (HasOwner(x)' => x \in live') /\ ~ Loses(x)
  <2>1. CASE x \in Has(t)' \cup Its(c)'
    BY <2>1 DEF HasOwner, Loses
  <2>2. CASE x \notin Has(t)' \cup Its(c)'
    <3>1. x \in live' <=> x \in live /\ x \notin Has(t) \cup Its(c)
      BY <2>2
    <3>2. HasOwner(x) => x \in live
      BY DEF OwnInv
    <3>3. HasOwner(x)' <=> \/ \E d \in Conns \ {c} : x \in Its(d)
                          \/ \E u \in Threads \ {t} : x \in Has(u)
      BY <1>1, <1>2, <2>2 DEF HasOwner
    <3>4. ASSUME HasOwner(x), x \notin Has(t) \cup Its(c)
          PROVE  \/ \E d \in Conns \ {c} : x \in Its(d)
                 \/ \E u \in Threads \ {t} : x \in Has(u)
      <4>1. CASE \E d \in Conns : x \in Its(d)
        BY <3>4, <4>1
      <4>2. CASE \E u \in Threads : x \in Has(u)
        BY <3>4, <4>2
      <4> QED
        BY <3>4, <4>1, <4>2 DEF HasOwner
    <3>5. \A d \in Conns \ {c} : x \in Its(d) => x \notin Has(t) \cup Its(c)
      BY DEF OwnInv
    <3>6. \A u \in Threads \ {t} : x \in Has(u) => x \notin Has(t) \cup Its(c)
      BY DEF OwnInv
    <3>7. HasOwner(x)' => HasOwner(x) /\ x \notin Has(t) \cup Its(c)
      BY <3>3, <3>5, <3>6 DEF HasOwner
    <3>8. HasOwner(x) /\ x \notin Has(t) \cup Its(c) => HasOwner(x)'
      BY <3>3, <3>4
    <3> QED
      BY <3>1, <3>2, <3>7, <3>8 DEF Loses
  <2> QED
    BY <2>1, <2>2
<1>5. ASSUME NEW x \in Has(t)' \cup Its(c)'
      PROVE  /\ \A d \in Conns \ {c} : x \notin Its(d)
             /\ \A u \in Threads \ {t} : x \notin Has(u)
  <2>1. x \in Codecs
    BY <1>3
  <2>2. CASE x \in live
    <3>1. x \in Has(t) \cup Its(c)
      BY <2>2
    <3> QED
      BY <3>1 DEF OwnInv
  <2>3. CASE x \notin live
    BY <2>1, <2>3 DEF OwnInv, HasOwner
  <2> QED
    BY <2>2, <2>3
<1>6. \A d, e \in Conns : d # e => Its(d)' \cap Its(e)' = {}
  <2>1. \A d, e \in Conns : d # e => Its(d) \cap Its(e) = {}
    BY DEF OwnInv
  <2> QED
    BY <1>2, <1>5, <2>1
<1>7. \A u \in Threads, d \in Conns : Has(u)' \cap Its(d)' = {}
  <2>1. \A u \in Threads, d \in Conns : Has(u) \cap Its(d) = {}
    BY DEF OwnInv
  <2> QED
    BY <1>1, <1>2, <1>5, <2>1
<1>8. \A u, v \in Threads : u # v => Has(u)' \cap Has(v)' = {}
  <2>1. \A u, v \in Threads : u # v => Has(u) \cap Has(v) = {}
    BY DEF OwnInv
  <2> QED
    BY <1>1, <1>5, <2>1
<1> QED
  BY <1>4, <1>6, <1>7, <1>8 DEF OwnInv, LosesOnly

\* A step of a thread that is alone on its connection.
LEMMA AloneStep ==
  ASSUME KInv, IInv', NEW t \in Threads, \A u \in Threads \ {t} : call'[u] = call[u],
         \/ C(t)' = C(t)
         \/ C(t)' = Null
         \/ \A u \in Threads \ {t} : C(u) # C(t)',
         \A c \in Conns : file'[c].codec = file[c].codec \/ C(t) = c \/ C(t)' = c,
         Keeps(t)', DbInv', BareInv', OwnInv'
  PROVE  KInv'
<1>1. Excl'
  BY DEF KInv, Excl, C
<1>2. KeepInv'
  <2> SUFFICES ASSUME NEW u \in Threads \ {t} PROVE Keeps(u)'
    BY DEF KeepInv
  <2>1. C(u) \in Conns => C(u) # C(t) /\ C(u) # C(t)'
    BY FilesAssumption DEF KInv, Excl
  <2>2. C(u) \in Conns => file'[C(u)].codec = file[C(u)].codec
    BY <2>1
  <2> QED
    BY <2>2, OthersKeep
<1> QED
  BY <1>1, <1>2 DEF KInv

\* How a step changes the mutex of a connection.
DbMoves(t) ==
  \/ UNCHANGED dbMutex /\ ~ HoldsDb(t) /\ ~ HoldsDb(t)'
  \/ UNCHANGED <<dbMutex, C(t)>> /\ HoldsDb(t) /\ HoldsDb(t)'
  \/ C(t)' \in Conns /\ EnterDb(t, C(t)') /\ ~ HoldsDb(t) /\ HoldsDb(t)'
  \/ C(t) \in Conns /\ LeaveDb(C(t)) /\ HoldsDb(t) /\ ~ HoldsDb(t)'

\* A step that enters or leaves the mutex of its connection.
LEMMA DbMove ==
  ASSUME KInv, NEW t \in Threads, \A u \in Threads \ {t} : call'[u] = call[u], DbMoves(t)
  PROVE  DbInv'
<1>1. \A c \in Conns : dbMutex[c] = t <=> C(t) = c /\ HoldsDb(t)
  BY DEF KInv, DbInv
<1>2. t # Nobody /\ dbMutex \in [Conns -> Threads \cup {Nobody}]
  BY FilesAssumption DEF KInv, IInv, TypeInv, TypeOK
<1>3. ASSUME NEW c \in Conns
      PROVE  /\ dbMutex'[c] = t <=> C(t)' = c /\ HoldsDb(t)'
             /\ \/ dbMutex'[c] = dbMutex[c]
                \/ dbMutex[c] \in {t, Nobody} /\ dbMutex'[c] \in {t, Nobody}
  <2>1. CASE UNCHANGED dbMutex /\ ~ HoldsDb(t) /\ ~ HoldsDb(t)'
    BY <1>1, <2>1
  <2>2. CASE UNCHANGED <<dbMutex, C(t)>> /\ HoldsDb(t) /\ HoldsDb(t)'
    BY <1>1, <2>2
  <2>3. CASE C(t)' \in Conns /\ EnterDb(t, C(t)') /\ ~ HoldsDb(t) /\ HoldsDb(t)'
    BY <1>1, <1>2, <2>3 DEF EnterDb
  <2>4. CASE C(t) \in Conns /\ LeaveDb(C(t)) /\ HoldsDb(t) /\ ~ HoldsDb(t)'
    BY <1>1, <1>2, <2>4 DEF LeaveDb
  <2> QED
    BY <2>1, <2>2, <2>3, <2>4 DEF DbMoves
<1> QED
  BY <1>3, DbStep DEF KInv

\* A step that neither allocates, frees nor attaches a codec.  At the end of a
\* rekey that was refused, the call gives its codec up.
Ordinary(t) ==
  /\ \A u \in Threads \ {t} : call'[u] = call[u]
  /\ UNCHANGED live
  /\ \A c \in Conns :
       /\ file'[c].codec = file[c].codec
       /\ file'[c].state \in {"closed", "opening"} => file[c].codec = Null
  /\ \/ C(t)' = C(t)
     \/ C(t)' = Null
     \/ \A u \in Threads \ {t} : C(u) # C(t)'
  /\ Keeps(t)'
  /\ call'[t].prev = call[t].prev
  /\ New(t)' => New(t) /\ call'[t].codec = call[t].codec
  /\ New(t) => New(t)' \/ (Op(t) = "rekeyRefused" /\ At(t, "finish"))
  /\ DbMoves(t)

\* An ordinary step keeps the second invariant.
LEMMA OrdinaryStep ==
  ASSUME KInv, IInv', NEW t \in Threads, Ordinary(t)
  PROVE  KInv' /\ LosesOnly(t)
<1> USE DEF Ordinary
<1>4. \A u \in Threads \ {t} : Has(u)' = Has(u)
  BY DEF Has, New, At
<1>5. /\ Has(t)' \subseteq Has(t)
      /\ \A x \in Has(t) : x \in Has(t)' \/ Forgets(t, x)
  BY DEF Has, Forgets
<1>6. \A c \in Conns : Its(c)' = Its(c)
  BY DEF Its
<1>1. OwnInv' /\ LosesOnly(t)
  <2>1. \A u \in Threads : Has(u)' \subseteq Has(u)
    BY <1>4, <1>5
  <2>2. \A x \in Codecs : HasOwner(x)' => HasOwner(x)
    BY <1>6, <2>1 DEF HasOwner
  <2>3. \A x \in Codecs : HasOwner(x) => HasOwner(x)' \/ Forgets(t, x)
    BY <1>4, <1>5, <1>6 DEF HasOwner
  <2>4. LosesOnly(t)
    BY <2>3 DEF LosesOnly, Loses
  <2> QED
    BY <1>6, <2>1, <2>2, <2>4 DEF KInv, OwnInv
<1>2. BareInv'
  BY DEF BareInv
<1>3. DbInv'
  BY DbMove
<1> QED
  BY <1>1, <1>2, <1>3, AloneStep

\* A call begins on a connection that nobody uses.
LEMMA BeginsOrdinary ==
  ASSUME KInv, NEW t \in Threads, NEW c \in Conns, At(t, "idle"),
         \A u \in Threads \ {t} : C(u) # c, NEW r,
         call' = [call EXCEPT ![t] = r], r.conn = c, r.prev = Null, UNCHANGED live,
         \A d \in Conns :
           /\ file'[d].codec = file[d].codec
           /\ file'[d].state \in {"closed", "opening"} => file[d].codec = Null,
         \/ r.op = "open" /\ r.pc = "xOpen" /\ UNCHANGED dbMutex
         \/ r.op = "close" /\ r.pc = "removeEnter" /\ UNCHANGED dbMutex
         \/ r.op = "journal" /\ r.pc = "find" /\ EnterDb(t, c)
         \/ r.op = "page" /\ r.pc = "codec" /\ EnterDb(t, c) /\ r.codec = file[c].codec
  PROVE  Ordinary(t)
<1>1. call'[t] = r /\ \A u \in Threads \ {t} : call'[u] = call[u]
  BY DEF KInv, IInv, TypeInv
<1>2. Op(t) = "none" /\ call[t].prev = Null
  BY DEF KInv, KeepInv, Keeps, IInv, CallInv, Shape, At
<1>3. ~ New(t) /\ ~ HoldsDb(t)
  BY <1>2 DEF New, HoldsDb, Op, At
<1>4. ~ New(t)' /\ Keeps(t)'
  BY <1>1 DEF New, Keeps, C, Op, At
<1>5. C(t)' = c
  BY <1>1 DEF C
<1>6. \/ UNCHANGED dbMutex /\ ~ HoldsDb(t)'
      \/ EnterDb(t, c) /\ HoldsDb(t)'
  <2>1. Op(t)' = r.op
    BY <1>1 DEF Op
  <2>2. r.op \in {"open", "close"} => ~ HoldsDb(t)'
    BY <2>1 DEF HoldsDb
  <2>3. r.op \in {"page", "journal"} => HoldsDb(t)'
    BY SMTT(60), <2>1 DEF HoldsDb
  <2> QED
    BY <2>2, <2>3, Zenon
<1> QED
  BY <1>1, <1>2, <1>3, <1>4, <1>5, <1>6 DEF Ordinary, DbMoves

\* The steps that leave the codecs as they are.
LEMMA OrdinaryActions ==
  ASSUME KInv, IInv', "rekey" \notin Careless, NEW t \in Threads,
         \/ XOpen(t) \/ XOpenFails(t) \/ AddEnter(t) \/ AddNext(t)
         \/ AddMain(t) \/ FindEnter(t) \/ FindNext(t) \/ FindLeave(t)
         \/ SetupCipher(t) \/ PageDone(t) \/ AttachJournal(t) \/ GetCodec(t)
         \/ PageSizeDiffers(t) \/ RekeyNoMemory(t)
         \/ RekeyNothing(t) \/ RekeyLeave(t) \/ RekeyFinish(t) \/ RekeyDrop(t)
         \/ RemoveEnter(t) \/ Unlink(t) \/ XClose(t) \/ Create(t)
         \/ Destroy(t) \/ FreeVfs(t)
         \/ \E c \in Conns : \/ OpenDb(t, c) \/ UsePage(t, c) \/ OpenJournal(t, c)
                             \/ CloseJournal(t, c) \/ Rekey(t, c) \/ CloseDb(t, c)
  PROVE  KInv' /\ LosesOnly(t)
<1> SUFFICES Ordinary(t)
  BY OrdinaryStep
<1>0. /\ Shape(t) /\ Relies(t) /\ Keeps(t) /\ call \in [Threads -> Calls]
      /\ file \in [Conns -> Files] /\ BareInv
  BY TypeInvIsVars DEF KInv, KeepInv, IInv, CallInv, Vars
<1> USE FilesAssumption DEF Ordinary, DbMoves, Shape, Relies, Keeps, New, HoldsDb, Calls,
     Files, BareInv, C, Op, At, Users
<1>1. CASE XOpen(t)
  BY <1>0, <1>1 DEF XOpen, Goto
<1>2. CASE XOpenFails(t)
  BY <1>0, <1>2 DEF XOpenFails, Return, NoCall, NoFile
<1>3. CASE AddEnter(t)
  BY <1>0, <1>3 DEF AddEnter, Goto
<1>4. CASE AddNext(t)
  BY <1>0, <1>4 DEF AddNext, Goto
<1>5. CASE AddMain(t)
  BY <1>0, <1>5 DEF AddMain, Return, NoCall
<1>6. CASE FindEnter(t)
  BY <1>0, <1>6 DEF FindEnter
<1>7. CASE FindNext(t)
  <2>1. PICK x : call' = [call EXCEPT ![t].cursor = x]
    BY Zenon, <1>7 DEF FindNext
  <2>2. At(t, "walk") /\ UNCHANGED <<file, dbMutex, live>>
    BY <1>7 DEF FindNext
  <2> QED
    BY <1>0, <2>1, <2>2
<1>8. CASE FindLeave(t)
  <2>1. PICK p, x : /\ p = AfterFind[call[t].op]
                    /\ call' = [call EXCEPT ![t].pc = p, ![t].found = x, ![t].cursor = Null]
    BY Zenon, <1>8 DEF FindLeave
  <2>2. At(t, "walk") /\ UNCHANGED <<file, dbMutex, live>>
    BY <1>8 DEF FindLeave
  <2>3. /\ call[t].op = "journal" => p = "attach"
        /\ call[t].op = "rekey" => p = "get"
        /\ call[t].op \in {"key", "rekeyAttach", "rekeyDrop"} => p = "swap"
    BY <2>1 DEF AfterFind
  <2> QED
    BY <1>0, <2>1, <2>2, <2>3
<1>9. CASE SetupCipher(t)
  BY <1>0, <1>9 DEF SetupCipher
<1>10. CASE PageDone(t)
  BY <1>0, <1>10 DEF PageDone, Return, NoCall
<1>11. CASE AttachJournal(t)
  <2>1. PICK x : file' = [file EXCEPT ![C(t)].journal = x]
    BY Zenon, <1>11 DEF AttachJournal
  <2>2. /\ At(t, "attach") /\ call' = [call EXCEPT ![t] = NoCall]
        /\ LeaveDb(C(t)) /\ UNCHANGED live
    BY <1>11 DEF AttachJournal, Return
  <2> QED
    BY <1>0, <2>1, <2>2 DEF NoCall
<1>12. CASE GetCodec(t)
  <2>1. PICK k : /\ k = IF call[t].found = Null THEN Null ELSE file[call[t].found].codec
                 /\ call' = [call EXCEPT ![t].codec = k, ![t].pc = "enter"]
    BY Zenon, <1>12 DEF GetCodec, CodecFound
  <2>2. At(t, "get") /\ UNCHANGED <<file, dbMutex, live>>
    BY <1>12 DEF GetCodec
  <2>3. k = file[C(t)].codec
    BY <1>0, <2>1, <2>2
  <2>4. call' = [call EXCEPT ![t].codec = k, ![t].pc = "enter"]
    BY <2>1
  <2> QED
    BY <1>0, <2>2, <2>3, <2>4
<1>13. CASE RekeyNothing(t)
  BY <1>0, <1>13 DEF RekeyNothing, Return, NoCall
<1>14. CASE RekeyLeave(t)
  BY <1>0, <1>14 DEF RekeyLeave, Goto
<1>15. CASE RekeyFinish(t)
  BY <1>0, <1>15 DEF RekeyFinish, Return, NoCall
<1>16. CASE RekeyDrop(t)
  BY <1>0, <1>16 DEF RekeyDrop
<1>24. CASE PageSizeDiffers(t)
  BY <1>0, <1>24 DEF PageSizeDiffers, LeaveSetup
<1>25. CASE RekeyNoMemory(t)
  BY <1>0, <1>25 DEF RekeyNoMemory, Return, NoCall
<1>17. CASE RemoveEnter(t)
  BY <1>0, <1>17 DEF RemoveEnter, Goto
<1>18. CASE Unlink(t)
  BY <1>0, <1>18 DEF Unlink, Unlinked, Goto
<1>19. CASE XClose(t)
  BY <1>0, <1>19 DEF XClose, Return, NoCall, NoFile
<1>20. CASE Create(t)
  BY <1>0, <1>20 DEF Create
<1>21. CASE Destroy(t)
  BY <1>0, <1>21 DEF Destroy, Call, NoCall
<1>22. CASE FreeVfs(t)
  BY <1>0, <1>22 DEF FreeVfs, Return, NoCall
<1>23. ASSUME NEW c \in Conns,
             \/ OpenDb(t, c) \/ UsePage(t, c) \/ OpenJournal(t, c)
             \/ CloseJournal(t, c) \/ Rekey(t, c) \/ CloseDb(t, c)
       PROVE  Ordinary(t)
  <2>1. CASE OpenDb(t, c)
    <3>1. At(t, "idle") /\ file[c].state = "closed" /\ UNCHANGED <<dbMutex, live>>
      BY <2>1 DEF OpenDb
    <3>2. \A u \in Threads \ {t} : C(u) # c
      BY <3>1, NobodyElse DEF KInv
    <3>3. PICK n : file' = [file EXCEPT ![c] = Fresh(n)]
      BY <2>1 DEF OpenDb
    <3>4. Fresh(n).codec = Null
      BY DEF Fresh, NoFile
    <3>5. \A d \in Conns :
            /\ file'[d].codec = file[d].codec
            /\ file'[d].state \in {"closed", "opening"} => file[d].codec = Null
      BY <1>0, <3>1, <3>3, <3>4
    <3> DEFINE r == Call("open", "xOpen", c)
    <3>6. r.conn = c /\ r.prev = Null /\ r.op = "open" /\ r.pc = "xOpen"
      BY DEF Call, NoCall
    <3>7. call' = [call EXCEPT ![t] = r]
      BY <2>1 DEF OpenDb
    <3> HIDE DEF r
    <3> QED
      BY <3>1, <3>2, <3>5, <3>6, <3>7, BeginsOrdinary
  <2>2. CASE UsePage(t, c)
    <3>1. At(t, "idle") /\ file[c].state = "open" /\ EnterDb(t, c) /\ UNCHANGED <<file, live>>
      BY <2>2 DEF UsePage, MayUse
    <3>2. \A u \in Threads \ {t} : C(u) # c
      BY <2>2, StartsAlone DEF UsePage, EnterDb
    <3>3. PICK f \in {c, file[c].journal} \ {Null} :
            call' = [call EXCEPT ![t] = [Call("page", "codec", c) EXCEPT !.codec = file[f].codec]]
      BY <2>2 DEF UsePage
    <3>4. f = c
      BY DEF KInv, IInv, FileInv, FileOK
    <3> DEFINE r == [Call("page", "codec", c) EXCEPT !.codec = file[f].codec]
    <3>5. /\ r.conn = c /\ r.prev = Null /\ r.op = "page" /\ r.pc = "codec"
          /\ r.codec = file[c].codec
      BY <3>4 DEF Call, NoCall
    <3>6. call' = [call EXCEPT ![t] = r]
      BY <3>3
    <3>7. \A d \in Conns :
            /\ file'[d].codec = file[d].codec
            /\ file'[d].state \in {"closed", "opening"} => file[d].codec = Null
      BY <3>1 DEF KInv, BareInv
    <3> HIDE DEF r
    <3> QED
      BY <3>1, <3>2, <3>5, <3>6, <3>7, BeginsOrdinary
  <2>3. CASE OpenJournal(t, c)
    <3>1. At(t, "idle") /\ EnterDb(t, c) /\ UNCHANGED <<file, live>>
      BY <2>3 DEF OpenJournal, MayUse
    <3>2. \A u \in Threads \ {t} : C(u) # c
      BY <2>3, StartsAlone DEF OpenJournal, EnterDb
    <3> DEFINE r == Call("journal", "find", c)
    <3>3. r.conn = c /\ r.prev = Null /\ r.op = "journal" /\ r.pc = "find"
      BY DEF Call, NoCall
    <3>4. call' = [call EXCEPT ![t] = r]
      BY <2>3 DEF OpenJournal
    <3>5. \A d \in Conns :
            /\ file'[d].codec = file[d].codec
            /\ file'[d].state \in {"closed", "opening"} => file[d].codec = Null
      BY <3>1 DEF KInv, BareInv
    <3> HIDE DEF r
    <3> QED
      BY <3>1, <3>2, <3>3, <3>4, <3>5, BeginsOrdinary
  <2>4. CASE CloseJournal(t, c)
    BY <1>0, <2>4, StartsAlone DEF CloseJournal, MayUse
  <2>5. CASE Rekey(t, c)
    BY <1>0, <2>5, StartsAlone DEF Rekey, MayUse, Call, NoCall, Alone
  <2>6. CASE CloseDb(t, c)
    <3>1. /\ At(t, "idle") /\ UNCHANGED <<dbMutex, live>>
          /\ \A u \in Threads \ {t} : C(u) # c
      BY <2>6 DEF CloseDb, MayUse, Alone
    <3>2. file' = [file EXCEPT ![c] = [file[c] EXCEPT !.state = "closing", !.journal = Null]]
      BY <2>6 DEF CloseDb
    <3>3. \A d \in Conns :
            /\ file'[d].codec = file[d].codec
            /\ file'[d].state \in {"closed", "opening"} => file[d].codec = Null
      BY <1>0, <3>2
    <3> DEFINE r == Call("close", "removeEnter", c)
    <3>4. r.conn = c /\ r.prev = Null /\ r.op = "close" /\ r.pc = "removeEnter"
      BY DEF Call, NoCall
    <3>5. call' = [call EXCEPT ![t] = r]
      BY <2>6 DEF CloseDb
    <3> HIDE DEF r
    <3> QED
      BY <3>1, <3>3, <3>4, <3>5, BeginsOrdinary
  <2> QED
    BY <1>23, <2>1, <2>2, <2>3, <2>4, <2>5, <2>6
<1> QED
  BY ZenonT(60), <1>1, <1>2, <1>3, <1>4, <1>5, <1>6, <1>7, <1>8, <1>9, <1>10, <1>11, <1>12, <1>13,
       <1>14, <1>15, <1>16, <1>17, <1>18, <1>19, <1>20, <1>21, <1>22, <1>23, <1>24, <1>25

\* What is known of the thread that makes a step.
LEMMA Known ==
  ASSUME KInv, NEW t \in Threads
  PROVE  /\ Shape(t) /\ Relies(t) /\ Keeps(t) /\ call[t] \in Calls
         /\ call \in [Threads -> Calls] /\ file \in [Conns -> Files] /\ live \subseteq Codecs
         /\ Has(t) \subseteq live
         /\ \A c \in Conns : Its(c) \subseteq live /\ Has(t) \cap Its(c) = {}
<1>1. /\ Shape(t) /\ Relies(t) /\ Keeps(t) /\ call[t] \in Calls
      /\ call \in [Threads -> Calls] /\ file \in [Conns -> Files] /\ live \subseteq Codecs
  BY TypeInvIsVars DEF KInv, KeepInv, IInv, CallInv, Vars
<1>2. Has(t) \subseteq live /\ \A c \in Conns : Its(c) \subseteq live
  BY DEF KInv, OwnInv, HasOwner, Has, Its
<1>3. \A c \in Conns : Has(t) \cap Its(c) = {}
  BY DEF KInv, OwnInv
<1> QED
  BY <1>1, <1>2, <1>3

\* The codec of the call takes the place of that of the file.
LEMMA SwapCodecKeeps ==
  ASSUME KInv, IInv', NEW t \in Threads, SwapCodec(t)
  PROVE  KInv' /\ LosesOnly(t)
<1>0. /\ Shape(t) /\ Relies(t) /\ Keeps(t) /\ call[t] \in Calls
      /\ call \in [Threads -> Calls] /\ file \in [Conns -> Files] /\ live \subseteq Codecs
      /\ Has(t) \subseteq live
      /\ \A c \in Conns : Its(c) \subseteq live /\ Has(t) \cap Its(c) = {}
  BY Known
<1> PICK c, x : c = C(t) /\ x = IF Op(t) = "rekeyDrop" THEN Null ELSE call[t].codec
  OBVIOUS
<1>1. At(t, "swap") /\ UNCHANGED <<dbMutex, live>>
  BY DEF SwapCodec
<1>2. c \in Conns /\ c # Null /\ Op(t) \in {"key", "rekeyAttach", "rekeyDrop"}
  BY <1>0, <1>1, FilesAssumption DEF Shape, At
<1>3. call[t].found = c /\ file[c].state = "open"
  BY <1>0, <1>1, <1>2 DEF Relies, At, Users
<1>4. file' = [file EXCEPT ![c].codec = x]
  BY <1>2, <1>3 DEF SwapCodec, Op
<1>5. call' = [call EXCEPT ![t] = [call[t] EXCEPT !.pc = "free", !.prev = file[c].codec]]
  BY <1>2, <1>3 DEF SwapCodec
<1>6. /\ \A u \in Threads \ {t} : call'[u] = call[u]
      /\ At(t, "free")' /\ call'[t].prev = file[c].codec /\ C(t)' = c /\ Op(t)' = Op(t)
      /\ call'[t].codec = call[t].codec
  BY <1>0, <1>5 DEF Calls, C, Op, At
<1>7. /\ \A d \in Conns \ {c} : file'[d] = file[d]
      /\ file'[c].codec = x /\ file'[c].state = "open"
  BY <1>0, <1>2, <1>3, <1>4 DEF Files
<1>8. Keeps(t)'
  BY <1>0, <1>1, <1>2, <1>6, <1>7 DEF Keeps, New, C, Op, At
<1>9. DbInv'
  <2>1. UNCHANGED C(t) /\ (HoldsDb(t) <=> HoldsDb(t)')
    BY <1>1, <1>6 DEF HoldsDb, At, Op
  <2> QED
    BY <1>1, <1>6, <2>1, DbMove DEF DbMoves
<1>10. BareInv'
  BY <1>7 DEF KInv, BareInv
<1>11. Has(t)' = Its(c) /\ Its(c)' = Has(t)
  <2>1. Has(t)' = Its(c)
    BY <1>2, <1>6 DEF Has, Its, New, Op, At
  <2>2. call[t].prev = Null
    BY <1>0, <1>1 DEF Keeps, At
  <2>3. New(t) <=> Op(t) # "rekeyDrop"
    BY <1>1, <1>2 DEF New, Op, At
  <2>4. Null \notin Codecs
    BY FilesAssumption
  <2> QED
    BY <1>7, <2>1, <2>2, <2>3, <2>4 DEF Has, Its
<1>12. OwnInv' /\ LosesOnly(t)
  BY <1>0, <1>1, <1>2, <1>6, <1>7, <1>11, OwnMove DEF KInv
<1> QED
  BY <1>6, <1>7, <1>8, <1>9, <1>10, <1>12, AloneStep

\* The codec that was replaced is freed.
LEMMA FreeCodecKeeps ==
  ASSUME KInv, IInv', NEW t \in Threads, FreeCodec(t)
  PROVE  KInv' /\ LosesOnly(t)
<1>0. /\ Shape(t) /\ Relies(t) /\ Keeps(t) /\ call[t] \in Calls
      /\ call \in [Threads -> Calls] /\ file \in [Conns -> Files] /\ live \subseteq Codecs
      /\ Has(t) \subseteq live
      /\ \A c \in Conns : Its(c) \subseteq live /\ Has(t) \cap Its(c) = {}
  BY Known
<1> PICK c : c = C(t)
  OBVIOUS
<1>1. At(t, "free") /\ live' = live \ {call[t].prev} /\ UNCHANGED file
  BY DEF FreeCodec, Freed
<1>2. c \in Conns /\ Op(t) \in {"key", "rekeyAttach", "rekeyDrop"}
  BY <1>0, <1>1 DEF Shape, At
<1>3. \/ call' = [call EXCEPT ![t] = NoCall] /\ Op(t) = "key" /\ LeaveDb(c)
      \/ call' = [call EXCEPT ![t] = NoCall] /\ Op(t) = "rekeyDrop" /\ UNCHANGED dbMutex
      \/ /\ call' = [call EXCEPT ![t].pc = "work", ![t].prev = Null]
         /\ Op(t) = "rekeyAttach" /\ UNCHANGED dbMutex
  BY DEF FreeCodec, Return, Op
<1>4. ASSUME call' = [call EXCEPT ![t].pc = "work", ![t].prev = Null]
      PROVE  call' = [call EXCEPT ![t] = [call[t] EXCEPT !.pc = "work", !.prev = Null]]
  BY <1>4
<1>5. /\ \A u \in Threads \ {t} : call'[u] = call[u]
      /\ C(t)' \in {c, Null} /\ call'[t].prev = Null
      /\ \/ At(t, "idle")' /\ Op(t)' = "none" /\ call'[t].codec = Null
         \/ /\ At(t, "work")' /\ Op(t)' = "rekeyAttach" /\ Op(t) = "rekeyAttach"
            /\ C(t)' = c /\ call'[t].codec = call[t].codec
  BY <1>0, <1>3, <1>4 DEF Calls, NoCall, C, Op, At
<1>6. Keeps(t)'
  BY <1>0, <1>1, <1>5 DEF Keeps, New, C, Op, At
<1>7. DbInv'
  <2>1. CASE call' = [call EXCEPT ![t] = NoCall]
    <3>1. ~ HoldsDb(t)' /\ (HoldsDb(t) <=> Op(t) \in {"key", "rekeyAttach"})
      BY <1>0, <1>1, <1>2, <2>1 DEF HoldsDb, NoCall, Op, At
    <3>2. Op(t) # "rekeyAttach"
      BY <1>0, <1>3, <2>1 DEF Calls, NoCall
    <3> QED
      BY <1>2, <1>3, <1>5, <3>1, <3>2, DbMove DEF DbMoves
  <2>2. CASE /\ call' = [call EXCEPT ![t].pc = "work", ![t].prev = Null]
             /\ Op(t) = "rekeyAttach" /\ UNCHANGED dbMutex
    <3>1. At(t, "work")' /\ Op(t)' = "rekeyAttach" /\ C(t)' = c
      BY <1>0, <1>4, <2>2 DEF Calls, C, Op, At
    <3>2. HoldsDb(t)' /\ HoldsDb(t)
      BY <1>1, <2>2, <3>1 DEF HoldsDb, At
    <3> QED
      BY <1>5, <2>2, <3>1, <3>2, DbMove DEF DbMoves
  <2> QED
    BY <1>3, <2>1, <2>2
<1>8. BareInv'
  BY <1>1 DEF KInv, BareInv
<1>9. Has(t)' = {} /\ Its(c)' = Its(c) /\ Has(t) = {call[t].prev} \cap Codecs
  <2>1. Null \notin Codecs
    BY FilesAssumption
  <2>2. ~ New(t)' /\ ~ New(t)
    BY <1>1, <1>2, <1>5 DEF New, Op, At
  <2> QED
    BY <1>1, <1>5, <2>1, <2>2 DEF Has, Its
<1>10. OwnInv' /\ LosesOnly(t)
  BY <1>0, <1>1, <1>2, <1>5, <1>9, OwnMove DEF KInv
<1> QED
  BY <1>1, <1>5, <1>6, <1>7, <1>8, <1>10, AloneStep

\* The set-up of a new codec fails: the codec is freed.
LEMMA SetupFailsKeeps ==
  ASSUME KInv, IInv', NEW t \in Threads, SetupFails(t)
  PROVE  KInv' /\ LosesOnly(t)
<1>0. /\ Shape(t) /\ Relies(t) /\ Keeps(t) /\ call[t] \in Calls
      /\ call \in [Threads -> Calls] /\ file \in [Conns -> Files] /\ live \subseteq Codecs
      /\ Has(t) \subseteq live
      /\ \A c \in Conns : Its(c) \subseteq live /\ Has(t) \cap Its(c) = {}
  BY Known
<1> PICK c : c = C(t)
  OBVIOUS
<1>1. /\ At(t, "setup") /\ live' = live \ {call[t].codec} /\ UNCHANGED file
      /\ LeaveDb(c) /\ call' = [call EXCEPT ![t] = NoCall]
  BY DEF SetupFails, LeaveSetup, Return
<1>2. c \in Conns /\ Op(t) \in {"key", "rekey"}
  BY <1>0, <1>1 DEF Shape, At
<1>3. /\ \A u \in Threads \ {t} : call'[u] = call[u]
      /\ C(t)' = Null /\ call'[t].prev = Null /\ call'[t].codec = Null
      /\ At(t, "idle")' /\ Op(t)' = "none"
  BY <1>0, <1>1 DEF NoCall, C, Op, At
<1>4. Keeps(t)'
  BY <1>3 DEF Keeps, New, Op, At
<1>5. DbInv'
  <2>1. ~ HoldsDb(t)' /\ HoldsDb(t)
    BY <1>1, <1>2, <1>3 DEF HoldsDb, Op, At
  <2> QED
    BY <1>1, <1>2, <1>3, <2>1, DbMove DEF DbMoves
<1>6. BareInv'
  BY <1>1 DEF KInv, BareInv
<1>7. Has(t)' = {} /\ Its(c)' = Its(c) /\ Has(t) = {call[t].codec} \cap Codecs
  <2>1. Null \notin Codecs
    BY FilesAssumption
  <2>2. ~ New(t)' /\ New(t) /\ call[t].prev = Null
    BY <1>0, <1>1, <1>3 DEF New, Keeps, Op, At
  <2> QED
    BY <1>1, <1>3, <2>1, <2>2 DEF Has, Its
<1>8. OwnInv' /\ LosesOnly(t)
  BY <1>0, <1>1, <1>2, <1>3, <1>7, OwnMove DEF KInv
<1> QED
  BY <1>1, <1>3, <1>4, <1>5, <1>6, <1>8, AloneStep

\* sqlite3_key allocates a codec, or none for an empty key.
LEMMA KeyKeeps ==
  ASSUME KInv, IInv', "rekey" \notin Careless, NEW t \in Threads, NEW c \in Conns, Key(t, c)
  PROVE  KInv' /\ LosesOnly(t)
<1>0. /\ Shape(t) /\ Keeps(t)
      /\ call \in [Threads -> Calls] /\ file \in [Conns -> Files] /\ live \subseteq Codecs
      /\ Its(c) \subseteq live
  BY Known
<1>1. /\ At(t, "idle") /\ EnterDb(t, c) /\ UNCHANGED file
      /\ \A u \in Threads \ {t} : C(u) # c
  BY StartsAlone DEF Key, MayUse, EnterDb
<1>2. PICK new \in (Codecs \ live) \cup {Null} :
         /\ live' = live \cup ({new} \ {Null})
         /\ LET pc == IF new = Null THEN "find" ELSE "setup"
            IN  call' = [call EXCEPT ![t] = [Call("key", pc, c) EXCEPT !.codec = new]]
  BY DEF Key
<1>3. PICK r : /\ call' = [call EXCEPT ![t] = r]
               /\ r.op = "key" /\ r.pc = (IF new = Null THEN "find" ELSE "setup")
               /\ r.conn = c /\ r.codec = new /\ r.prev = Null
  <2> DEFINE q == [Call("key", IF new = Null THEN "find" ELSE "setup", c) EXCEPT !.codec = new]
  <2>1. /\ q.op = "key" /\ q.pc = (IF new = Null THEN "find" ELSE "setup")
        /\ q.conn = c /\ q.codec = new /\ q.prev = Null
    BY DEF Call, NoCall
  <2>2. call' = [call EXCEPT ![t] = q]
    BY <1>2
  <2> HIDE DEF q
  <2> QED
    BY <2>1, <2>2
<1>4. call'[t] = r /\ \A u \in Threads \ {t} : call'[u] = call[u]
  BY <1>0, <1>3
<1>5. Op(t) = "none"
  BY <1>0, <1>1 DEF Shape, At
<1>6. Keeps(t)'
  BY <1>3, <1>4 DEF Keeps, New, C, Op, At
<1>7. DbInv'
  <2>1. HoldsDb(t)' /\ ~ HoldsDb(t) /\ C(t)' = c
    BY <1>3, <1>4, <1>5 DEF HoldsDb, C, Op
  <2> QED
    BY <1>1, <1>4, <2>1, DbMove DEF DbMoves
<1>8. BareInv'
  BY <1>1 DEF KInv, BareInv
<1>9. Has(t)' = {new} \cap Codecs /\ Its(c)' = Its(c) /\ Has(t) = {}
  <2>1. Null \notin Codecs
    BY FilesAssumption
  <2>2. New(t)' /\ ~ New(t) /\ call[t].prev = Null
    BY <1>0, <1>1, <1>3, <1>4, <1>5 DEF New, Keeps, Op, At
  <2> QED
    BY <1>1, <1>3, <1>4, <2>1, <2>2 DEF Has, Its
<1>10. OwnInv' /\ LosesOnly(t)
  <2>1. Null \notin Codecs
    BY FilesAssumption
  <2> QED
    BY <1>0, <1>1, <1>2, <1>4, <1>9, <2>1, OwnMove DEF KInv
<1>11. C(t)' = c
  BY <1>3, <1>4 DEF C
<1> QED
  BY <1>1, <1>4, <1>6, <1>7, <1>8, <1>10, <1>11, AloneStep

\* sqlite3_rekey_v2 enters the mutex, and allocates a codec if it has none.
LEMMA RekeyEnterKeeps ==
  ASSUME KInv, IInv', NEW t \in Threads, RekeyEnter(t)
  PROVE  KInv' /\ LosesOnly(t)
<1>0. /\ Shape(t) /\ Keeps(t) /\ call[t] \in Calls
      /\ call \in [Threads -> Calls] /\ file \in [Conns -> Files] /\ live \subseteq Codecs
      /\ \A c \in Conns : Its(c) \subseteq live
  BY Known
<1> PICK c : c = C(t)
  OBVIOUS
<1>1. At(t, "enter") /\ EnterDb(t, c) /\ UNCHANGED file
  BY DEF RekeyEnter
<1>2. /\ c \in Conns /\ Op(t) = "rekey" /\ call[t].codec = file[c].codec
      /\ call[t].prev = Null
  BY <1>0, <1>1 DEF Shape, Keeps, At
<1>3. PICK r : /\ call' = [call EXCEPT ![t] = r]
               /\ r.op = "rekey" /\ r.conn = c /\ r.prev = Null /\ r.codec \in Codecs
               /\ \/ /\ r.pc = "work" /\ r.codec = call[t].codec /\ UNCHANGED live
                  \/ /\ r.pc = "setup" /\ call[t].codec = Null
                     /\ r.codec \notin live /\ live' = live \cup {r.codec}
  <2>1. CASE call[t].codec # Null /\ call' = [call EXCEPT ![t].pc = "work"] /\ UNCHANGED live
    <3> DEFINE q == [call[t] EXCEPT !.pc = "work"]
    <3>1. call' = [call EXCEPT ![t] = q]
      BY <2>1
    <3>2. /\ q.op = "rekey" /\ q.conn = c /\ q.prev = Null /\ q.pc = "work"
          /\ q.codec = call[t].codec /\ q.codec \in Codecs
      BY <1>0, <1>2, <2>1 DEF Calls, C, Op
    <3> HIDE DEF q
    <3> QED
      BY <2>1, <3>1, <3>2
  <2>2. ASSUME NEW new \in Codecs \ live, call[t].codec = Null, live' = live \cup {new},
               call' = [call EXCEPT ![t].codec = new, ![t].pc = "setup"]
        PROVE  \E q : /\ call' = [call EXCEPT ![t] = q]
                      /\ q.op = "rekey" /\ q.conn = c /\ q.prev = Null /\ q.codec \in Codecs
                      /\ q.pc = "setup" /\ q.codec \notin live /\ live' = live \cup {q.codec}
    <3> DEFINE q == [call[t] EXCEPT !.codec = new, !.pc = "setup"]
    <3>1. call' = [call EXCEPT ![t] = q]
      BY <2>2
    <3>2. /\ q.op = "rekey" /\ q.conn = c /\ q.prev = Null /\ q.pc = "setup" /\ q.codec = new
      BY <1>0, <1>2 DEF Calls, C, Op
    <3> HIDE DEF q
    <3> QED
      BY <2>2, <3>1, <3>2
  <2> QED
    BY <2>1, <2>2 DEF RekeyEnter, Goto
<1>4. call'[t] = r /\ (\A u \in Threads \ {t} : call'[u] = call[u]) /\ C(t)' = c
  BY <1>0, <1>3 DEF C
<1>5. Null \notin Codecs
  BY FilesAssumption
<1>6. Keeps(t)'
  BY <1>1, <1>2, <1>3, <1>4, <1>5 DEF Keeps, New, C, Op, At
<1>7. DbInv'
  <2>1. HoldsDb(t)' /\ ~ HoldsDb(t)
    BY <1>1, <1>2, <1>3, <1>4 DEF HoldsDb, Op, At
  <2> QED
    BY <1>1, <1>2, <1>4, <2>1, DbMove DEF DbMoves
<1>8. BareInv'
  BY <1>1 DEF KInv, BareInv
<1>9. OwnInv' /\ LosesOnly(t)
  <2>1. ~ New(t) /\ Has(t) = {} /\ Its(c)' = Its(c)
    BY <1>1, <1>2, <1>5 DEF New, Has, Its, Op, At
  <2>2. CASE r.pc = "work" /\ UNCHANGED live
    <3>1. ~ New(t)' /\ Has(t)' = {}
      BY <1>3, <1>4, <1>5, <2>2 DEF New, Has, Op, At
    <3> QED
      BY <1>0, <1>1, <1>2, <1>4, <2>1, <2>2, <3>1, OwnMove DEF KInv
  <2>3. CASE r.pc = "setup" /\ r.codec \notin live /\ live' = live \cup {r.codec}
    <3>1. Has(t)' = {r.codec}
      BY <1>3, <1>4, <1>5, <2>3 DEF New, Has, Op, At
    <3> QED
      BY <1>0, <1>1, <1>2, <1>3, <1>4, <2>1, <2>3, <3>1, OwnMove DEF KInv
  <2> QED
    BY <1>3, <2>2, <2>3
<1> QED
  BY <1>1, <1>4, <1>6, <1>7, <1>8, <1>9, AloneStep

\* A file that is closed frees its codec.
LEMMA ReleaseCodecKeeps ==
  ASSUME KInv, IInv', NEW t \in Threads, ReleaseCodec(t)
  PROVE  KInv' /\ LosesOnly(t)
<1>0. /\ Shape(t) /\ Relies(t) /\ Keeps(t) /\ call[t] \in Calls
      /\ call \in [Threads -> Calls] /\ file \in [Conns -> Files] /\ live \subseteq Codecs
      /\ Has(t) \subseteq live
      /\ \A c \in Conns : Its(c) \subseteq live /\ Has(t) \cap Its(c) = {}
  BY Known
<1> PICK c : c = C(t)
  OBVIOUS
<1>1. /\ At(t, "release") /\ live' = live \ {file[c].codec} /\ UNCHANGED dbMutex
      /\ file' = [file EXCEPT ![c].codec = Null] /\ call' = [call EXCEPT ![t].pc = "xClose"]
  BY DEF ReleaseCodec, Goto
<1>2. c \in Conns /\ Op(t) = "close" /\ call[t].prev = Null
  BY <1>0, <1>1 DEF Shape, Keeps, At
<1>3. /\ \A u \in Threads \ {t} : call'[u] = call[u]
      /\ C(t)' = c /\ call'[t].prev = Null /\ At(t, "xClose")' /\ Op(t)' = "close"
  BY <1>0, <1>1, <1>2 DEF Calls, C, Op, At
<1>4. \A d \in Conns \ {c} : file'[d] = file[d]
  BY <1>0, <1>1
<1>5. file'[c].codec = Null /\ Null \notin Codecs
  BY <1>0, <1>1, <1>2, FilesAssumption DEF Files
<1>6. Keeps(t)'
  BY <1>3, <1>5 DEF Keeps, New, C, Op, At
<1>7. DbInv'
  <2>1. ~ HoldsDb(t)' /\ ~ HoldsDb(t)
    BY <1>2, <1>3 DEF HoldsDb, Op
  <2> QED
    BY <1>1, <1>3, <2>1, DbMove DEF DbMoves
<1>8. BareInv'
  BY <1>4, <1>5 DEF KInv, BareInv
<1>9. Has(t)' = {} /\ Has(t) = {} /\ Its(c)' = {} /\ Its(c) = {file[c].codec} \cap Codecs
  <2>1. ~ New(t)' /\ ~ New(t)
    BY <1>1, <1>2, <1>3 DEF New, Op, At
  <2> QED
    BY <1>2, <1>3, <1>5, <2>1 DEF Has, Its
<1>10. OwnInv' /\ LosesOnly(t)
  BY <1>0, <1>1, <1>2, <1>3, <1>4, <1>9, OwnMove DEF KInv
<1> QED
  BY <1>3, <1>4, <1>6, <1>7, <1>8, <1>10, AloneStep

-----------------------------------------------------------------------------
\* No codec is in memory at first.
LEMMA InitKInv == Init => KInv
<1> SUFFICES ASSUME Init PROVE KInv
  OBVIOUS
<1>1. IInv
  BY InitIInv
<1>2. \A t \in Threads : /\ Op(t) = "none" /\ At(t, "idle") /\ C(t) = Null
                         /\ call[t].codec = Null /\ call[t].prev = Null
  BY DEF Init, NoCall, Op, At, C
<1>3. \A c \in Conns : file[c].codec = Null /\ file[c].state = "closed" /\ dbMutex[c] = Nobody
  BY DEF Init, NoFile
<1>4. DbInv
  BY <1>2, <1>3, FilesAssumption DEF DbInv, HoldsDb, At
<1>5. Excl /\ KeepInv /\ BareInv
  BY <1>2, <1>3 DEF Excl, KeepInv, Keeps, New, BareInv, At
<1>6. OwnInv
  <2>1. \A t \in Threads : Has(t) = {}
    BY <1>2, FilesAssumption DEF Has, New, Op, At
  <2>2. \A c \in Conns : Its(c) = {}
    BY <1>3, FilesAssumption DEF Its
  <2> QED
    BY <2>1, <2>2 DEF OwnInv, HasOwner
<1> QED
  BY <1>1, <1>4, <1>5, <1>6 DEF KInv

\* Every step keeps the second invariant, if no rekey is disturbed, and loses
\* no codec, but at the end of a rekey that was refused.
LEMMA StepKInv ==
  ASSUME KInv, [Next]_vars, "rekey" \notin Careless
  PROVE  KInv' /\ \A x \in Codecs : Loses(x) => \E t \in Threads : Forgets(t, x)
<1>0. IInv'
  BY StepIInv DEF KInv
<1>1. CASE UNCHANGED vars
  <2>1. UNCHANGED <<vfs, pMain, mutex, file, dbMutex, live, call>>
    BY <1>1 DEF vars
  <2>2. DbInv' /\ Excl' /\ KeepInv' /\ BareInv'
    BY <2>1 DEF KInv, DbInv, HoldsDb, Excl, KeepInv, Keeps, New, BareInv, C, Op, At
  <2>3. /\ \A t \in Threads : Has(t)' = Has(t)
        /\ \A c \in Conns : Its(c)' = Its(c)
    BY <2>1 DEF Has, Its, New, At
  <2>4. \A x : HasOwner(x)' <=> HasOwner(x)
    BY <2>3 DEF HasOwner
  <2>5. OwnInv'
    BY <2>1, <2>3, <2>4 DEF KInv, OwnInv
  <2>6. \A x : ~ Loses(x)
    BY <2>1, <2>4 DEF Loses
  <2> QED
    BY <1>0, <2>2, <2>5, <2>6 DEF KInv
<1>2. ASSUME NEW t \in Threads, Work(t) \/ Wait(t) \/ Start(t)
      PROVE  KInv' /\ LosesOnly(t)
  <2>1. CASE \/ SwapCodec(t) \/ FreeCodec(t) \/ SetupFails(t) \/ RekeyEnter(t)
             \/ ReleaseCodec(t) \/ \E c \in Conns : Key(t, c)
    BY <1>0, <2>1, SwapCodecKeeps, FreeCodecKeeps, SetupFailsKeeps, RekeyEnterKeeps,
       ReleaseCodecKeeps, KeyKeeps
  <2>2. CASE \/ XOpen(t) \/ XOpenFails(t) \/ AddEnter(t) \/ AddNext(t)
             \/ AddMain(t) \/ FindEnter(t) \/ FindNext(t) \/ FindLeave(t)
             \/ SetupCipher(t) \/ PageDone(t) \/ AttachJournal(t) \/ GetCodec(t)
             \/ PageSizeDiffers(t) \/ RekeyNoMemory(t)
             \/ RekeyNothing(t) \/ RekeyLeave(t) \/ RekeyFinish(t) \/ RekeyDrop(t)
             \/ RemoveEnter(t) \/ Unlink(t) \/ XClose(t) \/ Create(t)
             \/ Destroy(t) \/ FreeVfs(t)
             \/ \E c \in Conns : \/ OpenDb(t, c) \/ UsePage(t, c) \/ OpenJournal(t, c)
                                 \/ CloseJournal(t, c) \/ Rekey(t, c) \/ CloseDb(t, c)
    BY <1>0, <2>2, OrdinaryActions
  <2> QED
    BY <1>2, <2>1, <2>2 DEF Work, Wait, Start
<1> QED
  BY <1>1, <1>2 DEF Next, LosesOnly

\* If nobody uses a connection that is being rekeyed, a call works with the
\* codec of its file, and that codec has not been freed; what a refused rekey
\* completes is the codec it has allocated, which no file has.
THEOREM CodecStays == "rekey" \notin Careless => (Spec => []CodecInUse)
<1> SUFFICES ASSUME "rekey" \notin Careless PROVE Spec => []CodecInUse
  OBVIOUS
<1>1. KInv => CodecInUse
  <2> SUFFICES ASSUME KInv, NEW t \in Threads, call[t].pc \in {"codec", "work", "finish"}
               PROVE  /\ call[t].pc \in {"work", "finish"} => call[t].codec \in live
                      /\ IF call[t].op = "rekeyRefused"
                           THEN \A c \in Conns : file[c].codec # call[t].codec
                           ELSE /\ call[t].codec = file[C(t)].codec
                                /\ call[t].codec \in live \cup {Null}
    BY DEF CodecInUse
  <2>1. /\ Shape(t) /\ Keeps(t) /\ Has(t) \subseteq live
        /\ \A c \in Conns : Its(c) \subseteq live /\ Has(t) \cap Its(c) = {}
    BY Known
  <2>2. /\ call[t].pc \in {"work", "finish"} => call[t].codec # Null
        /\ call[t].codec \in Codecs \cup {Null}
    BY <2>1, Known DEF Keeps, Calls
  <2>3. CASE Op(t) = "rekeyRefused"
    <3>1. At(t, "finish") /\ call[t].codec \in Codecs
      BY <2>1, <2>2, <2>3 DEF Shape, At
    <3>2. call[t].codec \in Has(t)
      BY <2>3, <3>1 DEF Has, New, Op
    <3>3. \A c \in Conns : file[c].codec = call[t].codec => call[t].codec \in Its(c)
      BY <3>1 DEF Its
    <3> QED
      BY <2>1, <2>3, <3>2, <3>3 DEF Op
  <2>4. CASE Op(t) # "rekeyRefused"
    <3>1. C(t) \in Conns /\ call[t].codec = file[C(t)].codec
      BY <2>1, <2>4 DEF Shape, Keeps, New, Op, At
    <3> QED
      BY <2>1, <2>2, <2>4, <3>1 DEF Its, Op
  <2> QED
    BY <2>3, <2>4
<1>2. KInv /\ [Next]_vars => KInv'
  BY StepKInv
<1> QED
  BY <1>1, <1>2, InitKInv, PTL DEF Spec

\* What the model holds to be owned is what has an owner.
OwnedAre == \A x : x \in Owned <=> x \in Codecs /\ HasOwner(x)

\* The types suffice for that.
LEMMA OwnedIs == TypeOK => OwnedAre
<1> SUFFICES ASSUME TypeOK, NEW x PROVE x \in Owned <=> x \in Codecs /\ HasOwner(x)
  BY DEF OwnedAre
<1>1. /\ \A t \in Threads : call[t].prev \in Codecs \cup {Null}
                            /\ call[t].codec \in Codecs \cup {Null}
      /\ \A c \in Conns : file[c].codec \in Codecs \cup {Null}
      /\ Null \notin Codecs
  BY FilesAssumption DEF TypeOK
<1>2. ASSUME NEW t \in Threads PROVE x \in Held(t) <=> x \in Has(t)
  BY <1>1 DEF Held, Has
<1>3. (\E c \in Conns : x \in Its(c)) <=> \E c \in Attached : x = file[c].codec
  BY <1>1 DEF Its, Attached
<1>4. x \in Owned <=> \/ \E c \in Attached : x = file[c].codec
                      \/ \E t \in Threads : x \in Held(t)
  BY DEF Owned
<1> QED
  BY <1>2, <1>3, <1>4 DEF HasOwner, Has, Its

\* If nobody uses a connection that is being rekeyed, no codec has two owners,
\* and one that has an owner is not freed.
THEOREM CodecsHaveOwners == "rekey" \notin Careless => (Spec => []CodecsOwned)
<1> SUFFICES ASSUME "rekey" \notin Careless PROVE Spec => []CodecsOwned
  OBVIOUS
<1>1. KInv => CodecsOwned
  <2> SUFFICES ASSUME KInv PROVE CodecsOwned
    OBVIOUS
  <2>1. /\ TypeOK /\ OwnInv
    BY DEF KInv, IInv, TypeInv
  <2>2. /\ \A t \in Threads : call[t].prev \in Codecs \cup {Null}
                              /\ call[t].codec \in Codecs \cup {Null}
        /\ \A c \in Conns : file[c].codec \in Codecs \cup {Null}
        /\ Null \notin Codecs
    BY <2>1, FilesAssumption DEF TypeOK
  <2>3. \A t \in Threads : Held(t) = Has(t)
    BY <2>2 DEF Held, Has
  <2>4. \A c \in Attached : c \in Conns /\ file[c].codec \in Its(c)
    BY <2>2 DEF Attached, Its
  <2>5. Owned \subseteq live
    BY <2>1, OwnedIs DEF OwnInv, OwnedAre
  <2>6. \A c, d \in Attached : c # d => file[c].codec # file[d].codec
    BY <2>1, <2>4 DEF OwnInv
  <2>7. \A t \in Threads, c \in Attached : file[c].codec \notin Held(t)
    BY <2>1, <2>3, <2>4 DEF OwnInv
  <2>8. \A t, u \in Threads : t # u => Held(t) \cap Held(u) = {}
    BY <2>1, <2>3 DEF OwnInv
  <2> QED
    BY <2>5, <2>6, <2>7, <2>8 DEF CodecsOwned
<1>2. KInv /\ [Next]_vars => KInv'
  BY StepKInv
<1> QED
  BY <1>1, <1>2, InitKInv, PTL DEF Spec

\* Under the same condition no step loses a codec, but the last of a rekey that
\* was refused for its page size, which loses the codec that rekey allocated.
THEOREM CodecsNotLost == "rekey" \notin Careless => (Spec => OnlyRefusedLost)
<1> SUFFICES ASSUME "rekey" \notin Careless PROVE Spec => OnlyRefusedLost
  OBVIOUS
<1> DEFINE OnlyRefused ==
      \A k \in (live' \ Owned') \ (live \ Owned) :
        \E t \in Threads :
          call[t].op = "rekeyRefused" /\ At(t, "finish") /\ call[t].codec = k
<1>1. KInv /\ [Next]_vars => KInv' /\ OnlyRefused
  <2> SUFFICES ASSUME KInv, [Next]_vars, NEW k \in (live' \ Owned') \ (live \ Owned)
               PROVE  /\ KInv'
                      /\ \E t \in Threads : Forgets(t, k)
    BY StepKInv DEF Forgets, Op
  <2>1. KInv' /\ \A x \in Codecs : Loses(x) => \E t \in Threads : Forgets(t, x)
    BY StepKInv
  <2>2. TypeOK /\ TypeOK' /\ live' \subseteq Codecs
    BY <2>1 DEF KInv, IInv, TypeInv, TypeOK
  <2>3. OwnedAre /\ OwnedAre'
    <3>1. TypeOK' => OwnedAre'
      BY OwnedIs, PTL
    <3> QED
      BY <2>2, <3>1, OwnedIs
  <2>4. /\ k \in Owned <=> k \in Codecs /\ HasOwner(k)
        /\ k \in Owned' <=> k \in Codecs /\ HasOwner(k)'
    BY <2>3 DEF OwnedAre
  <2>5. k \in Codecs /\ Loses(k)
    BY <2>2, <2>4 DEF Loses
  <2> QED
    BY <2>1, <2>5
<1>2. Init => KInv
  BY InitKInv
<1> QED
  BY <1>1, <1>2, PTL DEF Spec, OnlyRefusedLost

-----------------------------------------------------------------------------
(* The third invariant: what holds when nobody opens or closes a file      *)
(* while the shim is destroyed.                                            *)

VfsInv ==
  vfs = "freed" \/ (\E t \in Threads : Op(t) = "destroy") =>
    \A c \in Conns : file[c].state = "closed"

\* An empty list, and no call that opens or closes a file: all are closed.
LEMMA AllClosed ==
  ASSUME IInv, pMain = Null, \A u \in Threads : Op(u) \notin {"open", "close"}
  PROVE  \A c \in Conns : file[c].state = "closed"
<1> PICK n \in Nat : \E S \in [1 .. n -> Conns] : ListOK(n, S)
  BY DEF IInv, ListInv
<1> PICK S \in [1 .. n -> Conns] : ListOK(n, S)
  OBVIOUS
<1>1. n = 0
  <2>1. n # 0 => S[1] \in Conns
    OBVIOUS
  <2> QED
    BY <2>1, FilesAssumption DEF ListOK, Linked
<1>2. \A c \in Conns : file[c].state \notin {"open", "closing"}
  BY <1>1 DEF ListOK, Linked
<1>3. \A c \in Conns : file[c].state \notin {"opening", "unlinked"}
  BY DEF IInv, FileInv, FileOK
<1> QED
  BY <1>2, <1>3 DEF IInv, TypeInv, TypeOK

\* While all files are closed, nothing but an open can change a file.
LEMMA StayClosed ==
  ASSUME IInv, \A c \in Conns : file[c].state = "closed", NEW t \in Threads,
         Work(t) \/ Wait(t) \/ Start(t), \A c \in Conns : ~ OpenDb(t, c)
  PROVE  /\ UNCHANGED file
         /\ \/ UNCHANGED <<vfs, call>>
            \/ Create(t) \/ Destroy(t) \/ FreeVfs(t)
<1>1. Op(t) \in {"none", "destroy"} /\ Shape(t)
  <2>1. Op(t) \in Users \cup {"open", "close"} => C(t) \in Conns
    BY DEF IInv, CallInv, Shape, Users
  <2> QED
    BY <2>1 DEF IInv, CallInv, Shape, Relies, Users
<1>2. call[t].pc \in {"idle", "destroy"}
  BY <1>1 DEF Shape, At
<1>3. ~ Wait(t)
  <2>1. /\ ~ At(t, "addEnter") /\ ~ At(t, "find") /\ ~ At(t, "enter")
        /\ ~ At(t, "removeEnter")
    BY <1>2 DEF At
  <2> QED
    BY Zenon, <2>1 DEF Wait, AddEnter, FindEnter, RekeyEnter, RekeyNoMemory, RemoveEnter
<1>4. Work(t) => FreeVfs(t)
  <2>1. /\ ~ At(t, "xOpen") /\ ~ At(t, "addNext") /\ ~ At(t, "addMain") /\ ~ At(t, "walk")
        /\ ~ At(t, "swap") /\ ~ At(t, "free") /\ ~ At(t, "setup") /\ ~ At(t, "codec")
        /\ ~ At(t, "attach") /\ ~ At(t, "get") /\ ~ At(t, "work") /\ ~ At(t, "finish")
        /\ ~ At(t, "unlink") /\ ~ At(t, "release") /\ ~ At(t, "xClose")
    BY <1>2 DEF At
  <2>2. ~ RekeyNothing(t) /\ ~ RekeyDrop(t)
    BY <1>2 DEF RekeyNothing, RekeyDrop, At
  <2> QED
    BY Zenon, <2>1, <2>2 DEF Work, XOpen, XOpenFails, AddNext, AddMain, FindNext, FindLeave,
       SwapCodec, FreeCodec, PageDone, AttachJournal, GetCodec, SetupCipher, SetupFails,
       PageSizeDiffers, RekeyLeave, RekeyFinish, Unlink, ReleaseCodec, XClose
<1>5. Start(t) => Create(t) \/ Destroy(t)
  BY DEF Start, Key, UsePage, OpenJournal, CloseJournal, Rekey, CloseDb, MayUse
<1> QED
  BY <1>3, <1>4, <1>5 DEF FreeVfs, Create, Destroy

\* No other step frees the shim or begins to.
LEMMA StepOps ==
  ASSUME IInv, NEW t \in Threads, Work(t) \/ Wait(t) \/ Start(t),
         ~ FreeVfs(t), ~ Create(t), ~ Destroy(t), \A u \in Threads : Op(u) # "destroy"
  PROVE  UNCHANGED vfs /\ \A u \in Threads : Op(u)' # "destroy"
<1>0. call \in [Threads -> Calls]
  BY DEF IInv, TypeInv
<1>1. UNCHANGED vfs
  BY DEF Work, Wait, Start, XOpen, XOpenFails, AddNext, AddMain, FindNext, FindLeave,
       SwapCodec,
         FreeCodec, PageDone, AttachJournal, GetCodec, RekeyNothing, SetupCipher, SetupFails,
         RekeyLeave, RekeyFinish, RekeyDrop, Unlink, ReleaseCodec, XClose, AddEnter, FindEnter,
         PageSizeDiffers, RekeyEnter, RekeyNoMemory, RemoveEnter, OpenDb, Key, UsePage, OpenJournal, CloseJournal, Rekey, CloseDb
<1> SUFFICES ASSUME NEW u \in Threads, Op(u)' = "destroy" PROVE FALSE
  BY <1>1
<1>2. CASE \/ XOpen(t) \/ AddEnter(t) \/ AddNext(t) \/ RekeyLeave(t)
             \/ RemoveEnter(t) \/ Unlink(t) \/ ReleaseCodec(t)
  BY <1>0, <1>2 DEF XOpen, AddEnter, AddNext, RekeyLeave, RemoveEnter, Unlink,
       ReleaseCodec, Goto, Calls, Op
<1>3. CASE FindEnter(t) \/ FindNext(t) \/ FindLeave(t) \/ SwapCodec(t) \/ GetCodec(t)
  BY <1>0, <1>3 DEF FindEnter, FindNext, FindLeave, SwapCodec, GetCodec, Calls, Op
<1>4. CASE \/ XOpenFails(t) \/ AddMain(t) \/ PageDone(t) \/ AttachJournal(t)
             \/ RekeyNothing(t) \/ RekeyFinish(t) \/ SetupFails(t) \/ XClose(t)
             \/ RekeyNoMemory(t)
  BY <1>0, <1>4 DEF XOpenFails, AddMain, PageDone, AttachJournal, RekeyNothing,
       RekeyFinish, SetupFails, XClose, RekeyNoMemory, Return, NoCall, Calls, Op
<1>5. CASE FreeCodec(t)
  BY <1>0, <1>5 DEF FreeCodec, Return, NoCall, Calls, Op
<1>6. CASE RekeyEnter(t)
  BY ZenonT(60), <1>0, <1>6 DEF RekeyEnter, Goto, Calls, Op
<1>7. CASE SetupCipher(t) \/ PageSizeDiffers(t) \/ RekeyDrop(t)
  BY <1>0, <1>7 DEF SetupCipher, PageSizeDiffers, RekeyDrop, Calls, Op
<1>8. ASSUME NEW c \in Conns,
             \/ OpenDb(t, c) \/ Key(t, c) \/ UsePage(t, c) \/ OpenJournal(t, c)
             \/ CloseJournal(t, c) \/ Rekey(t, c) \/ CloseDb(t, c)
      PROVE  FALSE
  <2>1. CASE OpenDb(t, c)
    <3>1. Call("open", "xOpen", c).op # "destroy"
      BY DEF Call, NoCall
    <3> QED
      BY <1>0, <2>1, <3>1 DEF OpenDb, Op
  <2>2. CASE Key(t, c)
    <3>1. PICK new, pc : call' = [call EXCEPT ![t] = [Call("key", pc, c) EXCEPT !.codec = new]]
      BY <2>2 DEF Key
    <3>2. [Call("key", pc, c) EXCEPT !.codec = new].op # "destroy"
      BY DEF Call, NoCall
    <3> QED
      BY <1>0, <3>1, <3>2 DEF Op
  <2>3. CASE UsePage(t, c)
    <3>1. PICK x : call' = [call EXCEPT ![t] = [Call("page", "codec", c) EXCEPT !.codec = x]]
      BY <2>3 DEF UsePage
    <3>2. [Call("page", "codec", c) EXCEPT !.codec = x].op # "destroy"
      BY DEF Call, NoCall
    <3> QED
      BY <1>0, <3>1, <3>2 DEF Op
  <2>4. CASE OpenJournal(t, c) \/ Rekey(t, c)
    <3>1. Call("journal", "find", c).op # "destroy" /\ Call("rekey", "find", c).op # "destroy"
      BY DEF Call, NoCall
    <3> QED
      BY <1>0, <2>4, <3>1 DEF OpenJournal, Rekey, Op
  <2>5. CASE CloseJournal(t, c)
    BY <2>5 DEF CloseJournal, Op
  <2>6. CASE CloseDb(t, c)
    <3>1. Call("close", "removeEnter", c).op # "destroy"
      BY DEF Call, NoCall
    <3> QED
      BY <1>0, <2>6, <3>1 DEF CloseDb, Op
  <2> QED
    BY <1>8, <2>1, <2>2, <2>3, <2>4, <2>5, <2>6
<1> QED
  BY <1>2, <1>3, <1>4, <1>5, <1>6, <1>7, <1>8 DEF Work, Wait, Start

\* Every step keeps the third invariant.
LEMMA StepVfsInv ==
  ASSUME IInv, VfsInv, [Next]_vars, "destroy" \notin Careless
  PROVE  VfsInv'
<1>1. CASE UNCHANGED vars
  BY <1>1 DEF vars, VfsInv, Op
<1>2. ASSUME NEW t \in Threads, Work(t) \/ Wait(t) \/ Start(t)
      PROVE  VfsInv'
  <2>0. call \in [Threads -> Calls]
    BY DEF IInv, TypeInv
  <2>1. CASE \E c \in Conns : OpenDb(t, c)
    <3> PICK c \in Conns : OpenDb(t, c)
      BY <2>1
    <3>1. vfs' = "registered" /\ \A u \in Threads : Op(u) # "destroy"
      BY DEF OpenDb, Op
    <3>2. Call("open", "xOpen", c).op = "open" /\ call' = [call EXCEPT ![t] = Call("open", "xOpen", c)]
      BY DEF OpenDb, Call, NoCall
    <3>3. \A u \in Threads : Op(u)' # "destroy"
      BY <2>0, <3>1, <3>2 DEF Op
    <3> QED
      BY <3>1, <3>3 DEF VfsInv
  <2>2. CASE Destroy(t)
    <3>1. pMain = Null /\ (\A u \in Threads : Op(u) \notin {"open", "close"}) /\ UNCHANGED file
      BY <2>2 DEF Destroy, NoMainFiles, Op
    <3> QED
      BY <3>1, AllClosed DEF VfsInv
  <2>3. CASE vfs = "freed" \/ \E u \in Threads : Op(u) = "destroy"
    <3>1. \A c \in Conns : file[c].state = "closed"
      BY <2>3 DEF VfsInv
    <3> QED
      BY <1>2, <2>1, <3>1, StayClosed DEF VfsInv
  <2>4. CASE vfs = "registered" /\ (\A u \in Threads : Op(u) # "destroy") /\ ~ Destroy(t)
    <3>1. ~ FreeVfs(t) /\ ~ Create(t)
      <4>1. ~ At(t, "destroy")
        BY <2>4 DEF IInv, CallInv, Shape, At
      <4> QED
        BY <2>4, <4>1 DEF FreeVfs, Create
    <3>2. UNCHANGED vfs /\ \A u \in Threads : Op(u)' # "destroy"
      BY <1>2, <2>0, <2>4, <3>1, StepOps
    <3> QED
      BY <2>4, <3>2 DEF VfsInv
  <2>5. vfs \in {"registered", "freed"}
    BY DEF IInv, TypeInv, TypeOK
  <2> QED
    BY <2>2, <2>3, <2>4, <2>5
<1> QED
  BY <1>1, <1>2 DEF Next

\* If nobody opens or closes a file while the shim is destroyed, it is not
\* freed while a file is opened, open or closed with it (mcVfsDestroy).
THEOREM ShimOutlivesFiles == "destroy" \notin Careless => (Spec => []VfsKept)
<1> SUFFICES ASSUME "destroy" \notin Careless PROVE Spec => []VfsKept
  OBVIOUS
<1>1. Init => VfsInv
  BY DEF Init, VfsInv, NoFile
<1>2. IInv /\ VfsInv /\ [Next]_vars => VfsInv'
  BY StepVfsInv
<1>3. IInv /\ VfsInv => VfsKept
  <2> SUFFICES ASSUME IInv, VfsInv, vfs = "freed"
               PROVE  mutex = Nobody /\ \A c \in Conns : file[c].state = "closed"
    BY DEF VfsKept
  <2>1. \A c \in Conns : file[c].state = "closed"
    BY DEF VfsInv
  <2>2. ASSUME NEW t \in Threads PROVE ~ InList(t)
    <3>1. Op(t) \in Users \cup {"open", "close"} => C(t) \in Conns
      BY DEF IInv, CallInv, Shape, Users
    <3>2. Op(t) \in {"none", "destroy"}
      BY <2>1, <3>1 DEF IInv, CallInv, Shape, Relies, Users
    <3> QED
      BY <3>2 DEF IInv, CallInv, Shape, InList, At
  <2>3. mutex \in Threads \cup {Nobody}
    BY DEF IInv, TypeInv, TypeOK
  <2> QED
    BY <2>1, <2>2, <2>3 DEF IInv, MutexInv
<1> QED
  BY <1>1, <1>2, <1>3, Invariance, PTL DEF Spec

=============================================================================
