--------------------------- MODULE CipherRegistry ---------------------------
(***************************************************************************)
(* Start and shutdown of the library and the table of ciphers, used by     *)
(* several threads.  sqlite3_initialize fills the table and registers the  *)
(* VFS shim under a recursive mutex of its own, and calls itself while it  *)
(* does so; a cipher is registered under the static mutex; a connection    *)
(* copies the table under no mutex when it is opened, and goes on with     *)
(* that copy whatever is registered later.                                 *)
(*                                                                         *)
(* A short section under the static mutex is one step, taken only when     *)
(* nobody holds the mutex; the registration of a cipher holds it over      *)
(* several.  Parameters are left out but for the state of their memory.    *)
(***************************************************************************)
EXTENDS Integers, Sequences, FiniteSets, FiniteSetsExt

CONSTANTS
  Threads,
  Builtins,         \* names of the built-in ciphers, in order of registration
  DefaultBuiltin,   \* the one CODEC_TYPE names
  Extra,            \* names of ciphers an application registers
  CODEC_COUNT_MAX,
  MaxFails,         \* bound on failed allocations
  RegisterAnytime,  \* ciphers are registered while connections are opened
  NoName,           \* the empty name
  Nobody            \* no thread holds a mutex

ASSUME RegistryAssumption ==
  /\ Builtins \in Seq(Extra \cup {Builtins[i] : i \in DOMAIN Builtins})
  /\ Len(Builtins) <= CODEC_COUNT_MAX
  /\ DefaultBuiltin \in {Builtins[i] : i \in DOMAIN Builtins}
  /\ Extra \cap {Builtins[i] : i \in DOMAIN Builtins} = {}
  /\ CODEC_COUNT_MAX \in Nat /\ MaxFails \in Nat /\ RegisterAnytime \in BOOLEAN
  /\ NoName \notin Extra \cup {Builtins[i] : i \in DOMAIN Builtins}
  /\ Nobody \notin Threads /\ IsFiniteSet(Threads)

VARIABLES
  isInit,      \* sqlite3GlobalConfig.isInit
  inProgress,  \* sqlite3GlobalConfig.inProgress
  initMutex,   \* pInitMutex: whether it exists, its holder, its depth
  nRef,        \* nRefInitMutex
  mainMutex,   \* holder of SQLITE_MUTEX_STATIC_MAIN
  count,       \* globalCipherCount
  descr,       \* m_name of globalCodecDescriptorTable
  slot,        \* globalCodecParameterTable from 1: name, id, memory of m_params
  default,     \* the common parameter "cipher"
  shim,        \* the VFS shim is the default VFS
  call,        \* the call each thread is in
  conn,        \* the connection of each thread
  fails        \* failed allocations so far

shared == <<isInit, inProgress, initMutex, nRef, mainMutex, shim>>
tables == <<count, descr, slot, default>>
vars   == <<shared, tables, call, conn, fails>>

Names    == Extra \cup {Builtins[i] : i \in DOMAIN Builtins}
Index    == 1 .. CODEC_COUNT_MAX
NoMutex  == [alive |-> FALSE, holder |-> Nobody, depth |-> 0]
Sentinel == [name |-> NoName, id |-> 0, params |-> "none"]
Closed   == [open |-> FALSE, table |-> <<>>, cipher |-> 0]

(* A call: op is what the application called, pc where the thread is in it *)
(* (see the steps below), nest where it is in a call of sqlite3_initialize *)
(* from within itself, i the built-in cipher to register next, n the       *)
(* number of tables counted before they are copied, rc the result.         *)
NoCall == [op |-> "none", name |-> NoName, makeDefault |-> FALSE, pc |-> "idle",
           nest |-> "no", i |-> 1, n |-> 0, rc |-> "ok"]

InInit == {"enter", "test", "tables", "builtin", "bDescr", "bSlot", "bFill",
           "vfs", "end", "leave", "unref"}
Opening(t) == call[t].op = "open" /\ call[t].pc # "idle"

-----------------------------------------------------------------------------
(* Lookups.                                                                *)

\* The loops over the tables stop at the first empty name.
Used(names) == {i \in DOMAIN names : \A j \in 1 .. i : names[j] # NoName}

SlotNames == [i \in Index |-> slot[i].name]

\* sqlite3mc_cipher_index: 0 stands for -1.
CipherIndex(name) ==
  LET found == {i \in Used(descr) : i <= count /\ descr[i] = name}
  IN  IF found = {} THEN 0 ELSE Min(found)

\* mcCheckValidName, as far as registered names go.
CheckValidName(name) == \A i \in Used(SlotNames) : slot[i].name # name

\* sqlite3mcCloneCodecParameterTable, first pass: tables up to the sentinel.
NumTables == Cardinality(Used(SlotNames))

-----------------------------------------------------------------------------
(* The calls an application makes.  Those of a thread with a connection    *)
(* are steps of their own: the library is initialized then.                *)

Begin(t, c) ==
  /\ call[t].pc = "idle"
  /\ call' = [call EXCEPT ![t] = c]
  /\ UNCHANGED <<shared, tables, conn, fails>>

Open(t) ==
  /\ ~conn[t].open
  /\ RegisterAnytime \/ \A u \in Threads : call[u].op # "register"
  /\ Begin(t, [NoCall EXCEPT !.op = "open", !.pc = "check"])

RegisterCipher(t) ==
  /\ RegisterAnytime \/ \A u \in Threads : ~Opening(u)
  /\ \E x \in Names, d \in BOOLEAN :
       Begin(t, [NoCall EXCEPT !.op = "register", !.name = x,
                               !.makeDefault = d, !.pc = "check"])

(***************************************************************************)
(* sqlite3_initialize, also as the first step of every other interface.    *)
(* The pointer isInit is read without a mutex first.                       *)
(***************************************************************************)
At(t, pc) == call[t].pc = pc
Goto(t, pc) == call' = [call EXCEPT ![t].pc = pc]

CheckInit(t) ==
  /\ At(t, "check")
  /\ Goto(t, IF isInit THEN "body" ELSE "ref")
  /\ UNCHANGED <<shared, tables, conn, fails>>

\* Slip: only the thread that allocates the mutex is counted.
CountRefSlip(m) == IF m.alive THEN nRef ELSE nRef + 1

\* A reference to pInitMutex is counted under the static mutex.
CountRef(m) == nRef + 1

RefInitMutex(t) ==
  /\ At(t, "ref") /\ mainMutex = Nobody
  /\ nRef' = CountRef(initMutex)
  /\ initMutex' = [initMutex EXCEPT !.alive = TRUE]
  /\ Goto(t, "enter")
  /\ UNCHANGED <<isInit, inProgress, mainMutex, shim, tables, conn, fails>>

EnterInit(t) ==
  /\ At(t, "enter") /\ initMutex.holder \in {Nobody, t}
  /\ initMutex' = [initMutex EXCEPT !.holder = t, !.depth = @ + 1]
  /\ Goto(t, "test")
  /\ UNCHANGED <<isInit, inProgress, nRef, mainMutex, shim, tables, conn, fails>>

\* Slip: isInit is not read again under the mutex.
NotYetSlip == ~inProgress

\* isInit is read again: another thread may have come first.
NotYet == ~isInit /\ ~inProgress

TestInit(t) ==
  /\ At(t, "test")
  /\ inProgress' = (inProgress \/ NotYet)
  /\ call' = [call EXCEPT ![t].pc = IF NotYet THEN "tables" ELSE "leave",
                          ![t].nest = IF NotYet THEN "ref" ELSE "no"]
  /\ UNCHANGED <<isInit, initMutex, nRef, mainMutex, shim, tables, conn, fails>>

(* A call from within: the first and the last section under the static     *)
(* mutex.  What is between them enters the recursive mutex once more and   *)
(* leaves it, and finds the initialization in progress.                    *)
NestedRef(t) ==
  /\ call[t].nest = "ref" /\ mainMutex = Nobody
  /\ initMutex.holder = t
  /\ nRef' = CountRef(initMutex)
  /\ call' = [call EXCEPT ![t].nest = "unref"]
  /\ UNCHANGED <<isInit, inProgress, initMutex, mainMutex, shim, tables, conn, fails>>

Unref ==
  /\ nRef' = nRef - 1
  /\ initMutex' = IF nRef' <= 0 THEN NoMutex ELSE initMutex

NestedUnref(t) ==
  /\ call[t].nest = "unref" /\ mainMutex = Nobody
  /\ Unref
  /\ call' = [call EXCEPT ![t].nest = "back"]
  /\ UNCHANGED <<isInit, inProgress, mainMutex, shim, tables, conn, fails>>

\* Slip: the table of parameters is left as the last shutdown left it.
ClearedSlip == slot

\* The table of parameters, emptied.
Cleared == [i \in Index |-> Sentinel]

\* sqlite3mcInitCipherTables: the nested call is that of sqlite3_randomness.
\* globalCipherCount is not among what it sets.
InitCipherTables(t) ==
  /\ At(t, "tables") /\ call[t].nest = "back"
  /\ descr' = [i \in Index |-> NoName]
  /\ slot' = Cleared
  /\ call' = [call EXCEPT ![t].pc = "builtin", ![t].i = 1, ![t].nest = "ref"]
  /\ UNCHANGED <<shared, count, default, conn, fails>>

(* One built-in cipher: sqlite3_malloc calls sqlite3_initialize, and may   *)
(* fail.  When the last one is done, the shim is next.                     *)
Allocated(t) ==
  \/ call' = [call EXCEPT ![t].pc = "bDescr", ![t].nest = "no"] /\ UNCHANGED fails
  \/ /\ fails < MaxFails
     /\ fails' = fails + 1
     /\ call' = [call EXCEPT ![t].pc = "end", ![t].nest = "no", ![t].rc = "nomem"]

Builtin(t) ==
  /\ At(t, "builtin") /\ call[t].nest = "back"
  /\ IF call[t].i > Len(Builtins)
       THEN Goto(t, "vfs") /\ UNCHANGED fails
       ELSE Allocated(t)
  /\ UNCHANGED <<shared, tables, conn>>

NameOf(t)    == IF call[t].pc \in InInit THEN Builtins[call[t].i] ELSE call[t].name
DefaultOf(t) == IF call[t].pc \in InInit THEN NameOf(t) = DefaultBuiltin
                                         ELSE call[t].makeDefault

\* sqlite3mcRegisterCipher: a number is taken and the name written there.
TakeNumber(t) ==
  /\ count' = count + 1
  /\ descr' = [descr EXCEPT ![count'] = NameOf(t)]
  /\ UNCHANGED <<slot, default>>

\* Slip: one number too many.
RoomSlip == count <= CODEC_COUNT_MAX

Room == count < CODEC_COUNT_MAX

\* The entry of the parameters is visible before the parameters are copied.
NameSlot(t) ==
  /\ slot' = [slot EXCEPT ![count] = [name |-> descr[count], id |-> count,
                                      params |-> "empty"]]
  /\ UNCHANGED <<count, descr, default>>

FillSlot(t) ==
  /\ slot' = [slot EXCEPT ![count].params = "filled"]
  /\ default' = IF DefaultOf(t) THEN count ELSE default
  /\ UNCHANGED <<count, descr>>

RegisterBuiltin(t) ==
  /\ \/ /\ At(t, "bDescr") /\ Room /\ TakeNumber(t) /\ Goto(t, "bSlot")
     \/ /\ At(t, "bDescr") /\ ~Room /\ UNCHANGED tables
        /\ call' = [call EXCEPT ![t].pc = "end", ![t].rc = "nomem"]
     \/ /\ At(t, "bSlot") /\ NameSlot(t) /\ Goto(t, "bFill")
     \/ /\ At(t, "bFill") /\ FillSlot(t)
        /\ call' = [call EXCEPT ![t].pc = "builtin", ![t].nest = "ref", ![t].i = @ + 1]
  /\ UNCHANGED <<shared, conn, fails>>

\* sqlite3mc_vfs_create(NULL, 1): what it allocates may fail.
CreateShim(t) ==
  /\ At(t, "vfs") /\ mainMutex = Nobody
  /\ \/ shim' = TRUE /\ Goto(t, "end") /\ UNCHANGED fails
     \/ /\ fails < MaxFails
        /\ fails' = fails + 1
        /\ call' = [call EXCEPT ![t].pc = "end", ![t].rc = "nomem"]
        /\ UNCHANGED shim
  /\ UNCHANGED <<isInit, inProgress, initMutex, nRef, mainMutex, tables, conn>>

\* Slip: the result of sqlite3mc_initialize is not looked at.
SucceededSlip(t) == TRUE

Succeeded(t) == call[t].rc = "ok"

\* Slip: a failure returns at once, without leaving the mutex.
AfterInitSlip(t) == IF Succeeded(t) THEN "leave" ELSE "unref"

AfterInit(t) == "leave"

\* isInit is set at the very end, and only if all went well.
EndInit(t) ==
  /\ At(t, "end")
  /\ isInit' = (isInit \/ Succeeded(t))
  /\ inProgress' = FALSE
  /\ Goto(t, AfterInit(t))
  /\ UNCHANGED <<initMutex, nRef, mainMutex, shim, tables, conn, fails>>

LeaveInit(t) ==
  /\ At(t, "leave")
  /\ initMutex' = [initMutex EXCEPT !.depth = @ - 1,
                                   !.holder = IF initMutex.depth = 1 THEN Nobody ELSE t]
  /\ Goto(t, "unref")
  /\ UNCHANGED <<isInit, inProgress, nRef, mainMutex, shim, tables, conn, fails>>

\* The mutex is freed by whoever is last; then the call goes on or fails.
UnrefInitMutex(t) ==
  /\ At(t, "unref") /\ mainMutex = Nobody
  /\ Unref
  /\ call' = [call EXCEPT ![t] = IF @.rc = "ok" THEN [@ EXCEPT !.pc = "body"] ELSE NoCall]
  /\ UNCHANGED <<isInit, inProgress, mainMutex, shim, tables, conn, fails>>

-----------------------------------------------------------------------------
(* What the calls do once the library is initialized.                      *)

\* Slip: the static mutex is not entered for a registration.
EnterMainSlip(t) ==
  At(t, "body") /\ call[t].op = "register" /\ UNCHANGED mainMutex

EnterMain(t) ==
  /\ At(t, "body") /\ call[t].op = "register"
  /\ mainMutex = Nobody
  /\ mainMutex' = t

LockRegistry(t) ==
  /\ EnterMain(t)
  /\ Goto(t, "rCheck")
  /\ UNCHANGED <<isInit, inProgress, initMutex, nRef, shim, tables, conn, fails>>

\* The checks of sqlite3mcRegisterCipher and its allocation.
RegisterExtra(t) ==
  /\ \/ /\ At(t, "rCheck") /\ CheckValidName(call[t].name) /\ Room
        /\ Goto(t, "rDescr") /\ UNCHANGED <<tables, fails>>
     \/ /\ At(t, "rCheck") /\ ~(CheckValidName(call[t].name) /\ Room)
        /\ Goto(t, "rLeave") /\ UNCHANGED <<tables, fails>>
     \/ /\ At(t, "rCheck") /\ fails < MaxFails
        /\ fails' = fails + 1
        /\ Goto(t, "rLeave") /\ UNCHANGED tables
     \/ At(t, "rDescr") /\ TakeNumber(t) /\ Goto(t, "rSlot") /\ UNCHANGED fails
     \/ At(t, "rSlot") /\ NameSlot(t) /\ Goto(t, "rFill") /\ UNCHANGED fails
     \/ At(t, "rFill") /\ FillSlot(t) /\ Goto(t, "rLeave") /\ UNCHANGED fails
  /\ UNCHANGED <<shared, conn>>

UnlockRegistry(t) ==
  /\ At(t, "rLeave")
  /\ mainMutex' = IF mainMutex = t THEN Nobody ELSE mainMutex
  /\ call' = [call EXCEPT ![t] = NoCall]
  /\ UNCHANGED <<isInit, inProgress, initMutex, nRef, shim, tables, conn, fails>>

\* sqlite3mcCloneCodecParameterTable: the tables are counted, then copied.
CountTables(t) ==
  /\ At(t, "body") /\ call[t].op = "open"
  /\ call' = [call EXCEPT ![t].pc = "copy", ![t].n = NumTables]
  /\ UNCHANGED <<shared, tables, conn, fails>>

CopyTables(t) ==
  /\ At(t, "copy")
  /\ conn' = [conn EXCEPT ![t] = [open   |-> TRUE,
                                  table  |-> SubSeq(slot, 1, call[t].n),
                                  cipher |-> default]]
  /\ call' = [call EXCEPT ![t] = NoCall]
  /\ UNCHANGED <<shared, tables, fails>>

\* sqlite3mc_config: a cipher that is actually available.
Available(n) == n <= count

\* sqlite3mc_config(db, "cipher", n)
SelectCipher(t) ==
  /\ call[t].pc = "idle" /\ conn[t].open /\ mainMutex = Nobody
  /\ \E n \in Index : Available(n) /\ conn' = [conn EXCEPT ![t].cipher = n]
  /\ UNCHANGED <<shared, tables, call, fails>>

Close(t) ==
  /\ call[t].pc = "idle" /\ conn[t].open
  /\ conn' = [conn EXCEPT ![t] = Closed]
  /\ UNCHANGED <<shared, tables, call, fails>>

\* sqlite3_shutdown, as its contract allows it: no other thread is in the
\* library and no connection is open.
Shutdown(t) ==
  /\ isInit
  /\ \A u \in Threads : call[u].pc = "idle" /\ ~conn[u].open
  /\ isInit' = FALSE
  /\ shim' = FALSE
  /\ count' = 0
  /\ slot' = [i \in Index |-> IF slot[i].name = NoName THEN slot[i]
                              ELSE [slot[i] EXCEPT !.params = "freed"]]
  /\ UNCHANGED <<inProgress, initMutex, nRef, mainMutex, descr, default, call, conn, fails>>

-----------------------------------------------------------------------------
Init ==
  /\ isInit = FALSE /\ inProgress = FALSE /\ initMutex = NoMutex /\ nRef = 0
  /\ mainMutex = Nobody /\ count = 0 /\ shim = FALSE /\ default = 0
  /\ descr = [i \in Index |-> NoName]
  /\ slot = [i \in Index |-> Sentinel]
  /\ call = [t \in Threads |-> NoCall]
  /\ conn = [t \in Threads |-> Closed]
  /\ fails = 0

\* Steps within a call.  Those that wait for a mutex are apart.
Work(t) ==
  \/ CheckInit(t) \/ TestInit(t) \/ InitCipherTables(t) \/ Builtin(t)
  \/ RegisterBuiltin(t) \/ EndInit(t) \/ LeaveInit(t)
  \/ RegisterExtra(t) \/ UnlockRegistry(t) \/ CountTables(t) \/ CopyTables(t)

Wait(t) ==
  \/ RefInitMutex(t) \/ EnterInit(t) \/ NestedRef(t) \/ NestedUnref(t)
  \/ CreateShim(t) \/ UnrefInitMutex(t) \/ LockRegistry(t)

Application(t) ==
  Open(t) \/ RegisterCipher(t) \/ SelectCipher(t) \/ Close(t) \/ Shutdown(t)

Next == \E t \in Threads : Work(t) \/ Wait(t) \/ Application(t)

Spec == Init /\ [][Next]_vars

\* Threads run, and a mutex that is free again and again is not kept from one
\* of those that wait for it for ever.  Calls need not be made.
FairSpec == Spec /\ \A t \in Threads : WF_vars(Work(t)) /\ SF_vars(Wait(t))
-----------------------------------------------------------------------------
(* Properties.                                                             *)

\* Every variable stays in its range.
TypeOK ==
  /\ isInit \in BOOLEAN /\ inProgress \in BOOLEAN /\ shim \in BOOLEAN
  /\ initMutex \in [alive : BOOLEAN, holder : Threads \cup {Nobody}, depth : 0 .. 1]
  /\ mainMutex \in Threads \cup {Nobody}
  /\ nRef \in 0 .. 2 * Cardinality(Threads) /\ fails \in 0 .. MaxFails
  /\ count \in 0 .. CODEC_COUNT_MAX /\ default \in 0 .. CODEC_COUNT_MAX
  /\ descr \in [Index -> Names \cup {NoName}]
  /\ \A i \in Index : /\ slot[i].name \in Names \cup {NoName}
                      /\ slot[i].id \in {0, i}
                      /\ slot[i].params \in {"none", "empty", "filled", "freed"}
  /\ \A t \in Threads :
       conn[t].cipher \in 0 .. CODEC_COUNT_MAX /\ Len(conn[t].table) <= CODEC_COUNT_MAX

\* The recursive mutex of sqlite3_initialize exists as long as a thread waits
\* for it or is inside, however often the calls nest and whoever returns
\* first, and only its holder is inside.
InitMutexKept ==
  \A t \in Threads : call[t].pc \in InInit =>
    /\ initMutex.alive
    /\ call[t].pc \notin {"enter", "unref"} => initMutex.holder = t

\* Once isInit is set, which threads read without a mutex, nobody is at work on
\* the tables any more, every built-in cipher has a number and the shim is the
\* default VFS, whatever failed before.
InitComplete ==
  isInit => /\ shim
            /\ \A i \in DOMAIN Builtins : \E n \in 1 .. count : descr[n] = Builtins[i]
            /\ ~inProgress

\* When no registration is under way, the tables of descriptors and parameters
\* name the same ciphers by the same numbers, and all parameters are there.
TablesAgree ==
  isInit /\ mainMutex = Nobody =>
    \A i \in Index :
      /\ slot[i].name = descr[i]
      /\ descr[i] # NoName => slot[i].id = i /\ slot[i].params = "filled" /\ i <= count

\* The copy of a connection has only complete entries, and its numbers mean the
\* same ciphers as those of the descriptors, after any restart of the library
\* and any registration since.
CopyUsable ==
  \A t \in Threads : conn[t].open =>
    \A i \in DOMAIN conn[t].table :
      conn[t].table[i].params = "filled" /\ conn[t].table[i].name = descr[i]

\* The cipher a connection would use for its next key has a descriptor: a codec
\* is never made from a sentinel, which has no functions.  (Unless a failed
\* initialization left a gap in the numbers, see BuiltinsFound.)
SelectedRegistered ==
  Used(descr) = 1 .. count =>
    \A t \in Threads : conn[t].open =>
      conn[t].cipher \in Index /\ descr[conn[t].cipher] # NoName

\* While the library is in use a number, once given, is not given again.
NumbersKept ==
  [][isInit /\ isInit' =>
       \A i \in 1 .. count : descr[i] # NoName => descr'[i] = descr[i]]_vars

\* Every call returns: initialization, which calls itself through allocation,
\* random numbers and the list of VFSs, never waits for a mutex its own thread
\* or a waiting thread holds.
CallsReturn == \A t \in Threads : call[t].pc # "idle" ~> call[t].pc = "idle"

\* What "the initialization must be complete" means to a user: every built-in
\* cipher is found by its name.
BuiltinsFound == isInit => \A i \in DOMAIN Builtins : CipherIndex(Builtins[i]) > 0

\* A cipher that a connection was allowed to select is available to it: its
\* parameters are in the connection's copy.
SelectedHasParams ==
  \A t \in Threads : conn[t].open => conn[t].cipher \in DOMAIN conn[t].table

=============================================================================
