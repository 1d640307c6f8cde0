-------------------------- MODULE CipherRegistryProofs ----------------------
(***************************************************************************)
(* Theorems about CipherRegistry, for every number of threads and ciphers  *)
(* and every size of the tables: initialization is complete when isInit is *)
(* set, its mutex lives as long as it is used, the tables of ciphers agree,*)
(* numbers are kept, and what a connection copies and selects is usable.   *)
(***************************************************************************)
EXTENDS CipherRegistry, FiniteSetTheorems, SequenceTheorems, WellFoundedInduction,
        TLAPS

(***************************************************************************)
(* The state of the calls.                                                 *)
(***************************************************************************)
\* The steps at which a thread is inside pInitMutex, at which initialization
\* is in progress, and at which a cipher is registered.
Inside     == {"test", "tables", "builtin", "bDescr", "bSlot", "bFill", "vfs", "end", "leave"}
Progress   == {"tables", "builtin", "bDescr", "bSlot", "bFill", "vfs", "end"}
Registering == {"rCheck", "rDescr", "rSlot", "rFill", "rLeave"}
Pcs == {"idle", "check", "ref", "enter", "unref", "body", "copy"} \cup Inside \cup Registering

Calls == [op : {"none", "open", "register"}, name : Names \cup {NoName}, makeDefault : BOOLEAN,
          pc : Pcs, nest : {"no", "ref", "unref", "back"}, i : 1 .. Len(Builtins) + 1,
          n : 0 .. CODEC_COUNT_MAX, rc : {"ok", "nomem"}]

Slots == [name : Names \cup {NoName}, id : 0 .. CODEC_COUNT_MAX,
          params : {"none", "empty", "filled", "freed"}]

Types ==
  /\ isInit \in BOOLEAN /\ inProgress \in BOOLEAN /\ shim \in BOOLEAN
  /\ initMutex \in [alive : BOOLEAN, holder : Threads \cup {Nobody}, depth : 0 .. 1]
  /\ mainMutex \in Threads \cup {Nobody}
  /\ nRef \in Nat /\ fails \in 0 .. MaxFails
  /\ count \in 0 .. CODEC_COUNT_MAX /\ default \in 0 .. CODEC_COUNT_MAX
  /\ descr \in [Index -> Names \cup {NoName}]
  /\ slot \in [Index -> Slots]
  /\ call \in [Threads -> Calls]
  /\ conn \in [Threads -> [open : BOOLEAN, table : Seq(Slots), cipher : 0 .. CODEC_COUNT_MAX]]

\* What each call is at each of its steps.
Shape(t) ==
  /\ At(t, "idle") <=> call[t].op = "none"
  /\ call[t].op = "open" => ~ conn[t].open
  /\ call[t].op = "register" => call[t].name \in Names
  /\ call[t].pc \in Registering => call[t].op = "register" /\ isInit
  /\ At(t, "copy") => call[t].op = "open"
  /\ call[t].pc \in {"body", "copy"} => isInit
  /\ call[t].pc \in {"leave", "unref"} /\ call[t].rc = "ok" => isInit
  /\ call[t].pc \in Progress => inProgress /\ ~ isInit
  /\ call[t].nest \in {"ref", "unref"} => call[t].pc \in {"tables", "builtin"}
  /\ call[t].rc = "nomem" => call[t].pc \in {"end", "leave", "unref"}
  /\ call[t].pc \in {"bDescr", "bSlot", "bFill"} => call[t].i <= Len(Builtins)
  /\ conn[t].open => isInit
  /\ Len(conn[t].table) <= CODEC_COUNT_MAX

\* The two mutexes, and the initialization that is in progress.
Mutexes ==
  /\ \A t \in Threads : initMutex.holder = t <=> call[t].pc \in Inside
  /\ initMutex.depth = IF initMutex.holder = Nobody THEN 0 ELSE 1
  /\ \A t \in Threads : mainMutex = t <=> call[t].pc \in Registering
  /\ inProgress => \E t \in Threads : call[t].pc \in Progress

\* The references to pInitMutex: one for each call in sqlite3_initialize, and
\* one for the call from within that has not returned.
Refs   == {t \in Threads : call[t].pc \in InInit}
Nested == {t \in Threads : call[t].nest = "unref"}

References ==
  /\ nRef = Cardinality(Refs) + Cardinality(Nested)
  /\ initMutex.alive <=> nRef > 0

\* The tables.  While they are in use, or being filled, they agree on every
\* number but the one that is being registered.
Agrees(i) ==
  /\ slot[i].name = descr[i]
  /\ descr[i] # NoName => slot[i].id = i /\ slot[i].params = "filled" /\ i <= count

Writing(t) == call[t].pc \in {"bSlot", "bFill", "rSlot", "rFill"}

Filling(t) == \/ call[t].pc \in {"builtin", "bDescr", "bSlot", "bFill", "vfs"}
              \/ At(t, "end") /\ call[t].rc = "ok"

InUse == isInit \/ \E t \in Threads : Filling(t)

Tables ==
  /\ InUse => \A i \in Index : Agrees(i) \/ (i = count /\ \E t \in Threads : Writing(t))
  /\ \A i \in Index : slot[i].id \in {0, i}
  /\ \A t \in Threads : At(t, "rDescr") => count < CODEC_COUNT_MAX
  /\ \A t \in Threads : Writing(t) => count \in Index /\ descr[count] # NoName
  /\ \A t \in Threads : call[t].pc \in {"bFill", "rFill"} =>
       slot[count].name = descr[count] /\ slot[count].id = count

\* The built-in ciphers that have been registered, and the default.
Has(j) ==
  /\ \E m \in 1 .. count : descr[m] = Builtins[j]
  /\ Builtins[j] = DefaultBuiltin => default \in 1 .. count

Done(t, j) ==
  \/ call[t].pc \in {"builtin", "bDescr", "bSlot", "bFill"} /\ j < call[t].i
  \/ At(t, "vfs")
  \/ At(t, "end") /\ call[t].rc = "ok"

Built ==
  /\ \A j \in 1 .. Len(Builtins) : isInit => Has(j)
  /\ \A t \in Threads, j \in 1 .. Len(Builtins) : Done(t, j) => Has(j)
  /\ \A t \in Threads : call[t].pc \in {"bSlot", "bFill"} => descr[count] = Builtins[call[t].i]
  /\ \A t \in Threads : At(t, "end") /\ call[t].rc = "ok" => shim
  /\ isInit => shim
  /\ \A t \in Threads : conn[t].open => conn[t].cipher \in 1 .. count

IInv == Types /\ (\A t \in Threads : Shape(t)) /\ Mutexes /\ References /\ Tables /\ Built

\* If no cipher is registered while a connection is opened.
Copies ==
  /\ \A t, u \in Threads : ~ (call[t].op = "open" /\ call[u].op = "register")
  /\ \A t \in Threads : At(t, "copy") =>
       \A i \in 1 .. call[t].n : slot[i].name # NoName
  /\ \A t \in Threads : conn[t].open =>
       \A i \in 1 .. Len(conn[t].table) :
         /\ i <= count /\ i \in Index /\ descr[i] # NoName
         /\ conn[t].table[i].params = "filled" /\ conn[t].table[i].name = descr[i]

-----------------------------------------------------------------------------
(***************************************************************************)
(* Facts about counting.                                                   *)
(***************************************************************************)
\* The sets of references are finite, and not empty when they have a member.
LEMMA Counted ==
  ASSUME NEW S, S \subseteq Threads
  PROVE  /\ IsFiniteSet(S) /\ Cardinality(S) \in Nat
         /\ Cardinality(S) <= Cardinality(Threads) /\ Cardinality(Threads) \in Nat
         /\ \A t \in S : Cardinality(S) > 0 /\ Cardinality(S \ {t}) = Cardinality(S) - 1
         /\ \A t \in Threads \ S : Cardinality(S \cup {t}) = Cardinality(S) + 1
<1>1. IsFiniteSet(Threads)
  BY RegistryAssumption
<1>2. IsFiniteSet(S) /\ Cardinality(S) <= Cardinality(Threads)
  BY <1>1, FS_Subset
<1>3. Cardinality(S) \in Nat /\ Cardinality(Threads) \in Nat
  BY <1>1, <1>2, FS_CardinalityType
<1>4. \A t \in S : Cardinality(S \ {t}) = Cardinality(S) - 1
  BY <1>2, FS_RemoveElement
<1>5. \A t \in S : Cardinality(S \ {t}) \in Nat
  BY <1>1, FS_Subset, FS_CardinalityType
<1>6. \A t \in Threads \ S : Cardinality(S \cup {t}) = Cardinality(S) + 1
  BY <1>2, FS_AddElement
<1> QED
  BY <1>2, <1>3, <1>4, <1>5, <1>6

\* A thread in sqlite3_initialize is counted.
LEMMA RefsCounted ==
  ASSUME References, NEW t \in Threads, call[t].pc \in InInit
  PROVE  nRef > 0 /\ initMutex.alive
<1>1. t \in Refs
  BY DEF Refs
<1>2. Cardinality(Refs) > 0 /\ Cardinality(Refs) \in Nat /\ Cardinality(Nested) \in Nat
  BY <1>1, Counted DEF Refs, Nested
<1> QED
  BY <1>2 DEF References

-----------------------------------------------------------------------------
(***************************************************************************)
(* What a step of one thread leaves alone.                                 *)
(***************************************************************************)
Others(t) == \A u \in Threads \ {t} : call'[u] = call[u] /\ conn'[u] = conn[u]

\* The other calls are what they were.
LEMMA ShapeStep ==
  ASSUME IInv, NEW t \in Threads, Others(t), Shape(t)',
         \/ UNCHANGED <<isInit, inProgress>>
         \/ call[t].pc \in Inside /\ (isInit => isInit')
  PROVE  \A u \in Threads : Shape(u)'
<1> SUFFICES ASSUME NEW u \in Threads \ {t} PROVE Shape(u)'
  OBVIOUS
<1>1. Shape(u) /\ call'[u] = call[u] /\ conn'[u] = conn[u]
  BY DEF IInv, Others
<1>2. call[t].pc \in Inside => call[u].pc \notin Progress
  BY DEF IInv, Mutexes, Inside, Progress
<1> QED
  BY <1>1, <1>2 DEF Shape, At

\* Only the thread that makes a step enters or leaves a mutex.
LEMMA MutexStep ==
  ASSUME IInv, NEW t \in Threads, Others(t),
         initMutex'.holder = t <=> call'[t].pc \in Inside,
         \/ initMutex'.holder = initMutex.holder
         \/ initMutex.holder \in {t, Nobody} /\ initMutex'.holder \in {t, Nobody},
         initMutex'.depth = IF initMutex'.holder = Nobody THEN 0 ELSE 1,
         mainMutex' = t <=> call'[t].pc \in Registering,
         \/ mainMutex' = mainMutex
         \/ mainMutex \in {t, Nobody} /\ mainMutex' \in {t, Nobody},
         inProgress' => \/ call'[t].pc \in Progress
                        \/ inProgress /\ call[t].pc \notin Progress
  PROVE  Mutexes'
<1>1. t # Nobody /\ \A u \in Threads : u # Nobody
  BY RegistryAssumption
<1>2. ASSUME NEW u \in Threads \ {t}
      PROVE  /\ initMutex'.holder = u <=> call'[u].pc \in Inside
             /\ mainMutex' = u <=> call'[u].pc \in Registering
  BY <1>1 DEF IInv, Mutexes, Others
<1>3. inProgress' => \E u \in Threads : call'[u].pc \in Progress
  BY DEF IInv, Mutexes, Others
<1> QED
  BY <1>2, <1>3 DEF Mutexes

\* References that are neither taken nor given back.
LEMMA RefStep ==
  ASSUME IInv, NEW t \in Threads, Others(t), UNCHANGED <<nRef, initMutex.alive>>,
         call'[t].pc \in InInit <=> call[t].pc \in InInit,
         call'[t].nest = "unref" <=> call[t].nest = "unref"
  PROVE  References'
<1>1. Refs' = Refs /\ Nested' = Nested
  BY DEF Refs, Nested, Others
<1> QED
  BY <1>1 DEF IInv, References

\* Tables that are not written.
LEMMA TableStep ==
  ASSUME IInv, NEW t \in Threads, Others(t), UNCHANGED <<count, descr, slot, default>>,
         isInit' => isInit \/ Filling(t), Filling(t)' => Filling(t),
         Writing(t)' <=> Writing(t),
         call'[t].pc \in {"bFill", "rFill"} => call[t].pc \in {"bFill", "rFill"},
         At(t, "rDescr")' => count < CODEC_COUNT_MAX
  PROVE  Tables'
<1>0. InUse' => InUse
  <2>1. \A u \in Threads \ {t} : Filling(u)' <=> Filling(u)
    BY DEF Others, Filling, At
  <2> QED
    BY <2>1 DEF InUse
<1>1. \A u \in Threads \ {t} : Writing(u)' <=> Writing(u)
  BY DEF Others, Writing
<1>2. (\E u \in Threads : Writing(u))' <=> \E u \in Threads : Writing(u)
  BY <1>1
<1>3. \A i \in Index : Agrees(i)' <=> Agrees(i)
  BY DEF Agrees
<1>4. InUse' => \A i \in Index : Agrees(i)' \/ (i = count' /\ \E u \in Threads : Writing(u)')
  BY <1>0, <1>2, <1>3 DEF IInv, Tables
<1>5. \A u \in Threads \ {t} : At(u, "rDescr")' <=> At(u, "rDescr")
  BY DEF Others, At
<1>6. \A u \in Threads : At(u, "rDescr")' => count' < CODEC_COUNT_MAX
  BY <1>5 DEF IInv, Tables
<1>7. \A u \in Threads : Writing(u)' => count' \in Index /\ descr'[count'] # NoName
  BY <1>1 DEF IInv, Tables
<1>8. \A u \in Threads : call'[u].pc \in {"bFill", "rFill"} =>
        slot'[count'].name = descr'[count'] /\ slot'[count'].id = count'
  BY DEF IInv, Tables, Others
<1>9. \A i \in Index : slot'[i].id \in {0, i}
  BY DEF IInv, Tables
<1> QED
  BY <1>4, <1>6, <1>7, <1>8, <1>9 DEF Tables

\* The built-in ciphers when nothing is registered.
LEMMA BuiltStep ==
  ASSUME IInv, NEW t \in Threads, Others(t), UNCHANGED <<count, descr, default>>,
         shim => shim',
         \A j \in 1 .. Len(Builtins) : Done(t, j)' => Done(t, j),
         isInit' => isInit \/ (At(t, "end") /\ call[t].rc = "ok"),
         call'[t].pc \notin {"bSlot", "bFill"},
         (At(t, "end")' /\ call'[t].rc = "ok") => shim',
         conn'[t].open => conn'[t].cipher \in 1 .. count
  PROVE  Built'
<1>1. \A j \in 1 .. Len(Builtins) : Has(j)' <=> Has(j)
  BY DEF Has
<1>2. \A u \in Threads \ {t}, j \in 1 .. Len(Builtins) : Done(u, j)' <=> Done(u, j)
  BY DEF Done, Others, At
<1>3. \A j \in 1 .. Len(Builtins) : isInit' => Has(j)
  BY DEF IInv, Built, Done
<1>4. \A u \in Threads, j \in 1 .. Len(Builtins) : Done(u, j)' => Has(j)
  BY <1>2 DEF IInv, Built
<1>5. isInit' => shim'
  BY DEF IInv, Built
<1>6. \A u \in Threads : call'[u].pc \in {"bSlot", "bFill"} => descr'[count'] = Builtins[call'[u].i]
  BY DEF IInv, Built, Others
<1>7. \A u \in Threads : At(u, "end")' /\ call'[u].rc = "ok" => shim'
  BY DEF IInv, Built, Others, At
<1>8. \A u \in Threads : conn'[u].open => conn'[u].cipher \in 1 .. count'
  BY DEF IInv, Built, Others
<1> QED
  BY <1>1, <1>3, <1>4, <1>5, <1>6, <1>7, <1>8 DEF Built

\* A step that leaves the tables alone keeps the invariant if it does so where
\* its thread is concerned.
LEMMA QuietStep ==
  ASSUME IInv, NEW t \in Threads, Others(t), Types', Shape(t)', References',
         UNCHANGED <<count, descr, slot, default>>, shim => shim',
         \/ UNCHANGED <<isInit, inProgress>>
         \/ call[t].pc \in Inside /\ (isInit => isInit'),
         initMutex'.holder = t <=> call'[t].pc \in Inside,
         \/ initMutex'.holder = initMutex.holder
         \/ initMutex.holder \in {t, Nobody} /\ initMutex'.holder \in {t, Nobody},
         initMutex'.depth = IF initMutex'.holder = Nobody THEN 0 ELSE 1,
         mainMutex' = t <=> call'[t].pc \in Registering,
         \/ mainMutex' = mainMutex
         \/ mainMutex \in {t, Nobody} /\ mainMutex' \in {t, Nobody},
         inProgress' => \/ call'[t].pc \in Progress
                        \/ inProgress /\ call[t].pc \notin Progress,
         isInit' => isInit \/ (At(t, "end") /\ call[t].rc = "ok"),
         Filling(t)' => Filling(t),
         Writing(t)' <=> Writing(t),
         call'[t].pc \in {"bFill", "rFill"} => call[t].pc \in {"bFill", "rFill"},
         At(t, "rDescr")' => count < CODEC_COUNT_MAX,
         \A j \in 1 .. Len(Builtins) : Done(t, j)' => Done(t, j),
         call'[t].pc \notin {"bSlot", "bFill"},
         (At(t, "end")' /\ call'[t].rc = "ok") => shim',
         conn'[t].open => conn'[t].cipher \in 1 .. count
  PROVE  IInv'
<1>1. \A u \in Threads : Shape(u)'
  BY ShapeStep
<1>2. Mutexes'
  BY MutexStep
<1>3. Tables'
  <2>1. isInit' => isInit \/ Filling(t)
    BY DEF Filling
  <2> QED
    BY <2>1, TableStep
<1>4. Built'
  BY BuiltStep
<1> QED
  BY <1>1, <1>2, <1>3, <1>4 DEF IInv

\* A step of the call of one thread.
LEMMA CallStep ==
  ASSUME Types, NEW t \in Threads, NEW r \in Calls, call' = [call EXCEPT ![t] = r],
         UNCHANGED conn
  PROVE  call' \in [Threads -> Calls] /\ call'[t] = r /\ Others(t)
BY DEF Types, Others

\* Where the mutexes are, and the types, for one thread.
LEMMA Here ==
  ASSUME IInv, NEW t \in Threads
  PROVE  /\ call[t] \in Calls /\ Shape(t) /\ References
         /\ t # Nobody
         /\ initMutex.holder = t <=> call[t].pc \in Inside
         /\ initMutex.depth = IF initMutex.holder = Nobody THEN 0 ELSE 1
         /\ mainMutex = t <=> call[t].pc \in Registering
         /\ conn[t].open => conn[t].cipher \in 1 .. count
BY RegistryAssumption DEF IInv, Types, Mutexes, Built

\* The idle call is a call.
LEMMA IdleCall ==
  /\ NoCall \in Calls
  /\ NoCall.op = "none" /\ NoCall.pc = "idle" /\ NoCall.nest = "no" /\ NoCall.rc = "ok"
<1>1. Len(Builtins) \in Nat /\ CODEC_COUNT_MAX \in Nat
  BY RegistryAssumption
<1> QED
  BY <1>1 DEF NoCall, Calls, Pcs

\* Nothing is initialized and no call is under way at first.
LEMMA InitIInv == Init => IInv
<1> SUFFICES ASSUME Init PROVE IInv
  OBVIOUS
<1>1. CODEC_COUNT_MAX \in Nat /\ MaxFails \in Nat
  BY RegistryAssumption
<1>2. \A t \in Threads : call[t] = NoCall /\ conn[t] = Closed
  BY DEF Init
<1>3. Types
  <2>1. Closed \in [open : BOOLEAN, table : Seq(Slots), cipher : 0 .. CODEC_COUNT_MAX]
    BY <1>1 DEF Closed
  <2>2. Sentinel \in Slots
    BY <1>1 DEF Sentinel, Slots
  <2>3. /\ call \in [Threads -> Calls] /\ slot \in [Index -> Slots]
        /\ conn \in [Threads -> [open : BOOLEAN, table : Seq(Slots), cipher : 0 .. CODEC_COUNT_MAX]]
    BY <2>1, <2>2, IdleCall DEF Init
  <2>4. initMutex \in [alive : BOOLEAN, holder : Threads \cup {Nobody}, depth : 0 .. 1]
    BY DEF Init, NoMutex
  <2>5. descr \in [Index -> Names \cup {NoName}]
    BY DEF Init
  <2>6. /\ isInit = FALSE /\ inProgress = FALSE /\ shim = FALSE /\ mainMutex = Nobody
        /\ nRef = 0 /\ fails = 0 /\ count = 0 /\ default = 0
    BY DEF Init
  <2>7. /\ isInit \in BOOLEAN /\ inProgress \in BOOLEAN /\ shim \in BOOLEAN
        /\ mainMutex \in Threads \cup {Nobody}
    BY <2>6, Zenon
  <2>8. /\ nRef \in Nat /\ fails \in 0 .. MaxFails
        /\ count \in 0 .. CODEC_COUNT_MAX /\ default \in 0 .. CODEC_COUNT_MAX
    BY <1>1, <2>6
  <2> QED
    BY <2>3, <2>4, <2>5, <2>7, <2>8, Zenon DEF Types
<1>4. \A t \in Threads : Shape(t)
  BY <1>1, <1>2, IdleCall DEF Shape, At, Closed, Registering, Progress
<1>5. Mutexes
  BY <1>2, IdleCall, RegistryAssumption DEF Init, NoMutex, Mutexes, Inside, Registering
<1>6. References
  <2>1. Refs = {} /\ Nested = {}
    BY <1>2, IdleCall DEF Refs, Nested, InInit
  <2> QED
    BY <2>1, FS_EmptySet DEF Init, NoMutex, References
<1>7. Tables
  <2>1. ~ InUse
    BY <1>2, IdleCall DEF Init, InUse, Filling, At
  <2> QED
    BY <2>1, <1>2, IdleCall DEF Init, Tables, Writing, At, Sentinel
<1>8. Built
  BY <1>2, IdleCall DEF Init, Built, Done, At, Closed
<1> QED
  BY <1>3, <1>4, <1>5, <1>6, <1>7, <1>8 DEF IInv

-----------------------------------------------------------------------------
(***************************************************************************)
(* The invariant is kept by the steps that leave the tables alone.         *)
(***************************************************************************)
\* A thread begins to open a connection.
LEMMA OpenKeeps == ASSUME IInv, NEW t \in Threads, Open(t) PROVE IInv'
<1>1. PICK r : r = [NoCall EXCEPT !.op = "open", !.pc = "check"]
  OBVIOUS
<1>2. /\ r \in Calls /\ r.op = "open" /\ r.pc = "check" /\ r.nest = "no" /\ r.rc = "ok"
  BY <1>1, IdleCall DEF Calls, Pcs
<1>3. call' = [call EXCEPT ![t] = r]
  BY <1>1 DEF Open, Begin
<1>4. /\ call[t].pc = "idle" /\ ~ conn[t].open
      /\ UNCHANGED <<isInit, inProgress, initMutex, nRef, mainMutex, shim, count, descr, slot,
                     default, conn, fails>>
  BY DEF Open, Begin, shared, tables
<1>5. call' \in [Threads -> Calls] /\ call'[t] = r /\ Others(t)
  BY <1>2, <1>3, <1>4, CallStep DEF IInv
<1>6. Types'
  BY <1>4, <1>5 DEF IInv, Types
<1>7. Shape(t)'
  BY <1>2, <1>4, <1>5, Here DEF Shape, At, Registering, Progress
<1>8. References'
  BY <1>2, <1>4, <1>5, Here, RefStep DEF Shape, InInit
<1> QED
  BY <1>2, <1>4, <1>5, <1>6, <1>7, <1>8, Here, QuietStep
  DEF Shape, At, Inside, Registering, Progress, Filling, Writing, Done

\* A thread begins to register a cipher.
LEMMA RegisterKeeps == ASSUME IInv, NEW t \in Threads, RegisterCipher(t) PROVE IInv'
<1>0. PICK x \in Names, d \in BOOLEAN :
        Begin(t, [NoCall EXCEPT !.op = "register", !.name = x, !.makeDefault = d,
                                !.pc = "check"])
  BY DEF RegisterCipher
<1>1. PICK r : r = [NoCall EXCEPT !.op = "register", !.name = x, !.makeDefault = d,
                                  !.pc = "check"]
  OBVIOUS
<1>2. /\ r \in Calls /\ r.op = "register" /\ r.pc = "check" /\ r.nest = "no" /\ r.rc = "ok"
      /\ r.name = x
  BY <1>1, IdleCall DEF Calls, Pcs
<1>3. call' = [call EXCEPT ![t] = r]
  BY <1>0, <1>1 DEF Begin
<1>4. /\ call[t].pc = "idle"
      /\ UNCHANGED <<isInit, inProgress, initMutex, nRef, mainMutex, shim, count, descr, slot,
                     default, conn, fails>>
  BY <1>0 DEF Begin, shared, tables
<1>5. call' \in [Threads -> Calls] /\ call'[t] = r /\ Others(t)
  BY <1>2, <1>3, <1>4, CallStep DEF IInv
<1>6. Types'
  BY <1>4, <1>5 DEF IInv, Types
<1>7. Shape(t)'
  BY <1>2, <1>4, <1>5, Here DEF Shape, At, Registering, Progress
<1>8. References'
  BY <1>2, <1>4, <1>5, Here, RefStep DEF Shape, InInit
<1> QED
  BY <1>2, <1>4, <1>5, <1>6, <1>7, <1>8, Here, QuietStep
  DEF Shape, At, Inside, Registering, Progress, Filling, Writing, Done

\* isInit is read without a mutex.
LEMMA CheckInitKeeps == ASSUME IInv, NEW t \in Threads, CheckInit(t) PROVE IInv'
<1>1. PICK r : r = [call[t] EXCEPT !.pc = IF isInit THEN "body" ELSE "ref"]
  OBVIOUS
<1>2. /\ r \in Calls /\ r.op = call[t].op /\ r.name = call[t].name
      /\ r.pc = (IF isInit THEN "body" ELSE "ref")
      /\ r.nest = call[t].nest /\ r.rc = call[t].rc /\ r.i = call[t].i
  BY <1>1, Here DEF Calls, Pcs
<1>3. call' = [call EXCEPT ![t] = r]
  BY <1>1 DEF CheckInit, Goto
<1>4. /\ call[t].pc = "check"
      /\ UNCHANGED <<isInit, inProgress, initMutex, nRef, mainMutex, shim, count, descr, slot,
                     default, conn, fails>>
  BY DEF CheckInit, At, shared, tables
<1>5. call' \in [Threads -> Calls] /\ call'[t] = r /\ Others(t)
  BY <1>2, <1>3, <1>4, CallStep DEF IInv
<1>6. Types'
  BY <1>4, <1>5 DEF IInv, Types
<1>7. Shape(t)'
  BY <1>2, <1>4, <1>5, Here DEF Shape, At, Registering, Progress
<1>8. References'
  BY <1>2, <1>4, <1>5, Here, RefStep DEF Shape, InInit
<1> QED
  BY <1>2, <1>4, <1>5, <1>6, <1>7, <1>8, Here, QuietStep
  DEF Shape, At, Inside, Registering, Progress, Filling, Writing, Done

\* A thread enters pInitMutex.
LEMMA EnterKeeps == ASSUME IInv, NEW t \in Threads, EnterInit(t) PROVE IInv'
<1>1. PICK r : r = [call[t] EXCEPT !.pc = "test"]
  OBVIOUS
<1>2. /\ r \in Calls /\ r.op = call[t].op /\ r.name = call[t].name /\ r.pc = "test"
      /\ r.nest = call[t].nest /\ r.rc = call[t].rc /\ r.i = call[t].i
  BY <1>1, Here DEF Calls, Pcs, Inside
<1>3. call' = [call EXCEPT ![t] = r]
  BY <1>1 DEF EnterInit, Goto
<1>4. /\ call[t].pc = "enter" /\ initMutex.holder \in {Nobody, t}
      /\ UNCHANGED <<isInit, inProgress, nRef, mainMutex, shim, count, descr, slot,
                     default, conn, fails>>
      /\ initMutex' = [initMutex EXCEPT !.holder = t, !.depth = initMutex.depth + 1]
  BY DEF EnterInit, At, tables
<1>5. call' \in [Threads -> Calls] /\ call'[t] = r /\ Others(t)
  BY <1>2, <1>3, <1>4, CallStep DEF IInv
<1>6. /\ initMutex.holder = Nobody
      /\ initMutex' \in [alive : BOOLEAN, holder : Threads \cup {Nobody}, depth : 0 .. 1]
      /\ initMutex'.holder = t /\ initMutex'.depth = 1 /\ initMutex'.alive = initMutex.alive
  <2>1. initMutex.holder = Nobody /\ initMutex.depth = 0
    BY <1>4, Here DEF Inside
  <2>2. initMutex \in [alive : BOOLEAN, holder : Threads \cup {Nobody}, depth : 0 .. 1]
    BY DEF IInv, Types
  <2>3. initMutex' = [alive |-> initMutex.alive, holder |-> t, depth |-> 1]
    <3>1. initMutex' = [initMutex EXCEPT !.holder = t, !.depth = 1]
      BY <1>4, <2>1
    <3> QED
      BY <3>1, <2>2
  <2>4. initMutex.alive \in BOOLEAN
    BY <2>2
  <2>5. initMutex' \in [alive : BOOLEAN, holder : Threads \cup {Nobody}, depth : 0 .. 1]
    BY <2>3, <2>4
  <2> QED
    BY <2>1, <2>3, <2>5
<1>7. Types'
  BY <1>4, <1>5, <1>6 DEF IInv, Types
<1>8. Shape(t)'
  BY <1>2, <1>4, <1>5, Here DEF Shape, At, Registering, Progress
<1>9. References'
  BY <1>2, <1>4, <1>5, <1>6, Here, RefStep DEF Shape, InInit
<1> QED
  BY <1>2, <1>4, <1>5, <1>6, <1>7, <1>8, <1>9, Here, QuietStep
  DEF Shape, At, Inside, Registering, Progress, Filling, Writing, Done

\* isInit is read again: no other initialization is in progress then.
LEMMA TestKeeps == ASSUME IInv, NEW t \in Threads, TestInit(t) PROVE IInv'
<1>1. PICK r : r = [call[t] EXCEPT !.pc = IF NotYet THEN "tables" ELSE "leave",
                                   !.nest = IF NotYet THEN "ref" ELSE "no"]
  OBVIOUS
<1>2. /\ r \in Calls /\ r.op = call[t].op /\ r.name = call[t].name
      /\ r.pc = (IF NotYet THEN "tables" ELSE "leave")
      /\ r.nest = (IF NotYet THEN "ref" ELSE "no") /\ r.rc = call[t].rc /\ r.i = call[t].i
  <2>1. call[t] \in Calls
    BY Here
  <2>2. CASE NotYet
    BY <1>1, <2>1, <2>2 DEF Calls, Pcs, Inside
  <2>3. CASE ~ NotYet
    BY <1>1, <2>1, <2>3 DEF Calls, Pcs, Inside
  <2> QED
    BY <2>2, <2>3
<1>3. call' = [call EXCEPT ![t] = r]
  BY <1>1 DEF TestInit
<1>4. /\ call[t].pc = "test" /\ (inProgress' <=> inProgress \/ NotYet)
      /\ UNCHANGED <<isInit, initMutex, nRef, mainMutex, shim, count, descr, slot,
                     default, conn, fails>>
  BY DEF TestInit, At, tables
<1>5. call' \in [Threads -> Calls] /\ call'[t] = r /\ Others(t)
  BY <1>2, <1>3, <1>4, CallStep DEF IInv
<1>6. inProgress' \in BOOLEAN
  BY Zenon DEF TestInit
<1>7. Types'
  BY <1>4, <1>5, <1>6 DEF IInv, Types
<1>8. ~ inProgress
  <2>1. initMutex.holder = t
    BY <1>4, Here DEF Inside
  <2>2. \A u \in Threads : call[u].pc \in Progress => u = t
    BY <2>1 DEF IInv, Mutexes, Inside, Progress
  <2> QED
    BY <1>4, <2>2 DEF IInv, Mutexes, Progress
<1>9. NotYet <=> ~ isInit
  BY <1>8 DEF NotYet
<1>10. Shape(t)'
  BY <1>2, <1>4, <1>5, <1>9, Here DEF Shape, At, Registering, Progress
<1>11. References'
  BY <1>2, <1>4, <1>5, Here, RefStep DEF Shape, InInit
<1> QED
  BY <1>2, <1>4, <1>5, <1>7, <1>8, <1>9, <1>10, <1>11, Here, QuietStep
  DEF Shape, At, Inside, Registering, Progress, Filling, Writing, Done

\* A thread leaves pInitMutex.
LEMMA LeaveKeeps == ASSUME IInv, NEW t \in Threads, LeaveInit(t) PROVE IInv'
<1>1. PICK r : r = [call[t] EXCEPT !.pc = "unref"]
  OBVIOUS
<1>2. /\ r \in Calls /\ r.op = call[t].op /\ r.name = call[t].name /\ r.pc = "unref"
      /\ r.nest = call[t].nest /\ r.rc = call[t].rc /\ r.i = call[t].i
  BY <1>1, Here DEF Calls, Pcs
<1>3. call' = [call EXCEPT ![t] = r]
  BY <1>1 DEF LeaveInit, Goto
<1>4. /\ call[t].pc = "leave"
      /\ UNCHANGED <<isInit, inProgress, nRef, mainMutex, shim, count, descr, slot,
                     default, conn, fails>>
      /\ initMutex' = [initMutex EXCEPT !.depth = initMutex.depth - 1,
                         !.holder = IF initMutex.depth = 1 THEN Nobody ELSE t]
  BY DEF LeaveInit, At, tables
<1>5. call' \in [Threads -> Calls] /\ call'[t] = r /\ Others(t)
  BY <1>2, <1>3, <1>4, CallStep DEF IInv
<1>6. /\ initMutex.holder = t
      /\ initMutex' \in [alive : BOOLEAN, holder : Threads \cup {Nobody}, depth : 0 .. 1]
      /\ initMutex'.holder = Nobody /\ initMutex'.depth = 0
      /\ initMutex'.alive = initMutex.alive
  <2>1. initMutex.holder = t /\ initMutex.depth = 1
    BY <1>4, Here DEF Inside
  <2>2. initMutex \in [alive : BOOLEAN, holder : Threads \cup {Nobody}, depth : 0 .. 1]
    BY DEF IInv, Types
  <2>3. initMutex' = [alive |-> initMutex.alive, holder |-> Nobody, depth |-> 0]
    <3>0. /\ initMutex.depth - 1 = 0
          /\ (IF initMutex.depth = 1 THEN Nobody ELSE t) = Nobody
      BY <2>1
    <3>1. initMutex' = [initMutex EXCEPT !.depth = 0, !.holder = Nobody]
      BY <1>4, <3>0, Zenon
    <3> QED
      BY <3>1, <2>2
  <2>4. initMutex.alive \in BOOLEAN
    BY <2>2
  <2>5. initMutex' \in [alive : BOOLEAN, holder : Threads \cup {Nobody}, depth : 0 .. 1]
    BY <2>3, <2>4
  <2> QED
    BY <2>1, <2>3, <2>5
<1>7. Types'
  BY <1>4, <1>5, <1>6 DEF IInv, Types
<1>8. Shape(t)'
  BY <1>2, <1>4, <1>5, Here DEF Shape, At, Registering, Progress
<1>9. References'
  BY <1>2, <1>4, <1>5, <1>6, Here, RefStep DEF Shape, InInit
<1> QED
  BY <1>2, <1>4, <1>5, <1>6, <1>7, <1>8, <1>9, Here, QuietStep
  DEF Shape, At, Inside, Registering, Progress, Filling, Writing, Done

\* The initialization ends, with isInit set or not.
LEMMA EndKeeps == ASSUME IInv, NEW t \in Threads, EndInit(t) PROVE IInv'
<1>1. PICK r : r = [call[t] EXCEPT !.pc = "leave"]
  OBVIOUS
<1>2. /\ r \in Calls /\ r.op = call[t].op /\ r.name = call[t].name /\ r.pc = "leave"
      /\ r.nest = call[t].nest /\ r.rc = call[t].rc /\ r.i = call[t].i
  BY <1>1, Here DEF Calls, Pcs, Inside
<1>3. call' = [call EXCEPT ![t] = r]
  BY <1>1 DEF EndInit, Goto, AfterInit
<1>4. /\ call[t].pc = "end" /\ (isInit' <=> isInit \/ call[t].rc = "ok") /\ ~ inProgress'
      /\ UNCHANGED <<initMutex, nRef, mainMutex, shim, count, descr, slot,
                     default, conn, fails>>
  BY DEF EndInit, At, tables, Succeeded
<1>5. call' \in [Threads -> Calls] /\ call'[t] = r /\ Others(t)
  BY <1>2, <1>3, <1>4, CallStep DEF IInv
<1>6. isInit' \in BOOLEAN /\ inProgress' \in BOOLEAN
  BY Zenon DEF EndInit
<1>7. Types'
  BY <1>4, <1>5, <1>6 DEF IInv, Types
<1>8. Shape(t)'
  BY <1>2, <1>4, <1>5, Here DEF Shape, At, Registering, Progress
<1>9. References'
  BY <1>2, <1>4, <1>5, Here, RefStep DEF Shape, InInit
<1> QED
  BY <1>2, <1>4, <1>5, <1>7, <1>8, <1>9, Here, QuietStep
  DEF Shape, At, Inside, Registering, Progress, Filling, Writing, Done

\* A built-in cipher is the next, or the shim.
LEMMA BuiltinKeeps == ASSUME IInv, NEW t \in Threads, Builtin(t) PROVE IInv'
<1>1. PICK r : /\ call' = [call EXCEPT ![t] = r]
               /\ \/ /\ call[t].i > Len(Builtins) /\ UNCHANGED fails
                     /\ r = [call[t] EXCEPT !.pc = "vfs"]
                  \/ /\ call[t].i <= Len(Builtins) /\ UNCHANGED fails
                     /\ r = [call[t] EXCEPT !.pc = "bDescr", !.nest = "no"]
                  \/ /\ call[t].i <= Len(Builtins) /\ fails < MaxFails /\ fails' = fails + 1
                     /\ r = [call[t] EXCEPT !.pc = "end", !.nest = "no", !.rc = "nomem"]
  <2>1. CASE call[t].i > Len(Builtins)
    BY <2>1 DEF Builtin, Goto
  <2>2. CASE ~ (call[t].i > Len(Builtins))
    <3>1. call[t].i <= Len(Builtins)
      BY <2>2, Here, RegistryAssumption DEF Calls
    <3>2. Allocated(t)
      BY <2>2 DEF Builtin
    <3>3. CASE UNCHANGED fails /\ call' = [call EXCEPT ![t].pc = "bDescr", ![t].nest = "no"]
      <4>1. call' = [call EXCEPT ![t] = [call[t] EXCEPT !.pc = "bDescr", !.nest = "no"]]
        BY <3>3
      <4> QED
        BY <3>1, <3>3, <4>1
    <3>4. CASE /\ fails < MaxFails /\ fails' = fails + 1
               /\ call' = [call EXCEPT ![t].pc = "end", ![t].nest = "no", ![t].rc = "nomem"]
      <4>1. call' = [call EXCEPT ![t] =
                       [call[t] EXCEPT !.pc = "end", !.nest = "no", !.rc = "nomem"]]
        BY <3>4
      <4> QED
        BY <3>1, <3>4, <4>1
    <3> QED
      BY <3>2, <3>3, <3>4 DEF Allocated
  <2> QED
    BY <2>1, <2>2
<1>2. /\ r \in Calls /\ r.op = call[t].op /\ r.name = call[t].name
      /\ r.i = call[t].i /\ fails' \in 0 .. MaxFails
      /\ \/ r.pc = "vfs" /\ r.nest = call[t].nest /\ r.rc = call[t].rc
            /\ call[t].i > Len(Builtins)
         \/ r.pc = "bDescr" /\ r.nest = "no" /\ r.rc = call[t].rc
            /\ call[t].i <= Len(Builtins)
         \/ r.pc = "end" /\ r.nest = "no" /\ r.rc = "nomem"
  <2>1. call[t] \in Calls /\ fails \in 0 .. MaxFails /\ MaxFails \in Nat
    BY Here, RegistryAssumption DEF IInv, Types
  <2>2. CASE r = [call[t] EXCEPT !.pc = "vfs"]
    BY <1>1, <2>1, <2>2 DEF Calls, Pcs, Inside
  <2>3. CASE r = [call[t] EXCEPT !.pc = "bDescr", !.nest = "no"]
    BY <1>1, <2>1, <2>3 DEF Calls, Pcs, Inside
  <2>4. CASE r = [call[t] EXCEPT !.pc = "end", !.nest = "no", !.rc = "nomem"]
    <3>1. r \in Calls
      BY <2>1, <2>4 DEF Calls, Pcs, Inside
    <3>2. /\ r.op = call[t].op /\ r.name = call[t].name /\ r.i = call[t].i
          /\ r.pc = "end" /\ r.nest = "no" /\ r.rc = "nomem"
      BY <2>1, <2>4 DEF Calls
    <3>3. fails' \in 0 .. MaxFails
      BY <1>1, <2>1
    <3> QED
      BY <3>1, <3>2, <3>3
  <2> QED
    BY <1>1, <2>2, <2>3, <2>4
<1>4. /\ call[t].pc = "builtin" /\ call[t].nest = "back"
      /\ UNCHANGED <<isInit, inProgress, initMutex, nRef, mainMutex, shim, count, descr, slot,
                     default, conn>>
  BY DEF Builtin, At, shared, tables
<1>5. call' \in [Threads -> Calls] /\ call'[t] = r /\ Others(t)
  BY <1>1, <1>2, <1>4, CallStep DEF IInv
<1>6. Types'
  BY <1>2, <1>4, <1>5 DEF IInv, Types
<1>7. Shape(t)'
  BY <1>2, <1>4, <1>5, Here DEF Shape, At, Registering, Progress
<1>8. References'
  BY <1>2, <1>4, <1>5, Here, RefStep DEF Shape, InInit
<1>9. \A j \in 1 .. Len(Builtins) : Done(t, j)' => Done(t, j)
  <2>1. Len(Builtins) \in Nat /\ call[t].i \in Nat
    BY Here, RegistryAssumption DEF Calls
  <2> QED
    BY <1>2, <1>4, <1>5, <2>1 DEF Done, At
<1> QED
  BY <1>2, <1>4, <1>5, <1>6, <1>7, <1>8, <1>9, Here, QuietStep
  DEF Shape, At, Inside, Registering, Progress, Filling, Writing

\* The shim is registered, or there is no memory for it.
LEMMA ShimKeeps == ASSUME IInv, NEW t \in Threads, CreateShim(t) PROVE IInv'
<1>1. PICK r : /\ call' = [call EXCEPT ![t] = r]
               /\ \/ /\ shim' = TRUE /\ UNCHANGED fails
                     /\ r = [call[t] EXCEPT !.pc = "end"]
                  \/ /\ fails < MaxFails /\ fails' = fails + 1 /\ UNCHANGED shim
                     /\ r = [call[t] EXCEPT !.pc = "end", !.rc = "nomem"]
  <2>1. CASE shim' = TRUE /\ Goto(t, "end") /\ UNCHANGED fails
    BY <2>1 DEF Goto
  <2>2. CASE /\ fails < MaxFails /\ fails' = fails + 1 /\ UNCHANGED shim
             /\ call' = [call EXCEPT ![t].pc = "end", ![t].rc = "nomem"]
    <3>1. call' = [call EXCEPT ![t] = [call[t] EXCEPT !.pc = "end", !.rc = "nomem"]]
      BY <2>2
    <3> QED
      BY <2>2, <3>1
  <2> QED
    BY <2>1, <2>2 DEF CreateShim
<1>2. /\ r \in Calls /\ r.op = call[t].op /\ r.name = call[t].name
      /\ r.i = call[t].i /\ fails' \in 0 .. MaxFails /\ r.pc = "end" /\ r.nest = call[t].nest
      /\ \/ r.rc = call[t].rc /\ shim' = TRUE
         \/ r.rc = "nomem" /\ shim' = shim
  <2>1. call[t] \in Calls /\ fails \in 0 .. MaxFails /\ MaxFails \in Nat
    BY Here, RegistryAssumption DEF IInv, Types
  <2>2. CASE r = [call[t] EXCEPT !.pc = "end"] /\ shim' = TRUE /\ UNCHANGED fails
    BY <2>1, <2>2 DEF Calls, Pcs, Inside
  <2>3. CASE r = [call[t] EXCEPT !.pc = "end", !.rc = "nomem"] /\ UNCHANGED shim
             /\ fails < MaxFails /\ fails' = fails + 1
    <3>1. r \in Calls
      BY <2>1, <2>3 DEF Calls, Pcs, Inside
    <3>2. /\ r.op = call[t].op /\ r.name = call[t].name /\ r.i = call[t].i
          /\ r.pc = "end" /\ r.nest = call[t].nest /\ r.rc = "nomem"
      BY <2>1, <2>3 DEF Calls
    <3>3. fails' \in 0 .. MaxFails
      BY <2>1, <2>3
    <3> QED
      BY <2>3, <3>1, <3>2, <3>3
  <2> QED
    BY <1>1, <2>2, <2>3
<1>3. shim' \in BOOLEAN /\ (shim => shim')
  BY <1>1, Zenon DEF IInv, Types
<1>4. /\ call[t].pc = "vfs"
      /\ UNCHANGED <<isInit, inProgress, initMutex, nRef, mainMutex, count, descr, slot,
                     default, conn>>
  BY DEF CreateShim, At, tables
<1>5. call' \in [Threads -> Calls] /\ call'[t] = r /\ Others(t)
  BY <1>1, <1>2, <1>4, CallStep DEF IInv
<1>6. Types'
  BY <1>2, <1>3, <1>4, <1>5 DEF IInv, Types
<1>7. Shape(t)'
  BY <1>2, <1>4, <1>5, Here DEF Shape, At, Registering, Progress
<1>8. References'
  BY <1>2, <1>4, <1>5, Here, RefStep DEF Shape, InInit
<1> QED
  BY <1>2, <1>3, <1>4, <1>5, <1>6, <1>7, <1>8, Here, QuietStep
  DEF Shape, At, Inside, Registering, Progress, Filling, Writing, Done

\* A registration waits for the static mutex.
LEMMA LockKeeps == ASSUME IInv, NEW t \in Threads, LockRegistry(t) PROVE IInv'
<1>1. PICK r : r = [call[t] EXCEPT !.pc = "rCheck"]
  OBVIOUS
<1>2. /\ r \in Calls /\ r.op = call[t].op /\ r.name = call[t].name /\ r.pc = "rCheck"
      /\ r.nest = call[t].nest /\ r.rc = call[t].rc /\ r.i = call[t].i
  BY <1>1, Here DEF Calls, Pcs, Registering
<1>3. call' = [call EXCEPT ![t] = r]
  BY <1>1 DEF LockRegistry, Goto
<1>4. /\ call[t].pc = "body" /\ call[t].op = "register"
      /\ mainMutex = Nobody /\ mainMutex' = t
      /\ UNCHANGED <<isInit, inProgress, nRef, initMutex, shim, count, descr, slot,
                     default, conn, fails>>
  BY DEF LockRegistry, EnterMain, At, tables
<1>5. call' \in [Threads -> Calls] /\ call'[t] = r /\ Others(t)
  BY <1>2, <1>3, <1>4, CallStep DEF IInv
<1>6. Types'
  BY <1>4, <1>5 DEF IInv, Types
<1>7. Shape(t)'
  BY <1>2, <1>4, <1>5, Here DEF Shape, At, Registering, Progress
<1>8. References'
  BY <1>2, <1>4, <1>5, Here, RefStep DEF Shape, InInit
<1> QED
  BY <1>2, <1>4, <1>5, <1>6, <1>7, <1>8, Here, QuietStep
  DEF Shape, At, Inside, Registering, Progress, Filling, Writing, Done

\* A name is accepted or refused, or there is no memory for its parameters.
LEMMA AcceptKeeps ==
  ASSUME IInv, NEW t \in Threads, At(t, "rCheck"),
         \/ Room /\ Goto(t, "rDescr") /\ UNCHANGED fails
         \/ Goto(t, "rLeave") /\ UNCHANGED fails
         \/ Goto(t, "rLeave") /\ fails < MaxFails /\ fails' = fails + 1,
         UNCHANGED <<shared, tables, conn>>
  PROVE  IInv'
<1>1. PICK pc : pc \in {"rDescr", "rLeave"} /\ Goto(t, pc)
                /\ (pc = "rDescr" => count < CODEC_COUNT_MAX)
  BY DEF Room
<1>9. PICK r : r = [call[t] EXCEPT !.pc = pc]
  OBVIOUS
<1>2. /\ r \in Calls /\ r.op = call[t].op /\ r.name = call[t].name /\ r.pc = pc
      /\ r.nest = call[t].nest /\ r.rc = call[t].rc /\ r.i = call[t].i
  BY <1>1, <1>9, Here DEF Calls, Pcs, Registering
<1>3. call' = [call EXCEPT ![t] = r]
  BY <1>1, <1>9 DEF Goto
<1>4. /\ call[t].pc = "rCheck"
      /\ UNCHANGED <<isInit, inProgress, initMutex, nRef, mainMutex, shim, count, descr, slot,
                     default, conn>>
  BY DEF At, shared, tables
<1>5. call' \in [Threads -> Calls] /\ call'[t] = r /\ Others(t)
  BY <1>2, <1>3, <1>4, CallStep DEF IInv
<1>6. Types'
  <2>1. fails' \in 0 .. MaxFails
    BY RegistryAssumption DEF IInv, Types
  <2> QED
    BY <1>4, <1>5, <2>1 DEF IInv, Types
<1>7. Shape(t)'
  BY <1>1, <1>2, <1>4, <1>5, Here DEF Shape, At, Registering, Progress
<1>8. References'
  BY <1>1, <1>2, <1>4, <1>5, Here, RefStep DEF Shape, InInit
<1> QED
  BY <1>1, <1>2, <1>4, <1>5, <1>6, <1>7, <1>8, Here, QuietStep
  DEF Shape, At, Inside, Registering, Progress, Filling, Writing, Done

\* The static mutex is left, and the call returns.
LEMMA UnlockKeeps == ASSUME IInv, NEW t \in Threads, UnlockRegistry(t) PROVE IInv'
<1>1. PICK r : r = NoCall
  OBVIOUS
<1>2. /\ r \in Calls /\ r.op = "none" /\ r.pc = "idle" /\ r.nest = "no" /\ r.rc = "ok"
  BY <1>1, IdleCall
<1>3. call' = [call EXCEPT ![t] = r]
  BY <1>1 DEF UnlockRegistry
<1>4. /\ call[t].pc = "rLeave" /\ mainMutex = t /\ mainMutex' = Nobody
      /\ UNCHANGED <<isInit, inProgress, nRef, initMutex, shim, count, descr, slot,
                     default, conn, fails>>
  BY Here DEF UnlockRegistry, At, tables, Registering
<1>5. call' \in [Threads -> Calls] /\ call'[t] = r /\ Others(t)
  BY <1>2, <1>3, <1>4, CallStep DEF IInv
<1>6. Types'
  BY <1>4, <1>5 DEF IInv, Types
<1>7. Shape(t)'
  BY <1>2, <1>4, <1>5, Here DEF Shape, At, Registering, Progress
<1>8. References'
  BY <1>2, <1>4, <1>5, Here, RefStep DEF Shape, InInit
<1> QED
  BY <1>2, <1>4, <1>5, <1>6, <1>7, <1>8, Here, QuietStep
  DEF Shape, At, Inside, Registering, Progress, Filling, Writing, Done

\* A connection is given another cipher, or is closed.
LEMMA ConnKeeps ==
  ASSUME IInv, NEW t \in Threads, SelectCipher(t) \/ Close(t) PROVE IInv'
<1>1. PICK r : /\ conn' = [conn EXCEPT ![t] = r]
               /\ \/ r = Closed
                  \/ \E n \in 1 .. count : r = [conn[t] EXCEPT !.cipher = n] /\ n \in Index
  <2>1. CASE SelectCipher(t)
    <3>1. PICK n \in Index : n <= count /\ conn' = [conn EXCEPT ![t].cipher = n]
      BY <2>1 DEF SelectCipher, Available
    <3>2. n \in 1 .. count
      BY <3>1, RegistryAssumption DEF IInv, Types, Index
    <3>3. conn' = [conn EXCEPT ![t] = [conn[t] EXCEPT !.cipher = n]]
      BY <3>1
    <3> QED
      BY <3>2, <3>3
  <2>2. CASE Close(t)
    BY <2>2 DEF Close
  <2> QED
    BY <2>1, <2>2
<1>2. /\ call[t].pc = "idle" /\ conn[t].open
      /\ UNCHANGED <<isInit, inProgress, initMutex, nRef, mainMutex, shim, count, descr, slot,
                     default, call, fails>>
  BY DEF SelectCipher, Close, shared, tables
<1> DEFINE Conn == [open : BOOLEAN, table : Seq(Slots), cipher : 0 .. CODEC_COUNT_MAX]
<1>3. conn \in [Threads -> Conn]
  BY DEF IInv, Types
<1>4. /\ r \in Conn /\ (r.open => isInit) /\ (r.open => r.cipher \in 1 .. count)
      /\ Len(r.table) <= CODEC_COUNT_MAX
  <2>0. /\ conn[t] \in Conn /\ isInit /\ CODEC_COUNT_MAX \in Nat
        /\ Len(conn[t].table) <= CODEC_COUNT_MAX
    BY <1>2, <1>3, Here, RegistryAssumption DEF Shape
  <2>1. CASE r = Closed
    BY <2>0, <2>1 DEF Closed
  <2>2. ASSUME NEW n \in 1 .. count, r = [conn[t] EXCEPT !.cipher = n], n \in Index
        PROVE  r \in Conn /\ r.cipher = n /\ r.table = conn[t].table
    BY <2>0, <2>2 DEF Index
  <2> QED
    BY <1>1, <2>0, <2>1, <2>2
<1>5. conn' \in [Threads -> Conn] /\ conn'[t] = r /\ Others(t)
  BY <1>1, <1>2, <1>3, <1>4 DEF Others
<1>6. Types'
  BY <1>2, <1>5 DEF IInv, Types
<1>7. Shape(t)'
  BY <1>2, <1>4, <1>5, Here DEF Shape, At, Registering, Progress
<1>8. References'
  BY <1>2, <1>5, Here, RefStep DEF Shape, InInit
<1> HIDE DEF Conn
<1> QED
  BY <1>2, <1>4, <1>5, <1>6, <1>7, <1>8, Here, QuietStep
  DEF Shape, At, Inside, Registering, Progress, Filling, Writing, Done

-----------------------------------------------------------------------------
(***************************************************************************)
(* The steps that take a reference to pInitMutex, or give one back.        *)
(***************************************************************************)
\* A reference to pInitMutex is taken.
LEMMA RefKeeps == ASSUME IInv, NEW t \in Threads, RefInitMutex(t) PROVE IInv'
<1>1. PICK r : r = [call[t] EXCEPT !.pc = "enter"]
  OBVIOUS
<1>2. /\ r \in Calls /\ r.op = call[t].op /\ r.name = call[t].name /\ r.pc = "enter"
      /\ r.nest = call[t].nest /\ r.rc = call[t].rc /\ r.i = call[t].i
  BY <1>1, Here DEF Calls, Pcs
<1>3. call' = [call EXCEPT ![t] = r]
  BY <1>1 DEF RefInitMutex, Goto
<1>4. /\ call[t].pc = "ref" /\ nRef' = nRef + 1
      /\ initMutex' = [initMutex EXCEPT !.alive = TRUE]
      /\ UNCHANGED <<isInit, inProgress, mainMutex, shim, count, descr, slot,
                     default, conn, fails>>
  BY DEF RefInitMutex, CountRef, At, tables
<1>5. call' \in [Threads -> Calls] /\ call'[t] = r /\ Others(t)
  BY <1>2, <1>3, <1>4, CallStep DEF IInv
<1>6. /\ initMutex' \in [alive : BOOLEAN, holder : Threads \cup {Nobody}, depth : 0 .. 1]
      /\ initMutex'.holder = initMutex.holder /\ initMutex'.depth = initMutex.depth
      /\ initMutex'.alive
  BY <1>4 DEF IInv, Types
<1>7. Types'
  <2>1. nRef' \in Nat
    BY <1>4 DEF IInv, Types
  <2> QED
    BY <1>4, <1>5, <1>6, <2>1 DEF IInv, Types
<1>8. Shape(t)'
  BY <1>2, <1>4, <1>5, Here DEF Shape, At, Registering, Progress
<1>9. References'
  <2>1. Refs' = Refs \cup {t} /\ t \notin Refs
    BY <1>2, <1>4, <1>5 DEF Refs, InInit, Others
  <2>2. Nested' = Nested
    BY <1>2, <1>4, <1>5, Here DEF Nested, Shape, Others
  <2>3. Refs \subseteq Threads /\ Nested \subseteq Threads
    BY DEF Refs, Nested
  <2>4. Cardinality(Refs') = Cardinality(Refs) + 1
    BY <2>1, <2>3, Counted
  <2>5. Cardinality(Refs) \in Nat /\ Cardinality(Nested) \in Nat
    BY <2>3, Counted
  <2>6. nRef = Cardinality(Refs) + Cardinality(Nested)
    BY DEF IInv, References
  <2> QED
    BY <1>4, <1>6, <2>2, <2>4, <2>5, <2>6 DEF References
<1> QED
  BY <1>2, <1>4, <1>5, <1>6, <1>7, <1>8, <1>9, Here, QuietStep
  DEF Shape, At, Inside, Registering, Progress, Filling, Writing, Done

\* The call from within takes a reference too.
LEMMA NestedRefKeeps == ASSUME IInv, NEW t \in Threads, NestedRef(t) PROVE IInv'
<1>1. PICK r : r = [call[t] EXCEPT !.nest = "unref"]
  OBVIOUS
<1>2. /\ r \in Calls /\ r.op = call[t].op /\ r.name = call[t].name /\ r.pc = call[t].pc
      /\ r.nest = "unref" /\ r.rc = call[t].rc /\ r.i = call[t].i
  BY <1>1, Here DEF Calls
<1>3. call' = [call EXCEPT ![t] = r]
  BY <1>1 DEF NestedRef
<1>4. /\ call[t].nest = "ref" /\ call[t].pc \in {"tables", "builtin"} /\ nRef' = nRef + 1
      /\ UNCHANGED <<isInit, inProgress, initMutex, mainMutex, shim, count, descr, slot,
                     default, conn, fails>>
  BY Here DEF NestedRef, CountRef, tables, Shape
<1>5. call' \in [Threads -> Calls] /\ call'[t] = r /\ Others(t)
  BY <1>2, <1>3, <1>4, CallStep DEF IInv
<1>6. Types'
  <2>1. nRef' \in Nat
    BY <1>4 DEF IInv, Types
  <2> QED
    BY <1>4, <1>5, <2>1 DEF IInv, Types
<1>7. Shape(t)'
  BY <1>2, <1>4, <1>5, Here DEF Shape, At, Registering, Progress
<1>8. References'
  <2>1. Refs' = Refs /\ initMutex.alive
    BY <1>2, <1>4, <1>5, Here, RefsCounted DEF Refs, InInit, Others
  <2>2. Nested' = Nested \cup {t} /\ t \notin Nested
    BY <1>2, <1>4, <1>5 DEF Nested, Others
  <2>3. Refs \subseteq Threads /\ Nested \subseteq Threads
    BY DEF Refs, Nested
  <2>4. Cardinality(Nested') = Cardinality(Nested) + 1
    BY <2>2, <2>3, Counted
  <2>5. Cardinality(Refs) \in Nat /\ Cardinality(Nested) \in Nat
    BY <2>3, Counted
  <2>6. nRef = Cardinality(Refs) + Cardinality(Nested)
    BY DEF IInv, References
  <2> QED
    BY <1>4, <2>1, <2>4, <2>5, <2>6 DEF References
<1> QED
  BY <1>2, <1>4, <1>5, <1>6, <1>7, <1>8, Here, QuietStep
  DEF Shape, At, Inside, Registering, Progress, Filling, Writing, Done

\* The call from within returns: the call it is in keeps the mutex alive.
LEMMA NestedUnrefKeeps == ASSUME IInv, NEW t \in Threads, NestedUnref(t) PROVE IInv'
<1>1. PICK r : r = [call[t] EXCEPT !.nest = "back"]
  OBVIOUS
<1>2. /\ r \in Calls /\ r.op = call[t].op /\ r.name = call[t].name /\ r.pc = call[t].pc
      /\ r.nest = "back" /\ r.rc = call[t].rc /\ r.i = call[t].i
  BY <1>1, Here DEF Calls
<1>3. call' = [call EXCEPT ![t] = r]
  BY <1>1 DEF NestedUnref
<1>4. /\ call[t].nest = "unref" /\ call[t].pc \in {"tables", "builtin"} /\ nRef' = nRef - 1
      /\ UNCHANGED <<isInit, inProgress, mainMutex, shim, count, descr, slot,
                     default, conn, fails>>
      /\ initMutex' = IF nRef' <= 0 THEN NoMutex ELSE initMutex
  BY Here DEF NestedUnref, Unref, tables, Shape
<1>5. call' \in [Threads -> Calls] /\ call'[t] = r /\ Others(t)
  BY <1>2, <1>3, <1>4, CallStep DEF IInv
<1>6. /\ Refs' = Refs /\ t \in Refs /\ Nested' = Nested \ {t} /\ t \in Nested
      /\ Refs \subseteq Threads /\ Nested \subseteq Threads
  BY <1>2, <1>4, <1>5 DEF Refs, Nested, InInit, Others
<1>7. /\ Cardinality(Nested') = Cardinality(Nested) - 1
      /\ Cardinality(Refs) \in Nat /\ Cardinality(Refs) > 0
      /\ Cardinality(Nested) \in Nat /\ Cardinality(Nested) > 0
  BY <1>6, Counted
<1>8. nRef = Cardinality(Refs) + Cardinality(Nested) /\ (initMutex.alive <=> nRef > 0)
  BY DEF IInv, References
<1>9. nRef' > 0 /\ nRef' \in Nat
  BY <1>4, <1>7, <1>8
<1>10. initMutex' = initMutex
  BY <1>4, <1>9
<1>11. References'
  BY <1>4, <1>6, <1>7, <1>8, <1>9, <1>10 DEF References
<1>12. Types'
  BY <1>4, <1>5, <1>9, <1>10 DEF IInv, Types
<1>13. Shape(t)'
  BY <1>2, <1>4, <1>5, Here DEF Shape, At, Registering, Progress
<1> QED
  BY <1>2, <1>4, <1>5, <1>10, <1>11, <1>12, <1>13, Here, QuietStep
  DEF Shape, At, Inside, Registering, Progress, Filling, Writing, Done

\* The last one out frees the mutex, and nobody holds it then.
LEMMA UnrefKeeps == ASSUME IInv, NEW t \in Threads, UnrefInitMutex(t) PROVE IInv'
<1>1. PICK r : r = IF call[t].rc = "ok" THEN [call[t] EXCEPT !.pc = "body"] ELSE NoCall
  OBVIOUS
<1>2. /\ r \in Calls /\ r.name \in Names \cup {NoName} /\ r.rc = "ok"
      /\ \/ r.pc = "body" /\ r.op = call[t].op /\ r.name = call[t].name
            /\ r.nest = call[t].nest /\ call[t].rc = "ok"
         \/ r.pc = "idle" /\ r.op = "none" /\ r.nest = "no"
  <2>0. call[t] \in Calls
    BY Here
  <2>1. CASE call[t].rc = "ok"
    BY <1>1, <2>0, <2>1 DEF Calls, Pcs
  <2>2. CASE call[t].rc # "ok"
    BY <1>1, <2>2, IdleCall DEF Calls
  <2> QED
    BY <2>1, <2>2
<1>3. call' = [call EXCEPT ![t] = r]
  BY <1>1 DEF UnrefInitMutex
<1>4. /\ call[t].pc = "unref" /\ nRef' = nRef - 1
      /\ UNCHANGED <<isInit, inProgress, mainMutex, shim, count, descr, slot,
                     default, conn, fails>>
      /\ initMutex' = IF nRef' <= 0 THEN NoMutex ELSE initMutex
  BY DEF UnrefInitMutex, Unref, tables, At
<1>5. call' \in [Threads -> Calls] /\ call'[t] = r /\ Others(t)
  BY <1>2, <1>3, <1>4, CallStep DEF IInv
<1>6. /\ Refs' = Refs \ {t} /\ t \in Refs /\ Nested' = Nested
      /\ Refs \subseteq Threads /\ Nested \subseteq Threads
  BY <1>2, <1>4, <1>5, Here DEF Refs, Nested, InInit, Others, Shape
<1>7. /\ Cardinality(Refs') = Cardinality(Refs) - 1
      /\ Cardinality(Refs) \in Nat /\ Cardinality(Refs) > 0
      /\ Cardinality(Nested) \in Nat
  BY <1>6, Counted
<1>8. nRef = Cardinality(Refs) + Cardinality(Nested) /\ (initMutex.alive <=> nRef > 0)
  BY DEF IInv, References
<1>9. nRef' \in Nat
  BY <1>4, <1>7, <1>8
<1>10. nRef' <= 0 => initMutex.holder = Nobody
  <2>1. SUFFICES ASSUME nRef' <= 0, NEW u \in Threads, initMutex.holder = u PROVE FALSE
    BY DEF IInv, Types
  <2>2. u # t /\ u \in Refs
    BY <1>4, <2>1, Here DEF IInv, Mutexes, Inside, Refs, InInit
  <2>3. u \in Refs' /\ Refs' \subseteq Threads
    BY <1>6, <2>2
  <2>4. Cardinality(Refs') > 0
    BY <2>3, Counted
  <2> QED
    BY <1>4, <1>7, <1>8, <2>1, <2>4
<1>11. /\ initMutex'.holder = initMutex.holder /\ initMutex'.depth = initMutex.depth
       /\ (initMutex'.alive <=> nRef' > 0)
       /\ initMutex' \in [alive : BOOLEAN, holder : Threads \cup {Nobody}, depth : 0 .. 1]
  <2>1. initMutex.depth = IF initMutex.holder = Nobody THEN 0 ELSE 1
    BY Here
  <2>2. CASE nRef' <= 0
    BY <1>4, <1>9, <1>10, <2>1, <2>2 DEF NoMutex
  <2>3. CASE nRef' > 0
    BY <1>4, <1>8, <1>9, <2>3 DEF IInv, Types
  <2> QED
    BY <1>9, <2>2, <2>3
<1>12. References'
  BY <1>4, <1>6, <1>7, <1>8, <1>11 DEF References
<1>13. Types'
  BY <1>4, <1>5, <1>9, <1>11 DEF IInv, Types
<1>14. Shape(t)'
  BY <1>2, <1>4, <1>5, Here DEF Shape, At, Registering, Progress
<1> QED
  BY <1>2, <1>4, <1>5, <1>11, <1>12, <1>13, <1>14, Here, QuietStep
  DEF Shape, At, Inside, Registering, Progress, Filling, Writing, Done

-----------------------------------------------------------------------------
(***************************************************************************)
(* The tables are counted and copied.                                      *)
(***************************************************************************)
\* A set of natural numbers that is not empty has a least element.
LEMMA LeastNumber ==
  ASSUME NEW T \in SUBSET Nat, T # {}
  PROVE  \E i \in T : \A j \in T : ~ (j < i)
<1>1. IsWellFoundedOn(OpToRel(<, Nat), Nat)
  BY NatLessThanWellFounded
<1>2. \E i \in T : \A j \in T : ~ (<<j, i>> \in OpToRel(<, Nat))
  BY <1>1, WFMin
<1>3. \A i, j \in Nat : <<j, i>> \in OpToRel(<, Nat) <=> j < i
  BY DEF OpToRel
<1> QED
  BY <1>2, <1>3

\* The entries that a loop up to the first empty name visits.
LEMMA UsedIsPrefix ==
  ASSUME NEW names, DOMAIN names = Index
  PROVE  \E m \in 0 .. CODEC_COUNT_MAX : Used(names) = 1 .. m
<1> DEFINE T == {i \in Index : names[i] = NoName}
<1>1. CODEC_COUNT_MAX \in Nat /\ T \in SUBSET Nat
  BY RegistryAssumption DEF Index
<1>2. CASE T = {}
  <2>1. Used(names) = 1 .. CODEC_COUNT_MAX
    BY <1>1, <1>2 DEF Used, Index
  <2> QED
    BY <1>1, <2>1
<1>3. CASE T # {}
  <2>1. PICK k \in T : \A j \in T : ~ (j < k)
    BY <1>1, <1>3, LeastNumber
  <2>2. Used(names) = 1 .. (k - 1)
    BY <1>1, <2>1 DEF Used, Index
  <2>3. k - 1 \in 0 .. CODEC_COUNT_MAX
    BY <1>1, <2>1 DEF Index
  <2> QED
    BY <2>2, <2>3
<1> QED
  BY <1>2, <1>3

\* The number of tables, and the names of those that are counted.
LEMMA TablesCounted ==
  /\ NumTables \in 0 .. CODEC_COUNT_MAX
  /\ \A i \in 1 .. NumTables : i \in Index /\ slot[i].name # NoName
<1>1. PICK m \in 0 .. CODEC_COUNT_MAX : Used(SlotNames) = 1 .. m
  BY UsedIsPrefix DEF SlotNames
<1>2. CODEC_COUNT_MAX \in Nat
  BY RegistryAssumption
<1>3. NumTables = m
  BY <1>1, <1>2, FS_Interval DEF NumTables
<1>4. \A i \in 1 .. m : i \in Index /\ i \in Used(SlotNames)
  BY <1>1, <1>2 DEF Index
<1>5. \A i \in 1 .. m : SlotNames[i] # NoName
  BY <1>2, <1>4 DEF Used
<1> QED
  BY <1>1, <1>3, <1>4, <1>5 DEF SlotNames

\* A connection counts the tables.
LEMMA CountKeeps == ASSUME IInv, NEW t \in Threads, CountTables(t) PROVE IInv'
<1>1. PICK r : r = [call[t] EXCEPT !.pc = "copy", !.n = NumTables]
  OBVIOUS
<1>2. /\ r \in Calls /\ r.op = call[t].op /\ r.name = call[t].name /\ r.pc = "copy"
      /\ r.nest = call[t].nest /\ r.rc = call[t].rc /\ r.i = call[t].i
  <2>1. call[t] \in Calls
    BY Here
  <2>2. PICK n \in 0 .. CODEC_COUNT_MAX : n = NumTables
    BY TablesCounted
  <2>3. r = [call[t] EXCEPT !.pc = "copy", !.n = n]
    BY <1>1, <2>2
  <2> QED
    BY <2>1, <2>3 DEF Calls, Pcs
<1>3. call' = [call EXCEPT ![t] = r]
  BY <1>1 DEF CountTables
<1>4. /\ call[t].pc = "body" /\ call[t].op = "open"
      /\ UNCHANGED <<isInit, inProgress, initMutex, nRef, mainMutex, shim, count, descr, slot,
                     default, conn, fails>>
  BY DEF CountTables, At, shared, tables
<1>5. call' \in [Threads -> Calls] /\ call'[t] = r /\ Others(t)
  BY <1>2, <1>3, <1>4, CallStep DEF IInv
<1>6. Types'
  BY <1>4, <1>5 DEF IInv, Types
<1>7. Shape(t)'
  BY <1>2, <1>4, <1>5, Here DEF Shape, At, Registering, Progress
<1>8. References'
  BY <1>2, <1>4, <1>5, Here, RefStep DEF Shape, InInit
<1> QED
  BY <1>2, <1>4, <1>5, <1>6, <1>7, <1>8, Here, QuietStep
  DEF Shape, At, Inside, Registering, Progress, Filling, Writing, Done

\* When the library is initialized the default is a cipher that is registered.
LEMMA DefaultKnown == ASSUME IInv, isInit PROVE default \in 1 .. count
<1>1. PICK j \in 1 .. Len(Builtins) : Builtins[j] = DefaultBuiltin
  <2>1. DOMAIN Builtins = 1 .. Len(Builtins)
    BY RegistryAssumption
  <2> QED
    BY <2>1, RegistryAssumption
<1> QED
  BY <1>1 DEF IInv, Built, Has

\* The copy a connection makes of the tables.
LEMMA CopyMade ==
  ASSUME IInv, NEW n \in 0 .. CODEC_COUNT_MAX
  PROVE  /\ SubSeq(slot, 1, n) \in Seq(Slots) /\ Len(SubSeq(slot, 1, n)) = n
         /\ \A i \in 1 .. n : SubSeq(slot, 1, n)[i] = slot[i]
<1>1. CODEC_COUNT_MAX \in Nat /\ n \in Int
  BY RegistryAssumption
<1>2. \A i \in 1 .. n : slot[i] \in Slots
  BY <1>1 DEF IInv, Types, Index
<1> HIDE DEF Slots
<1> QED
  BY <1>1, <1>2, SubSeqProperties

\* A connection copies the tables that were counted.
LEMMA CopyKeeps == ASSUME IInv, NEW t \in Threads, CopyTables(t) PROVE IInv'
<1>0. call[t].n \in 0 .. CODEC_COUNT_MAX
  BY Here DEF Calls
<1>1. PICK r : r = [open |-> TRUE, table |-> SubSeq(slot, 1, call[t].n), cipher |-> default]
  OBVIOUS
<1>2. /\ call[t].pc = "copy" /\ call[t].op = "open" /\ isInit
      /\ UNCHANGED <<isInit, inProgress, initMutex, nRef, mainMutex, shim, count, descr, slot,
                     default, fails>>
  BY Here DEF CopyTables, At, shared, tables, Shape
<1> DEFINE Conn == [open : BOOLEAN, table : Seq(Slots), cipher : 0 .. CODEC_COUNT_MAX]
<1>3. conn' = [conn EXCEPT ![t] = r] /\ call' = [call EXCEPT ![t] = NoCall]
  BY <1>1 DEF CopyTables
<1>4. r \in Conn /\ r.open /\ r.cipher \in 1 .. count /\ Len(r.table) <= CODEC_COUNT_MAX
  <2>1. default \in 1 .. count /\ default \in 0 .. CODEC_COUNT_MAX
    BY <1>2, DefaultKnown DEF IInv, Types
  <2>2. /\ SubSeq(slot, 1, call[t].n) \in Seq(Slots)
        /\ Len(SubSeq(slot, 1, call[t].n)) = call[t].n
    BY <1>0, CopyMade
  <2>3. call[t].n <= CODEC_COUNT_MAX
    BY <1>0, RegistryAssumption
  <2> QED
    BY <1>1, <2>1, <2>2, <2>3
<1>5. /\ conn' \in [Threads -> Conn] /\ conn'[t] = r /\ Others(t)
      /\ call' \in [Threads -> Calls] /\ call'[t] = NoCall
  <2>1. conn \in [Threads -> Conn] /\ call \in [Threads -> Calls]
    BY DEF IInv, Types
  <2> HIDE DEF Conn
  <2> QED
    BY <1>3, <1>4, <2>1, IdleCall DEF Others
<1>6. Types'
  BY <1>2, <1>5 DEF IInv, Types
<1> HIDE DEF Conn
<1>7. Shape(t)'
  BY <1>2, <1>4, <1>5, IdleCall, Here DEF Shape, At, Registering, Progress
<1>8. References'
  BY <1>2, <1>5, Here, IdleCall, RefStep DEF Shape, InInit
<1> QED
  BY <1>2, <1>4, <1>5, <1>6, <1>7, <1>8, Here, IdleCall, QuietStep
  DEF Shape, At, Inside, Registering, Progress, Filling, Writing, Done

-----------------------------------------------------------------------------
(***************************************************************************)
(* The steps that write the tables.                                        *)
(***************************************************************************)
\* One thread at a time fills the tables or registers a cipher.
LEMMA OneWriter ==
  ASSUME IInv, NEW t \in Threads, call[t].pc \in Progress \cup Registering
  PROVE  /\ \A u \in Threads \ {t} : call[u].pc \notin Progress \cup Registering
         /\ \A u \in Threads \ {t} : ~ Filling(u) /\ ~ Writing(u) /\ ~ At(u, "rDescr")
         /\ \A u \in Threads \ {t}, j \in 1 .. Len(Builtins) : ~ Done(u, j)
<1>0. \A u \in Threads :
        /\ call[u].pc \in Progress => ~ isInit /\ initMutex.holder = u
        /\ call[u].pc \in Registering => isInit /\ mainMutex = u
  <2>1. ASSUME NEW u \in Threads
        PROVE  /\ call[u].pc \in Progress => ~ isInit /\ call[u].pc \in Inside
               /\ call[u].pc \in Registering => isInit
    BY Here DEF Shape, Progress, Inside
  <2> QED
    BY <2>1, Here
<1>1. \A u \in Threads \ {t} : call[u].pc \notin Progress \cup Registering
  BY <1>0
<1> QED
  BY <1>1 DEF Filling, Writing, Done, At, Progress, Registering

\* A step from one of its places to the next of the same kind.
LEMMA SameKind ==
  ASSUME IInv, NEW t \in Threads, Others(t), Shape(t)',
         UNCHANGED <<isInit, inProgress, initMutex, nRef, mainMutex>>,
         \/ call[t].pc \in Progress /\ call'[t].pc \in Progress
         \/ call[t].pc \in Registering /\ call'[t].pc \in Registering,
         call'[t].nest = "unref" <=> call[t].nest = "unref"
  PROVE  (\A u \in Threads : Shape(u)') /\ Mutexes' /\ References'
<1>1. \A u \in Threads : Shape(u)'
  BY ShapeStep
<1>2. Mutexes'
  BY Here, MutexStep DEF Progress, Registering, Inside
<1>3. References'
  BY RefStep DEF Progress, Registering, InInit
<1> QED
  BY <1>1, <1>2, <1>3

\* The tables are emptied.
LEMMA ClearKeeps == ASSUME IInv, NEW t \in Threads, InitCipherTables(t) PROVE IInv'
<1>1. PICK r : r = [call[t] EXCEPT !.pc = "builtin", !.i = 1, !.nest = "ref"]
  OBVIOUS
<1>2. /\ r \in Calls /\ r.op = call[t].op /\ r.name = call[t].name
      /\ r.pc = "builtin" /\ r.i = 1 /\ r.nest = "ref" /\ r.rc = call[t].rc
  <2>1. call[t] \in Calls /\ 1 \in 1 .. Len(Builtins) + 1
    BY Here, RegistryAssumption
  <2>2. r \in Calls
    BY <1>1, <2>1 DEF Calls, Pcs, Inside
  <2> QED
    BY <1>1, <2>1, <2>2 DEF Calls
<1>3. call' = [call EXCEPT ![t] = r]
  BY <1>1 DEF InitCipherTables
<1>4. /\ call[t].pc = "tables" /\ call[t].nest = "back"
      /\ UNCHANGED <<isInit, inProgress, initMutex, nRef, mainMutex, shim, count, default,
                     conn, fails>>
  BY DEF InitCipherTables, At, shared
<1>5. call' \in [Threads -> Calls] /\ call'[t] = r /\ Others(t)
  BY <1>2, <1>3, <1>4, CallStep DEF IInv
<1>6. /\ descr' \in [Index -> Names \cup {NoName}] /\ slot' \in [Index -> Slots]
      /\ \A i \in Index : descr'[i] = NoName /\ slot'[i].name = NoName /\ slot'[i].id = 0
  <2>1. Sentinel \in Slots /\ Sentinel.name = NoName /\ Sentinel.id = 0
    BY RegistryAssumption DEF Sentinel, Slots
  <2> QED
    BY <2>1 DEF InitCipherTables, Cleared
<1>7. Types'
  BY <1>4, <1>5, <1>6 DEF IInv, Types
<1>8. Shape(t)'
  BY <1>2, <1>4, <1>5, Here DEF Shape, At, Registering, Progress
<1>9. (\A u \in Threads : Shape(u)') /\ Mutexes' /\ References'
  BY <1>2, <1>4, <1>5, <1>8, SameKind DEF Progress
<1>10. \A u \in Threads : /\ ~ Writing(u)' /\ ~ At(u, "rDescr")'
                          /\ \A j \in 1 .. Len(Builtins) : ~ Done(u, j)'
  <2>1. \A u \in Threads \ {t} : /\ ~ Writing(u)' /\ ~ At(u, "rDescr")'
                                 /\ \A j \in 1 .. Len(Builtins) : ~ Done(u, j)'
    BY <1>4, <1>5, OneWriter DEF Progress, Others, Writing, At, Done
  <2>2. ~ Writing(t)' /\ ~ At(t, "rDescr")' /\ \A j \in 1 .. Len(Builtins) : ~ Done(t, j)'
    BY <1>2, <1>5 DEF Writing, At, Done
  <2> QED
    BY <2>1, <2>2
<1>11. Tables'
  BY <1>6, <1>10 DEF Tables, Agrees, Writing
<1>12. Built'
  <2>1. \A u \in Threads : call'[u].pc \notin {"end", "bSlot", "bFill"}
    BY <1>2, <1>4, <1>5, OneWriter DEF Progress, Others
  <2>2. ~ isInit' /\ \A u \in Threads : ~ conn'[u].open
    BY <1>4, <1>9, Here DEF Shape, Progress
  <2> QED
    BY <1>10, <2>1, <2>2 DEF Built, At
<1> QED
  BY <1>7, <1>9, <1>11, <1>12 DEF IInv

\* The library is shut down.
LEMMA ShutdownKeeps == ASSUME IInv, NEW t \in Threads, Shutdown(t) PROVE IInv'
<1>1. /\ \A u \in Threads : call'[u].pc = "idle" /\ ~ conn'[u].open
      /\ UNCHANGED <<inProgress, initMutex, nRef, mainMutex, descr, default, call, conn, fails>>
      /\ isInit' = FALSE /\ shim' = FALSE /\ count' = 0
  BY DEF Shutdown
<1>2. slot' \in [Index -> Slots] /\ \A i \in Index : slot'[i].id = slot[i].id
  <2>1. \A i \in Index : slot[i] \in Slots
    BY DEF IInv, Types
  <2>2. \A i \in Index : /\ [slot[i] EXCEPT !.params = "freed"] \in Slots
                         /\ [slot[i] EXCEPT !.params = "freed"].id = slot[i].id
    BY <2>1 DEF Slots
  <2>3. slot' = [i \in Index |-> IF slot[i].name = NoName THEN slot[i]
                                 ELSE [slot[i] EXCEPT !.params = "freed"]]
    BY DEF Shutdown
  <2> QED
    BY <2>1, <2>2, <2>3
<1>3. Types'
  <2>1. isInit' \in BOOLEAN /\ shim' \in BOOLEAN
    BY <1>1, Zenon
  <2>2. count' \in 0 .. CODEC_COUNT_MAX
    BY <1>1, RegistryAssumption
  <2> QED
    BY <1>1, <1>2, <2>1, <2>2 DEF IInv, Types
<1>4. \A u \in Threads : Shape(u)'
  <2>1. ASSUME NEW u \in Threads PROVE Shape(u)'
    BY <1>1, Here DEF Shape, At, Registering, Progress
  <2> QED
    BY <2>1
<1>5. Mutexes'
  BY <1>1 DEF IInv, Mutexes
<1>6. References'
  BY <1>1 DEF IInv, References, Refs, Nested
<1>7. Tables'
  <2>1. ~ InUse' /\ \A u \in Threads : ~ Writing(u)' /\ ~ At(u, "rDescr")'
    BY <1>1 DEF InUse, Filling, Writing, At
  <2> QED
    BY <1>1, <1>2, <2>1 DEF IInv, Tables, Writing
<1>8. Built'
  BY <1>1 DEF Built, Done, At
<1> QED
  BY <1>3, <1>4, <1>5, <1>6, <1>7, <1>8 DEF IInv

\* What a thread does that is registering a cipher.
LEMMA Writer ==
  ASSUME IInv, NEW t \in Threads,
         call[t].pc \in {"bDescr", "bSlot", "bFill", "rDescr", "rSlot", "rFill"}
  PROVE  /\ \A i \in Index : Agrees(i) \/ (i = count /\ Writing(t))
         /\ count \in 0 .. CODEC_COUNT_MAX /\ CODEC_COUNT_MAX \in Nat
         /\ NameOf(t) \in Names
         /\ call[t].pc \in {"bDescr", "bSlot", "bFill"} =>
              /\ NameOf(t) = Builtins[call[t].i] /\ call[t].i \in 1 .. Len(Builtins)
              /\ ~ isInit
         /\ call[t].pc \notin {"bDescr", "bSlot", "bFill"} => isInit
<1>1. call[t].pc \in Progress \cup Registering
  BY DEF Progress, Registering
<1>2. InUse
  BY <1>1, Here DEF InUse, Filling, Shape, Registering
<1>3. \A i \in Index : Agrees(i) \/ (i = count /\ Writing(t))
  BY <1>1, <1>2, OneWriter DEF IInv, Tables
<1>4. count \in 0 .. CODEC_COUNT_MAX /\ CODEC_COUNT_MAX \in Nat
  BY RegistryAssumption DEF IInv, Types
<1>5. CASE call[t].pc \in {"bDescr", "bSlot", "bFill"}
  <2>1. call[t].i \in 1 .. Len(Builtins) + 1 /\ call[t].i <= Len(Builtins) /\ ~ isInit
    BY <1>5, Here DEF Calls, Shape, Progress
  <2>2. Len(Builtins) \in Nat /\ DOMAIN Builtins = 1 .. Len(Builtins)
    BY RegistryAssumption
  <2>3. call[t].i \in 1 .. Len(Builtins)
    BY <2>1, <2>2
  <2>4. NameOf(t) = Builtins[call[t].i]
    BY <1>5 DEF NameOf, InInit
  <2> QED
    BY <1>3, <1>4, <1>5, <2>1, <2>2, <2>3, <2>4 DEF Names
<1>6. CASE call[t].pc \in {"rDescr", "rSlot", "rFill"}
  <2>1. isInit /\ call[t].name \in Names /\ NameOf(t) = call[t].name
    BY <1>6, Here DEF Shape, Registering, NameOf, InInit
  <2> QED
    BY <1>3, <1>4, <1>6, <2>1
<1> QED
  BY <1>5, <1>6

\* A step of a registration, as far as it leaves the tables alone.
LEMMA WriterStep ==
  ASSUME IInv, NEW t \in Threads, NEW p \in Pcs, Goto(t, p),
         \/ call[t].pc \in {"bDescr", "bSlot"} /\ p \in {"bSlot", "bFill"}
         \/ call[t].pc \in {"rDescr", "rSlot", "rFill"} /\ p \in {"rSlot", "rFill", "rLeave"},
         UNCHANGED <<shared, conn, fails>>
  PROVE  /\ call' \in [Threads -> Calls] /\ Others(t)
         /\ call'[t].pc = p /\ call'[t].i = call[t].i /\ call'[t].rc = call[t].rc
         /\ (\A u \in Threads : Shape(u)') /\ Mutexes' /\ References'
         /\ UNCHANGED <<isInit, inProgress, initMutex, nRef, mainMutex, shim>>
         /\ \A u \in Threads \ {t} : /\ ~ Writing(u)' /\ ~ At(u, "rDescr")'
                                     /\ \A j \in 1 .. Len(Builtins) : ~ Done(u, j)'
<1>1. PICK r : r = [call[t] EXCEPT !.pc = p]
  OBVIOUS
<1>2. /\ r \in Calls /\ r.op = call[t].op /\ r.name = call[t].name /\ r.pc = p
      /\ r.nest = call[t].nest /\ r.rc = call[t].rc /\ r.i = call[t].i
  BY <1>1, Here DEF Calls
<1>3. call' = [call EXCEPT ![t] = r]
  BY <1>1 DEF Goto
<1>4. UNCHANGED <<isInit, inProgress, initMutex, nRef, mainMutex, shim, conn>>
  BY DEF shared
<1>5. call' \in [Threads -> Calls] /\ call'[t] = r /\ Others(t)
  BY <1>2, <1>3, <1>4, CallStep DEF IInv
<1>6. Shape(t)'
  BY <1>2, <1>4, <1>5, Here DEF Shape, At, Registering, Progress
<1>7. (\A u \in Threads : Shape(u)') /\ Mutexes' /\ References'
  BY <1>2, <1>4, <1>5, <1>6, SameKind DEF Progress, Registering
<1>8. call[t].pc \in Progress \cup Registering
  BY DEF Progress, Registering
<1>9. \A u \in Threads \ {t} : /\ ~ Writing(u)' /\ ~ At(u, "rDescr")'
                               /\ \A j \in 1 .. Len(Builtins) : ~ Done(u, j)'
  BY <1>5, <1>8, OneWriter DEF Others, Writing, At, Done
<1> QED
  BY <1>2, <1>4, <1>5, <1>7, <1>9

\* A number is taken, and the name written there.
LEMMA TakeKeeps ==
  ASSUME IInv, NEW t \in Threads,
         \/ At(t, "bDescr") /\ Room /\ Goto(t, "bSlot")
         \/ At(t, "rDescr") /\ Goto(t, "rSlot"),
         TakeNumber(t), UNCHANGED <<shared, conn, fails>>
  PROVE  IInv'
<1>1. PICK p : /\ Goto(t, p)
               /\ \/ call[t].pc = "bDescr" /\ p = "bSlot"
                  \/ call[t].pc = "rDescr" /\ p = "rSlot"
  BY DEF At
<1>2. p \in Pcs
  BY <1>1 DEF Pcs, Inside, Registering
<1>3. /\ call' \in [Threads -> Calls] /\ Others(t)
      /\ call'[t].pc = p /\ call'[t].i = call[t].i /\ call'[t].rc = call[t].rc
      /\ (\A u \in Threads : Shape(u)') /\ Mutexes' /\ References'
      /\ UNCHANGED <<isInit, inProgress, initMutex, nRef, mainMutex, shim>>
      /\ \A u \in Threads \ {t} : /\ ~ Writing(u)' /\ ~ At(u, "rDescr")'
                                  /\ \A j \in 1 .. Len(Builtins) : ~ Done(u, j)'
  BY <1>1, <1>2, WriterStep
<1>4. /\ \A i \in Index : Agrees(i)
      /\ count \in 0 .. CODEC_COUNT_MAX /\ CODEC_COUNT_MAX \in Nat
      /\ NameOf(t) \in Names
  BY <1>1, Writer DEF Writing
<1>5. count < CODEC_COUNT_MAX
  BY <1>1 DEF IInv, Tables, At, Room
<1>6. /\ count' = count + 1 /\ count' \in Index /\ count' \in 0 .. CODEC_COUNT_MAX
      /\ descr' \in [Index -> Names \cup {NoName}]
      /\ descr'[count'] = NameOf(t) /\ NameOf(t) # NoName
      /\ \A i \in Index : i # count' => descr'[i] = descr[i]
      /\ UNCHANGED <<slot, default, conn, fails>>
  <2>1. count' = count + 1 /\ count' \in Index /\ count' \in 0 .. CODEC_COUNT_MAX
    BY <1>4, <1>5 DEF TakeNumber, Index
  <2>2. descr \in [Index -> Names \cup {NoName}]
    BY DEF IInv, Types
  <2>3. NameOf(t) # NoName
    BY <1>4, RegistryAssumption DEF Names
  <2>4. descr' = [descr EXCEPT ![count'] = NameOf(t)]
    BY DEF TakeNumber
  <2> QED
    BY <1>4, <2>1, <2>2, <2>3, <2>4 DEF TakeNumber
<1>7. Types'
  BY <1>3, <1>6 DEF IInv, Types
<1>8. Tables'
  <2>1. Writing(t)' /\ ~ At(t, "rDescr")' /\ call'[t].pc \notin {"bFill", "rFill"}
    BY <1>1, <1>3 DEF Writing, At
  <2>2. \A i \in Index : i # count' => Agrees(i)'
    BY <1>4, <1>6 DEF Agrees
  <2>3. \A i \in Index : slot'[i].id \in {0, i}
    BY <1>6 DEF IInv, Tables
  <2>4. \A u \in Threads : call'[u].pc \notin {"bFill", "rFill"}
    BY <1>3, <2>1 DEF Writing
  <2> QED
    BY <1>3, <1>6, <2>1, <2>2, <2>3, <2>4 DEF Tables
<1>9. Built'
  <2>1. \A j \in 1 .. Len(Builtins) : Has(j) => Has(j)'
    <3>1. \A m \in 1 .. count : m \in 1 .. count' /\ descr'[m] = descr[m]
      BY <1>4, <1>5, <1>6 DEF Index
    <3> QED
      BY <1>4, <1>6, <3>1 DEF Has
  <2>2. \A j \in 1 .. Len(Builtins) : isInit' \/ Done(t, j)' => Has(j)
    BY <1>1, <1>3 DEF IInv, Built, Done, At
  <2>3. call'[t].pc = "bSlot" => descr'[count'] = Builtins[call'[t].i]
    BY <1>1, <1>3, <1>6, Writer
  <2>4. \A u \in Threads \ {t} : call'[u].pc \notin {"bSlot", "bFill"}
    BY <1>3 DEF Writing
  <2>5. \A u \in Threads : ~ At(u, "end")'
    BY <1>1, <1>3, OneWriter DEF Progress, Registering, At, Others
  <2>6. \A u \in Threads : conn'[u].open => conn'[u].cipher \in 1 .. count'
    BY <1>4, <1>6 DEF IInv, Built
  <2>7. isInit' => shim'
    BY <1>3 DEF IInv, Built
  <2>8. call'[t].pc # "bFill"
    BY <1>1, <1>3
  <2> QED
    BY <1>3, <2>1, <2>2, <2>3, <2>4, <2>5, <2>6, <2>7, <2>8 DEF Built
<1> QED
  BY <1>3, <1>7, <1>8, <1>9 DEF IInv

\* The entry of the parameters appears, before it is filled.
LEMMA NameKeeps ==
  ASSUME IInv, NEW t \in Threads,
         \/ At(t, "bSlot") /\ Goto(t, "bFill")
         \/ At(t, "rSlot") /\ Goto(t, "rFill"),
         NameSlot(t), UNCHANGED <<shared, conn, fails>>
  PROVE  IInv'
<1>1. PICK p : /\ Goto(t, p)
               /\ \/ call[t].pc = "bSlot" /\ p = "bFill"
                  \/ call[t].pc = "rSlot" /\ p = "rFill"
  BY DEF At
<1>2. p \in Pcs
  BY <1>1 DEF Pcs, Inside, Registering
<1>3. /\ call' \in [Threads -> Calls] /\ Others(t)
      /\ call'[t].pc = p /\ call'[t].i = call[t].i /\ call'[t].rc = call[t].rc
      /\ (\A u \in Threads : Shape(u)') /\ Mutexes' /\ References'
      /\ UNCHANGED <<isInit, inProgress, initMutex, nRef, mainMutex, shim>>
      /\ \A u \in Threads \ {t} : /\ ~ Writing(u)' /\ ~ At(u, "rDescr")'
                                  /\ \A j \in 1 .. Len(Builtins) : ~ Done(u, j)'
  BY <1>1, <1>2, WriterStep
<1>4. /\ \A i \in Index : i # count => Agrees(i)
      /\ count \in 0 .. CODEC_COUNT_MAX /\ CODEC_COUNT_MAX \in Nat
  BY <1>1, Writer DEF Writing
<1>5. count \in Index /\ descr[count] # NoName
  BY <1>1 DEF IInv, Tables, Writing
<1>6. /\ slot' \in [Index -> Slots]
      /\ slot'[count].name = descr[count] /\ slot'[count].id = count
      /\ \A i \in Index : i # count => slot'[i] = slot[i]
      /\ UNCHANGED <<count, descr, default, conn, fails>>
  <2>1. PICK s : s = [name |-> descr[count], id |-> count, params |-> "empty"]
    OBVIOUS
  <2>2. s \in Slots /\ s.name = descr[count] /\ s.id = count
    BY <1>4, <1>5, <2>1 DEF IInv, Types, Slots
  <2>3. slot' = [slot EXCEPT ![count] = s] /\ slot \in [Index -> Slots]
    BY <2>1 DEF NameSlot, IInv, Types
  <2> QED
    BY <1>5, <2>2, <2>3 DEF NameSlot
<1>7. Types'
  BY <1>3, <1>6 DEF IInv, Types
<1>8. Tables'
  <2>1. Writing(t)' /\ ~ At(t, "rDescr")'
    BY <1>1, <1>3 DEF Writing, At
  <2>2. \A i \in Index : i # count' => Agrees(i)'
    BY <1>4, <1>6 DEF Agrees
  <2>3. \A i \in Index : slot'[i].id \in {0, i}
    BY <1>5, <1>6 DEF IInv, Tables
  <2> QED
    BY <1>3, <1>5, <1>6, <2>1, <2>2, <2>3 DEF Tables
<1>9. Built'
  <2>1. \A j \in 1 .. Len(Builtins) : Has(j) => Has(j)'
    BY <1>6 DEF Has
  <2>2. \A j \in 1 .. Len(Builtins) : isInit' \/ Done(t, j)' => Has(j)
    BY <1>1, <1>3 DEF IInv, Built, Done, At
  <2>3. call'[t].pc \in {"bSlot", "bFill"} => descr'[count'] = Builtins[call'[t].i]
    BY <1>1, <1>3, <1>6 DEF IInv, Built
  <2>4. \A u \in Threads \ {t} : call'[u].pc \notin {"bSlot", "bFill"}
    BY <1>3 DEF Writing
  <2>5. \A u \in Threads : ~ At(u, "end")'
    BY <1>1, <1>3, OneWriter DEF Progress, Registering, At, Others
  <2>6. \A u \in Threads : conn'[u].open => conn'[u].cipher \in 1 .. count'
    BY <1>6 DEF IInv, Built
  <2>7. isInit' => shim'
    BY <1>3 DEF IInv, Built
  <2> QED
    BY <1>3, <2>1, <2>2, <2>3, <2>4, <2>5, <2>6, <2>7 DEF Built
<1> QED
  BY <1>3, <1>7, <1>8, <1>9 DEF IInv

\* The parameters are there; the cipher may become the default.
LEMMA FillWrites ==
  ASSUME IInv, NEW t \in Threads, call[t].pc \in {"bFill", "rFill"}, FillSlot(t)
  PROVE  /\ \A i \in Index : Agrees(i)'
         /\ \A i \in Index : slot'[i].id \in {0, i}
         /\ slot' \in [Index -> Slots] /\ default' \in 0 .. CODEC_COUNT_MAX
         /\ UNCHANGED <<count, descr>>
         /\ \A j \in 1 .. Len(Builtins) : Has(j) => Has(j)'
         /\ \A j \in 1 .. Len(Builtins) : call[t].pc = "bFill" /\ j = call[t].i => Has(j)'
         /\ count \in Index
<1>1. /\ \A i \in Index : i # count => Agrees(i)
      /\ count \in 0 .. CODEC_COUNT_MAX /\ CODEC_COUNT_MAX \in Nat
  BY Writer
<1>2. /\ count \in Index /\ descr[count] # NoName
      /\ slot[count].name = descr[count] /\ slot[count].id = count
  BY DEF IInv, Tables, Writing
<1>3. /\ slot' \in [Index -> Slots]
      /\ slot'[count].name = descr[count] /\ slot'[count].id = count
      /\ slot'[count].params = "filled"
      /\ \A i \in Index : i # count => slot'[i] = slot[i]
  <2>1. slot \in [Index -> Slots] /\ slot' = [slot EXCEPT ![count].params = "filled"]
    BY DEF IInv, Types, FillSlot
  <2>2. PICK s : s = [slot[count] EXCEPT !.params = "filled"]
    OBVIOUS
  <2>3. s \in Slots /\ s.name = descr[count] /\ s.id = count /\ s.params = "filled"
    BY <1>2, <2>1, <2>2 DEF Slots
  <2>4. slot' = [slot EXCEPT ![count] = s]
    BY <2>1, <2>2
  <2> QED
    BY <1>2, <2>1, <2>3, <2>4
<1>4. UNCHANGED <<count, descr>>
  BY DEF FillSlot
<1>5. \A i \in Index : Agrees(i)'
  BY <1>1, <1>2, <1>3, <1>4 DEF Agrees
<1>6. \A i \in Index : slot'[i].id \in {0, i}
  BY <1>2, <1>3 DEF IInv, Tables
<1>7. default' = (IF DefaultOf(t) THEN count ELSE default) /\ count \in 1 .. count
  BY <1>1, <1>2 DEF FillSlot, Index
<1>8. default' \in 0 .. CODEC_COUNT_MAX
  BY <1>1, <1>7 DEF IInv, Types
<1>9. \A j \in 1 .. Len(Builtins) : Has(j) => Has(j)'
  BY <1>4, <1>7 DEF Has
<1>10. \A j \in 1 .. Len(Builtins) : call[t].pc = "bFill" /\ j = call[t].i => Has(j)'
  <2>1. SUFFICES ASSUME NEW j \in 1 .. Len(Builtins), call[t].pc = "bFill", j = call[t].i
                 PROVE  Has(j)'
    OBVIOUS
  <2>2. descr[count] = Builtins[j] /\ NameOf(t) = Builtins[j]
    BY <2>1, Writer DEF IInv, Built
  <2>3. DefaultOf(t) <=> NameOf(t) = DefaultBuiltin
    BY <2>1 DEF DefaultOf, InInit
  <2> QED
    BY <1>4, <1>7, <2>2, <2>3 DEF Has
<1> QED
  BY <1>2, <1>3, <1>4, <1>5, <1>6, <1>8, <1>9, <1>10

\* The parameters of a cipher of the application are there.
LEMMA FillExtraKeeps ==
  ASSUME IInv, NEW t \in Threads, At(t, "rFill"), FillSlot(t), Goto(t, "rLeave"),
         UNCHANGED <<shared, conn, fails>>
  PROVE  IInv'
<1>1. call[t].pc = "rFill" /\ "rLeave" \in Pcs
  BY DEF At, Pcs, Registering
<1>3. /\ call' \in [Threads -> Calls] /\ Others(t)
      /\ call'[t].pc = "rLeave" /\ call'[t].i = call[t].i /\ call'[t].rc = call[t].rc
      /\ (\A u \in Threads : Shape(u)') /\ Mutexes' /\ References'
      /\ UNCHANGED <<isInit, inProgress, initMutex, nRef, mainMutex, shim>>
      /\ \A u \in Threads \ {t} : /\ ~ Writing(u)' /\ ~ At(u, "rDescr")'
                                  /\ \A j \in 1 .. Len(Builtins) : ~ Done(u, j)'
  BY <1>1, WriterStep
<1>4. /\ \A i \in Index : Agrees(i)'
      /\ \A i \in Index : slot'[i].id \in {0, i}
      /\ slot' \in [Index -> Slots] /\ default' \in 0 .. CODEC_COUNT_MAX
      /\ UNCHANGED <<count, descr>>
      /\ \A j \in 1 .. Len(Builtins) : Has(j) => Has(j)'
  BY <1>1, FillWrites
<1>5. UNCHANGED <<conn, fails>>
  OBVIOUS
<1>7. Types'
  BY <1>3, <1>4, <1>5 DEF IInv, Types
<1>8. Tables'
  <2>1. ~ Writing(t)' /\ ~ At(t, "rDescr")'
    BY <1>3 DEF Writing, At
  <2>2. \A u \in Threads : ~ Writing(u)' /\ ~ At(u, "rDescr")'
    BY <1>3, <2>1
  <2> QED
    BY <1>4, <2>2 DEF Tables, Writing
<1>9. Built'
  <2>1. \A j \in 1 .. Len(Builtins) : ~ Done(t, j)'
    BY <1>3 DEF Done, At
  <2>2. \A j \in 1 .. Len(Builtins) : isInit' => Has(j)
    BY <1>3 DEF IInv, Built
  <2>3. \A u \in Threads : call'[u].pc \notin {"bSlot", "bFill"}
    BY <1>3 DEF Writing
  <2>4. \A u \in Threads : ~ At(u, "end")'
    BY <1>1, <1>3, OneWriter DEF Progress, Registering, At, Others
  <2>5. \A u \in Threads : conn'[u].open => conn'[u].cipher \in 1 .. count'
    BY <1>4, <1>5 DEF IInv, Built
  <2>6. isInit' => shim'
    BY <1>3 DEF IInv, Built
  <2> QED
    BY <1>3, <1>4, <2>1, <2>2, <2>3, <2>4, <2>5, <2>6 DEF Built
<1> QED
  BY <1>3, <1>7, <1>8, <1>9 DEF IInv

\* The parameters of a built-in cipher are there: it is registered.
LEMMA FillBuiltinKeeps ==
  ASSUME IInv, NEW t \in Threads, At(t, "bFill"), FillSlot(t),
         call' = [call EXCEPT ![t].pc = "builtin", ![t].nest = "ref", ![t].i = @ + 1],
         UNCHANGED <<shared, conn, fails>>
  PROVE  IInv'
<1>1. PICK r : r = [call[t] EXCEPT !.pc = "builtin", !.nest = "ref", !.i = call[t].i + 1]
  OBVIOUS
<1>2. /\ r \in Calls /\ r.op = call[t].op /\ r.name = call[t].name
      /\ r.pc = "builtin" /\ r.i = call[t].i + 1 /\ r.nest = "ref" /\ r.rc = call[t].rc
      /\ call[t].i \in 1 .. Len(Builtins)
  <2>1. call[t].pc = "bFill" /\ call[t] \in Calls /\ Len(Builtins) \in Nat
    BY Here, RegistryAssumption DEF At
  <2>2. call[t].i \in 1 .. Len(Builtins)
    BY <2>1, Writer
  <2>3. PICK i : i = call[t].i + 1 /\ i \in 1 .. Len(Builtins) + 1
    BY <2>1, <2>2
  <2>4. r = [call[t] EXCEPT !.pc = "builtin", !.nest = "ref", !.i = i]
    BY <1>1, <2>3
  <2>5. r \in Calls
    BY <2>1, <2>3, <2>4 DEF Calls, Pcs, Inside
  <2>6. /\ r.op = call[t].op /\ r.name = call[t].name
        /\ r.pc = "builtin" /\ r.i = i /\ r.nest = "ref" /\ r.rc = call[t].rc
    BY <2>1, <2>4 DEF Calls
  <2> QED
    BY <2>2, <2>3, <2>5, <2>6
<1>3. call' = [call EXCEPT ![t] = r]
  BY <1>1
<1>4. /\ call[t].pc = "bFill"
      /\ UNCHANGED <<isInit, inProgress, initMutex, nRef, mainMutex, shim, conn, fails>>
  BY DEF At, shared
<1>5. call' \in [Threads -> Calls] /\ call'[t] = r /\ Others(t)
  BY <1>2, <1>3, <1>4, CallStep DEF IInv
<1>6. /\ \A i \in Index : Agrees(i)'
      /\ \A i \in Index : slot'[i].id \in {0, i}
      /\ slot' \in [Index -> Slots] /\ default' \in 0 .. CODEC_COUNT_MAX
      /\ UNCHANGED <<count, descr>>
      /\ \A j \in 1 .. Len(Builtins) : Has(j) => Has(j)'
      /\ \A j \in 1 .. Len(Builtins) : j = call[t].i => Has(j)'
  BY <1>4, FillWrites
<1>7. Types'
  BY <1>4, <1>5, <1>6 DEF IInv, Types
<1>8. Shape(t)'
  BY <1>2, <1>4, <1>5, Here DEF Shape, At, Registering, Progress
<1>9. (\A u \in Threads : Shape(u)') /\ Mutexes' /\ References'
  <2>1. call[t].nest # "unref"
    BY <1>4, Here DEF Shape
  <2> QED
    BY <1>2, <1>4, <1>5, <1>8, <2>1, SameKind DEF Progress
<1>10. \A u \in Threads \ {t} : /\ ~ Writing(u)' /\ ~ At(u, "rDescr")'
                                /\ \A j \in 1 .. Len(Builtins) : ~ Done(u, j)'
  BY <1>4, <1>5, OneWriter DEF Progress, Others, Writing, At, Done
<1>11. Tables'
  <2>1. ~ Writing(t)' /\ ~ At(t, "rDescr")'
    BY <1>2, <1>5 DEF Writing, At
  <2>2. \A u \in Threads : ~ Writing(u)' /\ ~ At(u, "rDescr")'
    BY <1>10, <2>1
  <2> QED
    BY <1>6, <2>2 DEF Tables, Writing
<1>12. Built'
  <2>1. \A j \in 1 .. Len(Builtins) : Done(t, j)' => Has(j)'
    <3>1. SUFFICES ASSUME NEW j \in 1 .. Len(Builtins), Done(t, j)' PROVE Has(j)'
      OBVIOUS
    <3>2. j < call[t].i + 1 /\ call[t].i \in Nat /\ j \in Nat
      BY <1>2, <1>5, <3>1, RegistryAssumption DEF Done, At
    <3>3. CASE j = call[t].i
      BY <1>6, <3>3
    <3>4. CASE j < call[t].i
      <4>1. Done(t, j)
        BY <1>4, <3>4 DEF Done
      <4>2. Has(j)
        BY <4>1 DEF IInv, Built
      <4> QED
        BY <1>6, <4>2
    <3> QED
      BY <3>2, <3>3, <3>4
  <2>2. ~ isInit' /\ \A u \in Threads : ~ conn'[u].open
    BY <1>4, <1>9, Here DEF Shape, Progress
  <2>3. call'[t].pc \notin {"bSlot", "bFill", "end"}
    BY <1>2, <1>5
  <2>4. \A u \in Threads \ {t} : call'[u].pc \notin {"bSlot", "bFill", "end"}
    BY <1>4, <1>5, OneWriter DEF Progress, Others
  <2> QED
    BY <1>10, <2>1, <2>2, <2>3, <2>4 DEF Built, At
<1> QED
  BY <1>7, <1>9, <1>11, <1>12 DEF IInv

\* A built-in cipher for which there is no number left.
LEMMA NoRoomKeeps ==
  ASSUME IInv, NEW t \in Threads, At(t, "bDescr"),
         call' = [call EXCEPT ![t].pc = "end", ![t].rc = "nomem"],
         UNCHANGED <<shared, tables, conn, fails>>
  PROVE  IInv'
<1>1. PICK r : r = [call[t] EXCEPT !.pc = "end", !.rc = "nomem"]
  OBVIOUS
<1>2. /\ r \in Calls /\ r.op = call[t].op /\ r.name = call[t].name /\ r.pc = "end"
      /\ r.nest = call[t].nest /\ r.rc = "nomem" /\ r.i = call[t].i
  <2>1. call[t] \in Calls
    BY Here
  <2>2. r \in Calls
    BY <1>1, <2>1 DEF Calls, Pcs, Inside
  <2> QED
    BY <1>1, <2>1, <2>2 DEF Calls
<1>3. call' = [call EXCEPT ![t] = r]
  BY <1>1
<1>4. /\ call[t].pc = "bDescr"
      /\ UNCHANGED <<isInit, inProgress, initMutex, nRef, mainMutex, shim, count, descr, slot,
                     default, conn, fails>>
  BY DEF At, shared, tables
<1>5. call' \in [Threads -> Calls] /\ call'[t] = r /\ Others(t)
  BY <1>2, <1>3, <1>4, CallStep DEF IInv
<1>6. Types'
  BY <1>4, <1>5 DEF IInv, Types
<1>7. Shape(t)'
  BY <1>2, <1>4, <1>5, Here DEF Shape, At, Registering, Progress
<1>8. References'
  BY <1>2, <1>4, <1>5, Here, RefStep DEF Shape, InInit
<1> QED
  BY <1>2, <1>4, <1>5, <1>6, <1>7, <1>8, Here, QuietStep
  DEF Shape, At, Inside, Registering, Progress, Filling, Writing, Done

-----------------------------------------------------------------------------
\* The steps of the registration of a built-in cipher.
LEMMA BuiltinStepKeeps == ASSUME IInv, NEW t \in Threads, RegisterBuiltin(t) PROVE IInv'
<1>1. CASE At(t, "bDescr") /\ Room /\ TakeNumber(t) /\ Goto(t, "bSlot")
  BY <1>1, TakeKeeps DEF RegisterBuiltin
<1>2. CASE /\ At(t, "bDescr") /\ ~Room /\ UNCHANGED tables
           /\ call' = [call EXCEPT ![t].pc = "end", ![t].rc = "nomem"]
  BY <1>2, NoRoomKeeps DEF RegisterBuiltin
<1>3. CASE At(t, "bSlot") /\ NameSlot(t) /\ Goto(t, "bFill")
  BY <1>3, NameKeeps DEF RegisterBuiltin
<1>4. CASE /\ At(t, "bFill") /\ FillSlot(t)
           /\ call' = [call EXCEPT ![t].pc = "builtin", ![t].nest = "ref", ![t].i = @ + 1]
  BY <1>4, FillBuiltinKeeps DEF RegisterBuiltin
<1> QED
  BY <1>1, <1>2, <1>3, <1>4 DEF RegisterBuiltin

\* The steps of the registration of a cipher of the application.
LEMMA ExtraStepKeeps == ASSUME IInv, NEW t \in Threads, RegisterExtra(t) PROVE IInv'
<1>1. CASE /\ At(t, "rCheck") /\ UNCHANGED tables
           /\ \/ Room /\ Goto(t, "rDescr") /\ UNCHANGED fails
              \/ Goto(t, "rLeave") /\ UNCHANGED fails
              \/ Goto(t, "rLeave") /\ fails < MaxFails /\ fails' = fails + 1
  BY <1>1, AcceptKeeps DEF RegisterExtra
<1>2. CASE At(t, "rDescr") /\ TakeNumber(t) /\ Goto(t, "rSlot") /\ UNCHANGED fails
  BY <1>2, TakeKeeps DEF RegisterExtra
<1>3. CASE At(t, "rSlot") /\ NameSlot(t) /\ Goto(t, "rFill") /\ UNCHANGED fails
  BY <1>3, NameKeeps DEF RegisterExtra
<1>4. CASE At(t, "rFill") /\ FillSlot(t) /\ Goto(t, "rLeave") /\ UNCHANGED fails
  BY <1>4, FillExtraKeeps DEF RegisterExtra
<1> QED
  BY <1>1, <1>2, <1>3, <1>4 DEF RegisterExtra

\* The invariant is inductive.
LEMMA StepIInv == IInv /\ [Next]_vars => IInv'
<1>1. ASSUME IInv, UNCHANGED vars PROVE IInv'
  <2>1. UNCHANGED <<isInit, inProgress, initMutex, nRef, mainMutex, shim, count, descr, slot,
                    default, call, conn, fails>>
    BY <1>1 DEF vars, shared, tables
  <2>2. Types'
    BY <1>1, <2>1 DEF IInv, Types
  <2>3. \A t \in Threads : Shape(t)'
    BY <1>1, <2>1 DEF IInv, Shape, At
  <2>4. Mutexes' /\ References'
    BY <1>1, <2>1 DEF IInv, Mutexes, References, Refs, Nested
  <2>5. Tables'
    BY <1>1, <2>1 DEF IInv, Tables, Agrees, InUse, Filling, Writing, At
  <2>6. Built'
    BY <1>1, <2>1 DEF IInv, Built, Has, Done, At
  <2> QED
    BY <2>2, <2>3, <2>4, <2>5, <2>6 DEF IInv
<1>2. ASSUME IInv, NEW t \in Threads, Work(t) PROVE IInv'
  BY <1>2, CheckInitKeeps, TestKeeps, ClearKeeps, BuiltinKeeps, BuiltinStepKeeps, EndKeeps,
     LeaveKeeps, ExtraStepKeeps, UnlockKeeps, CountKeeps, CopyKeeps DEF Work
<1>3. ASSUME IInv, NEW t \in Threads, Wait(t) PROVE IInv'
  BY <1>3, RefKeeps, EnterKeeps, NestedRefKeeps, NestedUnrefKeeps, ShimKeeps, UnrefKeeps,
     LockKeeps DEF Wait
<1>4. ASSUME IInv, NEW t \in Threads, Application(t) PROVE IInv'
  BY <1>4, OpenKeeps, RegisterKeeps, ConnKeeps, ShutdownKeeps DEF Application
<1> QED
  BY <1>1, <1>2, <1>3, <1>4 DEF Next

\* The invariant holds in every state the library reaches.
THEOREM Invariance == Spec => []IInv
BY InitIInv, StepIInv, PTL DEF Spec

-----------------------------------------------------------------------------
(***************************************************************************)
(* The properties.                                                         *)
(***************************************************************************)
\* The invariant has the types.
LEMMA IInvTypes == IInv => TypeOK
<1> SUFFICES ASSUME IInv PROVE TypeOK
  OBVIOUS
<1>1. nRef \in 0 .. 2 * Cardinality(Threads)
  <2>1. Refs \subseteq Threads /\ Nested \subseteq Threads
    BY DEF Refs, Nested
  <2>2. /\ Cardinality(Refs) \in Nat /\ Cardinality(Nested) \in Nat
        /\ Cardinality(Refs) <= Cardinality(Threads)
        /\ Cardinality(Nested) <= Cardinality(Threads) /\ Cardinality(Threads) \in Nat
    BY <2>1, Counted
  <2> QED
    BY <2>2 DEF IInv, References
<1>2. \A i \in Index : /\ slot[i].name \in Names \cup {NoName}
                       /\ slot[i].id \in {0, i}
                       /\ slot[i].params \in {"none", "empty", "filled", "freed"}
  BY DEF IInv, Types, Tables, Slots
<1>3. \A t \in Threads :
        conn[t].cipher \in 0 .. CODEC_COUNT_MAX /\ Len(conn[t].table) <= CODEC_COUNT_MAX
  BY DEF IInv, Types, Shape
<1> QED
  BY <1>1, <1>2, <1>3, Zenon DEF IInv, Types, TypeOK

\* The mutex of the initialization is counted by those who use it.
LEMMA IInvMutex == IInv => InitMutexKept
<1> SUFFICES ASSUME IInv, NEW t \in Threads, call[t].pc \in InInit
             PROVE  /\ initMutex.alive
                    /\ call[t].pc \notin {"enter", "unref"} => initMutex.holder = t
  BY DEF InitMutexKept
<1>1. initMutex.alive
  BY RefsCounted DEF IInv
<1>2. call[t].pc \notin {"enter", "unref"} => call[t].pc \in Inside
  BY DEF InInit, Inside
<1> QED
  BY <1>1, <1>2, Here

\* Nobody is initializing once isInit is set.
LEMMA IInvComplete == IInv => InitComplete
<1> SUFFICES ASSUME IInv, isInit
             PROVE  /\ shim
                    /\ \A i \in DOMAIN Builtins : \E n \in 1 .. count : descr[n] = Builtins[i]
                    /\ ~ inProgress
  BY DEF InitComplete
<1>1. shim
  BY DEF IInv, Built
<1>2. \A i \in DOMAIN Builtins : \E n \in 1 .. count : descr[n] = Builtins[i]
  <2>1. DOMAIN Builtins = 1 .. Len(Builtins)
    BY RegistryAssumption
  <2> QED
    BY <2>1 DEF IInv, Built, Has
<1>3. ~ inProgress
  BY DEF IInv, Mutexes, Shape
<1> QED
  BY <1>1, <1>2, <1>3

\* Once the library is initialized only a registration writes the tables.
LEMMA NobodyWrites ==
  ASSUME IInv, isInit, \A t \in Threads : call[t].pc \notin Registering
  PROVE  \A i \in Index : Agrees(i)
<1>1. \A t \in Threads : ~ Writing(t)
  BY Here DEF Writing, Registering, Shape, Progress
<1> QED
  BY <1>1 DEF IInv, Tables, InUse

\* The tables agree when nobody holds the static mutex.
LEMMA IInvAgree == IInv => TablesAgree
<1> SUFFICES ASSUME IInv, isInit, mainMutex = Nobody PROVE \A i \in Index : Agrees(i)
  BY DEF TablesAgree, Agrees
<1>1. \A t \in Threads : call[t].pc \notin Registering
  BY Here
<1> QED
  BY <1>1, NobodyWrites

\* Numbers up to the count have names if there is no gap.
LEMMA IInvSelected == IInv => SelectedRegistered
<1> SUFFICES ASSUME IInv, Used(descr) = 1 .. count, NEW t \in Threads, conn[t].open
             PROVE  conn[t].cipher \in Index /\ descr[conn[t].cipher] # NoName
  BY DEF SelectedRegistered
<1>1. conn[t].cipher \in Used(descr) /\ conn[t].cipher \in 1 .. count
  BY Here
<1>2. DOMAIN descr = Index /\ count \in 0 .. CODEC_COUNT_MAX
  BY DEF IInv, Types
<1> QED
  BY <1>1, <1>2 DEF Used

\* While the library is in use the tables only grow.
LEMMA TablesGrow ==
  ASSUME IInv, Next, isInit, isInit'
  PROVE  /\ count' \in Nat /\ count \in Nat /\ count <= count'
         /\ \A i \in 1 .. count : descr'[i] = descr[i]
         /\ \A i \in Index : slot[i].name # NoName => slot'[i].name # NoName
<1>0. /\ count \in 0 .. CODEC_COUNT_MAX /\ CODEC_COUNT_MAX \in Nat
      /\ descr \in [Index -> Names \cup {NoName}] /\ slot \in [Index -> Slots]
  BY RegistryAssumption DEF IInv, Types
<1>1. PICK t \in Threads : Work(t) \/ Wait(t) \/ Application(t)
  BY DEF Next
<1>2. call[t].pc \notin Progress
  BY Here DEF Shape
<1>3. \/ UNCHANGED tables
      \/ At(t, "rDescr") /\ TakeNumber(t)
      \/ At(t, "rSlot") /\ NameSlot(t)
      \/ At(t, "rFill") /\ FillSlot(t)
  <2>1. ~ InitCipherTables(t) /\ ~ Shutdown(t) /\ ~ RegisterBuiltin(t)
    BY <1>2 DEF InitCipherTables, Shutdown, RegisterBuiltin, At, Progress
  <2>2. CASE RegisterExtra(t)
    BY <2>2 DEF RegisterExtra
  <2>3. CASE Work(t) /\ ~ RegisterExtra(t)
    BY <2>1, <2>3 DEF Work, CheckInit, TestInit, Builtin, EndInit, LeaveInit, UnlockRegistry,
       CountTables, CopyTables
  <2>4. CASE Wait(t)
    BY <2>4 DEF Wait, RefInitMutex, EnterInit, NestedRef, NestedUnref, CreateShim,
       UnrefInitMutex, LockRegistry
  <2>5. CASE Application(t)
    BY <2>1, <2>5 DEF Application, Open, RegisterCipher, SelectCipher, Close, Begin
  <2> QED
    BY <1>1, <2>2, <2>3, <2>4, <2>5
<1>4. CASE UNCHANGED tables
  BY <1>0, <1>4 DEF tables
<1>5. CASE At(t, "rDescr") /\ TakeNumber(t)
  <2>1. count' = count + 1 /\ descr' = [descr EXCEPT ![count'] = NameOf(t)] /\ slot' = slot
    BY <1>5 DEF TakeNumber
  <2> QED
    BY <1>0, <2>1 DEF Index
<1>6. CASE At(t, "rSlot") /\ NameSlot(t)
  <2>1. count \in Index /\ descr[count] # NoName
    BY <1>6 DEF IInv, Tables, Writing, At
  <2>2. /\ slot' = [slot EXCEPT ![count] = [name |-> descr[count], id |-> count,
                                            params |-> "empty"]]
        /\ UNCHANGED <<count, descr>>
    BY <1>6 DEF NameSlot
  <2> QED
    BY <1>0, <2>1, <2>2
<1>7. CASE At(t, "rFill") /\ FillSlot(t)
  <2>1. slot' = [slot EXCEPT ![count].params = "filled"] /\ UNCHANGED <<count, descr>>
    BY <1>7 DEF FillSlot
  <2>2. \A i \in Index : slot'[i].name = slot[i].name
    BY <1>0, <2>1 DEF Slots
  <2> QED
    BY <1>0, <2>1, <2>2
<1> QED
  BY <1>3, <1>4, <1>5, <1>6, <1>7

-----------------------------------------------------------------------------
(***************************************************************************)
(* The copies of the connections.                                          *)
(***************************************************************************)
\* What a step does to the calls and the connections.
LEMMA CallsAndConns ==
  ASSUME IInv, Next, NEW t \in Threads
  PROVE  /\ call'[t].op \in {call[t].op, "none"} \/ Open(t) \/ RegisterCipher(t)
         /\ At(t, "copy")' => (At(t, "copy") /\ call'[t].n = call[t].n) \/ CountTables(t)
         /\ conn'[t].open => \/ conn[t].open /\ conn'[t].table = conn[t].table
                             \/ CopyTables(t)
<1>0. /\ call \in [Threads -> Calls]
      /\ conn \in [Threads -> [open : BOOLEAN, table : Seq(Slots), cipher : 0 .. CODEC_COUNT_MAX]]
  BY DEF IInv, Types
<1>1. PICK u \in Threads : Work(u) \/ Wait(u) \/ Application(u)
  BY DEF Next
<1> DEFINE Fine ==
      /\ call'[u].op \in {call[u].op, "none"} \/ Open(u) \/ RegisterCipher(u)
      /\ At(u, "copy")' => (At(u, "copy") /\ call'[u].n = call[u].n) \/ CountTables(u)
      /\ \A v \in Threads \ {u} : call'[v] = call[v] /\ conn'[v] = conn[v]
      /\ conn'[u].open => \/ conn[u].open /\ conn'[u].table = conn[u].table
                          \/ CopyTables(u)
<1>2. ASSUME CheckInit(u) PROVE Fine
  BY <1>0, <1>2 DEF CheckInit, Goto, Calls, At
<1>3. ASSUME TestInit(u) PROVE Fine
  BY <1>0, <1>3 DEF TestInit, Calls, At
<1>4. ASSUME InitCipherTables(u) PROVE Fine
  BY <1>0, <1>4 DEF InitCipherTables, Calls, At
<1>5. ASSUME Builtin(u) PROVE Fine
  BY <1>0, <1>5 DEF Builtin, Allocated, Goto, Calls, At
<1>6. ASSUME RegisterBuiltin(u) PROVE Fine
  BY <1>0, <1>6 DEF RegisterBuiltin, Goto, Calls, At
<1>7. ASSUME EndInit(u) PROVE Fine
  BY <1>0, <1>7 DEF EndInit, AfterInit, Goto, Calls, At
<1>8. ASSUME LeaveInit(u) PROVE Fine
  BY <1>0, <1>8 DEF LeaveInit, Goto, Calls, At
<1>9. ASSUME RegisterExtra(u) PROVE Fine
  BY <1>0, <1>9 DEF RegisterExtra, Goto, Calls, At
<1>10. ASSUME UnlockRegistry(u) PROVE Fine
  BY <1>0, <1>10, IdleCall DEF UnlockRegistry, Calls, At
<1>11. ASSUME CountTables(u) PROVE Fine
  BY <1>0, <1>11 DEF CountTables, Calls, At
<1>12. ASSUME CopyTables(u) PROVE Fine
  BY <1>0, <1>12, IdleCall DEF CopyTables, Calls, At
<1>13. ASSUME Wait(u) PROVE Fine
  <2>1. CASE RefInitMutex(u) \/ EnterInit(u) \/ NestedRef(u) \/ NestedUnref(u)
    BY <1>0, <2>1 DEF RefInitMutex, EnterInit, NestedRef, NestedUnref, Goto, Calls, At
  <2>2. CASE CreateShim(u)
    BY <1>0, <2>2 DEF CreateShim, Goto, Calls, At
  <2>3. CASE LockRegistry(u)
    BY <1>0, <2>3 DEF LockRegistry, Goto, Calls, At
  <2>4. CASE UnrefInitMutex(u)
    BY <1>0, <2>4, IdleCall DEF UnrefInitMutex, Calls, At
  <2> QED
    BY <1>13, <2>1, <2>2, <2>3, <2>4 DEF Wait
<1>14. ASSUME Open(u) \/ RegisterCipher(u) PROVE Fine
  <2>1. PICK r : /\ r.pc = "check" /\ call' = [call EXCEPT ![u] = r] /\ UNCHANGED conn
    <3>1. CASE Open(u)
      <4>1. [NoCall EXCEPT !.op = "open", !.pc = "check"].pc = "check"
        BY DEF NoCall
      <4> QED
        BY <3>1, <4>1 DEF Open, Begin
    <3>2. CASE RegisterCipher(u)
      <4>1. PICK x \in Names, d \in BOOLEAN :
              Begin(u, [NoCall EXCEPT !.op = "register", !.name = x, !.makeDefault = d,
                                      !.pc = "check"])
        BY <3>2 DEF RegisterCipher
      <4>2. [NoCall EXCEPT !.op = "register", !.name = x, !.makeDefault = d,
                           !.pc = "check"].pc = "check"
        BY DEF NoCall
      <4> QED
        BY <4>1, <4>2 DEF Begin
    <3> QED
      BY <1>14, <3>1, <3>2
  <2> QED
    BY <1>0, <1>14, <2>1 DEF At
<1>15. ASSUME SelectCipher(u) \/ Close(u) PROVE Fine
  BY <1>0, <1>15 DEF SelectCipher, Close, Closed, At
<1>16. ASSUME Shutdown(u) PROVE Fine
  BY <1>16 DEF Shutdown, At
<1>17. Fine
  BY <1>1, <1>2, <1>3, <1>4, <1>5, <1>6, <1>7, <1>8, <1>9, <1>10, <1>11, <1>12, <1>13, <1>14,
     <1>15, <1>16 DEF Work, Application
<1> QED
  BY <1>17 DEF At

\* No connection is open at first.
LEMMA InitCopies == Init => Copies
<1> SUFFICES ASSUME Init PROVE Copies
  OBVIOUS
<1>1. \A t \in Threads : call[t] = NoCall /\ conn[t] = Closed
  BY DEF Init
<1> QED
  BY <1>1, IdleCall DEF Copies, At, Closed

\* Ciphers are not registered while a connection is opened.
LEMMA KeptApart ==
  ASSUME RegisterAnytime = FALSE, IInv, Copies, Next, NEW t \in Threads, NEW u \in Threads,
         call'[t].op = "open", call'[u].op = "register"
  PROVE  FALSE
<1>1. /\ call[t].op = "open" \/ Open(t) \/ RegisterCipher(t)
      /\ call[u].op = "register" \/ Open(u) \/ RegisterCipher(u)
  BY CallsAndConns
<1>2. \A v \in Threads : Open(v) \/ RegisterCipher(v) =>
        call[v].op = "none" /\ \A x \in Threads \ {v} : call'[x] = call[x]
  <2>1. SUFFICES ASSUME NEW v \in Threads, Open(v) \/ RegisterCipher(v)
                 PROVE  call[v].op = "none" /\ \A x \in Threads \ {v} : call'[x] = call[x]
    OBVIOUS
  <2>2. PICK r : Begin(v, r)
    BY <2>1 DEF Open, RegisterCipher
  <2>3. call[v].op = "none"
    BY <2>2, Here DEF Begin, Shape, At
  <2> QED
    BY <2>2, <2>3 DEF Begin, IInv, Types
<1>3. \A v \in Threads : Open(v) => call'[v].op = "open"
  <2>1. SUFFICES ASSUME NEW v \in Threads, Open(v) PROVE call'[v].op = "open"
    OBVIOUS
  <2>2. call' = [call EXCEPT ![v] = [NoCall EXCEPT !.op = "open", !.pc = "check"]]
    BY <2>1 DEF Open, Begin
  <2> QED
    BY <2>2 DEF NoCall, IInv, Types
<1>4. \A v \in Threads : RegisterCipher(v) => call'[v].op = "register"
  <2>1. SUFFICES ASSUME NEW v \in Threads, RegisterCipher(v) PROVE call'[v].op = "register"
    OBVIOUS
  <2>2. PICK x \in Names, d \in BOOLEAN :
          call' = [call EXCEPT ![v] = [NoCall EXCEPT !.op = "register", !.name = x,
                                                     !.makeDefault = d, !.pc = "check"]]
    BY <2>1 DEF RegisterCipher, Begin
  <2> QED
    BY <2>2 DEF NoCall, IInv, Types
<1>5. t # u
  OBVIOUS
<1>6. \A v, x \in Threads : ~ (Open(v) /\ call[x].op = "register")
  BY DEF Open
<1>7. \A v, x \in Threads : ~ (RegisterCipher(v) /\ call[x].op = "open")
  BY Here DEF RegisterCipher, Opening, Shape, At
<1>8. ~ (call[t].op = "open" /\ call[u].op = "register")
  BY DEF Copies
<1>9. CASE Open(t) \/ RegisterCipher(t)
  BY <1>1, <1>2, <1>3, <1>4, <1>5, <1>6, <1>9
<1>10. CASE Open(u) \/ RegisterCipher(u)
  BY <1>1, <1>2, <1>3, <1>4, <1>5, <1>7, <1>10
<1> QED
  BY <1>1, <1>8, <1>9, <1>10

\* Every step keeps the copies true.
LEMMA StepCopies ==
  ASSUME RegisterAnytime = FALSE, IInv, Copies, [Next]_vars
  PROVE  Copies'
<1>1. CASE UNCHANGED vars
  BY <1>1 DEF Copies, At, vars, shared, tables
<1>2. CASE Next
  <2>1. \A t, u \in Threads : ~ (call[t].op = "open" /\ call[u].op = "register")'
    BY <1>2, KeptApart
  <2>2. ASSUME NEW t \in Threads, At(t, "copy")', NEW i \in 1 .. call'[t].n
        PROVE  slot'[i].name # NoName
    <3>1. call'[t].n \in 0 .. CODEC_COUNT_MAX /\ CODEC_COUNT_MAX \in Nat /\ isInit'
      <4>1. IInv'
        BY StepIInv
      <4>2. call'[t] \in Calls /\ Shape(t)'
        BY <4>1 DEF IInv, Types
      <4> QED
        BY <2>2, <4>2, RegistryAssumption DEF Calls, Shape, At
    <3>2. i \in Index
      BY <3>1 DEF Index
    <3>3. CASE CountTables(t)
      <4>1. UNCHANGED slot /\ i \in 1 .. NumTables
        <5>1. call'[t].n = NumTables
          BY <3>3 DEF CountTables, IInv, Types, Calls
        <5> QED
          BY <3>3, <5>1 DEF CountTables, tables
      <4> QED
        BY <4>1, TablesCounted
    <3>4. CASE At(t, "copy") /\ call'[t].n = call[t].n
      <4>1. isInit /\ slot[i].name # NoName
        BY <3>4, Here DEF Copies, Shape, At
      <4> QED
        BY <1>2, <3>1, <3>2, <4>1, TablesGrow
    <3> QED
      BY <1>2, <2>2, <3>3, <3>4, CallsAndConns
  <2>3. ASSUME NEW t \in Threads, conn'[t].open, NEW i \in 1 .. Len(conn'[t].table)
        PROVE  /\ i <= count' /\ i \in Index /\ descr'[i] # NoName
               /\ conn'[t].table[i].params = "filled" /\ conn'[t].table[i].name = descr'[i]
    <3>1. isInit'
      <4>1. IInv'
        BY StepIInv
      <4> QED
        BY <2>3, <4>1 DEF IInv, Shape
    <3>2. CASE conn[t].open /\ conn'[t].table = conn[t].table
      <4>1. /\ isInit /\ i <= count /\ i \in Index /\ descr[i] # NoName
            /\ conn[t].table[i].params = "filled" /\ conn[t].table[i].name = descr[i]
        BY <2>3, <3>2, Here DEF Copies, Shape
      <4>2. i \in 1 .. count
        BY <4>1, RegistryAssumption DEF Index, IInv, Types
      <4>3. count' \in Nat /\ count \in Nat /\ count <= count' /\ descr'[i] = descr[i]
        BY <1>2, <3>1, <4>1, <4>2, TablesGrow
      <4> QED
        BY <3>2, <4>1, <4>2, <4>3
    <3>3. CASE CopyTables(t)
      <4>1. /\ isInit /\ call[t].op = "open" /\ call[t].pc = "copy"
            /\ call[t].n \in 0 .. CODEC_COUNT_MAX /\ CODEC_COUNT_MAX \in Nat
        BY <3>3, Here, RegistryAssumption DEF CopyTables, At, Shape, Calls
      <4>2. conn'[t].table = SubSeq(slot, 1, call[t].n) /\ UNCHANGED <<count, descr>>
        BY <3>3 DEF CopyTables, tables, IInv, Types
      <4>3. i \in 1 .. call[t].n /\ conn'[t].table[i] = slot[i]
        BY <2>3, <4>1, <4>2, CopyMade
      <4>4. \A v \in Threads : call[v].pc \notin Registering
        BY <4>1, Here DEF Copies, Shape
      <4>5. i \in Index /\ slot[i].name # NoName
        BY <4>1, <4>3 DEF Index, Copies, At
      <4>6. Agrees(i)
        BY <4>1, <4>4, <4>5, NobodyWrites
      <4> QED
        BY <4>2, <4>3, <4>5, <4>6 DEF Agrees
    <3> QED
      BY <1>2, <2>3, <3>2, <3>3, CallsAndConns
  <2> QED
    BY <2>1, <2>2, <2>3 DEF Copies
<1> QED
  BY <1>1, <1>2

-----------------------------------------------------------------------------
(***************************************************************************)
(* Theorems.                                                               *)
(***************************************************************************)
\* Type correctness of the model.
THEOREM TypeCorrect == Spec => []TypeOK
BY IInvTypes, Invariance, PTL

\* The mutex of sqlite3_initialize is not freed while a thread waits for it or
\* is inside, and only its holder is inside (sqlite3_initialize).
THEOREM MutexLives == Spec => []InitMutexKept
BY IInvMutex, Invariance, PTL

\* When isInit is set, the initialization is complete (sqlite3_initialize,
\* sqlite3mc_initialize).
THEOREM InitializedWholly == Spec => []InitComplete
BY IInvComplete, Invariance, PTL

\* The tables of descriptors and of parameters agree (sqlite3mcRegisterCipher).
THEOREM TablesStayTrue == Spec => []TablesAgree
BY IInvAgree, Invariance, PTL

\* A connection has selected a cipher that is registered (sqlite3mc_config).
THEOREM SelectionRegistered == Spec => []SelectedRegistered
BY IInvSelected, Invariance, PTL

\* A number stays with its cipher as long as the library is in use.
THEOREM NumbersStay == Spec => NumbersKept
<1>1. IInv /\ [Next]_vars =>
        [isInit /\ isInit' => \A i \in 1 .. count : descr[i] # NoName => descr'[i] = descr[i]]_vars
  BY TablesGrow DEF vars, shared, tables
<1> QED
  BY <1>1, Invariance, PTL DEF Spec, NumbersKept

\* If ciphers are not registered while a connection is opened, a connection's
\* copy of the tables is complete, and true to the tables
\* (sqlite3mcCloneCodecParameterTable).
THEOREM CopiesUsable == RegisterAnytime = FALSE => (Spec => []CopyUsable)
<1> SUFFICES ASSUME RegisterAnytime = FALSE PROVE Spec => []CopyUsable
  OBVIOUS
<1>1. IInv /\ Copies /\ [Next]_vars => Copies'
  BY StepCopies
<1>2. IInv /\ Copies => CopyUsable
  <2> SUFFICES ASSUME IInv, Copies, NEW t \in Threads, conn[t].open,
                      NEW i \in DOMAIN conn[t].table
               PROVE  conn[t].table[i].params = "filled" /\ conn[t].table[i].name = descr[i]
    BY DEF CopyUsable
  <2>1. conn[t].table \in Seq(Slots)
    BY DEF IInv, Types
  <2>2. i \in 1 .. Len(conn[t].table)
    BY <2>1
  <2> QED
    BY <2>2 DEF Copies
<1> QED
  BY <1>1, <1>2, InitCopies, Invariance, PTL DEF Spec

=============================================================================
