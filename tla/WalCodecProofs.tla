---------------------------- MODULE WalCodecProofs ----------------------------
(***************************************************************************)
(* Theorems about WalCodec, for every number of connections, pages and     *)
(* frames and every set of contents, passphrases and salts: the holder of  *)
(* the passphrase reads what was committed, transactions read their        *)
(* snapshot, and connections that are out of date harm nobody.             *)
(***************************************************************************)
EXTENDS WalCodec, FiniteSetTheorems, SequenceTheorems, WellFoundedInduction, TLAPS

\* What the theorems assume of the application (Careful: see Allowed and
\* MayWrite; ColdRekey) and of the build: a legacy log loses the pages of a
\* cipher with tags.
Sound == Careful /\ ~ColdRekey /\ \A m \in Modes : m.auth => ~m.legacy

-----------------------------------------------------------------------------
(* The inductive invariant speaks of one connection k, or of two, and of   *)
(* what they share, s; w is a log and d a database file.                   *)

Shared == [mode |-> mode, db |-> db, wal |-> wal, mx |-> mx,
           backfill |-> backfill, want |-> want]

LatestIn(w, p, lo, hi) == Max({0} \cup {i \in lo .. hi : w[i].pg = p})

AtIn(w, d, p, lo, hi) ==
  IF LatestIn(w, p, lo, hi) = 0 THEN d[p] ELSE w[LatestIn(w, p, lo, hi)].page

\* The last commit in the log, 0 if there is none.
Ends(w) == Max({0} \cup {i \in 1 .. Len(w) : w[i].commit})

KeyIn(d, pass) == IF pass = None THEN Plain ELSE <<pass, d[1].key[2]>>
Right(s)       == KeyIn(s.db, s.want.pass)
ViewIn(s, k, p) == AtIn(s.wal, s.db, p, k.lo, IF k.direct THEN 0 ELSE k.hi)

Active(k)  == k.st \in {"read", "write", "rekey"}
Writing(k) == k.st \in {"write", "rekey"}
Copying(k) == k.st \in {"ckpt", "closing"}

GoodPage  == [val : Vals, key : Key]
GoodFrame == [pg : Page, page : GoodPage, commit : BOOLEAN]

\* No content is ever garbage.
SharedTypes(s) ==
  /\ s.mode \in Modes
  /\ s.db \in [Page -> GoodPage]
  /\ s.wal \in Seq(GoodFrame) /\ Len(s.wal) <= MaxFrames
  /\ s.mx \in Nat /\ s.backfill \in Nat
  /\ s.backfill <= s.mx /\ s.mx <= Len(s.wal)
  /\ s.want.val \in [Page -> Vals] /\ s.want.pass \in Pass \cup {None}
  /\ s.want = [val |-> s.want.val, pass |-> s.want.pass]

\* The last commit, in log and file, is under the key its holder derives, and
\* what is backfilled is in the file.
Kept(s) ==
  /\ \A p \in Page : AtIn(s.wal, s.db, p, 1, Ends(s.wal)) =
                       [val |-> s.want.val[p], key |-> Right(s)]
  /\ \A p \in Page : LatestIn(s.wal, p, 1, s.mx) \in 1 .. s.backfill =>
                       s.db[p] = s.wal[LatestIn(s.wal, p, 1, s.mx)].page

\* Without tags there is one key; with them, every page 1 has the salt.
Salted(s) ==
  /\ ~s.mode.auth =>
       /\ \A p \in Page : s.db[p].key = Right(s)
       /\ \A i \in 1 .. Len(s.wal) : s.wal[i].page.key = Right(s)
  /\ s.want.pass # None =>
       \A i \in 1 .. Ends(s.wal) :
         s.wal[i].pg = 1 => s.wal[i].page.key[2] = s.db[1].key[2]

SharedOK(s) == SharedTypes(s) /\ Kept(s) /\ Salted(s)

\* A connection that has failed to remove the encryption and does not write.
Unwritable(k, s) ==
  k.write = Plain /\ k.st \in {"idle", "read"} /\ s.mode.auth

\* The keys of a connection that is open.
KeysOK(k, s) ==
  /\ k.st # "rekey" => k.write = k.read \/ Unwritable(k, s)
  /\ k.cur => k.read = Right(s)
  /\ ~s.mode.auth => k.read = Right(s)
  /\ k.st = "rekey" =>
       /\ s.mode.auth /\ s.want.pass # None
       /\ k.write[1] \in Pass \cup {None} /\ k.write = KeyIn(s.db, k.write[1])

\* Its snapshot, if it has one.
SnapshotOK(k, s) ==
  /\ k.lo >= 1
  /\ ~k.direct => k.lo <= s.backfill + 1 /\ s.backfill <= k.hi /\ k.hi <= s.mx
  /\ \A p \in Page : ViewIn(s, k, p) = [val |-> k.seen[p], key |-> k.read]

\* Its transaction, if it writes.
WritingOK(k, s) ==
  /\ Len(s.wal) = Ends(s.wal) + k.own
  /\ k.direct => s.backfill = s.mx /\ k.own = 0
  /\ ~k.direct => k.hi = s.mx
  /\ k.dirty \in [Page -> Vals \cup {None}]
  /\ \A i \in s.mx + 1 .. s.mx + k.own : s.wal[i].page.key = k.write
  /\ k.st = "rekey" => \A p \in Page :
       LET i == LatestIn(s.wal, p, s.mx + 1, s.mx + k.own)
       IN  IF k.dirty[p] # None THEN k.dirty[p] = k.seen[p]
           ELSE i # 0 /\ s.wal[i].page.val = k.seen[p]

\* Its checkpoint, if it runs one.
CopyingOK(k, s) ==
  /\ s.backfill <= k.safe /\ k.safe <= s.mx
  /\ k.st = "ckpt" => s.backfill < s.mx
  /\ k.st = "closing" => k.safe = s.mx
  /\ \A p \in k.todo : LatestIn(s.wal, p, 1, k.safe) \in s.backfill + 1 .. k.safe
  /\ \A p \in Page : LatestIn(s.wal, p, 1, s.mx) \in s.backfill + 1 .. k.safe =>
       p \in k.todo \/ s.db[p] = s.wal[LatestIn(s.wal, p, 1, s.mx)].page

ConnOK(k, s) ==
  /\ k \in Connection
  /\ k.st = "closed" => k = Closed
  /\ Active(k) \/ Copying(k) => k.warm
  /\ k.warm => s.mx = Ends(s.wal)
  /\ ~Writing(k) => k.own = 0 /\ k.dirty = Clean
  /\ k.st # "closed" => KeysOK(k, s)
  /\ Active(k) => SnapshotOK(k, s)
  /\ Writing(k) => WritingOK(k, s)
  /\ Copying(k) => CopyingOK(k, s)

\* Two connections: one writer, one checkpoint, the last one closes, and a
\* checkpoint stops where a reader still needs the file.
PairOK(k, j, s) ==
  /\ ~(Writing(k) /\ Writing(j))
  /\ ~(Copying(k) /\ Copying(j))
  /\ k.st = "closing" => ~j.warm
  /\ Copying(k) /\ Active(j) =>
       IF j.direct THEN k.todo = {} /\ k.safe = s.backfill ELSE k.safe <= j.hi

IInv ==
  /\ conn = [c \in Conn |-> conn[c]]
  /\ SharedOK(Shared)
  /\ \A c \in Conn : ConnOK(conn[c], Shared)
  /\ \A c, d \in Conn : c # d => PairOK(conn[c], conn[d], Shared)
  /\ (\A c \in Conn : ~conn[c].warm) => mx = 0 /\ backfill = 0
  /\ (\A c \in Conn : ~Writing(conn[c])) => Len(wal) = Ends(wal)

-----------------------------------------------------------------------------
(* Numbers.                                                                *)

\* A set of natural numbers that is not empty has a least element.
LEMMA LeastNumber ==
  ASSUME NEW T \in SUBSET Nat, T # {}
  PROVE  \E i \in T : \A j \in T : i <= j
<1>1. IsWellFoundedOn(OpToRel(<, Nat), Nat)
  BY NatLessThanWellFounded
<1>2. PICK i \in T : \A j \in T : ~ (<<j, i>> \in OpToRel(<, Nat))
  BY <1>1, WFMin
<1>3. \A j \in T : ~ (j < i)
  BY <1>2 DEF OpToRel
<1> QED
  BY <1>3

\* Min as the community modules define it.
LEMMA MinIsLeast ==
  ASSUME NEW T \in SUBSET Nat, T # {}
  PROVE  Min(T) \in T /\ \A j \in T : Min(T) <= j
BY LeastNumber DEF Min

\* A set of numbers with an upper bound has a greatest element.
LEMMA MaxIsGreatest ==
  ASSUME NEW T \in SUBSET Nat, T # {}, NEW b \in Nat, \A j \in T : j <= b
  PROVE  Max(T) \in T /\ \A j \in T : j <= Max(T)
<1> DEFINE Bounds == {i \in Nat : \A j \in T : j <= i}
<1>1. Bounds \in SUBSET Nat /\ Bounds # {}
  BY Zenon
<1>2. PICK i \in Bounds : \A j \in Bounds : i <= j
  BY <1>1, LeastNumber
<1>3. i \in T
  <2>1. SUFFICES ASSUME i \notin T PROVE FALSE
    OBVIOUS
  <2>2. i \in Nat /\ \A j \in T : j < i
    BY <2>1
  <2>3. PICK x \in T : TRUE
    OBVIOUS
  <2>4. x \in Nat /\ x < i
    BY <2>2, <2>3
  <2>5. i - 1 \in Nat
    BY <2>2, <2>4
  <2>6. \A j \in T : j <= i - 1
    BY <2>2
  <2>7. i - 1 \in Bounds
    BY <2>5, <2>6
  <2> QED
    BY <1>2, <2>2, <2>7
<1>4. \A j \in T : i >= j
  OBVIOUS
<1> QED
  BY <1>3, <1>4 DEF Max

-----------------------------------------------------------------------------
(* Frames of a log.                                                        *)

\* What Latest is: 0, or the last frame of the page.
LEMMA LatestIsLast ==
  ASSUME NEW w, NEW p, NEW lo \in Nat, NEW hi \in Nat
  PROVE  /\ LatestIn(w, p, lo, hi) \in Nat
         /\ \/ LatestIn(w, p, lo, hi) = 0
            \/ /\ LatestIn(w, p, lo, hi) \in lo .. hi
               /\ w[LatestIn(w, p, lo, hi)].pg = p
         /\ \A i \in lo .. hi : w[i].pg = p => i <= LatestIn(w, p, lo, hi)
<1> DEFINE T == {0} \cup {i \in lo .. hi : w[i].pg = p}
<1>1. T \in SUBSET Nat /\ T # {} /\ \A j \in T : j <= hi
  OBVIOUS
<1>2. Max(T) \in T /\ \A j \in T : j <= Max(T)
  BY <1>1, MaxIsGreatest
<1> QED
  BY <1>2 DEF LatestIn

\* How LatestIn is found: no frame of the page comes after i.
LEMMA LatestIs ==
  ASSUME NEW w, NEW p, NEW lo \in Nat, NEW hi \in Nat, NEW i \in lo .. hi,
         w[i].pg = p, \A j \in lo .. hi : w[j].pg = p => j <= i
  PROVE  LatestIn(w, p, lo, hi) = i
BY LatestIsLast

\* No frame of the page, no latest one.
LEMMA LatestNone ==
  ASSUME NEW w, NEW p, NEW lo \in Nat, NEW hi \in Nat,
         \A j \in lo .. hi : w[j].pg # p
  PROVE  LatestIn(w, p, lo, hi) = 0
BY LatestIsLast

\* It depends on the frames from lo to hi only.
LEMMA LatestSame ==
  ASSUME NEW w, NEW v, NEW p, NEW lo \in Nat, NEW hi \in Nat,
         \A i \in lo .. hi : v[i].pg = p <=> w[i].pg = p
  PROVE  LatestIn(v, p, lo, hi) = LatestIn(w, p, lo, hi)
<1>1. {i \in lo .. hi : v[i].pg = p} = {i \in lo .. hi : w[i].pg = p}
  OBVIOUS
<1> QED
  BY <1>1 DEF LatestIn

\* Frames before the last one do not matter, nor those after it.
LEMMA LatestWithin ==
  ASSUME NEW w, NEW p, NEW lo \in Nat, NEW hi \in Nat,
         NEW a \in Nat, NEW b \in Nat, lo >= 1, lo <= a, b <= hi,
         LatestIn(w, p, lo, hi) \in a .. b
  PROVE  LatestIn(w, p, a, b) = LatestIn(w, p, lo, hi)
<1>1. LatestIn(w, p, lo, hi) \in lo .. hi /\ w[LatestIn(w, p, lo, hi)].pg = p
  BY LatestIsLast
<1>2. \A j \in a .. b : w[j].pg = p => j <= LatestIn(w, p, lo, hi)
  BY LatestIsLast
<1> QED
  BY <1>1, <1>2, LatestIs

\* The last frame is in the second part of the log, or else in the first.
LEMMA LatestSplit ==
  ASSUME NEW w, NEW p, NEW m \in Nat, NEW hi \in Nat, m <= hi
  PROVE  LatestIn(w, p, 1, hi) = IF LatestIn(w, p, m + 1, hi) # 0
                                   THEN LatestIn(w, p, m + 1, hi)
                                   ELSE LatestIn(w, p, 1, m)
<1>0. m + 1 \in Nat
  OBVIOUS
<1>1. CASE LatestIn(w, p, m + 1, hi) # 0
  <2>1. /\ LatestIn(w, p, m + 1, hi) \in m + 1 .. hi
        /\ w[LatestIn(w, p, m + 1, hi)].pg = p
        /\ \A j \in m + 1 .. hi : w[j].pg = p => j <= LatestIn(w, p, m + 1, hi)
    BY <1>0, <1>1, LatestIsLast
  <2>2. \A j \in 1 .. hi : w[j].pg = p => j <= LatestIn(w, p, m + 1, hi)
    BY <2>1
  <2>3. LatestIn(w, p, m + 1, hi) \in 1 .. hi
    BY <2>1
  <2>4. LatestIn(w, p, 1, hi) = LatestIn(w, p, m + 1, hi)
    <3>1. PICK i : i = LatestIn(w, p, m + 1, hi)
      OBVIOUS
    <3>2. 1 \in Nat /\ hi \in Nat /\ i \in 1 .. hi /\ w[i].pg = p
      BY <1>0, <2>1, <2>3, <3>1
    <3>3. \A j \in 1 .. hi : w[j].pg = p => j <= i
      BY <2>2, <3>1
    <3>4. LatestIn(w, p, 1, hi) = i
      BY <3>2, <3>3, LatestIs
    <3> QED
      BY <3>1, <3>4
  <2> QED
    BY <1>1, <2>4
<1>2. CASE LatestIn(w, p, m + 1, hi) = 0
  <2>1. \A j \in m + 1 .. hi : w[j].pg # p
    BY <1>0, <1>2, LatestIsLast
  <2>2. {i \in 1 .. hi : w[i].pg = p} = {i \in 1 .. m : w[i].pg = p}
    BY <2>1
  <2> QED
    BY <1>2, <2>2 DEF LatestIn
<1> QED
  BY <1>1, <1>2

\* The last commit.
LEMMA EndsIsLast ==
  ASSUME NEW w, Len(w) \in Nat
  PROVE  /\ Ends(w) \in 0 .. Len(w)
         /\ Ends(w) = 0 \/ w[Ends(w)].commit
         /\ \A i \in 1 .. Len(w) : w[i].commit => i <= Ends(w)
<1> DEFINE T == {0} \cup {i \in 1 .. Len(w) : w[i].commit}
<1>1. T \in SUBSET Nat /\ T # {} /\ \A j \in T : j <= Len(w)
  OBVIOUS
<1>2. Max(T) \in T /\ \A j \in T : j <= Max(T)
  BY <1>1, MaxIsGreatest
<1> QED
  BY <1>2 DEF Ends

\* How Ends is found: nothing behind e is a commit.
LEMMA EndsIs ==
  ASSUME NEW w, Len(w) \in Nat, NEW e \in 0 .. Len(w),
         e = 0 \/ w[e].commit, \A i \in 1 .. Len(w) : w[i].commit => i <= e
  PROVE  Ends(w) = e
BY EndsIsLast

\* Logs that agree from lo to hi look the same there.
LEMMA SameLatest ==
  ASSUME NEW w, NEW v, NEW p, NEW lo \in Nat, NEW hi \in Nat,
         \A i \in lo .. hi : v[i] = w[i]
  PROVE  LatestIn(v, p, lo, hi) = LatestIn(w, p, lo, hi)
BY LatestSame

\* And so do pages that are read from them.
LEMMA SameFrames ==
  ASSUME NEW w, NEW v, NEW d, NEW p, NEW lo \in Nat, NEW hi \in Nat,
         \A i \in lo .. hi : v[i] = w[i]
  PROVE  AtIn(v, d, p, lo, hi) = AtIn(w, d, p, lo, hi)
<1>1. LatestIn(v, p, lo, hi) = LatestIn(w, p, lo, hi)
  BY SameLatest
<1>2. LatestIn(w, p, lo, hi) = 0 \/ LatestIn(w, p, lo, hi) \in lo .. hi
  BY LatestIsLast
<1> QED
  BY <1>1, <1>2 DEF AtIn

\* Without frames the file is read.
LEMMA NoLatest ==
  ASSUME NEW w, NEW p, NEW lo \in Nat, NEW hi \in Nat, hi < lo
  PROVE  LatestIn(w, p, lo, hi) = 0
BY LatestNone

\* Then a page is what the file has.
LEMMA NoFrames ==
  ASSUME NEW w, NEW d, NEW p, NEW lo \in Nat, NEW hi \in Nat, hi < lo
  PROVE  AtIn(w, d, p, lo, hi) = d[p]
BY NoLatest DEF AtIn

-----------------------------------------------------------------------------
(* What is shared.                                                         *)

\* The numbers and frames behind SharedTypes, for arithmetic.
LEMMA Numbers ==
  ASSUME NEW s, SharedTypes(s)
  PROVE  /\ s.mx \in Nat /\ s.backfill \in Nat /\ Len(s.wal) \in Nat
         /\ s.backfill <= s.mx /\ s.mx <= Len(s.wal)
         /\ DOMAIN s.wal = 1 .. Len(s.wal)
         /\ \A i \in 1 .. Len(s.wal) : s.wal[i] \in GoodFrame
<1>1. s.wal \in Seq(GoodFrame)
  BY DEF SharedTypes
<1>2. Len(s.wal) \in Nat /\ DOMAIN s.wal = 1 .. Len(s.wal)
  BY <1>1, LenProperties
<1>3. \A i \in 1 .. Len(s.wal) : s.wal[i] \in GoodFrame
  BY <1>1, ElementOfSeq
<1> QED
  BY <1>2, <1>3 DEF SharedTypes

\* A reader may pass over frames that are copied to the file.
LEMMA FetchFrom ==
  ASSUME NEW s, SharedTypes(s), NEW p \in Page,
         LatestIn(s.wal, p, 1, s.mx) \in 1 .. s.backfill =>
           s.db[p] = s.wal[LatestIn(s.wal, p, 1, s.mx)].page,
         NEW lo \in Nat, NEW hi \in Nat,
         1 <= lo, lo <= s.backfill + 1, s.mx <= hi
  PROVE  AtIn(s.wal, s.db, p, lo, hi) = AtIn(s.wal, s.db, p, 1, hi)
<1>0. s.mx \in Nat /\ s.backfill \in Nat /\ s.backfill <= s.mx
  BY Numbers
<1> PICK i : i = LatestIn(s.wal, p, 1, hi)
  OBVIOUS
<1>1. i \in Nat /\ (i = 0 \/ i \in 1 .. hi)
  BY LatestIsLast
<1>2. CASE i >= lo
  <2>1. i \in lo .. hi
    BY <1>1, <1>2
  <2>2. LatestIn(s.wal, p, lo, hi) = i
    BY <2>1, LatestWithin
  <2> QED
    BY <2>2 DEF AtIn
<1>3. CASE i < lo
  <2>1. \A j \in lo .. hi : s.wal[j].pg # p
    <3>1. \A j \in 1 .. hi : s.wal[j].pg = p => j <= i
      BY LatestIsLast
    <3> QED
      BY <3>1, <1>1, <1>3
  <2>2. LatestIn(s.wal, p, lo, hi) = 0
    BY <2>1, LatestNone
  <2>3. CASE i = 0
    BY <2>2, <2>3 DEF AtIn
  <2>4. CASE i # 0
    <3>1. i \in 1 .. s.mx /\ i \in 1 .. s.backfill
      BY <1>0, <1>1, <1>3, <2>4
    <3>2. LatestIn(s.wal, p, 1, s.mx) = i
      BY <1>0, <3>1, LatestWithin
    <3>3. s.db[p] = s.wal[i].page
      BY <3>1, <3>2
    <3> QED
      BY <2>2, <2>4, <3>3 DEF AtIn
  <2> QED
    BY <2>3, <2>4
<1> QED
  BY <1>1, <1>2, <1>3

\* Where all frames are copied the file is the last commit.
LEMMA FileCurrent ==
  ASSUME NEW s, SharedOK(s), s.mx = Ends(s.wal), s.backfill = s.mx, NEW p \in Page
  PROVE  s.db[p] = [val |-> s.want.val[p], key |-> Right(s)]
<1>0. s.mx \in Nat /\ s.backfill \in Nat
  BY Numbers DEF SharedOK
<1>1. AtIn(s.wal, s.db, p, 1, s.mx) = [val |-> s.want.val[p], key |-> Right(s)]
  BY DEF SharedOK, Kept
<1>2. \/ LatestIn(s.wal, p, 1, s.mx) = 0
      \/ LatestIn(s.wal, p, 1, s.mx) \in 1 .. s.backfill
  BY <1>0, LatestIsLast
<1>3. LatestIn(s.wal, p, 1, s.mx) \in 1 .. s.backfill =>
        s.db[p] = s.wal[LatestIn(s.wal, p, 1, s.mx)].page
  BY DEF SharedOK, Kept
<1>4. 0 \notin 1 .. s.backfill
  BY <1>0
<1> QED
  BY <1>1, <1>2, <1>3, <1>4 DEF AtIn

\* A snapshot up to the last commit is the last commit.
LEMMA CurrentView ==
  ASSUME NEW s, SharedOK(s), s.mx = Ends(s.wal), NEW k, k.lo \in Nat, k.lo >= 1,
         IF k.direct THEN s.backfill = s.mx
                     ELSE k.lo <= s.backfill + 1 /\ k.hi = s.mx,
         NEW p \in Page
  PROVE  ViewIn(s, k, p) = [val |-> s.want.val[p], key |-> Right(s)]
<1>0. s.mx \in Nat /\ s.backfill \in Nat /\ SharedTypes(s)
  BY Numbers DEF SharedOK
<1>1. CASE k.direct
  <2>1. ViewIn(s, k, p) = s.db[p]
    BY <1>1, NoFrames DEF ViewIn
  <2> QED
    BY <1>1, <2>1, FileCurrent
<1>2. CASE ~k.direct
  <2>1. ViewIn(s, k, p) = AtIn(s.wal, s.db, p, k.lo, s.mx)
    BY <1>2 DEF ViewIn
  <2>2. LatestIn(s.wal, p, 1, s.mx) \in 1 .. s.backfill =>
          s.db[p] = s.wal[LatestIn(s.wal, p, 1, s.mx)].page
    BY DEF SharedOK, Kept
  <2>3. k.lo <= s.backfill + 1
    BY <1>2
  <2>4. AtIn(s.wal, s.db, p, k.lo, s.mx) = AtIn(s.wal, s.db, p, 1, s.mx)
    BY <1>0, <2>2, <2>3, FetchFrom
  <2>5. AtIn(s.wal, s.db, p, 1, s.mx) = [val |-> s.want.val[p], key |-> Right(s)]
    BY DEF SharedOK, Kept
  <2> QED
    BY <2>1, <2>4, <2>5
<1> QED
  BY <1>1, <1>2

\* Who writes has the last commit as its snapshot, and so the right key.
LEMMA WriterCurrent ==
  ASSUME NEW s, SharedOK(s), NEW k, ConnOK(k, s), Writing(k)
  PROVE  /\ s.mx = Ends(s.wal) /\ Len(s.wal) = s.mx + k.own /\ k.own \in Nat
         /\ k.read = Right(s)
         /\ \A p \in Page : k.seen[p] = s.want.val[p]
<1>1. Active(k) /\ SnapshotOK(k, s) /\ WritingOK(k, s) /\ k.warm
  BY DEF ConnOK, Writing, Active
<1>2. s.mx = Ends(s.wal) /\ k.lo \in Nat /\ k.own \in Nat
  BY <1>1 DEF ConnOK, Connection
<1>3. Len(s.wal) = s.mx + k.own
  BY <1>1, <1>2 DEF WritingOK
<1>4. /\ k.lo >= 1
      /\ IF k.direct THEN s.backfill = s.mx
                     ELSE k.lo <= s.backfill + 1 /\ k.hi = s.mx
  BY <1>1 DEF SnapshotOK, WritingOK
<1>5. \A p \in Page : ViewIn(s, k, p) = [val |-> s.want.val[p], key |-> Right(s)]
  BY <1>2, <1>4, CurrentView
<1>6. \A p \in Page : ViewIn(s, k, p) = [val |-> k.seen[p], key |-> k.read]
  BY <1>1 DEF SnapshotOK
<1>7. 1 \in Page
  BY WalAssumption DEF Page
<1> QED
  BY <1>2, <1>3, <1>5, <1>6, <1>7

-----------------------------------------------------------------------------
(* The state and the record of what is shared.                             *)

\* Shared, field by field.
LEMMA Fields ==
  /\ Shared.mode = mode /\ Shared.db = db /\ Shared.wal = wal
  /\ Shared.mx = mx /\ Shared.backfill = backfill /\ Shared.want = want
BY DEF Shared

\* The same after a step.
LEMMA NextFields ==
  ASSUME NEW t, t = Shared'
  PROVE  /\ t.mode = mode' /\ t.db = db' /\ t.wal = wal'
         /\ t.mx = mx' /\ t.backfill = backfill' /\ t.want = want'
BY DEF Shared

\* The operators of the specification are those of the proofs.
LEMMA Operators ==
  /\ \A p, lo, hi : /\ Latest(p, lo, hi) = LatestIn(wal, p, lo, hi)
                    /\ At(p, lo, hi) = AtIn(wal, db, p, lo, hi)
  /\ \A k, p : View(k, p) = ViewIn(Shared, k, p)
  /\ \A pass : KeyFor(pass) = KeyIn(db, pass)
  /\ RightKey = Right(Shared)
BY DEF Latest, At, LatestIn, AtIn, View, ViewIn, KeyFor, KeyIn, HeaderSalt,
       RightKey, Right, Shared

\* A step of one connection.
LEMMA StepOne ==
  ASSUME IInv, NEW c \in Conn, NEW k, NEW t, t = Shared',
         conn' = [conn EXCEPT ![c] = k],
         SharedOK(t), ConnOK(k, t),
         \A d \in Conn \ {c} : /\ ConnOK(conn[d], t)
                               /\ PairOK(k, conn[d], t) /\ PairOK(conn[d], k, t),
         t.backfill = backfill \/ \A d \in Conn \ {c} : ~Copying(conn[d]),
         ~k.warm /\ (\A d \in Conn \ {c} : ~conn[d].warm) =>
           t.mx = 0 /\ t.backfill = 0,
         ~Writing(k) /\ (\A d \in Conn \ {c} : ~Writing(conn[d])) =>
           Len(t.wal) = Ends(t.wal)
  PROVE  IInv'
<1>1. conn = [d \in Conn |-> conn[d]]
  BY DEF IInv
<1>2. conn'[c] = k /\ \A d \in Conn \ {c} : conn'[d] = conn[d]
  BY <1>1
<1>3. conn' = [d \in Conn |-> conn'[d]]
  BY <1>1
<1>4. t.mx = mx' /\ t.backfill = backfill' /\ t.wal = wal'
  BY NextFields
<1>5. SharedOK(Shared')
  OBVIOUS
<1>6. \A d \in Conn : ConnOK(conn'[d], Shared')
  BY <1>2
<1>7. ASSUME NEW d \in Conn, NEW e \in Conn, d # e
      PROVE  PairOK(conn'[d], conn'[e], Shared')
  <2>1. CASE d = c \/ e = c
    BY <1>2, <1>7, <2>1
  <2>2. CASE d # c /\ e # c
    <3>1. PairOK(conn[d], conn[e], Shared)
      BY <1>7 DEF IInv
    <3>2. Shared.backfill = backfill
      BY Fields
    <3>3. PairOK(conn[d], conn[e], t)
      BY <3>1, <3>2, <2>2 DEF PairOK
    <3> QED
      BY <3>3, <1>2, <2>2
  <2> QED
    BY <2>1, <2>2
<1>8. (\A d \in Conn : ~conn'[d].warm) => mx' = 0 /\ backfill' = 0
  BY <1>2, <1>4
<1>9. (\A d \in Conn : ~Writing(conn'[d])) => Len(wal') = Ends(wal')
  BY <1>2, <1>4
<1> QED
  BY <1>3, <1>5, <1>6, <1>7, <1>8, <1>9 DEF IInv

\* A connection that does not write needs the frames of the index only, and
\* from a log that grows it takes nothing.
LEMMA OtherKeeps ==
  ASSUME NEW s, NEW t, SharedTypes(s), SharedTypes(t), NEW k, ConnOK(k, s),
         ~Writing(k), t.mode = s.mode, t.db = s.db, t.backfill = s.backfill,
         k.cur \/ ~s.mode.auth => Right(t) = Right(s),
         s.mx <= t.mx, k.st = "closing" => t.mx = s.mx,
         k.warm => t.mx = Ends(t.wal),
         \A i \in 1 .. s.mx : t.wal[i] = s.wal[i]
  PROVE  ConnOK(k, t)
<1>1. /\ s.mx \in Nat /\ s.backfill \in Nat /\ t.mx \in Nat
      /\ s.backfill <= s.mx /\ t.backfill = s.backfill
  BY Numbers
<1>2. k \in Connection
  BY DEF ConnOK
<1>3. k.st # "closed" => KeysOK(k, t)
  BY DEF ConnOK, KeysOK, Unwritable, Writing
<1>4. Active(k) => SnapshotOK(k, t)
  <2> SUFFICES ASSUME Active(k) PROVE SnapshotOK(k, t)
    OBVIOUS
  <2>1. SnapshotOK(k, s) /\ k.lo \in Nat /\ k.hi \in Nat
    BY <1>2 DEF ConnOK, Connection
  <2>2. ASSUME NEW p \in Page PROVE ViewIn(t, k, p) = ViewIn(s, k, p)
    <3>1. CASE k.direct
      <4>1. k.lo >= 1
        BY <2>1 DEF SnapshotOK
      <4>2. AtIn(t.wal, t.db, p, k.lo, 0) = t.db[p]
        BY <2>1, <4>1, NoFrames
      <4>3. AtIn(s.wal, s.db, p, k.lo, 0) = s.db[p]
        BY <2>1, <4>1, NoFrames
      <4> QED
        BY <3>1, <4>2, <4>3 DEF ViewIn
    <3>2. CASE ~k.direct
      <4>1. k.lo >= 1 /\ k.hi <= s.mx
        BY <2>1, <3>2 DEF SnapshotOK
      <4>2. \A i \in k.lo .. k.hi : t.wal[i] = s.wal[i]
        BY <1>1, <2>1, <4>1
      <4>3. AtIn(t.wal, s.db, p, k.lo, k.hi) = AtIn(s.wal, s.db, p, k.lo, k.hi)
        BY <2>1, <4>2, SameFrames
      <4> QED
        BY <3>2, <4>3 DEF ViewIn
    <3> QED
      BY <3>1, <3>2
  <2>3. k.lo >= 1 /\ \A p \in Page : ViewIn(t, k, p) = [val |-> k.seen[p], key |-> k.read]
    BY <2>1, <2>2 DEF SnapshotOK
  <2>4. ~k.direct => k.lo <= t.backfill + 1 /\ t.backfill <= k.hi /\ k.hi <= t.mx
    BY <1>1, <2>1 DEF SnapshotOK
  <2> QED
    BY <2>3, <2>4 DEF SnapshotOK
<1>5. Copying(k) => CopyingOK(k, t)
  <2> SUFFICES ASSUME Copying(k) PROVE CopyingOK(k, t)
    OBVIOUS
  <2>1. CopyingOK(k, s) /\ k.safe \in Nat /\ k.todo \in SUBSET Page
    BY <1>2 DEF ConnOK, Connection
  <2>2. t.backfill <= k.safe /\ k.safe <= s.mx /\ k.safe <= t.mx
    BY <1>1, <2>1 DEF CopyingOK
  <2>3. /\ k.st = "ckpt" => t.backfill < t.mx
        /\ k.st = "closing" => k.safe = t.mx
    BY <1>1, <2>1 DEF CopyingOK
  <2>4. ASSUME NEW p \in k.todo
        PROVE  LatestIn(t.wal, p, 1, k.safe) \in t.backfill + 1 .. k.safe
    <3>1. \A i \in 1 .. k.safe : t.wal[i] = s.wal[i]
      BY <1>1, <2>1, <2>2
    <3>2. LatestIn(t.wal, p, 1, k.safe) = LatestIn(s.wal, p, 1, k.safe)
      BY <2>1, <3>1, SameLatest
    <3> QED
      BY <3>2, <2>1 DEF CopyingOK
  <2>5. ASSUME NEW p \in Page,
               LatestIn(t.wal, p, 1, t.mx) \in t.backfill + 1 .. k.safe
        PROVE  p \in k.todo \/ t.db[p] = t.wal[LatestIn(t.wal, p, 1, t.mx)].page
    <3>1. LatestIn(t.wal, p, 1, t.mx) \in 1 .. s.mx
      BY <1>1, <2>1, <2>2, <2>5
    <3>2. LatestIn(t.wal, p, 1, s.mx) = LatestIn(t.wal, p, 1, t.mx)
      BY <1>1, <3>1, LatestWithin
    <3>3. LatestIn(t.wal, p, 1, s.mx) = LatestIn(s.wal, p, 1, s.mx)
      BY <1>1, SameLatest
    <3>4. p \in k.todo \/ s.db[p] = s.wal[LatestIn(s.wal, p, 1, s.mx)].page
      BY <1>1, <2>1, <2>5, <3>2, <3>3 DEF CopyingOK
    <3> QED
      BY <3>1, <3>2, <3>3, <3>4
  <2> QED
    BY <2>2, <2>3, <2>4, <2>5 DEF CopyingOK
<1> QED
  BY <1>2, <1>3, <1>4, <1>5 DEF ConnOK

\* t has another end of its log than s, without a commit.
TailOf(s, t) ==
  /\ s.mx = Ends(s.wal)
  /\ t.mode = s.mode /\ t.db = s.db /\ t.mx = s.mx /\ t.backfill = s.backfill
  /\ t.want = s.want
  /\ t.wal \in Seq(GoodFrame) /\ Len(t.wal) <= MaxFrames /\ s.mx <= Len(t.wal)
  /\ \A i \in 1 .. s.mx : t.wal[i] = s.wal[i]
  /\ \A i \in s.mx + 1 .. Len(t.wal) :
       ~t.wal[i].commit /\ (~s.mode.auth => t.wal[i].page.key = Right(s))

\* What is shared when only frames behind the last commit change.
LEMMA TailKeeps ==
  ASSUME NEW s, NEW t, SharedOK(s), TailOf(s, t)
  PROVE  SharedOK(t) /\ t.mx = Ends(t.wal)
<1>0. /\ s.mx = Ends(s.wal)
      /\ t.mode = s.mode /\ t.db = s.db /\ t.mx = s.mx /\ t.backfill = s.backfill
      /\ t.want = s.want
      /\ t.wal \in Seq(GoodFrame) /\ Len(t.wal) <= MaxFrames /\ s.mx <= Len(t.wal)
      /\ \A i \in 1 .. s.mx : t.wal[i] = s.wal[i]
      /\ \A i \in s.mx + 1 .. Len(t.wal) :
           ~t.wal[i].commit /\ (~s.mode.auth => t.wal[i].page.key = Right(s))
  BY DEF TailOf
<1> USE <1>0
<1>1. /\ s.mx \in Nat /\ s.backfill \in Nat /\ s.backfill <= s.mx
      /\ s.mx <= Len(s.wal) /\ SharedTypes(s) /\ Len(s.wal) \in Nat
  BY Numbers DEF SharedOK
<1>2. SharedTypes(t)
  BY <1>1 DEF SharedTypes
<1>3. Len(t.wal) \in Nat
  BY <1>2, Numbers
<1>4. Right(t) = Right(s)
  BY DEF Right
<1>5. Ends(t.wal) = s.mx
  <2>1. \A i \in 1 .. Len(s.wal) : s.wal[i].commit => i <= s.mx
    BY <1>1, EndsIsLast
  <2>2. s.mx = 0 \/ s.wal[s.mx].commit
    BY <1>1, EndsIsLast
  <2>3. s.mx = 0 \/ t.wal[s.mx].commit
    BY <1>1, <2>2
  <2>4. s.mx \in 0 .. Len(t.wal)
    BY <1>1, <1>3
  <2>5. \A i \in 1 .. Len(t.wal) : t.wal[i].commit => i <= s.mx
    BY <1>1, <1>3
  <2> QED
    BY <1>3, <2>3, <2>4, <2>5, EndsIs
<1>6. \A p \in Page : /\ LatestIn(t.wal, p, 1, s.mx) = LatestIn(s.wal, p, 1, s.mx)
                      /\ AtIn(t.wal, s.db, p, 1, s.mx) = AtIn(s.wal, s.db, p, 1, s.mx)
  <2> SUFFICES ASSUME NEW p \in Page
               PROVE  /\ LatestIn(t.wal, p, 1, s.mx) = LatestIn(s.wal, p, 1, s.mx)
                      /\ AtIn(t.wal, s.db, p, 1, s.mx) = AtIn(s.wal, s.db, p, 1, s.mx)
    OBVIOUS
  <2>1. 1 \in Nat /\ s.mx \in Nat /\ \A i \in 1 .. s.mx : t.wal[i] = s.wal[i]
    BY <1>1
  <2>2. LatestIn(t.wal, p, 1, s.mx) = LatestIn(s.wal, p, 1, s.mx)
    BY <2>1, SameLatest
  <2>3. AtIn(t.wal, s.db, p, 1, s.mx) = AtIn(s.wal, s.db, p, 1, s.mx)
    BY <2>1, SameFrames
  <2> QED
    BY <2>2, <2>3
<1>7. Kept(t)
  <2>1. \A p \in Page : AtIn(t.wal, t.db, p, 1, Ends(t.wal)) =
                          [val |-> t.want.val[p], key |-> Right(t)]
    BY <1>4, <1>5, <1>6 DEF SharedOK, Kept
  <2>2. \A p \in Page : LatestIn(t.wal, p, 1, t.mx) \in 1 .. t.backfill =>
                          t.db[p] = t.wal[LatestIn(t.wal, p, 1, t.mx)].page
    BY <1>1, <1>6 DEF SharedOK, Kept
  <2> QED
    BY <2>1, <2>2 DEF Kept
<1>8. Salted(t)
  <2>1. ~t.mode.auth => \A i \in 1 .. Len(t.wal) : t.wal[i].page.key = Right(t)
    <3>1. ~s.mode.auth => \A i \in 1 .. s.mx : s.wal[i].page.key = Right(s)
      BY <1>1 DEF SharedOK, Salted
    <3>2. \A i \in 1 .. Len(t.wal) : i \in 1 .. s.mx \/ i \in s.mx + 1 .. Len(t.wal)
      BY <1>1, <1>3
    <3> QED
      BY <1>4, <3>1, <3>2
  <2>2. t.want.pass # None => \A i \in 1 .. Ends(t.wal) :
          t.wal[i].pg = 1 => t.wal[i].page.key[2] = t.db[1].key[2]
    BY <1>1, <1>5 DEF SharedOK, Salted
  <2>3. ~t.mode.auth => \A p \in Page : t.db[p].key = Right(t)
    BY <1>4 DEF SharedOK, Salted
  <2> QED
    BY <2>1, <2>2, <2>3 DEF Salted
<1> QED
  BY <1>2, <1>5, <1>7, <1>8 DEF SharedOK

-----------------------------------------------------------------------------
(* One connection.                                                         *)

\* What the invariant says of one connection and its partners.
LEMMA Here ==
  ASSUME IInv, NEW c \in Conn
  PROVE  /\ SharedOK(Shared) /\ SharedTypes(Shared)
         /\ ConnOK(conn[c], Shared) /\ conn[c] \in Connection
         /\ conn = [d \in Conn |-> conn[d]]
         /\ \A d \in Conn \ {c} : /\ ConnOK(conn[d], Shared)
                                  /\ PairOK(conn[c], conn[d], Shared)
                                  /\ PairOK(conn[d], conn[c], Shared)
BY DEF IInv, SharedOK, ConnOK

\* A connection without a transaction or a checkpoint is in nobody's way.
LEMMA QuietPair ==
  ASSUME NEW s, NEW k, NEW j, ~Active(k), ~Copying(k),
         j.st = "closing" => ~k.warm
  PROVE  PairOK(k, j, s) /\ PairOK(j, k, s)
BY DEF PairOK, Active, Copying, Writing

\* A closed connection satisfies everything.
LEMMA ClosedIs ==
  /\ Closed \in Connection /\ Closed.st = "closed" /\ ~Closed.warm
  /\ ~Active(Closed) /\ ~Copying(Closed) /\ ~Writing(Closed)
  /\ \A s : ConnOK(Closed, s)
<1>1. Clean \in Content /\ Plain \in Key /\ {} \in SUBSET Page
  BY DEF Clean, Content, Key
<1>2. Closed \in Connection
  BY <1>1 DEF Closed, Connection
<1>3. /\ Closed.st = "closed" /\ Closed.own = 0 /\ Closed.dirty = Clean
      /\ Closed.warm = FALSE
  BY DEF Closed
<1> QED
  BY <1>2, <1>3 DEF ConnOK, Active, Copying, Writing

\* A connection that is idle.
LEMMA IdleIs ==
  ASSUME NEW k, k \in Connection
  PROVE  /\ Idle(k) \in Connection /\ Idle(k).st = "idle"
         /\ Idle(k).read = k.read /\ Idle(k).write = k.write
         /\ Idle(k).warm = k.warm /\ Idle(k).cur = k.cur
         /\ Idle(k).own = 0 /\ Idle(k).dirty = Clean
         /\ ~Active(Idle(k)) /\ ~Copying(Idle(k)) /\ ~Writing(Idle(k))
<1>1. Clean \in Content /\ {} \in SUBSET Page
  BY DEF Clean, Content
<1>2. /\ k.read \in Key /\ k.write \in Key /\ k.warm \in BOOLEAN
      /\ k.cur \in BOOLEAN
  BY DEF Connection
<1>3. Idle(k) = [st |-> "idle", read |-> k.read, write |-> k.write,
                 warm |-> k.warm, lo |-> 1, hi |-> 0, direct |-> FALSE,
                 dirty |-> Clean, own |-> 0, todo |-> {}, safe |-> 0,
                 cur |-> k.cur, seen |-> Clean]
  <2>1. PICK r : r = [Closed EXCEPT !.st = "idle", !.read = k.read, !.write = k.write]
    OBVIOUS
  <2>2. r = [st |-> "idle", read |-> k.read, write |-> k.write,
             warm |-> FALSE, lo |-> 1, hi |-> 0, direct |-> FALSE,
             dirty |-> Clean, own |-> 0, todo |-> {}, safe |-> 0,
             cur |-> FALSE, seen |-> Clean]
    BY <2>1 DEF Closed
  <2>3. Idle(k) = [r EXCEPT !.warm = k.warm, !.cur = k.cur]
    BY <2>1, Zenon DEF Idle
  <2> QED
    BY <2>2, <2>3
<1>4. Idle(k) \in Connection
  BY <1>1, <1>2, <1>3 DEF Connection
<1> QED
  BY <1>3, <1>4 DEF Active, Copying, Writing

\* Ending a transaction keeps what is said of the connection.
LEMMA IdleConn ==
  ASSUME NEW s, NEW k, ConnOK(k, s), k.st # "closed", k.st # "rekey"
  PROVE  ConnOK(Idle(k), s)
<1>1. /\ Idle(k) \in Connection /\ Idle(k).st = "idle"
      /\ Idle(k).read = k.read /\ Idle(k).write = k.write
      /\ Idle(k).warm = k.warm /\ Idle(k).cur = k.cur
      /\ Idle(k).own = 0 /\ Idle(k).dirty = Clean
      /\ ~Active(Idle(k)) /\ ~Copying(Idle(k)) /\ ~Writing(Idle(k))
  BY IdleIs DEF ConnOK
<1>2. KeysOK(k, s) /\ (k.warm => s.mx = Ends(s.wal))
  BY DEF ConnOK
<1>3. KeysOK(Idle(k), s)
  BY <1>1, <1>2 DEF KeysOK, Unwritable
<1> QED
  BY <1>1, <1>2, <1>3 DEF ConnOK

\* A step of one connection that touches nothing it shares.
LEMMA QuietStep ==
  ASSUME IInv, NEW c \in Conn, NEW k, conn' = [conn EXCEPT ![c] = k],
         UNCHANGED <<mode, db, wal, mx, backfill, want>>,
         ConnOK(k, Shared),
         \A d \in Conn \ {c} : /\ PairOK(k, conn[d], Shared)
                               /\ PairOK(conn[d], k, Shared),
         k.warm \/ ~conn[c].warm, Writing(k) \/ ~Writing(conn[c])
  PROVE  IInv'
<1>1. Shared' = Shared
  BY DEF Shared
<1>2. /\ Shared.mx = mx /\ Shared.backfill = backfill /\ Shared.wal = wal
  BY Fields
<1>3. SharedOK(Shared) /\ \A d \in Conn \ {c} : ConnOK(conn[d], Shared)
  BY Here
<1>4. ~k.warm /\ (\A d \in Conn \ {c} : ~conn[d].warm) => mx = 0 /\ backfill = 0
  BY DEF IInv
<1>5. ~Writing(k) /\ (\A d \in Conn \ {c} : ~Writing(conn[d])) => Len(wal) = Ends(wal)
  BY DEF IInv
<1> QED
  BY <1>1, <1>2, <1>3, <1>4, <1>5, StepOne

\* The end of a read, of a checkpoint that fails: back to idle.
LEMMA IdleStep ==
  ASSUME IInv, NEW c \in Conn, Set(c, Idle(conn[c])),
         UNCHANGED <<mode, db, wal, mx, backfill, want>>,
         conn[c].st \in {"idle", "read", "ckpt"}
  PROVE  IInv'
<1>1. ConnOK(conn[c], Shared) /\ conn[c] \in Connection
  BY Here
<1>2. ConnOK(Idle(conn[c]), Shared)
  BY <1>1, IdleConn
<1>3. /\ ~Active(Idle(conn[c])) /\ ~Copying(Idle(conn[c])) /\ ~Writing(Idle(conn[c]))
      /\ Idle(conn[c]).warm = conn[c].warm
  BY <1>1, IdleIs
<1>4. \A d \in Conn \ {c} : conn[d].st = "closing" => ~conn[c].warm
  BY Here DEF PairOK
<1>5. \A d \in Conn \ {c} : /\ PairOK(Idle(conn[c]), conn[d], Shared)
                            /\ PairOK(conn[d], Idle(conn[c]), Shared)
  BY <1>3, <1>4, QuietPair
<1>6. ~Writing(conn[c]) /\ (Idle(conn[c]).warm \/ ~conn[c].warm)
  BY <1>3 DEF Writing
<1> QED
  BY <1>2, <1>5, <1>6, QuietStep DEF Set

\* sqlite3WalEndReadTransaction: the snapshot is given back.
LEMMA EndReadKeeps == ASSUME IInv, NEW c \in Conn, EndRead(c) PROVE IInv'
BY IdleStep DEF EndRead

\* A connection is opened: with the right key, if the cipher has no tags.
LEMMA OpenKeeps ==
  ASSUME Sound, IInv, NEW c \in Conn, NEW pass \in Pass \cup {None}, Open(c, pass)
  PROVE  IInv'
<1> DEFINE key == KeyIn(db, pass)
<1>1. /\ SharedOK(Shared) /\ SharedTypes(Shared) /\ ConnOK(conn[c], Shared)
      /\ Shared.db = db /\ Shared.want = want /\ Shared.mode = mode
  BY Here, Fields
<1>2. conn[c] = Closed
  BY <1>1 DEF Open, ConnOK
<1>3. PICK k : k = [Closed EXCEPT !.st = "idle", !.read = key, !.write = key,
                                  !.cur = pass = want.pass]
  OBVIOUS
<1>4. conn' = [conn EXCEPT ![c] = k] /\ UNCHANGED <<mode, db, wal, mx, backfill, want>>
  BY <1>3, Operators DEF Open, Set
<1>5. 1 \in Page
  BY WalAssumption DEF Page
<1>6. db[1].key \in Key
  BY <1>1, <1>5 DEF SharedTypes, GoodPage
<1>7. db[1].key[2] \in Salts \cup {Header}
  BY <1>6 DEF Key, Plain
<1>8. key \in Key
  BY <1>7 DEF KeyIn, Key
<1>9. k = [st |-> "idle", read |-> key, write |-> key,
           warm |-> FALSE, lo |-> 1, hi |-> 0, direct |-> FALSE,
           dirty |-> Clean, own |-> 0, todo |-> {}, safe |-> 0,
           cur |-> (pass = want.pass), seen |-> Clean]
  BY <1>3 DEF Closed
<1>10. Clean \in Content /\ {} \in SUBSET Page /\ (pass = want.pass) \in BOOLEAN
  BY DEF Clean, Content
<1>11. k \in Connection
  BY <1>8, <1>9, <1>10 DEF Connection
<1>12. /\ k.st = "idle" /\ k.read = key /\ k.write = key /\ ~k.warm
       /\ k.own = 0 /\ k.dirty = Clean /\ (k.cur <=> pass = want.pass)
  BY <1>9
<1>13. ~Active(k) /\ ~Copying(k) /\ ~Writing(k)
  BY <1>12 DEF Active, Copying, Writing
<1>14. pass = want.pass => key = Right(Shared)
  BY <1>1 DEF Right
<1>15. ~mode.auth => pass = want.pass
  BY DEF Open, Allowed, Sound
<1>16. KeysOK(k, Shared)
  BY <1>1, <1>12, <1>14, <1>15 DEF KeysOK
<1>17. ConnOK(k, Shared)
  BY <1>11, <1>12, <1>13, <1>16 DEF ConnOK
<1>18. \A d \in Conn \ {c} : PairOK(k, conn[d], Shared) /\ PairOK(conn[d], k, Shared)
  BY <1>12, <1>13, QuietPair
<1>19. ~conn[c].warm /\ ~Writing(conn[c])
  BY <1>2, ClosedIs
<1> QED
  BY <1>4, <1>17, <1>18, <1>19, QuietStep

\* A snapshot is what it fetches, whatever else a connection does.
LEMMA SnapshotSame ==
  ASSUME NEW s, NEW k, NEW j, SnapshotOK(k, s),
         j.lo = k.lo, j.hi = k.hi, j.direct = k.direct, j.seen = k.seen, j.read = k.read
  PROVE  SnapshotOK(j, s)
BY DEF SnapshotOK, ViewIn

\* An active connection stays active, with the same snapshot.
LEMMA ActivePair ==
  ASSUME NEW s, NEW k, NEW j, NEW o, Active(k), Active(j),
         j.hi = k.hi, j.direct = k.direct, j.warm = k.warm,
         Writing(j) => (~Writing(o) /\ ~Writing(k)) \/ Writing(k),
         PairOK(k, o, s), PairOK(o, k, s)
  PROVE  PairOK(j, o, s) /\ PairOK(o, j, s)
<1>1. ~Copying(k) /\ ~Copying(j)
  BY DEF Active, Copying
<1>2. k.st # "closing" /\ j.st # "closing"
  BY DEF Active
<1> QED
  BY <1>1, <1>2 DEF PairOK

\* If nobody writes, the log ends with its last commit.
LEMMA NoWriters ==
  ASSUME IInv, Writers = {}
  PROVE  Len(wal) = Ends(wal) /\ \A c \in Conn : ~Writing(conn[c])
<1>1. \A c \in Conn : ~Writing(conn[c])
  BY DEF Writers, Writing
<1> QED
  BY <1>1 DEF IInv

\* sqlite3WalBeginWriteTransaction: only on the latest snapshot, one at a time.
LEMMA BeginWriteKeeps ==
  ASSUME Sound, IInv, NEW c \in Conn, BeginWrite(c)
  PROVE  IInv'
<1>1. /\ ConnOK(conn[c], Shared) /\ conn[c] \in Connection /\ SharedTypes(Shared)
      /\ Shared.wal = wal /\ Shared.mx = mx /\ Shared.backfill = backfill
  BY Here, Fields
<1>2. PICK k : k = [conn[c] EXCEPT !.st = "write"]
  OBVIOUS
<1>3. /\ conn[c].st = "read" /\ conn' = [conn EXCEPT ![c] = k] /\ Writers = {}
      /\ conn[c].hi = mx /\ (conn[c].direct => backfill = mx)
      /\ conn[c].write = conn[c].read
      /\ UNCHANGED <<mode, db, wal, mx, backfill, want>>
  BY <1>2 DEF BeginWrite, Set, MayWrite, Sound
<1>4. k \in Connection
  BY <1>1, <1>2 DEF Connection
<1>5. /\ k.st = "write" /\ k.read = conn[c].read /\ k.write = conn[c].write
      /\ k.warm = conn[c].warm /\ k.lo = conn[c].lo /\ k.hi = conn[c].hi
      /\ k.direct = conn[c].direct /\ k.dirty = conn[c].dirty /\ k.own = conn[c].own
      /\ k.cur = conn[c].cur /\ k.seen = conn[c].seen
  BY <1>1, <1>2 DEF Connection
<1>6. Active(conn[c]) /\ ~Writing(conn[c]) /\ Active(k) /\ Writing(k) /\ ~Copying(k)
  BY <1>3, <1>5 DEF Active, Writing, Copying
<1>7. /\ KeysOK(conn[c], Shared) /\ SnapshotOK(conn[c], Shared) /\ conn[c].warm
      /\ mx = Ends(wal) /\ conn[c].own = 0 /\ conn[c].dirty = Clean
  BY <1>1, <1>3, <1>6 DEF ConnOK
<1>8. KeysOK(k, Shared)
  BY <1>3, <1>5, <1>7 DEF KeysOK
<1>9. SnapshotOK(k, Shared)
  BY <1>5, <1>7, SnapshotSame
<1>10. Len(wal) = Ends(wal) /\ \A d \in Conn : ~Writing(conn[d])
  BY <1>3, NoWriters
<1>11. Clean \in [Page -> Vals \cup {None}]
  BY DEF Clean
<1>12. mx \in Nat /\ Len(wal) \in Nat
  BY <1>1, Numbers
<1>13. WritingOK(k, Shared)
  BY <1>1, <1>3, <1>5, <1>7, <1>10, <1>11, <1>12 DEF WritingOK
<1>14. ConnOK(k, Shared)
  BY <1>1, <1>4, <1>5, <1>6, <1>7, <1>8, <1>9, <1>13 DEF ConnOK
<1>15. \A d \in Conn \ {c} : PairOK(k, conn[d], Shared) /\ PairOK(conn[d], k, Shared)
  BY <1>5, <1>6, <1>10, Here, ActivePair
<1> QED
  BY <1>3, <1>5, <1>6, <1>7, <1>14, <1>15, QuietStep

\* A statement changes a page.
LEMMA WriteKeeps ==
  ASSUME IInv, NEW c \in Conn, NEW p \in Page, NEW v \in Vals, Write(c, p, v)
  PROVE  IInv'
<1>1. ConnOK(conn[c], Shared) /\ conn[c] \in Connection
  BY Here
<1>2. PICK k : k = [conn[c] EXCEPT !.dirty[p] = v]
  OBVIOUS
<1>3. /\ conn[c].st = "write" /\ conn' = [conn EXCEPT ![c] = k]
      /\ UNCHANGED <<mode, db, wal, mx, backfill, want>>
  BY <1>2 DEF Write, Set
<1>4. /\ k.st = "write" /\ k.read = conn[c].read /\ k.write = conn[c].write
      /\ k.warm = conn[c].warm /\ k.lo = conn[c].lo /\ k.hi = conn[c].hi
      /\ k.direct = conn[c].direct /\ k.own = conn[c].own
      /\ k.cur = conn[c].cur /\ k.seen = conn[c].seen
      /\ k.dirty = [conn[c].dirty EXCEPT ![p] = v]
  BY <1>1, <1>2, <1>3 DEF Connection
<1>5. Active(conn[c]) /\ Writing(conn[c]) /\ Active(k) /\ Writing(k) /\ ~Copying(k)
  BY <1>3, <1>4 DEF Active, Writing, Copying
<1>6. /\ KeysOK(conn[c], Shared) /\ SnapshotOK(conn[c], Shared) /\ conn[c].warm
      /\ Shared.mx = Ends(Shared.wal) /\ WritingOK(conn[c], Shared)
  BY <1>1, <1>3, <1>5 DEF ConnOK
<1>7. k.dirty \in [Page -> Vals \cup {None}]
  BY <1>4, <1>6 DEF WritingOK
<1>8. k.dirty \in Content
  BY <1>7 DEF Content
<1>9. k \in Connection
  BY <1>1, <1>2, <1>4, <1>8 DEF Connection
<1>10. KeysOK(k, Shared)
  BY <1>3, <1>4, <1>6 DEF KeysOK, Unwritable
<1>11. SnapshotOK(k, Shared)
  BY <1>4, <1>6, SnapshotSame
<1>12. WritingOK(k, Shared)
  BY <1>4, <1>6, <1>7 DEF WritingOK
<1>13. ConnOK(k, Shared)
  BY <1>4, <1>5, <1>6, <1>9, <1>10, <1>11, <1>12 DEF ConnOK
<1>14. \A d \in Conn \ {c} : PairOK(k, conn[d], Shared) /\ PairOK(conn[d], k, Shared)
  BY <1>4, <1>5, Here, ActivePair
<1> QED
  BY <1>3, <1>4, <1>5, <1>6, <1>13, <1>14, QuietStep

-----------------------------------------------------------------------------
(* A transaction begins.                                                   *)

\* Whoever recovers the index finds the last commit.
LEMMA RecoveryFinds ==
  ASSUME Sound, SharedOK(Shared), NEW k, ~mode.auth => k = RightKey
  PROVE  Recovered(k) = Ends(wal) /\ ~RecoveryFails(k)
<1>1. mode \in Modes /\ SharedTypes(Shared) /\ Shared.wal = wal /\ Shared.mode = mode
  BY Fields DEF SharedOK, SharedTypes
<1>2. mode.auth => ~mode.legacy
  BY <1>1 DEF Sound
<1>3. DOMAIN wal = 1 .. Len(wal) /\ Len(wal) \in Nat
  BY <1>1, Numbers
<1>4. ~mode.auth => \A i \in 1 .. Len(wal) : wal[i].page.key = RightKey
  BY <1>1, Operators DEF SharedOK, Salted
<1>5. \A i \in 1 .. Len(wal) : Valid(k, wal[i])
  BY <1>2, <1>4 DEF Valid
<1>6. {i \in DOMAIN wal : wal[i].commit /\ \A j \in 1 .. i : Valid(k, wal[j])} =
      {i \in 1 .. Len(wal) : wal[i].commit}
  BY <1>3, <1>5
<1> QED
  BY <1>2, <1>6 DEF Recovered, Ends, RecoveryFails

\* walIndexReadHdr: the index a reader uses, its own or a recovered one, ends
\* at the last commit.
LEMMA IndexRight ==
  ASSUME Sound, IInv, NEW k, ~mode.auth => k = RightKey
  PROVE  /\ (IF IndexValid THEN mx ELSE Recovered(k)) = Ends(wal)
         /\ (IF IndexValid THEN backfill ELSE 0) = backfill
         /\ mx = Ends(wal) \/ (backfill = 0 /\ \A d \in Conn : ~conn[d].warm)
<1>1. Recovered(k) = Ends(wal)
  BY Here, RecoveryFinds DEF IInv
<1>2. CASE IndexValid
  <2>1. PICK d \in Conn : conn[d].warm
    BY <1>2 DEF IndexValid
  <2>2. mx = Ends(wal)
    BY <2>1, Here, Fields DEF ConnOK
  <2> QED
    BY <1>2, <2>2
<1>3. CASE ~IndexValid
  <2>1. \A d \in Conn : ~conn[d].warm
    BY <1>3 DEF IndexValid
  <2>2. backfill = 0
    BY <2>1 DEF IInv
  <2> QED
    BY <1>1, <1>3, <2>1, <2>2
<1> QED
  BY <1>2, <1>3

\* A connection that has not opened the log does not see it change.
LEMMA ColdKeeps ==
  ASSUME NEW s, NEW t, NEW k, ConnOK(k, s), ~k.warm,
         t.mode = s.mode, t.db = s.db, t.want = s.want
  PROVE  ConnOK(k, t)
<1>1. ~Active(k) /\ ~Copying(k) /\ ~Writing(k)
  BY DEF ConnOK, Active, Writing
<1>2. k.st # "closed" => KeysOK(k, t)
  BY DEF ConnOK, KeysOK, Unwritable, Right
<1> QED
  BY <1>1, <1>2 DEF ConnOK

\* The index says where the last commit ends.
LEMMA IndexShared ==
  ASSUME NEW s, NEW t, SharedOK(s), t.mode = s.mode, t.db = s.db, t.wal = s.wal,
         t.want = s.want, t.backfill = s.backfill, t.mx = Ends(s.wal),
         s.mx = Ends(s.wal) \/ s.backfill = 0
  PROVE  SharedOK(t) /\ t.mx = Ends(t.wal)
<1>1. SharedTypes(s) /\ Kept(s) /\ Salted(s)
  BY DEF SharedOK
<1>2. /\ s.mx \in Nat /\ s.backfill \in Nat /\ Len(s.wal) \in Nat
      /\ s.backfill <= s.mx
  BY <1>1, Numbers
<1>3. Ends(s.wal) \in 0 .. Len(s.wal)
  BY <1>2, EndsIsLast
<1>4. SharedTypes(t)
  <2>1. t.mx \in Nat /\ t.backfill <= t.mx /\ t.mx <= Len(t.wal)
    BY <1>2, <1>3
  <2> QED
    BY <1>1, <2>1 DEF SharedTypes
<1>5. Right(t) = Right(s)
  BY DEF Right
<1>6. t.mx = s.mx \/ 1 .. t.backfill = {}
  BY <1>2
<1>7. Kept(t)
  BY <1>1, <1>5, <1>6 DEF Kept
<1>8. Salted(t)
  BY <1>1, <1>5 DEF Salted
<1> QED
  BY <1>4, <1>7, <1>8 DEF SharedOK

\* What a connection holds that begins a transaction with a snapshot j.
LEMMA SnapshotTaken ==
  ASSUME NEW s, SharedOK(s), s.mx = Ends(s.wal), NEW k, k \in Connection,
         k.st \in {"read", "rekey"}, k.warm, k.own = 0,
         k.lo = s.backfill + 1, k.hi = s.mx, k.direct <=> s.mx = s.backfill,
         k.read = Right(s), k.seen = s.want.val,
         k.dirty = IF k.st = "rekey" THEN s.want.val ELSE Clean,
         k.st = "rekey" => Len(s.wal) = Ends(s.wal),
         KeysOK(k, s)
  PROVE  ConnOK(k, s)
<1>1. /\ s.mx \in Nat /\ s.backfill \in Nat /\ s.backfill <= s.mx
      /\ s.want.val \in [Page -> Vals] /\ Len(s.wal) \in Nat
  BY Numbers DEF SharedOK, SharedTypes
<1>2. k.lo \in Nat /\ k.lo >= 1
  BY <1>1
<1>3. IF k.direct THEN s.backfill = s.mx ELSE k.lo <= s.backfill + 1 /\ k.hi = s.mx
  BY <1>1
<1>4. \A p \in Page : ViewIn(s, k, p) = [val |-> s.want.val[p], key |-> Right(s)]
  BY <1>2, <1>3, CurrentView
<1>5. SnapshotOK(k, s)
  BY <1>1, <1>2, <1>4 DEF SnapshotOK
<1>6. Writing(k) => WritingOK(k, s)
  <2> SUFFICES ASSUME k.st = "rekey" PROVE WritingOK(k, s)
    BY DEF Writing
  <2>1. Len(s.wal) = Ends(s.wal) + k.own
    BY <1>1
  <2>2. k.dirty \in [Page -> Vals \cup {None}]
    BY <1>1
  <2>3. \A i \in s.mx + 1 .. s.mx + k.own : s.wal[i].page.key = k.write
    BY <1>1
  <2>4. \A p \in Page : k.dirty[p] # None /\ k.dirty[p] = k.seen[p]
    BY <1>1, WalAssumption
  <2> QED
    BY <2>1, <2>2, <2>3, <2>4 DEF WritingOK
<1>7. ~Copying(k) /\ k.st # "closed"
  BY DEF Copying
<1>8. ~Writing(k) => k.own = 0 /\ k.dirty = Clean
  BY DEF Writing
<1> QED
  BY <1>5, <1>6, <1>7, <1>8 DEF ConnOK

\* A new snapshot holds back no checkpoint that runs.
LEMMA BeginPair ==
  ASSUME NEW s, SharedTypes(s), NEW k, NEW j, Active(k), ConnOK(j, s),
         j.st # "closing", Writing(k) => ~Writing(j),
         k.direct <=> s.mx = s.backfill, k.hi = s.mx
  PROVE  PairOK(k, j, s) /\ PairOK(j, k, s)
<1>1. ~Copying(k) /\ k.st # "closing"
  BY DEF Active, Copying
<1>2. Copying(j) => j.safe <= s.mx /\ s.backfill < s.mx
  BY DEF Copying, ConnOK, CopyingOK
<1>3. s.mx \in Nat /\ s.backfill \in Nat
  BY Numbers
<1> QED
  BY <1>1, <1>2, <1>3 DEF PairOK

\* The connection j once it has the snapshot t gives it.
Taken(j, t) ==
  [j EXCEPT !.warm = TRUE, !.lo = t.backfill + 1, !.hi = t.mx,
            !.direct = t.mx = t.backfill, !.seen = t.want.val,
            !.dirty = IF j.st = "rekey" THEN t.want.val ELSE Clean]

\* And once it has failed to get one.
Left(j) == IF j.st = "rekey" THEN Restored(j) ELSE Idle(j)
Failed(j) == [Left(j) EXCEPT !.warm = TRUE]

\* leave_rekey with an error: the write cipher is that of reading, unless the
\* rekey was to remove it.
LEMMA RestoredIs ==
  ASSUME NEW k, k \in Connection
  PROVE  /\ Restored(k) \in Connection /\ Restored(k).st = "idle"
         /\ Restored(k).read = k.read
         /\ Restored(k).write = IF k.write = Plain THEN Plain ELSE k.read
         /\ Restored(k).warm = k.warm /\ Restored(k).cur = k.cur
         /\ Restored(k).own = 0 /\ Restored(k).dirty = Clean
<1>1. PICK i : i = Idle(k)
  OBVIOUS
<1>2. /\ i \in Connection /\ i.st = "idle" /\ i.read = k.read /\ i.write = k.write
      /\ i.warm = k.warm /\ i.cur = k.cur /\ i.own = 0 /\ i.dirty = Clean
  BY <1>1, IdleIs
<1>3. CASE k.write = Plain
  BY <1>1, <1>2, <1>3 DEF Restored
<1>4. CASE k.write # Plain
  <2>1. PICK j : j = [i EXCEPT !.write = k.read]
    OBVIOUS
  <2>2. Restored(k) = j
    BY <1>1, <1>4, <2>1 DEF Restored
  <2>3. k.read \in Key
    BY DEF Connection
  <2>4. /\ j \in Connection /\ j.st = "idle" /\ j.read = k.read /\ j.write = k.read
        /\ j.warm = k.warm /\ j.cur = k.cur /\ j.own = 0 /\ j.dirty = Clean
    BY <1>2, <2>1, <2>3 DEF Connection
  <2> QED
    BY <1>4, <2>2, <2>4
<1> QED
  BY <1>3, <1>4

\* What is left of a transaction that could not begin.
LEMMA FailedIs ==
  ASSUME NEW j \in Connection
  PROVE  /\ Failed(j) \in Connection /\ Failed(j).st = "idle"
         /\ Failed(j).read = j.read /\ Failed(j).cur = j.cur
         /\ Failed(j).write = IF j.st = "rekey" /\ j.write # Plain
                              THEN j.read ELSE j.write
         /\ Failed(j).warm /\ Failed(j).own = 0 /\ Failed(j).dirty = Clean
<1>1. PICK i : i = Left(j)
  OBVIOUS
<1>2. /\ i \in Connection /\ i.st = "idle" /\ i.read = j.read /\ i.cur = j.cur
      /\ i.write = IF j.st = "rekey" /\ j.write # Plain THEN j.read ELSE j.write
      /\ i.own = 0 /\ i.dirty = Clean
  <2>1. CASE j.st = "rekey"
    BY <1>1, <2>1, RestoredIs DEF Left
  <2>2. CASE j.st # "rekey"
    BY <1>1, <2>2, IdleIs DEF Left
  <2> QED
    BY <2>1, <2>2
<1>3. PICK k : k = [i EXCEPT !.warm = TRUE]
  OBVIOUS
<1>4. Failed(j) = k
  BY <1>1, <1>3 DEF Failed
<1>5. /\ k \in Connection /\ k.st = "idle" /\ k.read = i.read /\ k.write = i.write
      /\ k.warm /\ k.cur = i.cur /\ k.own = i.own /\ k.dirty = i.dirty
  BY <1>2, <1>3 DEF Connection
<1> QED
  BY <1>2, <1>4, <1>5

\* The parts of Begin, with what they come to.
LEMMA BeginIs ==
  ASSUME Sound, IInv, NEW c \in Conn, NEW j \in Connection, Begin(c, j),
         j.st \in {"read", "rekey"}, j.own = 0, j.dirty = Clean,
         j.read = conn[c].read, conn[c].st = "idle",
         NEW t, t = Shared'
  PROVE  /\ SharedOK(t) /\ t.mx = Ends(t.wal)
         /\ t.mode = mode /\ t.db = db /\ t.wal = wal /\ t.want = want
         /\ t.backfill = backfill
         /\ mx = t.mx \/ \A d \in Conn : ~conn[d].warm
         /\ \/ conn' = [conn EXCEPT ![c] = Failed(j)]
            \/ /\ j.read = Right(t)
               /\ conn' = [conn EXCEPT ![c] = Taken(j, t)]
<1>1. /\ SharedOK(Shared) /\ SharedTypes(Shared) /\ ConnOK(conn[c], Shared)
      /\ Shared.mode = mode /\ Shared.db = db /\ Shared.wal = wal
      /\ Shared.mx = mx /\ Shared.backfill = backfill /\ Shared.want = want
  BY Here, Fields
<1>2. ~mode.auth => j.read = RightKey
  BY <1>1, Operators DEF ConnOK, KeysOK
<1> DEFINE n == IF IndexValid THEN mx ELSE Recovered(j.read)
           b == IF IndexValid THEN backfill ELSE 0
<1>3. /\ n = Ends(wal) /\ b = backfill
      /\ mx = Ends(wal) \/ (backfill = 0 /\ \A d \in Conn : ~conn[d].warm)
  BY <1>2, IndexRight
<1>4. mx' = n /\ backfill' = b /\ UNCHANGED <<mode, db, wal, want>>
  BY DEF Begin
<1>5. /\ t.mode = mode /\ t.db = db /\ t.wal = wal /\ t.want = want
      /\ t.backfill = backfill /\ t.mx = Ends(wal)
  BY <1>3, <1>4, NextFields
<1>6. SharedOK(t) /\ t.mx = Ends(t.wal)
  BY <1>1, <1>3, <1>5, IndexShared
<1>7. PICK s : s = Snapshot(j, t.mx, t.backfill)
  OBVIOUS
<1>8. n = t.mx /\ b = t.backfill
  BY <1>3, <1>5
<1>9. IF View(s, 1).key = j.read
        THEN Set(c, [s EXCEPT !.seen = [p \in Page |-> View(s, p).val],
                              !.dirty = IF j.st = "rekey"
                                          THEN [p \in Page |-> View(s, p).val]
                                          ELSE Clean])
        ELSE Set(c, Failed(j))
  <2>1. PICK found : found = (IndexValid \/ ~RecoveryFails(j.read))
    OBVIOUS
  <2>2. found = TRUE
    BY <1>1, <1>2, <2>1, RecoveryFinds
  <2>3. IF found /\ View(s, 1).key = j.read
          THEN Set(c, [s EXCEPT !.seen = [p \in Page |-> View(s, p).val],
                                !.dirty = IF j.st = "rekey"
                                            THEN [p \in Page |-> View(s, p).val]
                                            ELSE Clean])
          ELSE Set(c, [Left(j) EXCEPT !.warm = found])
    BY <1>7, <1>8, <2>1, Zenon DEF Begin, Left
  <2> QED
    BY <2>2, <2>3, Zenon DEF Failed
<1>10. t.mx \in Nat /\ t.backfill \in Nat /\ t.backfill <= t.mx /\ t.want.val \in [Page -> Vals]
  BY <1>6, Numbers DEF SharedOK, SharedTypes
<1>11. /\ s.lo = t.backfill + 1 /\ s.hi = t.mx /\ (s.direct <=> t.mx = t.backfill)
  BY <1>7 DEF Snapshot, Connection
<1>12. ASSUME NEW p \in Page
       PROVE  View(s, p) = [val |-> t.want.val[p], key |-> Right(t)]
  <2>1. s.lo \in Nat /\ s.lo >= 1
    BY <1>10, <1>11
  <2>2. IF s.direct THEN t.backfill = t.mx ELSE s.lo <= t.backfill + 1 /\ s.hi = t.mx
    BY <1>10, <1>11
  <2>3. ViewIn(t, s, p) = [val |-> t.want.val[p], key |-> Right(t)]
    BY <1>6, <2>1, <2>2, CurrentView
  <2>4. View(s, p) = ViewIn(Shared, s, p)
    BY Operators
  <2>5. ViewIn(Shared, s, p) = ViewIn(t, s, p)
    BY <1>1, <1>5 DEF ViewIn
  <2> QED
    BY <2>3, <2>4, <2>5
<1>13. [p \in Page |-> View(s, p).val] = t.want.val
  BY <1>10, <1>12
<1>14. View(s, 1).key = Right(t)
  BY <1>12, WalAssumption DEF Page
<1>15. CASE j.read # Right(t)
  BY <1>3, <1>5, <1>6, <1>9, <1>14, <1>15 DEF Set
<1>16. CASE j.read = Right(t)
  <2>1. PICK k : k = [s EXCEPT !.seen = t.want.val,
                               !.dirty = IF j.st = "rekey" THEN t.want.val ELSE Clean]
    OBVIOUS
  <2>2. conn' = [conn EXCEPT ![c] = k]
    BY <1>9, <1>13, <1>14, <1>16, <2>1 DEF Set
  <2>3. k = Taken(j, t)
    BY <1>7, <2>1, Zenon DEF Snapshot, Taken
  <2> QED
    BY <1>3, <1>5, <1>6, <1>16, <2>2, <2>3
<1> QED
  BY <1>15, <1>16

\* lockBtree and walTryBeginRead: a snapshot that is begun is the last commit,
\* under the key that is wanted if page 1 makes sense.
LEMMA BeginKeeps ==
  ASSUME Sound, IInv, NEW c \in Conn, NEW j \in Connection, Begin(c, j),
         conn[c].st = "idle", j.st \in {"read", "rekey"}, j.own = 0, j.dirty = Clean,
         j.read = conn[c].read, j.cur = conn[c].cur,
         j.st = "read" => j.write = conn[c].write,
         j.st = "rekey" =>
           /\ Writers = {} /\ mode.auth /\ j.read # Plain
           /\ j.write[1] \in Pass \cup {None} /\ j.write = KeyIn(db, j.write[1])
  PROVE  IInv'
<1> PICK t : t = Shared'
  OBVIOUS
<1>1. /\ SharedOK(t) /\ t.mx = Ends(t.wal)
      /\ t.mode = mode /\ t.db = db /\ t.wal = wal /\ t.want = want
      /\ t.backfill = backfill
      /\ mx = t.mx \/ \A d \in Conn : ~conn[d].warm
  BY BeginIs
<1>2. SharedTypes(t) /\ t.mx \in Nat /\ t.backfill \in Nat /\ t.want.val \in [Page -> Vals]
  BY <1>1, Numbers DEF SharedOK, SharedTypes
<1>3. /\ Shared.mode = mode /\ Shared.db = db /\ Shared.wal = wal
      /\ Shared.mx = mx /\ Shared.backfill = backfill /\ Shared.want = want
      /\ ConnOK(conn[c], Shared) /\ conn[c] \in Connection
      /\ \A d \in Conn \ {c} : ConnOK(conn[d], Shared)
  BY Here, Fields
<1>4. ASSUME NEW d \in Conn, ConnOK(conn[d], Shared) PROVE ConnOK(conn[d], t)
  <2>1. CASE mx = t.mx
    <3>1. /\ mx' = mx /\ backfill' = backfill /\ mode' = mode /\ db' = db
          /\ wal' = wal /\ want' = want
      BY <1>1, <2>1, NextFields
    <3>2. t = Shared
      BY <3>1 DEF Shared
    <3> QED
      BY <1>4, <3>2
  <2>2. CASE ~conn[d].warm
    BY <1>1, <1>3, <1>4, <2>2, ColdKeeps
  <2> QED
    BY <1>1, <2>1, <2>2
<1>5. \A d \in Conn : conn[d].st # "closing"
  BY DEF Begin
<1>6. ~Writing(conn[c])
  BY DEF Writing
<1>7. (\A d \in Conn : ~Writing(conn[d])) => Len(t.wal) = Ends(t.wal)
  BY <1>1 DEF IInv
<1>8. CASE conn' = [conn EXCEPT ![c] = Failed(j)]
  <2>1. PICK k : k = Failed(j)
    OBVIOUS
  <2>2. conn' = [conn EXCEPT ![c] = k]
    BY <1>8, <2>1
  <2>3. /\ k \in Connection /\ k.st = "idle" /\ k.warm /\ k.own = 0
        /\ k.dirty = Clean /\ k.read = conn[c].read /\ k.cur = conn[c].cur
        /\ k.write = IF j.st = "rekey" /\ j.write # Plain
                     THEN k.read ELSE j.write
    BY <2>1, FailedIs
  <2>4. ConnOK(conn[c], t)
    BY <1>3, <1>4
  <2>5. ~Active(k) /\ ~Copying(k) /\ ~Writing(k)
    BY <2>3 DEF Active, Copying, Writing
  <2>6. KeysOK(k, t)
    BY <1>1, <2>3, <2>4 DEF ConnOK, KeysOK, Unwritable
  <2>7. ConnOK(k, t)
    BY <1>1, <2>3, <2>5, <2>6 DEF ConnOK
  <2>8. \A d \in Conn \ {c} : PairOK(k, conn[d], t) /\ PairOK(conn[d], k, t)
    BY <1>5, <2>5, QuietPair
  <2>9. ~Writing(k) /\ (\A d \in Conn \ {c} : ~Writing(conn[d])) =>
          Len(t.wal) = Ends(t.wal)
    BY <1>6, <1>7
  <2> QED
    BY <1>1, <1>3, <1>4, <2>2, <2>3, <2>7, <2>8, <2>9, StepOne
<1>9. CASE /\ j.read = Right(t)
           /\ conn' = [conn EXCEPT ![c] = Taken(j, t)]
  <2>1. PICK k : k = Taken(j, t)
    OBVIOUS
  <2>2. /\ k.warm /\ k.lo = t.backfill + 1 /\ k.hi = t.mx
        /\ (k.direct <=> t.mx = t.backfill) /\ k.seen = t.want.val
        /\ k.dirty = IF j.st = "rekey" THEN t.want.val ELSE Clean
        /\ k.st = j.st /\ k.read = j.read /\ k.write = j.write /\ k.own = j.own
        /\ k.cur = j.cur
    BY <2>1 DEF Taken, Connection
  <2>3. /\ t.want.val \in Content /\ Clean \in Content /\ TRUE \in BOOLEAN
        /\ (t.mx = t.backfill) \in BOOLEAN /\ t.backfill + 1 \in Nat
    BY <1>2 DEF Content, Clean
  <2>4. k \in Connection
    <3>1. PICK x : x = IF j.st = "rekey" THEN t.want.val ELSE Clean
      OBVIOUS
    <3>2. x \in Content
      BY <2>3, <3>1
    <3>3. k = [j EXCEPT !.warm = TRUE, !.lo = t.backfill + 1, !.hi = t.mx,
                        !.direct = t.mx = t.backfill, !.seen = t.want.val, !.dirty = x]
      BY <2>1, <3>1, Zenon DEF Taken
    <3> QED
      BY ZenonT(40), <1>2, <2>3, <3>2, <3>3 DEF Connection
  <2>5. t.want.pass # None \/ j.read = Plain
    BY <1>9 DEF Right, KeyIn
  <2>6. KeysOK(k, t)
    <3>1. j.st = "read" => j.write = j.read \/ (j.write = Plain /\ mode.auth)
      BY <1>3 DEF ConnOK, KeysOK, Unwritable
    <3> QED
      BY <1>1, <1>9, <2>2, <2>5, <3>1 DEF KeysOK, Unwritable
  <2>7. k.st = "rekey" => Len(t.wal) = Ends(t.wal)
    BY <1>1, <2>2, NoWriters
  <2>8. ConnOK(k, t)
    BY <1>1, <1>9, <2>2, <2>4, <2>6, <2>7, SnapshotTaken
  <2>9. Active(k)
    BY <2>2 DEF Active
  <2>10. Writing(k) => \A d \in Conn : ~Writing(conn[d])
    <3>1. Writing(k) => j.st = "rekey"
      BY <2>2 DEF Writing
    <3> QED
      BY <3>1, NoWriters
  <2>11. \A d \in Conn \ {c} : PairOK(k, conn[d], t) /\ PairOK(conn[d], k, t)
    BY <1>2, <1>3, <1>4, <1>5, <2>2, <2>9, <2>10, BeginPair
  <2>12. conn' = [conn EXCEPT ![c] = k]
    BY <1>9, <2>1
  <2>13. ~Writing(k) /\ (\A d \in Conn \ {c} : ~Writing(conn[d])) =>
           Len(t.wal) = Ends(t.wal)
    BY <1>6, <1>7
  <2> QED
    BY <1>1, <1>3, <1>4, <2>2, <2>8, <2>11, <2>12, <2>13, StepOne
<1>10. \/ conn' = [conn EXCEPT ![c] = Failed(j)]
       \/ /\ j.read = Right(t)
          /\ conn' = [conn EXCEPT ![c] = Taken(j, t)]
  BY BeginIs
<1> QED
  BY <1>8, <1>9, <1>10

\* The key of the file's salt and a passphrase is a key.
LEMMA KeyInKey ==
  ASSUME IInv, NEW pass \in Pass \cup {None}
  PROVE  KeyIn(db, pass) \in Key /\ KeyIn(db, pass)[1] = pass
<1>1. 1 \in Page
  BY WalAssumption DEF Page
<1>2. db[1].key \in Key
  BY <1>1, Here, Fields DEF IInv, SharedOK, SharedTypes, GoodPage
<1>3. db[1].key[2] \in Salts \cup {Header}
  BY <1>2 DEF Key, Plain
<1> QED
  BY <1>3 DEF KeyIn, Key, Plain

\* A read transaction begins with the key the connection has.
LEMMA BeginReadKeeps ==
  ASSUME Sound, IInv, NEW c \in Conn, BeginRead(c)
  PROVE  IInv'
<1>1. ConnOK(conn[c], Shared) /\ conn[c] \in Connection
  BY Here
<1>2. PICK j : j = [conn[c] EXCEPT !.st = "read"]
  OBVIOUS
<1>3. conn[c].st = "idle" /\ Begin(c, j)
  BY <1>2 DEF BeginRead
<1>4. j \in Connection
  BY <1>1, <1>2 DEF Connection
<1>5. /\ j.st = "read" /\ j.read = conn[c].read /\ j.write = conn[c].write
      /\ j.cur = conn[c].cur /\ j.own = conn[c].own /\ j.dirty = conn[c].dirty
  BY <1>1, <1>2 DEF Connection
<1>6. j.own = 0 /\ j.dirty = Clean
  BY <1>1, <1>3, <1>5 DEF ConnOK, Writing
<1> QED
  BY <1>3, <1>4, <1>5, <1>6, BeginKeeps

\* sqlite3_rekey_v2 up to the commit: every page is dirty, unchanged, and the
\* write cipher has the salt of the file (Careful, ~ColdRekey).
LEMMA RekeyKeeps ==
  ASSUME Sound, IInv, NEW c \in Conn, NEW pass \in Pass \cup {None}, Rekey(c, pass)
  PROVE  IInv'
<1>1. ConnOK(conn[c], Shared) /\ conn[c] \in Connection
  BY Here
<1>2. /\ conn[c].st = "idle" /\ Writers = {} /\ Allowed(pass, TRUE)
      /\ conn[c].warm /\ conn[c].read # Plain
  BY DEF Rekey, Sound
<1>3. mode.auth
  BY <1>2 DEF Allowed, Sound
<1>4. PICK w \in NewKeys(c, pass) :
        Begin(c, [conn[c] EXCEPT !.st = "rekey", !.write = w])
  BY DEF Rekey
<1>5. w = KeyIn(db, pass)
  <2>1. CASE pass = None
    BY <1>4, <2>1 DEF NewKeys, KeyIn
  <2>2. CASE pass # None
    <3>1. NewKeys(c, pass) = {<<pass, HeaderSalt>>}
      BY <1>2, <2>2 DEF NewKeys
    <3> QED
      BY <1>4, <2>2, <3>1 DEF KeyIn, HeaderSalt
  <2> QED
    BY <2>1, <2>2
<1>6. w \in Key /\ w[1] = pass
  BY <1>5, KeyInKey
<1>7. PICK j : j = [conn[c] EXCEPT !.st = "rekey", !.write = w]
  OBVIOUS
<1>8. Begin(c, j)
  BY <1>4, <1>7
<1>9. j \in Connection
  BY <1>1, <1>6, <1>7 DEF Connection
<1>10. /\ j.st = "rekey" /\ j.read = conn[c].read /\ j.write = w
       /\ j.cur = conn[c].cur /\ j.own = conn[c].own /\ j.dirty = conn[c].dirty
  BY <1>1, <1>7 DEF Connection
<1>11. j.own = 0 /\ j.dirty = Clean
  BY <1>1, <1>2, <1>10 DEF ConnOK, Writing
<1>12. /\ Writers = {} /\ mode.auth /\ j.read # Plain
       /\ j.write[1] \in Pass \cup {None} /\ j.write = KeyIn(db, j.write[1])
  BY <1>2, <1>3, <1>5, <1>6, <1>10
<1> QED
  BY <1>2, <1>8, <1>9, <1>10, <1>11, <1>12, BeginKeeps

-----------------------------------------------------------------------------
(* The log starts again.                                                   *)

\* The file alone is the last commit.
LEMMA EmptyLog ==
  ASSUME NEW s, NEW t, SharedTypes(s), Salted(s),
         \A p \in Page : s.db[p] = [val |-> s.want.val[p], key |-> Right(s)],
         t.mode = s.mode, t.db = s.db, t.want = s.want,
         t.wal = <<>>, t.mx = 0, t.backfill = 0
  PROVE  SharedOK(t) /\ t.mx = Ends(t.wal) /\ Len(t.wal) = Ends(t.wal)
<1>1. Len(t.wal) = 0 /\ t.wal \in Seq(GoodFrame)
  BY EmptySeq
<1>2. Ends(t.wal) = 0
  BY <1>1, EndsIsLast
<1>3. SharedTypes(t)
  BY <1>1, WalAssumption DEF SharedTypes
<1>4. Right(t) = Right(s)
  BY DEF Right
<1>5. \A p \in Page : AtIn(t.wal, t.db, p, 1, 0) = t.db[p]
  BY NoFrames
<1>6. 1 .. 0 = {}
  OBVIOUS
<1>7. Kept(t)
  BY <1>2, <1>4, <1>5, <1>6 DEF Kept
<1>8. Salted(t)
  BY <1>1, <1>2, <1>4, <1>6 DEF Salted
<1> QED
  BY <1>1, <1>2, <1>3, <1>7, <1>8 DEF SharedOK

\* A reader of the file alone does not care for the log.
LEMMA DirectKeeps ==
  ASSUME NEW s, NEW t, NEW k, SharedTypes(s), ConnOK(k, s), ~Writing(k), ~Copying(k),
         Active(k) => k.direct,
         t.mode = s.mode, t.db = s.db, t.want = s.want, t.mx = Ends(t.wal)
  PROVE  ConnOK(k, t)
<1>1. k \in Connection
  BY DEF ConnOK
<1>2. k.st # "closed" => KeysOK(k, t)
  BY DEF ConnOK, KeysOK, Unwritable, Right
<1>3. Active(k) => SnapshotOK(k, t)
  <2> SUFFICES ASSUME Active(k) PROVE SnapshotOK(k, t)
    OBVIOUS
  <2>1. SnapshotOK(k, s) /\ k.lo \in Nat /\ k.direct /\ k.lo >= 1
    BY <1>1 DEF ConnOK, SnapshotOK, Connection
  <2>2. \A p \in Page : /\ AtIn(t.wal, t.db, p, k.lo, 0) = t.db[p]
                        /\ AtIn(s.wal, s.db, p, k.lo, 0) = s.db[p]
    BY <2>1, NoFrames
  <2>3. \A p \in Page : ViewIn(t, k, p) = ViewIn(s, k, p)
    BY <2>1, <2>2 DEF ViewIn
  <2> QED
    BY <2>1, <2>3 DEF SnapshotOK
<1> QED
  BY <1>1, <1>2, <1>3 DEF ConnOK

\* The first frame after a reader of the file alone: its snapshot is empty.
LEMMA RestartedConn ==
  ASSUME NEW s, NEW t, NEW j, NEW k, SharedOK(s), SharedOK(t), ConnOK(j, s),
         Writing(j), j.direct, k \in Connection,
         k.st = j.st, k.read = j.read, k.write = j.write, k.warm = j.warm,
         k.cur = j.cur, k.own = j.own, k.dirty = j.dirty, k.seen = j.seen,
         ~k.direct, k.lo = t.backfill + 1, k.hi = t.mx,
         t.mode = s.mode, t.db = s.db, t.want = s.want,
         t.mx = Ends(t.wal), t.backfill = t.mx, Len(t.wal) = t.mx
  PROVE  ConnOK(k, t)
<1>1. /\ Writing(k) /\ Active(k) /\ Active(j) /\ ~Copying(k) /\ k.st # "closed"
  BY DEF Writing, Active, Copying
<1>2. /\ KeysOK(j, s) /\ SnapshotOK(j, s) /\ WritingOK(j, s) /\ j.warm
      /\ j.lo \in Nat /\ j.lo >= 1
  BY <1>1 DEF ConnOK, SnapshotOK, Writing, Connection
<1>3. s.mx \in Nat /\ t.mx \in Nat /\ t.backfill \in Nat
  BY Numbers DEF SharedOK
<1>4. KeysOK(k, t)
  BY <1>2 DEF KeysOK, Unwritable, Right
<1>5. SnapshotOK(k, t)
  <2>1. \A p \in Page : AtIn(s.wal, s.db, p, j.lo, 0) = s.db[p]
    BY <1>2, NoFrames
  <2>2. \A p \in Page : AtIn(t.wal, t.db, p, k.lo, k.hi) = t.db[p]
    BY <1>3, NoFrames
  <2>3. \A p \in Page : ViewIn(t, k, p) = ViewIn(s, j, p)
    BY <2>1, <2>2 DEF ViewIn
  <2>4. \A p \in Page : ViewIn(t, k, p) = [val |-> k.seen[p], key |-> k.read]
    BY <1>2, <2>3 DEF SnapshotOK
  <2> QED
    BY <1>3, <2>4 DEF SnapshotOK
<1>6. WritingOK(k, t)
  <2>1. j.own = 0 /\ k.dirty \in [Page -> Vals \cup {None}]
    BY <1>2 DEF WritingOK
  <2>2. \A p \in Page : /\ LatestIn(s.wal, p, s.mx + 1, s.mx + j.own) = 0
                        /\ LatestIn(t.wal, p, t.mx + 1, t.mx + k.own) = 0
    BY <1>3, <2>1, NoLatest
  <2>3. k.st = "rekey" => \A p \in Page : k.dirty[p] # None /\ k.dirty[p] = k.seen[p]
    BY <1>2, <2>2 DEF WritingOK
  <2>4. \A i \in t.mx + 1 .. t.mx + k.own : t.wal[i].page.key = k.write
    BY <1>3, <2>1
  <2>5. Len(t.wal) = Ends(t.wal) + k.own
    BY <1>3, <2>1
  <2> QED
    BY <2>1, <2>3, <2>4, <2>5 DEF WritingOK
<1> QED
  BY <1>1, <1>2, <1>4, <1>5, <1>6 DEF ConnOK

\* walRestartLog: only when all is copied and no reader needs the log.
LEMMA RestartKeeps ==
  ASSUME IInv, NEW c \in Conn, Restart(c)
  PROVE  IInv'
<1>1. /\ SharedOK(Shared) /\ SharedTypes(Shared)
      /\ ConnOK(conn[c], Shared) /\ conn[c] \in Connection
      /\ Shared.mode = mode /\ Shared.db = db /\ Shared.wal = wal
      /\ Shared.mx = mx /\ Shared.backfill = backfill /\ Shared.want = want
      /\ \A d \in Conn \ {c} : /\ ConnOK(conn[d], Shared)
                               /\ PairOK(conn[c], conn[d], Shared)
                               /\ PairOK(conn[d], conn[c], Shared)
  BY Here, Fields
<1> DEFINE again == backfill > 0 /\ Marked = {}
<1> PICK t : t = Shared'
  OBVIOUS
<1>2. /\ conn[c].st \in {"write", "rekey"} /\ conn[c].direct
      /\ wal' = IF again THEN <<>> ELSE wal
      /\ mx' = IF again THEN 0 ELSE mx
      /\ backfill' = IF again THEN 0 ELSE backfill
      /\ UNCHANGED <<mode, db, want>>
  BY DEF Restart
<1>3. PICK k : k = [conn[c] EXCEPT !.direct = FALSE, !.lo = backfill' + 1, !.hi = mx']
  OBVIOUS
<1>4. conn' = [conn EXCEPT ![c] = k]
  BY <1>3 DEF Restart, Set
<1>5. /\ t.mode = mode /\ t.db = db /\ t.want = want
      /\ t.wal = IF again THEN <<>> ELSE wal
      /\ t.mx = IF again THEN 0 ELSE mx
      /\ t.backfill = IF again THEN 0 ELSE backfill
      /\ mx' = t.mx /\ backfill' = t.backfill
  BY <1>2, NextFields
<1>6. Writing(conn[c]) /\ Active(conn[c])
  BY <1>2 DEF Writing, Active
<1>7. /\ mx = Ends(wal) /\ Len(wal) = mx + conn[c].own
      /\ conn[c].own = 0 /\ backfill = mx /\ conn[c].warm
  BY <1>1, <1>2, <1>6, WriterCurrent DEF ConnOK, WritingOK
<1>8. mx \in Nat /\ backfill \in Nat /\ Len(wal) = mx
  BY <1>1, <1>7, Numbers
<1>9. \A p \in Page : db[p] = [val |-> want.val[p], key |-> Right(Shared)]
  BY <1>1, <1>7, FileCurrent
<1>10. /\ SharedOK(t) /\ t.mx = Ends(t.wal) /\ Len(t.wal) = t.mx
       /\ t.backfill = t.mx /\ t.mx \in Nat
  <2>1. CASE again
    <3>1. t.wal = <<>> /\ t.mx = 0 /\ t.backfill = 0
      BY <1>5, <2>1
    <3>2. SharedTypes(Shared) /\ Salted(Shared)
      BY <1>1 DEF SharedOK
    <3>3. SharedOK(t) /\ t.mx = Ends(t.wal) /\ Len(t.wal) = Ends(t.wal)
      BY <1>1, <1>5, <1>9, <3>1, <3>2, EmptyLog
    <3> QED
      BY <3>1, <3>3
  <2>2. CASE ~again
    <3>1. t = Shared
      BY <1>2, <2>2 DEF Shared
    <3> QED
      BY <1>1, <1>7, <1>8, <3>1
  <2> QED
    BY <2>1, <2>2
<1>11. /\ k.st = conn[c].st /\ k.read = conn[c].read /\ k.write = conn[c].write
       /\ k.warm = conn[c].warm /\ k.cur = conn[c].cur /\ k.own = conn[c].own
       /\ k.dirty = conn[c].dirty /\ k.seen = conn[c].seen
       /\ ~k.direct /\ k.lo = t.backfill + 1 /\ k.hi = t.mx
  BY <1>1, <1>3, <1>5 DEF Connection
<1>12. k \in Connection
  <2>1. t.backfill + 1 \in Nat /\ t.mx \in Nat /\ FALSE \in BOOLEAN
    BY <1>10
  <2> QED
    BY ZenonT(40), <1>1, <1>3, <1>5, <2>1 DEF Connection
<1>13. ConnOK(k, t)
  BY <1>1, <1>2, <1>5, <1>6, <1>10, <1>11, <1>12, RestartedConn
<1>14. Writing(k) /\ Active(k)
  BY <1>6, <1>11 DEF Writing, Active
<1>15. \A d \in Conn \ {c} : ~Writing(conn[d])
  BY <1>1, <1>6 DEF PairOK
<1>16. \A d \in Conn \ {c} : ~Copying(conn[d])
  <2> SUFFICES ASSUME NEW d \in Conn \ {c}, Copying(conn[d]) PROVE FALSE
    OBVIOUS
  <2>1. conn[d].st = "closing" => ~conn[c].warm
    BY <1>1 DEF PairOK
  <2>2. conn[d].st = "ckpt" => backfill < mx
    BY <1>1 DEF ConnOK, CopyingOK, Copying
  <2> QED
    BY <1>7, <1>8, <2>1, <2>2 DEF Copying
<1>17. ASSUME NEW d \in Conn \ {c} PROVE ConnOK(conn[d], t)
  <2>1. CASE again
    <3>1. Active(conn[d]) => conn[d].direct
      BY <2>1 DEF Active, Marked
    <3> QED
      BY <1>1, <1>5, <1>10, <1>15, <1>16, <1>17, <3>1, DirectKeeps
  <2>2. CASE ~again
    <3>1. t = Shared
      BY <1>2, <2>2 DEF Shared
    <3> QED
      BY <1>1, <3>1
  <2> QED
    BY <2>1, <2>2
<1>18. \A d \in Conn \ {c} : PairOK(k, conn[d], t) /\ PairOK(conn[d], k, t)
  <2>1. ~Copying(k) /\ k.st # "closing"
    BY <1>14 DEF Copying, Active
  <2>2. \A d \in Conn \ {c} : conn[d].st # "closing"
    BY <1>16 DEF Copying
  <2> QED
    BY <1>15, <1>16, <2>1, <2>2 DEF PairOK
<1> QED
  BY <1>4, <1>7, <1>10, <1>11, <1>13, <1>14, <1>16, <1>17, <1>18, StepOne

-----------------------------------------------------------------------------
(* Frames are written, and taken back.                                     *)

\* The transaction of a connection, as the log has it.
LEMMA WriterLog ==
  ASSUME IInv, NEW c \in Conn, Writing(conn[c])
  PROVE  /\ Log(c) = wal /\ Len(wal) = mx + conn[c].own /\ mx = Ends(wal)
         /\ mx \in Nat /\ conn[c].own \in Nat /\ backfill \in Nat
         /\ wal \in Seq(GoodFrame) /\ Len(wal) <= MaxFrames
         /\ conn[c].warm /\ WritingOK(conn[c], Shared) /\ KeysOK(conn[c], Shared)
         /\ SnapshotOK(conn[c], Shared)
         /\ \A d \in Conn \ {c} : ~Writing(conn[d]) /\ conn[d].st # "closing"
<1>1. /\ SharedOK(Shared) /\ SharedTypes(Shared)
      /\ ConnOK(conn[c], Shared) /\ conn[c] \in Connection
      /\ Shared.wal = wal /\ Shared.mx = mx /\ Shared.backfill = backfill
  BY Here, Fields
<1>2. Active(conn[c]) /\ conn[c].st # "closed"
  BY DEF Active, Writing
<1>3. Len(wal) = mx + conn[c].own /\ mx = Ends(wal) /\ conn[c].own \in Nat
  BY <1>1, WriterCurrent
<1>4. mx \in Nat /\ backfill \in Nat /\ wal \in Seq(GoodFrame) /\ Len(wal) <= MaxFrames
  BY <1>1 DEF SharedTypes
<1>5. Log(c) = wal
  BY <1>3, <1>4, SubSeqFull DEF Log
<1>6. /\ conn[c].warm /\ WritingOK(conn[c], Shared) /\ KeysOK(conn[c], Shared)
      /\ SnapshotOK(conn[c], Shared)
  BY <1>1, <1>2 DEF ConnOK
<1>7. \A d \in Conn \ {c} : ~Writing(conn[d]) /\ conn[d].st # "closing"
  BY <1>6, Here DEF PairOK
<1> QED
  BY <1>3, <1>4, <1>5, <1>6, <1>7

\* A step of the writer c that changes nothing but the end of the log.
LEMMA TailStep ==
  ASSUME IInv, NEW c \in Conn, Writing(conn[c]), NEW k, conn' = [conn EXCEPT ![c] = k],
         UNCHANGED <<mode, db, mx, backfill, want>>, NEW t, t = Shared',
         wal' \in Seq(GoodFrame), Len(wal') <= MaxFrames, mx <= Len(wal'),
         \A i \in 1 .. mx : wal'[i] = wal[i],
         \A i \in mx + 1 .. Len(wal') :
           ~wal'[i].commit /\ (~mode.auth => wal'[i].page.key = Right(Shared)),
         SharedOK(t) /\ t.mx = Ends(t.wal) => ConnOK(k, t),
         k.warm, ~Copying(k),
         IF Writing(k) THEN k.hi = conn[c].hi /\ k.direct = conn[c].direct
                       ELSE ~Active(k) /\ Len(wal') = mx
  PROVE  IInv'
<1>1. /\ SharedOK(Shared) /\ SharedTypes(Shared)
      /\ ConnOK(conn[c], Shared) /\ conn[c] \in Connection
      /\ Shared.mode = mode /\ Shared.db = db /\ Shared.wal = wal
      /\ Shared.mx = mx /\ Shared.backfill = backfill /\ Shared.want = want
      /\ \A d \in Conn \ {c} : /\ ConnOK(conn[d], Shared)
                               /\ PairOK(conn[c], conn[d], Shared)
                               /\ PairOK(conn[d], conn[c], Shared)
  BY Here, Fields
<1>2. /\ t.mode = mode /\ t.db = db /\ t.want = want /\ t.wal = wal'
      /\ t.mx = mx /\ t.backfill = backfill
  BY NextFields
<1>3. mx = Ends(wal)
  BY WriterLog
<1>4. SharedOK(t) /\ t.mx = Ends(t.wal)
  <2>1. /\ t.mode = Shared.mode /\ t.db = Shared.db /\ t.mx = Shared.mx
        /\ t.backfill = Shared.backfill /\ t.want = Shared.want /\ t.wal = wal'
        /\ Shared.wal = wal /\ Shared.mx = mx /\ Shared.mode = mode
    BY <1>1, <1>2
  <2>2. TailOf(Shared, t)
    BY <1>3, <2>1 DEF TailOf
  <2> QED
    BY <1>1, <2>2, TailKeeps
<1>5. ConnOK(k, t)
  BY <1>4
<1>6. SharedTypes(t) /\ Right(t) = Right(Shared) /\ mx \in Nat
  BY <1>1, <1>2, <1>4, Numbers DEF SharedOK, Right
<1>7. \A d \in Conn \ {c} : ~Writing(conn[d]) /\ conn[d].st # "closing"
  BY WriterLog
<1>8. \A d \in Conn \ {c} : ConnOK(conn[d], t)
  BY <1>1, <1>2, <1>4, <1>6, <1>7, OtherKeeps
<1>9. Active(conn[c])
  BY DEF Active, Writing
<1>10. ASSUME NEW d \in Conn \ {c}
       PROVE  PairOK(k, conn[d], t) /\ PairOK(conn[d], k, t)
  <2>1. CASE Writing(k)
    <3>1. Active(k) /\ k.st # "closing"
      BY <2>1 DEF Active, Writing
    <3> QED
      BY <1>1, <1>2, <1>7, <1>9, <1>10, <2>1, <3>1 DEF PairOK
  <2>2. CASE ~Writing(k)
    BY <1>7, <1>10, <2>2, QuietPair
  <2> QED
    BY <2>1, <2>2
<1>11. ~Writing(k) => Len(t.wal) = Ends(t.wal)
  BY <1>2, <1>4
<1> QED
  BY <1>2, <1>4, <1>5, <1>8, <1>10, <1>11, StepOne

\* The frames of a transaction that ends without a commit are gone.
LEMMA UndoneIs ==
  ASSUME IInv, NEW c \in Conn, Writing(conn[c])
  PROVE  /\ Undone(c) \in Seq(GoodFrame) /\ Len(Undone(c)) = mx
         /\ \A i \in 1 .. mx : Undone(c)[i] = wal[i]
<1>1. /\ Len(wal) = mx + conn[c].own /\ mx \in Nat /\ conn[c].own \in Nat
      /\ wal \in Seq(GoodFrame)
  BY WriterLog
<1>2. CASE conn[c].own > 0
  <2>1. \A i \in 1 .. mx : wal[i] \in GoodFrame
    BY <1>1, ElementOfSeq
  <2>2. /\ SubSeq(wal, 1, mx) \in Seq(GoodFrame)
        /\ Len(SubSeq(wal, 1, mx)) = IF 1 <= mx THEN mx - 1 + 1 ELSE 0
        /\ \A i \in 1 .. mx - 1 + 1 : SubSeq(wal, 1, mx)[i] = wal[1 + i - 1]
    BY <1>1, <2>1, SubSeqProperties
  <2>3. Undone(c) = SubSeq(wal, 1, mx)
    BY <1>2 DEF Undone
  <2> QED
    BY <1>1, <2>2, <2>3
<1>3. CASE ~(conn[c].own > 0)
  <2>1. Undone(c) = wal
    BY <1>3 DEF Undone
  <2>2. Len(wal) = mx
    BY <1>1, <1>3
  <2> QED
    BY <1>1, <2>1, <2>2
<1> QED
  BY <1>2, <1>3

\* A transaction ends without a commit, and the connection is idle again.
LEMMA UndoStep ==
  ASSUME IInv, NEW c \in Conn, Writing(conn[c]), wal' = Undone(c),
         NEW j \in Connection, conn' = [conn EXCEPT ![c] = j],
         UNCHANGED <<mode, db, mx, backfill, want>>,
         j.st = "idle", j.read = conn[c].read,
         j.write = conn[c].read \/ (j.write = Plain /\ mode.auth),
         j.warm = conn[c].warm, j.cur = conn[c].cur, j.own = 0, j.dirty = Clean
  PROVE  IInv'
<1> PICK t : t = Shared'
  OBVIOUS
<1>1. /\ wal' \in Seq(GoodFrame) /\ Len(wal') = mx /\ \A i \in 1 .. mx : wal'[i] = wal[i]
  BY UndoneIs
<1>2. /\ mx \in Nat /\ Len(wal) <= MaxFrames /\ mx <= Len(wal)
      /\ conn[c].warm /\ KeysOK(conn[c], Shared)
  BY WriterLog
<1>3. Len(wal') <= MaxFrames /\ mx <= Len(wal') /\ mx + 1 .. Len(wal') = {}
  BY <1>1, <1>2, WalAssumption, WriterLog
<1>4. ~Active(j) /\ ~Copying(j) /\ ~Writing(j)
  BY DEF Active, Copying, Writing
<1>5. t.mode = Shared.mode /\ Right(t) = Right(Shared)
  <2>1. t.mode = mode /\ t.db = db /\ t.want = want
    BY NextFields
  <2> QED
    BY <2>1, Fields DEF Right
<1>6. KeysOK(j, t)
  BY <1>2, <1>5, Fields DEF KeysOK, Unwritable
<1>7. t.mx = Ends(t.wal) => ConnOK(j, t)
  BY <1>4, <1>6 DEF ConnOK
<1> QED
  BY <1>1, <1>2, <1>3, <1>4, <1>7, TailStep

\* pagerRollbackWal: the frames behind the last commit are gone.
LEMMA RollbackKeeps ==
  ASSUME IInv, NEW c \in Conn, Rollback(c)
  PROVE  IInv'
<1>1. /\ Writing(conn[c]) /\ conn[c].st = "write" /\ conn[c] \in Connection
      /\ ConnOK(conn[c], Shared)
  BY Here DEF Rollback, Writing
<1>2. /\ wal' = Undone(c) /\ conn' = [conn EXCEPT ![c] = Idle(conn[c])]
      /\ UNCHANGED <<mode, db, mx, backfill, want>>
  BY DEF Rollback, Set
<1>3. conn[c].write = conn[c].read
  BY <1>1 DEF ConnOK, KeysOK, Unwritable
<1> QED
  BY <1>1, <1>2, <1>3, IdleIs, UndoStep

\* A rekey that fails: the codec is as before, or has no write cipher.
LEMMA RekeyFailKeeps ==
  ASSUME IInv, NEW c \in Conn, RekeyFail(c)
  PROVE  IInv'
<1>1. Writing(conn[c]) /\ conn[c].st = "rekey" /\ conn[c] \in Connection
  BY Here DEF RekeyFail, Writing
<1>2. mode.auth
  BY <1>1, WriterLog, Fields DEF KeysOK
<1>3. PICK j : j = Restored(conn[c])
  OBVIOUS
<1>4. /\ wal' = Undone(c) /\ conn' = [conn EXCEPT ![c] = j]
      /\ UNCHANGED <<mode, db, mx, backfill, want>>
  BY <1>3 DEF RekeyFail, Set
<1> QED
  BY <1>1, <1>2, <1>3, <1>4, RestoredIs, UndoStep

\* The frame a transaction writes for a page.
LEMMA FrameIs ==
  ASSUME Sound, IInv, NEW c \in Conn, Writing(conn[c]), NEW p \in Page, NEW v \in Vals,
         NEW b \in BOOLEAN
  PROVE  /\ NewFrame(c, p, v, b) \in GoodFrame
         /\ NewFrame(c, p, v, b).pg = p /\ NewFrame(c, p, v, b).commit = b
         /\ NewFrame(c, p, v, b).page = [val |-> v, key |-> conn[c].write]
         /\ ~mode.auth => conn[c].write = Right(Shared)
<1>1. /\ conn[c] \in Connection /\ KeysOK(conn[c], Shared) /\ mode \in Modes
      /\ Shared.mode = mode
  BY Here, Fields, WriterLog DEF SharedTypes
<1>2. mode.auth => ~mode.legacy
  BY <1>1 DEF Sound
<1>3. mode.legacy => conn[c].write = conn[c].read
  BY <1>1, <1>2 DEF KeysOK, Unwritable
<1>4. FrameKey(conn[c]) = conn[c].write
  BY <1>3 DEF FrameKey
<1>5. conn[c].write \in Key
  BY <1>1 DEF Connection
<1>6. ~mode.auth => conn[c].write = Right(Shared)
  BY <1>1 DEF KeysOK, Unwritable
<1> QED
  BY <1>4, <1>5, <1>6 DEF NewFrame, GoodFrame, GoodPage

\* Where the transaction of a connection has put a page.
LEMMA OwnFrameIs ==
  ASSUME IInv, NEW c \in Conn, Writing(conn[c]), NEW p \in Page
  PROVE  /\ OwnFrame(c, p) = LatestIn(wal, p, mx + 1, mx + conn[c].own)
         /\ OwnFrame(c, p) \in Nat
         /\ OwnFrame(c, p) # 0 => /\ OwnFrame(c, p) \in mx + 1 .. Len(wal)
                                  /\ wal[OwnFrame(c, p)].pg = p
         /\ \A i \in mx + 1 .. Len(wal) : wal[i].pg = p => i <= OwnFrame(c, p)
<1>1. OwnFrame(c, p) = LatestIn(wal, p, mx + 1, mx + conn[c].own)
  BY Operators DEF OwnFrame
<1>2. /\ Len(wal) = mx + conn[c].own /\ mx \in Nat /\ conn[c].own \in Nat
  BY WriterLog
<1>3. mx + 1 \in Nat /\ mx + conn[c].own \in Nat
  BY <1>2
<1>4. PICK i : i = LatestIn(wal, p, mx + 1, mx + conn[c].own)
  OBVIOUS
<1>5. /\ i \in Nat
      /\ i = 0 \/ (i \in mx + 1 .. mx + conn[c].own /\ wal[i].pg = p)
      /\ \A j \in mx + 1 .. mx + conn[c].own : wal[j].pg = p => j <= i
  BY ZenonT(40), <1>3, <1>4, LatestIsLast
<1> QED
  BY Zenon, <1>1, <1>2, <1>4, <1>5

\* Frames behind the last commit are of the transaction that is under way.
LEMMA TailIsOpen ==
  ASSUME IInv, NEW c \in Conn, Writing(conn[c])
  PROVE  \A i \in mx + 1 .. Len(wal) :
           ~wal[i].commit /\ wal[i].page.key = conn[c].write
<1>1. /\ Len(wal) = mx + conn[c].own /\ mx = Ends(wal) /\ mx \in Nat
      /\ conn[c].own \in Nat /\ WritingOK(conn[c], Shared)
      /\ Shared.wal = wal /\ Shared.mx = mx
  BY WriterLog, Fields
<1>2. Len(wal) \in Nat
  BY <1>1
<1>3. \A i \in 1 .. Len(wal) : wal[i].commit => i <= mx
  BY <1>1, <1>2, EndsIsLast
<1>4. \A i \in mx + 1 .. Len(wal) : ~wal[i].commit
  BY <1>1, <1>2, <1>3
<1>5. \A i \in mx + 1 .. Len(wal) : wal[i].page.key = conn[c].write
  BY <1>1 DEF WritingOK
<1> QED
  BY <1>4, <1>5

\* The log w is the log with frame f at j, over an older one or behind all.
PutAt(w, j, f) ==
  /\ j \in mx + 1 .. Len(w)
  /\ w[j] = f
  /\ \A i \in 1 .. Len(w) : i # j => i <= Len(wal) /\ w[i] = wal[i]
  /\ \A i \in mx + 1 .. Len(w) : w[i].pg = f.pg => i <= j
  /\ \A i \in mx + 1 .. Len(wal) : i = j => wal[i].pg = f.pg

\* walFrames puts one frame into the log.
LEMMA PutFrameIs ==
  ASSUME Sound, IInv, NEW c \in Conn, Writing(conn[c]), NEW p \in Page, NEW v \in Vals,
         NEW w, w = PutFrame(c, p, v)
  PROVE  /\ w \in Seq(GoodFrame)
         /\ Len(w) \in Nat /\ Len(wal) <= Len(w) /\ Len(w) <= Len(wal) + 1
         /\ \E j : PutAt(w, j, NewFrame(c, p, v, FALSE))
<1>1. /\ Len(wal) = mx + conn[c].own /\ Log(c) = wal /\ mx \in Nat
      /\ conn[c].own \in Nat /\ wal \in Seq(GoodFrame)
  BY WriterLog
<1>2. Len(wal) \in Nat
  BY <1>1
<1>3. PICK f : f = NewFrame(c, p, v, FALSE)
  OBVIOUS
<1>4. f \in GoodFrame /\ f.pg = p
  BY <1>3, FrameIs
<1>5. PICK i : i = OwnFrame(c, p)
  OBVIOUS
<1>6. /\ i \in Nat
      /\ i # 0 => i \in mx + 1 .. Len(wal) /\ wal[i].pg = p
      /\ \A j \in mx + 1 .. Len(wal) : wal[j].pg = p => j <= i
  BY <1>5, OwnFrameIs
<1>7. w = IF i # 0 THEN [wal EXCEPT ![i] = f] ELSE Append(wal, f)
  BY <1>1, <1>3, <1>5 DEF PutFrame
<1>8. CASE i # 0
  <2>1. i \in mx + 1 .. Len(wal) /\ i \in 1 .. Len(wal) /\ wal[i].pg = p
    BY <1>1, <1>2, <1>6, <1>8
  <2>2. w = [wal EXCEPT ![i] = f]
    BY <1>7, <1>8
  <2>3. /\ w \in Seq(GoodFrame) /\ Len(w) = Len(wal)
        /\ \A j \in 1 .. Len(wal) : w[j] = IF j = i THEN f ELSE wal[j]
    BY <1>1, <1>4, <2>1, <2>2, ExceptSeq
  <2>4. \A j \in mx + 1 .. Len(w) : w[j].pg = p => j <= i
    BY <1>1, <1>2, <1>6, <2>3
  <2>5. PutAt(w, i, f)
    BY <1>1, <1>2, <1>4, <2>1, <2>3, <2>4 DEF PutAt
  <2>6. \E j : PutAt(w, j, NewFrame(c, p, v, FALSE))
    BY <1>3, <2>5, Zenon
  <2> QED
    <3>1. Len(w) \in Nat /\ Len(wal) <= Len(w) /\ Len(w) <= Len(wal) + 1
      BY <1>2, <2>3
    <3> QED
      BY <2>3, <2>6, <3>1, Zenon
<1>9. CASE i = 0
  <2>1. w = Append(wal, f)
    BY <1>7, <1>9
  <2>2. /\ w \in Seq(GoodFrame) /\ Len(w) = Len(wal) + 1
        /\ \A j \in 1 .. Len(wal) : w[j] = wal[j]
        /\ w[Len(wal) + 1] = f
    <3>1. wal \in Seq(GoodFrame)
      BY <1>1
    <3> QED
      BY <1>4, <2>1, <3>1, AppendProperties
  <2>3. Len(w) \in mx + 1 .. Len(w)
    <3>1. \A a, b, x, y \in Nat : x = a + b /\ y = x + 1 => y \in a + 1 .. y
      OBVIOUS
    <3>2. mx \in Nat /\ conn[c].own \in Nat /\ Len(wal) \in Nat /\ Len(w) \in Nat
      BY Zenon, <1>1, <1>2, <2>2, LenProperties
    <3>3. Len(wal) = mx + conn[c].own /\ Len(w) = Len(wal) + 1
      BY Zenon, <1>1, <2>2
    <3> QED
      BY Zenon, <3>1, <3>2, <3>3
  <2>4. \A j \in 1 .. Len(w) : j # Len(w) => j <= Len(wal) /\ w[j] = wal[j]
    BY <1>2, <2>2
  <2>5. \A j \in mx + 1 .. Len(w) : w[j].pg = p => j <= Len(w)
    OBVIOUS
  <2>6. w[Len(w)] = f /\ \A j \in mx + 1 .. Len(wal) : j # Len(w)
    BY <1>2, <2>2
  <2>7. PutAt(w, Len(w), f)
    BY <2>3, <2>4, <2>5, <2>6 DEF PutAt
  <2>8. \E j : PutAt(w, j, NewFrame(c, p, v, FALSE))
    BY <1>3, <2>7, Zenon
  <2>9. Len(w) \in Nat /\ Len(wal) <= Len(w) /\ Len(w) <= Len(wal) + 1
    BY <1>2, <2>2
  <2> QED
    BY <2>2, <2>8, <2>9, Zenon
<1> QED
  BY <1>6, <1>8, <1>9

\* pagerStress: a frame of the transaction, under the write cipher, in nobody's
\* snapshot.
LEMMA SpillKeeps ==
  ASSUME Sound, IInv, NEW c \in Conn, NEW p \in Page, Spill(c, p)
  PROVE  IInv'
<1>1. Writing(conn[c]) /\ conn[c] \in Connection /\ ConnOK(conn[c], Shared)
  BY Here DEF Spill, Writing
<1>2. /\ Len(wal) = mx + conn[c].own /\ Log(c) = wal /\ mx \in Nat
      /\ conn[c].own \in Nat /\ wal \in Seq(GoodFrame) /\ Len(wal) <= MaxFrames
      /\ conn[c].warm /\ WritingOK(conn[c], Shared) /\ KeysOK(conn[c], Shared)
      /\ SnapshotOK(conn[c], Shared)
  BY <1>1, WriterLog
<1>3. /\ Shared.mode = mode /\ Shared.db = db /\ Shared.wal = wal
      /\ Shared.mx = mx /\ Shared.backfill = backfill /\ Shared.want = want
  BY Fields
<1>4. PICK v : v = conn[c].dirty[p]
  OBVIOUS
<1>5. v \in Vals
  BY <1>2, <1>4 DEF WritingOK, Spill
<1>6. PICK w : w = PutFrame(c, p, v)
  OBVIOUS
<1>7. PICK k : k = [conn[c] EXCEPT !.dirty[p] = None, !.own = Len(w) - mx]
  OBVIOUS
<1>8. /\ wal' = w /\ conn' = [conn EXCEPT ![c] = k] /\ ~conn[c].direct
      /\ Len(wal) < MaxFrames /\ UNCHANGED <<mode, db, mx, backfill, want>>
  BY <1>2, <1>4, <1>6, <1>7 DEF Spill, Set
<1>9. /\ w \in Seq(GoodFrame)
      /\ Len(w) \in Nat /\ Len(wal) <= Len(w) /\ Len(w) <= Len(wal) + 1
  BY <1>1, <1>5, <1>6, PutFrameIs
<1> PICK f : f = NewFrame(c, p, v, FALSE)
  OBVIOUS
<1>f. /\ f.pg = p /\ ~f.commit /\ f.page = [val |-> v, key |-> conn[c].write]
      /\ ~mode.auth => conn[c].write = Right(Shared)
  <2>1. PICK b \in BOOLEAN : b = FALSE
    OBVIOUS
  <2>2. /\ NewFrame(c, p, v, b).pg = p /\ NewFrame(c, p, v, b).commit = b
        /\ NewFrame(c, p, v, b).page = [val |-> v, key |-> conn[c].write]
        /\ ~mode.auth => conn[c].write = Right(Shared)
    BY <1>1, <1>5, FrameIs
  <2>3. NewFrame(c, p, v, b) = NewFrame(c, p, v, FALSE)
    BY <2>1, Zenon
  <2> QED
    BY <2>1, <2>2, <2>3
<1>g. PICK j : PutAt(w, j, f)
  BY <1>1, <1>5, <1>6, PutFrameIs
<1>10. /\ j \in mx + 1 .. Len(w) /\ w[j] = f
       /\ \A i \in 1 .. Len(w) : i # j => i <= Len(wal) /\ w[i] = wal[i]
       /\ \A i \in mx + 1 .. Len(w) : w[i].pg = p => i <= j
       /\ \A i \in mx + 1 .. Len(wal) : i = j => wal[i].pg = p
  BY <1>f, <1>g DEF PutAt
<1>11. w[j].pg = p /\ ~w[j].commit /\ w[j].page = [val |-> v, key |-> conn[c].write]
  BY <1>f, <1>10
<1>12. \A i \in mx + 1 .. Len(w) : ~w[i].commit /\ w[i].page.key = conn[c].write
  <2>1. \A i \in mx + 1 .. Len(wal) : ~wal[i].commit /\ wal[i].page.key = conn[c].write
    BY <1>1, TailIsOpen
  <2>2. \A i \in mx + 1 .. Len(w) : i # j => i \in mx + 1 .. Len(wal) /\ w[i] = wal[i]
    BY <1>2, <1>9, <1>10
  <2>3. w[j].page.key = conn[c].write
    BY <1>11
  <2> QED
    <3> SUFFICES ASSUME NEW i \in mx + 1 .. Len(w)
                 PROVE  ~w[i].commit /\ w[i].page.key = conn[c].write
      OBVIOUS
    <3>1. CASE i = j
      BY <1>11, <2>3, <3>1
    <3>2. CASE i # j
      BY <2>1, <2>2, <3>2
    <3> QED
      BY <3>1, <3>2
<1>13. \A i \in 1 .. mx : w[i] = wal[i]
  <2>1. mx \in Nat /\ j \in Nat /\ mx < j /\ j <= Len(w) /\ Len(w) \in Nat
    BY <1>2, <1>9, <1>10
  <2>2. \A i \in 1 .. mx : i \in 1 .. Len(w) /\ i # j
    BY <2>1
  <2> QED
    BY <1>10, <2>2
<1>14. Len(w) - mx \in Nat /\ mx <= Len(w) /\ Len(w) <= MaxFrames
  <2>1. MaxFrames \in Nat
    BY WalAssumption
  <2> QED
    BY <1>2, <1>8, <1>9, <2>1
<1>15. /\ k.st = conn[c].st /\ k.read = conn[c].read /\ k.write = conn[c].write
       /\ k.warm = conn[c].warm /\ k.lo = conn[c].lo /\ k.hi = conn[c].hi
       /\ k.direct = conn[c].direct /\ k.cur = conn[c].cur /\ k.seen = conn[c].seen
       /\ k.own = Len(w) - mx /\ k.dirty = [conn[c].dirty EXCEPT ![p] = None]
  BY <1>1, <1>7 DEF Connection
<1>16. k.dirty \in [Page -> Vals \cup {None}]
  BY <1>2, <1>15 DEF WritingOK
<1>17. k.dirty \in Content
  BY <1>16 DEF Content
<1>18. k \in Connection
  <2>1. PICK x : x = [conn[c].dirty EXCEPT ![p] = None]
    OBVIOUS
  <2>2. k = [conn[c] EXCEPT !.dirty = x, !.own = Len(w) - mx]
    BY <1>7, <2>1
  <2>3. x \in Content
    BY <1>15, <1>17, <2>1
  <2> QED
    BY <1>1, <1>14, <2>2, <2>3 DEF Connection
<1>19. Writing(k) /\ Active(k) /\ ~Copying(k) /\ k.st # "closed"
  BY <1>1, <1>15 DEF Writing, Active, Copying
<1>20. ASSUME conn[c].st = "rekey", NEW q \in Page
       PROVE  LET i == LatestIn(w, q, mx + 1, Len(w))
              IN  IF k.dirty[q] # None THEN k.dirty[q] = conn[c].seen[q]
                  ELSE i # 0 /\ w[i].page.val = conn[c].seen[q]
  <2>0. mx + 1 \in Nat
    BY <1>2
  <2>1. LET i == LatestIn(wal, q, mx + 1, Len(wal))
        IN  IF conn[c].dirty[q] # None THEN conn[c].dirty[q] = conn[c].seen[q]
            ELSE i # 0 /\ wal[i].page.val = conn[c].seen[q]
    BY <1>2, <1>3, <1>20 DEF WritingOK
  <2>2. CASE q = p
    <3>1. LatestIn(w, p, mx + 1, Len(w)) = j
      <4>1. j \in mx + 1 .. Len(w) /\ \A i \in mx + 1 .. Len(w) : w[i].pg = p => i <= j
        BY <1>10
      <4>2. j <= LatestIn(w, p, mx + 1, Len(w)) /\ 0 < j /\ j \in Nat
        BY <1>2, <1>9, <1>11, <2>0, <4>1, LatestIsLast
      <4>3. /\ LatestIn(w, p, mx + 1, Len(w)) \in mx + 1 .. Len(w)
            /\ w[LatestIn(w, p, mx + 1, Len(w))].pg = p
        BY <1>2, <1>9, <2>0, <4>2, LatestIsLast
      <4>4. LatestIn(w, p, mx + 1, Len(w)) <= j
        BY <4>1, <4>3
      <4> QED
        BY <1>2, <1>9, <4>2, <4>3, <4>4
    <3>2. k.dirty[p] = None /\ v = conn[c].seen[p] /\ v # None
      BY <1>2, <1>4, <1>5, <1>15, <2>1, <2>2, WalAssumption DEF WritingOK
    <3>3. w[j].page.val = v /\ j # 0
      <4>1. j # 0
        BY <1>2, <1>10
      <4> QED
        BY <1>11, <4>1
    <3> QED
      BY <2>2, <3>1, <3>2, <3>3
  <2>3. CASE q # p
    <3>1. {i \in mx + 1 .. Len(w) : w[i].pg = q} = {i \in mx + 1 .. Len(wal) : wal[i].pg = q}
      <4>1. \A i \in mx + 1 .. Len(w) : i # j => i \in mx + 1 .. Len(wal) /\ w[i] = wal[i]
        BY <1>2, <1>9, <1>10
      <4>2. \A i \in mx + 1 .. Len(wal) : i # j => i \in mx + 1 .. Len(w) /\ w[i] = wal[i]
        BY <1>2, <1>9, <1>10
      <4>3. \A i \in mx + 1 .. Len(wal) : i = j => wal[i].pg # q
        BY <1>10, <2>3
      <4> QED
        BY <1>11, <2>3, <4>1, <4>2, <4>3
    <3>2. LatestIn(w, q, mx + 1, Len(w)) = LatestIn(wal, q, mx + 1, Len(wal))
      BY <3>1 DEF LatestIn
    <3>3. k.dirty[q] = conn[c].dirty[q]
      BY <1>2, <1>15, <2>3 DEF WritingOK
    <3>4. PICK i : i = LatestIn(wal, q, mx + 1, Len(wal))
      OBVIOUS
    <3>0. Len(wal) \in Nat
      BY <1>2
    <3>5. i # 0 => i \in mx + 1 .. Len(wal) /\ wal[i].pg = q
      BY <2>0, <3>0, <3>4, LatestIsLast
    <3>6. i # 0 => w[i] = wal[i]
      <4> SUFFICES ASSUME i # 0 PROVE w[i] = wal[i]
        OBVIOUS
      <4>1. i # j
        BY <1>10, <2>3, <3>5
      <4>2. i \in 1 .. Len(w)
        BY <1>2, <1>9, <3>5
      <4> QED
        BY <1>10, <4>1, <4>2
    <3> QED
      BY <2>1, <3>2, <3>3, <3>4, <3>6
  <2> QED
    BY <2>2, <2>3
<1> PICK t : t = Shared'
  OBVIOUS
<1>21. /\ t.mode = mode /\ t.db = db /\ t.want = want /\ t.wal = w
       /\ t.mx = mx /\ t.backfill = backfill
  BY <1>8, NextFields
<1>22. KeysOK(k, t)
  BY <1>2, <1>3, <1>15, <1>21 DEF KeysOK, Unwritable, Right
<1>23. SnapshotOK(k, t)
  <2>1. /\ k.lo \in Nat /\ k.lo >= 1 /\ k.hi = mx /\ ~k.direct
        /\ k.lo <= backfill + 1 /\ backfill <= mx
    BY <1>1, <1>2, <1>3, <1>8, <1>15 DEF SnapshotOK, WritingOK, Connection
  <2>2. \A q \in Page : AtIn(w, db, q, k.lo, mx) = AtIn(wal, db, q, k.lo, mx)
    <3>1. \A i \in k.lo .. mx : w[i] = wal[i]
      BY <1>2, <1>13, <2>1
    <3> QED
      BY <1>2, <2>1, <3>1, SameFrames
  <2>3. \A q \in Page : ViewIn(t, k, q) = ViewIn(Shared, conn[c], q)
    BY <1>3, <1>8, <1>15, <1>21, <2>1, <2>2 DEF ViewIn
  <2>4. \A q \in Page : ViewIn(t, k, q) = [val |-> k.seen[q], key |-> k.read]
    BY <1>2, <1>15, <2>3 DEF SnapshotOK
  <2> QED
    BY <1>2, <1>21, <2>1, <2>4 DEF SnapshotOK
<1>24. t.mx = Ends(t.wal) => WritingOK(k, t)
  <2> SUFFICES ASSUME t.mx = Ends(t.wal) PROVE WritingOK(k, t)
    OBVIOUS
  <2>1. mx + k.own = Len(w)
    BY <1>2, <1>9, <1>15
  <2>2. Len(t.wal) = Ends(t.wal) + k.own
    BY <1>21, <2>1
  <2>3. ~k.direct /\ k.hi = t.mx
    BY <1>2, <1>3, <1>8, <1>15, <1>21 DEF WritingOK
  <2>4. \A i \in t.mx + 1 .. t.mx + k.own : t.wal[i].page.key = k.write
    BY <1>12, <1>15, <1>21, <2>1
  <2>5. k.st = "rekey" => \A q \in Page :
          LET i == LatestIn(t.wal, q, t.mx + 1, t.mx + k.own)
          IN  IF k.dirty[q] # None THEN k.dirty[q] = k.seen[q]
              ELSE i # 0 /\ t.wal[i].page.val = k.seen[q]
    BY <1>15, <1>20, <1>21, <2>1
  <2> QED
    BY <1>16, <2>2, <2>3, <2>4, <2>5 DEF WritingOK
<1>25. t.mx = Ends(t.wal) => ConnOK(k, t)
  BY <1>2, <1>15, <1>18, <1>19, <1>22, <1>23, <1>24 DEF ConnOK
<1> QED
  BY ZenonT(40), <1>1, <1>2, <1>8, <1>9, <1>f, <1>12, <1>13, <1>14, <1>15, <1>19, <1>25, TailStep

-----------------------------------------------------------------------------
(* A transaction commits.                                                  *)

\* A set of pages, sorted: the place of a page is the number of pages up to it.
LEMMA OrderIs ==
  ASSUME NEW S \in SUBSET Page, S # {}, NEW n, n = Cardinality(S)
  PROVE  /\ n \in Nat /\ 1 <= n /\ n <= NumPages
         /\ InOrder(S) \in [1 .. n -> S]
         /\ \A p \in S : \E i \in 1 .. n : InOrder(S)[i] = p
         /\ Max(S) \in S /\ InOrder(S)[n] = Max(S)
<1>1. NumPages \in Nat /\ S \in SUBSET Nat /\ \A p \in S : p <= NumPages
  BY WalAssumption DEF Page
<1>2. IsFiniteSet(Page) /\ Cardinality(Page) = NumPages
  BY <1>1, FS_Interval, WalAssumption DEF Page
<1>3. IsFiniteSet(S) /\ n \in Nat /\ n <= NumPages /\ n # 0
  BY <1>2, FS_Subset, FS_CardinalityType, FS_EmptySet
<1> DEFINE Upto(p) == {q \in S : q <= p}
<1>4. \A p \in S : IsFiniteSet(Upto(p)) /\ Cardinality(Upto(p)) \in Nat
                    /\ Cardinality(Upto(p)) <= n
  <2> SUFFICES ASSUME NEW p \in S
               PROVE  IsFiniteSet(Upto(p)) /\ Cardinality(Upto(p)) \in Nat
                        /\ Cardinality(Upto(p)) <= n
    OBVIOUS
  <2>1. Upto(p) \in SUBSET S
    OBVIOUS
  <2> QED
    BY <1>3, <2>1, FS_Subset, FS_CardinalityType
<1>5. \A p \in S : Cardinality(Upto(p)) \in 1 .. n
  <2> SUFFICES ASSUME NEW p \in S PROVE Cardinality(Upto(p)) # 0
    BY <1>3, <1>4
  <2>1. p \in Upto(p)
    BY <1>1
  <2> QED
    BY <1>4, <2>1, FS_EmptySet
<1>6. \A p, q \in S : p # q => Cardinality(Upto(p)) # Cardinality(Upto(q))
  <2>1. ASSUME NEW p \in S, NEW q \in S, p < q
        PROVE  Cardinality(Upto(p)) # Cardinality(Upto(q))
    <3>0. p \in Nat /\ q \in Nat /\ \A x \in S : x \in Nat
      BY <1>1
    <3>1. Upto(p) \in SUBSET Upto(q) /\ q \in Upto(q) /\ q \notin Upto(p)
      <4>1. \A x \in S : x <= p => x <= q
        BY <2>1, <3>0
      <4>2. q <= q /\ ~(q <= p)
        BY <2>1, <3>0
      <4> QED
        BY <4>1, <4>2
    <3>2. IsFiniteSet(Upto(q)) /\ Upto(p) # Upto(q)
      BY <1>4, <3>1
    <3> QED
      BY <3>1, <3>2, FS_Subset
  <2>2. \A p, q \in S : p # q => p < q \/ q < p
    BY <1>1
  <2> QED
    BY <2>1, <2>2
<1> DEFINE rank == [p \in S |-> Cardinality(Upto(p))]
<1>7. rank \in Injection(S, 1 .. n)
  <2>1. rank \in [S -> 1 .. n]
    BY <1>5
  <2>2. \A p, q \in S : rank[p] = rank[q] => p = q
    BY <1>6
  <2> QED
    BY <2>1, <2>2 DEF Injection, IsInjective
<1>8. IsFiniteSet(1 .. n) /\ Cardinality(1 .. n) = n
  BY <1>3, FS_Interval
<1>9. rank \in Surjection(S, 1 .. n)
  BY <1>7, <1>8, FS_Injection
<1>10. \A i \in 1 .. n : \E p \in S : Cardinality(Upto(p)) = i
  BY <1>9 DEF Surjection
<1>11. InOrder(S) = [i \in 1 .. n |-> CHOOSE p \in S : Cardinality(Upto(p)) = i]
  BY DEF InOrder
<1>12. \A i \in 1 .. n : InOrder(S)[i] \in S /\ Cardinality(Upto(InOrder(S)[i])) = i
  BY ZenonT(40), <1>10, <1>11
<1>13. \A p \in S : InOrder(S)[Cardinality(Upto(p))] = p
  BY <1>5, <1>6, <1>12
<1>14. Max(S) \in S /\ \A p \in S : p <= Max(S)
  BY Zenon, <1>1, MaxIsGreatest
<1>15. Upto(Max(S)) = S
  BY <1>14
<1>16. InOrder(S)[n] = Max(S)
  BY <1>13, <1>14, <1>15
<1>17. InOrder(S) \in [1 .. n -> S]
  BY <1>11, <1>12
<1>18. \A p \in S : \E i \in 1 .. n : InOrder(S)[i] = p
  BY <1>5, <1>13
<1>19. 1 <= n
  BY <1>3
<1> QED
  BY <1>3, <1>14, <1>16, <1>17, <1>18, <1>19

\* A function on 1 .. n is a sequence.
LEMMA FunctionIsSeq ==
  ASSUME NEW S, NEW n \in Nat, NEW f \in [1 .. n -> S]
  PROVE  f \in Seq(S) /\ Len(f) = n
<1>1. f \in Seq(S)
  BY SeqDef
<1>2. Len(f) \in Nat /\ DOMAIN f = 1 .. Len(f) /\ DOMAIN f = 1 .. n
  BY <1>1, LenProperties
<1>3. 1 .. Len(f) = 1 .. n
  BY <1>2
<1> QED
  BY <1>1, <1>2, <1>3

\* What a transaction made of a page: what is in its cache, else what it has
\* put into the log, else what was committed before.
LEMMA ChangedIs ==
  ASSUME IInv, NEW c \in Conn, Writing(conn[c]), ~conn[c].direct, NEW p \in Page
  PROVE  /\ Changed(c, p) \in Vals
         /\ conn[c].dirty[p] # None => Changed(c, p) = conn[c].dirty[p]
         /\ conn[c].dirty[p] = None /\ OwnFrame(c, p) # 0 =>
              Changed(c, p) = wal[OwnFrame(c, p)].page.val
         /\ conn[c].dirty[p] = None /\ OwnFrame(c, p) = 0 =>
              Changed(c, p) = want.val[p]
<1>1. /\ Len(wal) = mx + conn[c].own /\ mx = Ends(wal) /\ mx \in Nat
      /\ conn[c].own \in Nat /\ backfill \in Nat /\ wal \in Seq(GoodFrame)
      /\ WritingOK(conn[c], Shared) /\ SnapshotOK(conn[c], Shared)
  BY WriterLog
<1>2. /\ SharedOK(Shared) /\ SharedTypes(Shared) /\ conn[c] \in Connection
      /\ Shared.mode = mode /\ Shared.db = db /\ Shared.wal = wal
      /\ Shared.mx = mx /\ Shared.backfill = backfill /\ Shared.want = want
  BY Here, Fields
<1>3. CASE conn[c].dirty[p] # None
  <2>1. Changed(c, p) = conn[c].dirty[p]
    BY <1>3 DEF Changed
  <2>2. conn[c].dirty[p] \in Vals
    BY <1>1, <1>3 DEF WritingOK
  <2> QED
    BY <1>3, <2>1, <2>2
<1>4. CASE conn[c].dirty[p] = None
  <2>1. Changed(c, p) = AtIn(wal, db, p, conn[c].lo, Len(wal)).val
    BY <1>1, <1>4, Operators DEF Changed
  <2>2. /\ conn[c].lo \in Nat /\ 1 <= conn[c].lo /\ conn[c].lo <= backfill + 1
        /\ Len(wal) \in Nat /\ mx <= Len(wal)
    BY <1>1, <1>2 DEF SnapshotOK, Connection
  <2>3. LatestIn(wal, p, 1, mx) \in 1 .. backfill =>
          db[p] = wal[LatestIn(wal, p, 1, mx)].page
    BY <1>2 DEF SharedOK, Kept
  <2>4. AtIn(wal, db, p, conn[c].lo, Len(wal)) = AtIn(wal, db, p, 1, Len(wal))
    BY <1>2, <2>2, <2>3, FetchFrom
  <2>5. OwnFrame(c, p) = LatestIn(wal, p, mx + 1, Len(wal))
    BY <1>1, OwnFrameIs
  <2>6. LatestIn(wal, p, 1, Len(wal)) =
          IF OwnFrame(c, p) # 0 THEN OwnFrame(c, p) ELSE LatestIn(wal, p, 1, mx)
    <3>1. LatestIn(wal, p, 1, Len(wal)) = IF LatestIn(wal, p, mx + 1, Len(wal)) # 0
                                            THEN LatestIn(wal, p, mx + 1, Len(wal))
                                            ELSE LatestIn(wal, p, 1, mx)
      <4>1. mx \in Nat /\ Len(wal) \in Nat /\ mx <= Len(wal)
        BY <1>1, <2>2
      <4> QED
        BY <4>1, LatestSplit
    <3> QED
      BY <2>5, <3>1
  <2>7. CASE OwnFrame(c, p) # 0
    <3>1. Changed(c, p) = wal[OwnFrame(c, p)].page.val
      BY <2>1, <2>4, <2>6, <2>7 DEF AtIn
    <3>2. OwnFrame(c, p) \in 1 .. Len(wal)
      BY <1>1, <2>7, OwnFrameIs
    <3>3. wal[OwnFrame(c, p)] \in GoodFrame
      BY <1>2, <3>2, Numbers
    <3> QED
      BY <1>4, <2>7, <3>1, <3>3 DEF GoodFrame, GoodPage
  <2>8. CASE OwnFrame(c, p) = 0
    <3>1. Changed(c, p) = AtIn(wal, db, p, 1, mx).val
      BY <2>1, <2>4, <2>6, <2>8 DEF AtIn
    <3>2. AtIn(wal, db, p, 1, mx) = [val |-> want.val[p], key |-> Right(Shared)]
      BY <1>1, <1>2 DEF SharedOK, Kept
    <3>3. want.val[p] \in Vals
      BY <1>2 DEF SharedTypes
    <3> QED
      BY <1>4, <2>8, <3>1, <3>2, <3>3
  <2> QED
    BY <2>7, <2>8
<1> QED
  BY <1>3, <1>4

\* The parts of CommitLog.
Dirty(c) == {p \in Page : conn[c].dirty[p] # None}
Last(c)  == Max(Dirty(c) \cup {1})
Over(c)  == {p \in Dirty(c) \ {Last(c)} : OwnFrame(c, p) # 0}
Added(c) == (Dirty(c) \ Over(c)) \cup {Last(c)}
Committed(c, p) == NewFrame(c, p, Changed(c, p), p = Last(c))

WrittenOver(c) ==
  [i \in DOMAIN Log(c) |->
    IF wal[i].pg \in Over(c) /\ i = OwnFrame(c, wal[i].pg)
      THEN Committed(c, wal[i].pg) ELSE wal[i]]

Appended(c) == [i \in DOMAIN InOrder(Added(c)) |-> Committed(c, InOrder(Added(c))[i])]

\* CommitLog is the frames written over, then those appended.
LEMMA CommitParts == ASSUME NEW c PROVE CommitLog(c) = WrittenOver(c) \o Appended(c)
BY Zenon DEF CommitLog, WrittenOver, Appended, Committed, Added, Over, Last, Dirty

\* The last page is appended, behind all others.
LEMMA LastIs ==
  ASSUME NEW c
  PROVE  /\ Last(c) \in Page /\ Added(c) \in SUBSET Page /\ Last(c) \in Added(c)
         /\ Max(Added(c)) = Last(c)
<1>1. /\ Page \in SUBSET Nat /\ 1 \in Page /\ NumPages \in Nat
      /\ \A p \in Page : p <= NumPages
  BY WalAssumption DEF Page
<1>2. Dirty(c) \cup {1} \in SUBSET Page
  BY <1>1 DEF Dirty
<1>3. Last(c) \in Dirty(c) \cup {1} /\ \A p \in Dirty(c) \cup {1} : p <= Last(c)
  BY <1>1, <1>2, MaxIsGreatest DEF Last
<1>4. Added(c) \in SUBSET (Dirty(c) \cup {1}) /\ Last(c) \in Added(c)
  BY <1>3 DEF Added
<1>5. Max(Added(c)) \in Added(c) /\ \A p \in Added(c) : p <= Max(Added(c))
  BY <1>1, <1>2, <1>4, MaxIsGreatest
<1>6. Max(Added(c)) <= Last(c) /\ Last(c) <= Max(Added(c))
  BY <1>3, <1>4, <1>5
<1>7. Max(Added(c)) \in Nat /\ Last(c) \in Nat
  BY <1>1, <1>2, <1>4, <1>5
<1> QED
  BY <1>1, <1>2, <1>3, <1>4, <1>6, <1>7

\* A frame of the commit has the content of the transaction under its key.
LEMMA CommittedIs ==
  ASSUME Sound, IInv, NEW c \in Conn, Writing(conn[c]), ~conn[c].direct, NEW p \in Page
  PROVE  /\ Committed(c, p) \in GoodFrame /\ Committed(c, p).pg = p
         /\ Committed(c, p).commit = (p = Last(c))
         /\ Committed(c, p).page = [val |-> Changed(c, p), key |-> conn[c].write]
<1>1. Changed(c, p) \in Vals
  BY ChangedIs
<1>2. PICK b \in BOOLEAN : b = (p = Last(c))
  OBVIOUS
<1>3. Committed(c, p) = NewFrame(c, p, Changed(c, p), b)
  BY <1>2, Zenon DEF Committed
<1>4. /\ NewFrame(c, p, Changed(c, p), b) \in GoodFrame
      /\ NewFrame(c, p, Changed(c, p), b).pg = p
      /\ NewFrame(c, p, Changed(c, p), b).commit = b
      /\ NewFrame(c, p, Changed(c, p), b).page =
           [val |-> Changed(c, p), key |-> conn[c].write]
  BY <1>1, FrameIs
<1> QED
  BY <1>2, <1>3, <1>4, Zenon

\* The part of the log that was there: frames of the transaction may change,
\* nothing that is committed does.
LEMMA WrittenOverIs ==
  ASSUME Sound, IInv, NEW c \in Conn, Writing(conn[c]), ~conn[c].direct,
         NEW w, w = WrittenOver(c)
  PROVE  /\ w \in Seq(GoodFrame) /\ Len(w) = Len(wal)
         /\ \A i \in 1 .. mx : w[i] = wal[i]
         /\ \A i \in 1 .. Len(wal) : w[i].pg = wal[i].pg
         /\ \A i \in mx + 1 .. Len(wal) : w[i].page.key = conn[c].write
         /\ \A i \in 1 .. Len(wal) :
              w[i] = IF wal[i].pg \in Over(c) /\ i = OwnFrame(c, wal[i].pg)
                       THEN Committed(c, wal[i].pg) ELSE wal[i]
<1>1. /\ Log(c) = wal /\ wal \in Seq(GoodFrame) /\ mx \in Nat /\ Len(wal) = mx + conn[c].own
      /\ conn[c].own \in Nat
  BY WriterLog
<1>2. Len(wal) \in Nat /\ DOMAIN wal = 1 .. Len(wal)
  BY <1>1, LenProperties
<1>3. \A i \in 1 .. Len(wal) : wal[i] \in GoodFrame
  BY <1>1, ElementOfSeq
<1>4. \A i \in 1 .. Len(wal) : wal[i].pg \in Page
  BY <1>3 DEF GoodFrame
<1>5. w = [i \in 1 .. Len(wal) |->
            IF wal[i].pg \in Over(c) /\ i = OwnFrame(c, wal[i].pg)
              THEN Committed(c, wal[i].pg) ELSE wal[i]]
  BY <1>1, <1>2 DEF WrittenOver
<1>6. \A i \in 1 .. Len(wal) :
        /\ Committed(c, wal[i].pg) \in GoodFrame /\ Committed(c, wal[i].pg).pg = wal[i].pg
        /\ Committed(c, wal[i].pg).page.key = conn[c].write
  <2> SUFFICES ASSUME NEW i \in 1 .. Len(wal), NEW p, p = wal[i].pg
               PROVE  /\ Committed(c, p) \in GoodFrame /\ Committed(c, p).pg = p
                      /\ Committed(c, p).page.key = conn[c].write
    OBVIOUS
  <2>1. p \in Page
    BY <1>4
  <2>2. Committed(c, p).page = [val |-> Changed(c, p), key |-> conn[c].write]
    BY <2>1, CommittedIs
  <2>3. Committed(c, p) \in GoodFrame /\ Committed(c, p).pg = p
    BY <2>1, CommittedIs
  <2> QED
    BY <2>2, <2>3
<1>7. \A i \in 1 .. Len(wal) :
        w[i] = IF wal[i].pg \in Over(c) /\ i = OwnFrame(c, wal[i].pg)
                 THEN Committed(c, wal[i].pg) ELSE wal[i]
  BY <1>5
<1>8. w \in [1 .. Len(wal) -> GoodFrame]
  BY <1>3, <1>5, <1>6
<1>9. w \in Seq(GoodFrame) /\ Len(w) = Len(wal)
  BY <1>2, <1>8, FunctionIsSeq
<1>10. \A i \in 1 .. Len(wal) : w[i].pg = wal[i].pg
  BY <1>6, <1>7
<1>11. \A i \in mx + 1 .. Len(wal) : w[i].page.key = conn[c].write
  <2>1. \A i \in mx + 1 .. Len(wal) : i \in 1 .. Len(wal) /\ wal[i].page.key = conn[c].write
    BY <1>1, TailIsOpen
  <2> QED
    BY <1>6, <1>7, <2>1
<1>12. \A i \in 1 .. mx : w[i] = wal[i]
  <2> SUFFICES ASSUME NEW i \in 1 .. mx PROVE i # OwnFrame(c, wal[i].pg) /\ i \in 1 .. Len(wal)
    BY <1>7
  <2>1. i \in 1 .. Len(wal) /\ i # 0 /\ i \notin mx + 1 .. Len(wal)
    BY <1>1
  <2>2. wal[i].pg \in Page
    BY <1>4, <2>1
  <2>3. OwnFrame(c, wal[i].pg) = 0 \/ OwnFrame(c, wal[i].pg) \in mx + 1 .. Len(wal)
    BY <2>2, OwnFrameIs
  <2> QED
    BY <2>1, <2>3
<1> QED
  BY <1>7, <1>9, <1>10, <1>11, <1>12

\* The frames that are added, the last of them with the commit.
LEMMA AppendedIs ==
  ASSUME Sound, IInv, NEW c \in Conn, Writing(conn[c]), ~conn[c].direct,
         NEW w, w = Appended(c)
  PROVE  /\ w \in Seq(GoodFrame) /\ Len(w) \in 1 .. NumPages
         /\ w[Len(w)].commit
         /\ \A i \in 1 .. Len(w) : /\ w[i].pg \in Added(c)
                                   /\ w[i] = Committed(c, w[i].pg)
         /\ \A p \in Added(c) : \E i \in 1 .. Len(w) : w[i].pg = p
<1> PICK n : n = Cardinality(Added(c))
  OBVIOUS
<1> PICK s : s = InOrder(Added(c))
  OBVIOUS
<1>1. Added(c) \in SUBSET Page /\ Last(c) \in Added(c) /\ Max(Added(c)) = Last(c)
  BY LastIs
<1>2. /\ n \in Nat /\ 1 <= n /\ n <= NumPages
      /\ s \in [1 .. n -> Added(c)]
      /\ \A p \in Added(c) : \E i \in 1 .. n : s[i] = p
      /\ s[n] = Last(c)
  BY <1>1, OrderIs
<1>3. w = [i \in 1 .. n |-> Committed(c, s[i])]
  BY <1>2 DEF Appended
<1>4. \A i \in 1 .. n : /\ s[i] \in Added(c) /\ Committed(c, s[i]) \in GoodFrame
                        /\ Committed(c, s[i]).pg = s[i]
                        /\ Committed(c, s[i]).commit = (s[i] = Last(c))
  <2>1. \A i \in 1 .. n : s[i] \in Added(c) /\ s[i] \in Page
    BY <1>1, <1>2
  <2> QED
    BY <2>1, CommittedIs
<1>5. w \in [1 .. n -> GoodFrame]
  BY <1>3, <1>4
<1>6. w \in Seq(GoodFrame) /\ Len(w) = n
  BY <1>2, <1>5, FunctionIsSeq
<1>7. \A i \in 1 .. n : w[i] = Committed(c, s[i]) /\ w[i].pg = s[i]
  BY <1>3, <1>4
<1>8. n \in 1 .. n /\ n \in 1 .. NumPages
  BY <1>2, WalAssumption
<1>9. w[n].commit
  BY <1>2, <1>4, <1>7, <1>8
<1>10. \A p \in Added(c) : \E i \in 1 .. n : w[i].pg = p
  BY <1>2, <1>7
<1> QED
  BY <1>4, <1>6, <1>7, <1>8, <1>9, <1>10

\* The log after a commit: what was committed before, and for every page the
\* transaction has changed a frame with what it made of the page.
LEMMA CommitLogIs ==
  ASSUME Sound, IInv, NEW c \in Conn, Writing(conn[c]), ~conn[c].direct,
         NEW w, w = CommitLog(c)
  PROVE  /\ w \in Seq(GoodFrame)
         /\ Len(w) \in Nat /\ Len(wal) < Len(w) /\ Len(w) <= Len(wal) + NumPages
         /\ \A i \in 1 .. mx : w[i] = wal[i]
         /\ w[Len(w)].commit
         /\ \A i \in mx + 1 .. Len(w) : w[i].page.key = conn[c].write
         /\ \A p \in Page :
              LET j == LatestIn(w, p, mx + 1, Len(w))
              IN  IF j = 0 THEN conn[c].dirty[p] = None /\ OwnFrame(c, p) = 0
                  ELSE w[j].page = [val |-> Changed(c, p), key |-> conn[c].write]
<1> PICK a : a = WrittenOver(c)
  OBVIOUS
<1> PICK b : b = Appended(c)
  OBVIOUS
<1>0. /\ wal \in Seq(GoodFrame) /\ mx \in Nat /\ conn[c].own \in Nat
      /\ Len(wal) = mx + conn[c].own
  BY WriterLog
<1>1. mx \in Nat /\ Len(wal) \in Nat /\ mx <= Len(wal)
  BY <1>0
<1>2. /\ a \in Seq(GoodFrame) /\ Len(a) = Len(wal)
      /\ \A i \in 1 .. mx : a[i] = wal[i]
      /\ \A i \in 1 .. Len(wal) : a[i].pg = wal[i].pg
      /\ \A i \in mx + 1 .. Len(wal) : a[i].page.key = conn[c].write
      /\ \A i \in 1 .. Len(wal) :
           a[i] = IF wal[i].pg \in Over(c) /\ i = OwnFrame(c, wal[i].pg)
                    THEN Committed(c, wal[i].pg) ELSE wal[i]
  BY WrittenOverIs
<1>3. /\ b \in Seq(GoodFrame) /\ Len(b) \in 1 .. NumPages
      /\ b[Len(b)].commit
      /\ \A i \in 1 .. Len(b) : /\ b[i].pg \in Added(c)
                                /\ b[i] = Committed(c, b[i].pg)
      /\ \A p \in Added(c) : \E i \in 1 .. Len(b) : b[i].pg = p
  BY AppendedIs
<1>4. w = a \o b
  BY CommitParts
<1>5. Len(b) \in Nat /\ NumPages \in Nat
  BY <1>3, WalAssumption
<1>6. /\ w \in Seq(GoodFrame) /\ Len(w) = Len(wal) + Len(b)
      /\ \A i \in 1 .. Len(wal) + Len(b) :
           w[i] = IF i <= Len(wal) THEN a[i] ELSE b[i - Len(wal)]
  <2>1. a \in Seq(GoodFrame) /\ b \in Seq(GoodFrame)
    BY <1>2, <1>3
  <2>2. /\ w \in Seq(GoodFrame) /\ Len(w) = Len(a) + Len(b)
        /\ \A i \in 1 .. Len(a) + Len(b) :
             w[i] = IF i <= Len(a) THEN a[i] ELSE b[i - Len(a)]
    BY <1>4, <2>1, ConcatProperties
  <2>3. Len(a) = Len(wal)
    BY <1>2
  <2> QED
    BY <2>2, <2>3, Zenon
<1> PICK n : n = Len(wal)
  OBVIOUS
<1> PICK l : l = Len(b)
  OBVIOUS
<1>7. Len(w) \in Nat /\ Len(wal) < Len(w) /\ Len(w) <= Len(wal) + NumPages
  <2>1. n \in Nat /\ l \in 1 .. NumPages /\ NumPages \in Nat /\ Len(w) = n + l
    BY <1>1, <1>3, <1>5, <1>6
  <2> QED
    BY <2>1
<1>8. \A i \in 1 .. Len(wal) : w[i] = a[i]
  <2>1. n \in Nat /\ l \in Nat
    BY <1>1, <1>5
  <2>2. \A i \in 1 .. n + l : w[i] = IF i <= n THEN a[i] ELSE b[i - n]
    BY <1>6
  <2>3. \A i \in 1 .. n : i \in 1 .. n + l /\ i <= n
    BY <2>1
  <2>4. \A i \in 1 .. n : w[i] = a[i]
    BY <2>2, <2>3
  <2> QED
    BY <2>4
<1>9. \A i \in Len(wal) + 1 .. Len(w) : i - Len(wal) \in 1 .. Len(b) /\ w[i] = b[i - Len(wal)]
  <2>1. n \in Nat /\ l \in Nat
    BY <1>1, <1>5
  <2>2. \A i \in 1 .. n + l : w[i] = IF i <= n THEN a[i] ELSE b[i - n]
    BY <1>6
  <2>3. \A i \in n + 1 .. n + l : i \in 1 .. n + l /\ ~(i <= n) /\ i - n \in 1 .. l
    BY <2>1
  <2>4. \A i \in n + 1 .. n + l : i - n \in 1 .. l /\ w[i] = b[i - n]
    BY <2>2, <2>3
  <2> QED
    BY <1>6, <2>4
<1>10. \A i \in 1 .. mx : w[i] = wal[i]
  BY <1>1, <1>2, <1>8
<1>11. w[Len(w)].commit
  <2>1. /\ Len(w) \in Len(wal) + 1 .. Len(w) /\ Len(w) - Len(wal) = Len(b)
    <3>1. n \in Nat /\ l \in Nat /\ n < n + l /\ Len(w) = n + l
      BY <1>1, <1>5, <1>6, <1>7
    <3>2. n + l \in n + 1 .. n + l /\ (n + l) - n = l
      BY <3>1
    <3> QED
      BY <3>1, <3>2
  <2>2. w[Len(w)] = b[Len(w) - Len(wal)]
    BY <1>9, <2>1
  <2> QED
    BY <1>3, <2>1, <2>2
<1>12. \A p \in Added(c) : p \in Page
  BY LastIs
<1>13. \A i \in Len(wal) + 1 .. Len(w) :
         /\ w[i].pg \in Added(c) /\ w[i] = Committed(c, w[i].pg)
         /\ w[i].page = [val |-> Changed(c, w[i].pg), key |-> conn[c].write]
  <2> SUFFICES ASSUME NEW i \in Len(wal) + 1 .. Len(w), NEW p, p = w[i].pg
               PROVE  p \in Added(c) /\ w[i] = Committed(c, p)
                        /\ Committed(c, p).page = [val |-> Changed(c, p), key |-> conn[c].write]
    OBVIOUS
  <2>1. p \in Added(c) /\ w[i] = Committed(c, p)
    <3>1. PICK h \in 1 .. Len(b) : w[i] = b[h]
      BY <1>9
    <3>2. b[h].pg \in Added(c) /\ b[h] = Committed(c, b[h].pg)
      BY <1>3
    <3> QED
      BY <3>1, <3>2
  <2>2. p \in Page
    BY <1>12, <2>1
  <2> QED
    BY <2>1, <2>2, CommittedIs
<1>14. \A i \in mx + 1 .. Len(w) : w[i].page.key = conn[c].write
  <2> SUFFICES ASSUME NEW i \in mx + 1 .. Len(w) PROVE w[i].page.key = conn[c].write
    OBVIOUS
  <2>1. CASE i <= Len(wal)
    <3>1. i \in 1 .. Len(wal) /\ i \in mx + 1 .. Len(wal)
      BY <1>1, <2>1
    <3> QED
      BY <1>2, <1>8, <3>1
  <2>2. CASE ~(i <= Len(wal))
    <3>1. i \in Len(wal) + 1 .. Len(w)
      BY <1>1, <1>7, <2>2
    <3>2. w[i].page = [val |-> Changed(c, w[i].pg), key |-> conn[c].write]
      BY <1>13, <3>1
    <3> QED
      BY <3>2
  <2> QED
    BY <2>1, <2>2
<1>15. ASSUME NEW p \in Page
       PROVE  LET j == LatestIn(w, p, mx + 1, Len(w))
              IN  IF j = 0 THEN conn[c].dirty[p] = None /\ OwnFrame(c, p) = 0
                  ELSE w[j].page = [val |-> Changed(c, p), key |-> conn[c].write]
  <2> PICK j : j = LatestIn(w, p, mx + 1, Len(w))
    OBVIOUS
  <2>1. /\ j \in Nat /\ (j # 0 => j \in mx + 1 .. Len(w) /\ w[j].pg = p)
        /\ \A i \in mx + 1 .. Len(w) : w[i].pg = p => i <= j
    <3>1. mx + 1 \in Nat
      BY <1>1
    <3> QED
      BY <1>7, <3>1, LatestIsLast
  <2>2. CASE p \in Added(c)
    <3>1. PICK i \in 1 .. Len(b) : b[i].pg = p
      BY <1>3, <2>2
    <3>2. /\ i + Len(wal) \in Len(wal) + 1 .. Len(w) /\ i + Len(wal) \in mx + 1 .. Len(w)
          /\ (i + Len(wal)) - Len(wal) = i
      BY <1>1, <1>5, <1>6
    <3>3. w[i + Len(wal)].pg = p
      BY <1>9, <3>1, <3>2
    <3>4. i + Len(wal) <= j
      BY <2>1, <3>2, <3>3
    <3>5. j \in Len(wal) + 1 .. Len(w) /\ j # 0
      BY <1>1, <1>7, <2>1, <3>2, <3>4
    <3> QED
      BY <1>13, <2>1, <3>5
  <2>3. CASE p \notin Added(c)
    <3>1. \A i \in Len(wal) + 1 .. Len(w) : w[i].pg # p
      BY <1>13, <2>3
    <3>2. \A i \in 1 .. Len(wal) : w[i].pg = wal[i].pg
      BY <1>2, <1>8
    <3>3. {i \in mx + 1 .. Len(w) : w[i].pg = p} = {i \in mx + 1 .. Len(wal) : wal[i].pg = p}
      <4>1. \A i \in mx + 1 .. Len(w) : w[i].pg = p => i \in 1 .. Len(wal) /\ i \in mx + 1 .. Len(wal)
        <5>1. ASSUME NEW i \in mx + 1 .. Len(w), i \notin Len(wal) + 1 .. Len(w)
              PROVE  i \in 1 .. Len(wal) /\ i \in mx + 1 .. Len(wal)
          BY <1>1, <1>7, <5>1
        <5> QED
          BY <3>1, <5>1
      <4>2. \A i \in mx + 1 .. Len(wal) : i \in mx + 1 .. Len(w) /\ i \in 1 .. Len(wal)
        BY <1>1, <1>7
      <4> QED
        BY <3>2, <4>1, <4>2
    <3>4. j = OwnFrame(c, p)
      BY <1>0, <3>3, OwnFrameIs DEF LatestIn
    <3>5. p # Last(c) /\ (conn[c].dirty[p] # None => p \in Over(c))
      BY <2>3 DEF Added, Dirty
    <3>6. CASE j = 0
      <4>1. conn[c].dirty[p] = None
        BY <3>4, <3>5, <3>6 DEF Over
      <4> QED
        BY <3>4, <3>6, <4>1
    <3>7. CASE j # 0 /\ p \in Over(c)
      <4>1. j \in mx + 1 .. Len(wal) /\ j \in 1 .. Len(wal) /\ wal[j].pg = p
        BY <1>1, <3>4, <3>7, OwnFrameIs
      <4>2. w[j] = Committed(c, p)
        BY <1>2, <1>8, <3>4, <3>7, <4>1
      <4>3. Committed(c, p).page = [val |-> Changed(c, p), key |-> conn[c].write]
        BY CommittedIs
      <4> QED
        BY <3>7, <4>2, <4>3
    <3>8. CASE j # 0 /\ p \notin Over(c)
      <4>1. j \in mx + 1 .. Len(wal) /\ j \in 1 .. Len(wal) /\ wal[j].pg = p
        BY <1>1, <3>4, <3>8, OwnFrameIs
      <4>2. w[j] = wal[j]
        BY <1>2, <1>8, <3>8, <4>1
      <4>3. conn[c].dirty[p] = None
        BY <3>5, <3>8
      <4>4. Changed(c, p) = wal[j].page.val
        BY <3>4, <3>8, <4>3, ChangedIs
      <4>5. wal[j].page.key = conn[c].write
        BY <4>1, TailIsOpen
      <4>6. wal[j].page = [val |-> wal[j].page.val, key |-> wal[j].page.key]
        <5>1. wal[j] \in GoodFrame
          BY <1>0, <4>1, ElementOfSeq
        <5>2. wal[j].page \in GoodPage
          BY <5>1 DEF GoodFrame
        <5> QED
          BY <5>2 DEF GoodPage
      <4> QED
        BY <3>8, <4>2, <4>4, <4>5, <4>6
    <3> QED
      BY <3>6, <3>7, <3>8
  <2> QED
    BY <2>2, <2>3
<1> QED
  BY <1>6, <1>7, <1>10, <1>11, <1>14, <1>15, Zenon

\* In a log w that goes on from m to h where v has ended a page is in the new
\* part, or else where it was.
Grown(w, v, d, p, m, h) ==
  LET j == LatestIn(w, p, m + 1, h)
  IN  /\ j = 0 => /\ AtIn(w, d, p, 1, h) = AtIn(v, d, p, 1, m)
                  /\ LatestIn(w, p, 1, h) = LatestIn(v, p, 1, m)
      /\ j # 0 => /\ AtIn(w, d, p, 1, h) = w[j].page
                  /\ LatestIn(w, p, 1, h) = j /\ j \in m + 1 .. h

\* Logs that agree up to m: what a reader of the longer one finds.
LEMMA LatestGrown ==
  ASSUME NEW w, NEW v, NEW d, NEW p, NEW m \in Nat, NEW h \in Nat, m <= h,
         \A i \in 1 .. m : w[i] = v[i]
  PROVE  Grown(w, v, d, p, m, h)
<1> PICK j : j = LatestIn(w, p, m + 1, h)
  OBVIOUS
<1>1. LatestIn(w, p, 1, h) = IF j # 0 THEN j ELSE LatestIn(w, p, 1, m)
  BY LatestSplit
<1>2. LatestIn(w, p, 1, m) = LatestIn(v, p, 1, m)
  BY SameLatest
<1>3. AtIn(w, d, p, 1, m) = AtIn(v, d, p, 1, m)
  BY SameFrames
<1>4. j # 0 => j \in m + 1 .. h
  <2>1. m + 1 \in Nat
    OBVIOUS
  <2> QED
    BY <2>1, LatestIsLast
<1>5. j = 0 => AtIn(w, d, p, 1, h) = AtIn(w, d, p, 1, m)
  BY <1>1 DEF AtIn
<1>6. j # 0 => AtIn(w, d, p, 1, h) = w[j].page
  BY <1>1 DEF AtIn
<1> QED
  BY <1>1, <1>2, <1>3, <1>4, <1>5, <1>6 DEF Grown

\* t has a transaction more in its log than s.
CommitOf(s, t) ==
  /\ s.mx = Ends(s.wal)
  /\ t.mode = s.mode /\ t.db = s.db /\ t.backfill = s.backfill /\ t.mx = Len(t.wal)
  /\ t.want.val \in [Page -> Vals] /\ t.want.pass \in Pass \cup {None}
  /\ t.want = [val |-> t.want.val, pass |-> t.want.pass]
  /\ t.wal \in Seq(GoodFrame) /\ Len(t.wal) <= MaxFrames /\ s.mx < Len(t.wal)
  /\ \A i \in 1 .. s.mx : t.wal[i] = s.wal[i]
  /\ t.wal[Len(t.wal)].commit
  /\ \A i \in s.mx + 1 .. Len(t.wal) : t.wal[i].page.key = Right(t)
  /\ ~s.mode.auth => Right(t) = Right(s)
  /\ t.want.pass # None => s.want.pass # None
  /\ \A p \in Page :
       LET j == LatestIn(t.wal, p, s.mx + 1, Len(t.wal))
       IN  IF j = 0 THEN t.want.val[p] = s.want.val[p] /\ Right(t) = Right(s)
           ELSE t.wal[j].page = [val |-> t.want.val[p], key |-> Right(t)]

\* What is shared once a transaction has committed.
LEMMA CommitShared ==
  ASSUME NEW s, NEW t, SharedOK(s), CommitOf(s, t)
  PROVE  SharedOK(t) /\ t.mx = Ends(t.wal)
<1>0. /\ s.mx = Ends(s.wal)
      /\ t.mode = s.mode /\ t.db = s.db /\ t.backfill = s.backfill /\ t.mx = Len(t.wal)
      /\ t.want.val \in [Page -> Vals] /\ t.want.pass \in Pass \cup {None}
      /\ t.want = [val |-> t.want.val, pass |-> t.want.pass]
      /\ t.wal \in Seq(GoodFrame) /\ Len(t.wal) <= MaxFrames /\ s.mx < Len(t.wal)
      /\ \A i \in 1 .. s.mx : t.wal[i] = s.wal[i]
      /\ t.wal[Len(t.wal)].commit
      /\ \A i \in s.mx + 1 .. Len(t.wal) : t.wal[i].page.key = Right(t)
      /\ ~s.mode.auth => Right(t) = Right(s)
      /\ t.want.pass # None => s.want.pass # None
      /\ \A p \in Page :
           LET j == LatestIn(t.wal, p, s.mx + 1, Len(t.wal))
           IN  IF j = 0 THEN t.want.val[p] = s.want.val[p] /\ Right(t) = Right(s)
               ELSE t.wal[j].page = [val |-> t.want.val[p], key |-> Right(t)]
  BY DEF CommitOf
<1> USE <1>0
<1>1. /\ s.mx \in Nat /\ s.backfill \in Nat /\ s.backfill <= s.mx
      /\ SharedTypes(s)
  BY Numbers DEF SharedOK
<1>2. Len(t.wal) \in Nat
  BY LenProperties
<1>3. SharedTypes(t)
  <2>1. t.mx \in Nat /\ t.backfill <= t.mx /\ t.mx <= Len(t.wal)
    BY <1>1, <1>2
  <2> QED
    BY <1>1, <2>1 DEF SharedTypes
<1>4. Ends(t.wal) = t.mx
  <2>1. Ends(t.wal) \in 0 .. Len(t.wal)
    BY <1>2, EndsIsLast
  <2>2. Len(t.wal) \in 1 .. Len(t.wal)
    BY <1>1, <1>2
  <2>3. Len(t.wal) <= Ends(t.wal)
    BY <1>2, <2>2, EndsIsLast
  <2> QED
    BY <1>2, <2>1, <2>3
<1>5. ASSUME NEW p \in Page
      PROVE  /\ AtIn(t.wal, t.db, p, 1, t.mx) = [val |-> t.want.val[p], key |-> Right(t)]
             /\ LatestIn(t.wal, p, 1, t.mx) \in 1 .. t.backfill =>
                  t.db[p] = t.wal[LatestIn(t.wal, p, 1, t.mx)].page
  <2> PICK j : j = LatestIn(t.wal, p, s.mx + 1, t.mx)
    OBVIOUS
  <2> PICK i : i = LatestIn(s.wal, p, 1, s.mx)
    OBVIOUS
  <2>0. t.mx \in Nat /\ s.mx \in Nat /\ s.mx <= t.mx
    BY <1>1, <1>2
  <2>1. Grown(t.wal, s.wal, t.db, p, s.mx, t.mx)
    BY <2>0, LatestGrown
  <2>4. i = 0 \/ i \in 1 .. s.mx
    BY <1>1, LatestIsLast
  <2>5. IF j = 0 THEN t.want.val[p] = s.want.val[p] /\ Right(t) = Right(s)
        ELSE t.wal[j].page = [val |-> t.want.val[p], key |-> Right(t)]
    BY Zenon
  <2>6. /\ AtIn(s.wal, s.db, p, 1, s.mx) = [val |-> s.want.val[p], key |-> Right(s)]
        /\ i \in 1 .. s.backfill => s.db[p] = s.wal[i].page
    BY DEF SharedOK, Kept
  <2>7. CASE j = 0
    <3>1. /\ AtIn(t.wal, t.db, p, 1, t.mx) = AtIn(s.wal, s.db, p, 1, s.mx)
          /\ LatestIn(t.wal, p, 1, t.mx) = i
      BY <2>1, <2>7, Zenon DEF Grown
    <3>2. i \in 1 .. s.backfill => t.wal[i] = s.wal[i]
      BY <1>1
    <3> QED
      BY <2>5, <2>6, <2>7, <3>1, <3>2
  <2>8. CASE j # 0
    <3>1. /\ AtIn(t.wal, t.db, p, 1, t.mx) = t.wal[j].page
          /\ LatestIn(t.wal, p, 1, t.mx) = j /\ j \in s.mx + 1 .. t.mx
      BY <2>1, <2>8, Zenon DEF Grown
    <3>2. j \notin 1 .. s.backfill
      BY <1>1, <2>0, <3>1
    <3> QED
      BY <2>5, <2>8, <3>1, <3>2
  <2> QED
    BY <2>7, <2>8
<1>6. Kept(t)
  BY <1>4, <1>5 DEF Kept
<1>7. \A i \in 1 .. Len(t.wal) : i \in 1 .. s.mx \/ i \in s.mx + 1 .. Len(t.wal)
  BY <1>1, <1>2
<1>8. Salted(t)
  <2>1. s.mx <= Len(s.wal) /\ Len(s.wal) \in Nat
    BY <1>1, Numbers
  <2>2. ~t.mode.auth =>
          /\ \A p \in Page : t.db[p].key = Right(t)
          /\ \A i \in 1 .. Len(t.wal) : t.wal[i].page.key = Right(t)
    <3> SUFFICES ASSUME ~s.mode.auth
                 PROVE  /\ \A p \in Page : t.db[p].key = Right(t)
                        /\ \A i \in 1 .. Len(t.wal) : t.wal[i].page.key = Right(t)
      OBVIOUS
    <3>1. \A p \in Page : t.db[p].key = Right(t)
      BY DEF SharedOK, Salted
    <3>2. \A i \in 1 .. s.mx : t.wal[i].page.key = Right(t)
      BY <1>1, <2>1 DEF SharedOK, Salted
    <3> QED
      BY <1>7, <3>1, <3>2
  <2>3. ASSUME t.want.pass # None, NEW i \in 1 .. Ends(t.wal), t.wal[i].pg = 1
        PROVE  t.wal[i].page.key[2] = t.db[1].key[2]
    <3>1. i \in 1 .. Len(t.wal)
      BY <1>4, <2>3
    <3>2. CASE i \in 1 .. s.mx
      BY <2>3, <3>2 DEF SharedOK, Salted
    <3>3. CASE i \in s.mx + 1 .. Len(t.wal)
      <4>1. t.wal[i].page.key = <<t.want.pass, t.db[1].key[2]>>
        BY <2>3, <3>3 DEF Right, KeyIn
      <4> QED
        BY <4>1
    <3> QED
      BY <1>7, <3>1, <3>2, <3>3
  <2> QED
    BY <2>2, <2>3 DEF Salted
<1> QED
  BY <1>3, <1>4, <1>6, <1>8 DEF SharedOK

\* walFrames as commit: what is wanted becomes what the transaction saw.
LEMMA CommitKeeps ==
  ASSUME Sound, IInv, NEW c \in Conn, Commit(c)
  PROVE  IInv'
<1>1. /\ Writing(conn[c]) /\ conn[c].st = "write" /\ ~conn[c].direct
      /\ conn' = [conn EXCEPT ![c] = Idle(conn[c])]
      /\ UNCHANGED <<mode, db, backfill>>
  BY DEF Commit, Writing, Set
<1>2. /\ SharedOK(Shared) /\ SharedTypes(Shared)
      /\ ConnOK(conn[c], Shared) /\ conn[c] \in Connection
      /\ Shared.mode = mode /\ Shared.db = db /\ Shared.wal = wal
      /\ Shared.mx = mx /\ Shared.backfill = backfill /\ Shared.want = want
      /\ \A d \in Conn \ {c} : ConnOK(conn[d], Shared)
  BY Here, Fields
<1>3. /\ Log(c) = wal /\ mx = Ends(wal) /\ mx \in Nat /\ conn[c].warm
      /\ KeysOK(conn[c], Shared)
      /\ \A d \in Conn \ {c} : ~Writing(conn[d]) /\ conn[d].st # "closing"
  BY <1>1, WriterLog
<1> PICK w : w = CommitLog(c)
  OBVIOUS
<1>4. wal' = w /\ mx' = Len(w) /\ Len(wal) + NumPages <= MaxFrames
  BY <1>3 DEF Commit
<1> PICK new : new = [p \in Page |-> Changed(c, p)]
  OBVIOUS
<1>5. want' = [want EXCEPT !.val = new]
  BY DEF Commit
<1>6. new \in [Page -> Vals]
  BY <1>1, ChangedIs
<1>7. /\ want.pass \in Pass \cup {None} /\ want = [val |-> want.val, pass |-> want.pass]
  BY <1>2 DEF SharedTypes
<1>8. want' = [val |-> new, pass |-> want.pass]
  <2> PICK u : u = want.pass
    OBVIOUS
  <2> PICK x : x = want.val
    OBVIOUS
  <2>1. want = [val |-> x, pass |-> u]
    BY <1>7
  <2> QED
    BY <1>5, <2>1
<1>9. /\ w \in Seq(GoodFrame)
      /\ Len(w) \in Nat /\ Len(wal) < Len(w) /\ Len(w) <= Len(wal) + NumPages
      /\ \A i \in 1 .. mx : w[i] = wal[i]
      /\ w[Len(w)].commit
      /\ \A i \in mx + 1 .. Len(w) : w[i].page.key = conn[c].write
      /\ \A p \in Page :
           LET j == LatestIn(w, p, mx + 1, Len(w))
           IN  IF j = 0 THEN conn[c].dirty[p] = None /\ OwnFrame(c, p) = 0
               ELSE w[j].page = [val |-> Changed(c, p), key |-> conn[c].write]
  BY <1>1, CommitLogIs
<1>10. conn[c].write = Right(Shared)
  BY <1>1, <1>2, WriterCurrent DEF KeysOK, Unwritable, ConnOK
<1> PICK t : t = Shared'
  OBVIOUS
<1>11. /\ t.mode = mode /\ t.db = db /\ t.wal = w /\ t.mx = Len(w)
       /\ t.backfill = backfill /\ t.want = [val |-> new, pass |-> want.pass]
  BY <1>1, <1>4, <1>8, NextFields
<1>12. Right(t) = Right(Shared)
  BY <1>2, <1>11 DEF Right
<1>13. ASSUME NEW p \in Page
       PROVE  LET j == LatestIn(w, p, mx + 1, Len(w))
              IN  IF j = 0 THEN new[p] = want.val[p] /\ Right(t) = Right(Shared)
                  ELSE w[j].page = [val |-> new[p], key |-> Right(t)]
  <2> PICK j : j = LatestIn(w, p, mx + 1, Len(w))
    OBVIOUS
  <2>1. IF j = 0 THEN conn[c].dirty[p] = None /\ OwnFrame(c, p) = 0
        ELSE w[j].page = [val |-> Changed(c, p), key |-> conn[c].write]
    BY <1>9, Zenon
  <2>2. new[p] = Changed(c, p)
    OBVIOUS
  <2>3. conn[c].dirty[p] = None /\ OwnFrame(c, p) = 0 => Changed(c, p) = want.val[p]
    BY <1>1, ChangedIs
  <2> QED
    BY <1>10, <1>12, <2>1, <2>2, <2>3
<1>14. /\ mx < Len(w) /\ Len(w) <= MaxFrames /\ mx <= Len(w)
  <2>1. /\ mx \in Nat /\ Len(wal) \in Nat /\ mx <= Len(wal) /\ NumPages \in Nat
        /\ MaxFrames \in Nat
    BY <1>2, Numbers, WalAssumption
  <2>2. /\ Len(w) \in Nat /\ Len(wal) < Len(w) /\ Len(w) <= Len(wal) + NumPages
        /\ Len(wal) + NumPages <= MaxFrames
    BY <1>4, <1>9
  <2> QED
    BY <2>1, <2>2
<1>15. t.want.val = new /\ t.want.pass = want.pass
  BY <1>11
<1>16. SharedOK(t) /\ t.mx = Ends(t.wal)
  <2>1. t.want = [val |-> t.want.val, pass |-> t.want.pass]
    BY <1>11
  <2>2. \A i \in mx + 1 .. Len(w) : w[i].page.key = Right(t)
    BY <1>9, <1>10, <1>12
  <2>3. \A p \in Page :
          LET j == LatestIn(t.wal, p, Shared.mx + 1, Len(t.wal))
          IN  IF j = 0 THEN t.want.val[p] = Shared.want.val[p] /\ Right(t) = Right(Shared)
              ELSE t.wal[j].page = [val |-> t.want.val[p], key |-> Right(t)]
    BY <1>2, <1>11, <1>13, <1>15
  <2> QED
    <3>1. /\ ~Shared.mode.auth => Right(t) = Right(Shared)
          /\ t.want.pass # None => Shared.want.pass # None
      BY <1>2, <1>12, <1>15
    <3>2. t.want.val \in [Page -> Vals] /\ t.want.pass \in Pass \cup {None}
      BY <1>6, <1>7, <1>15
    <3>3. /\ t.mode = Shared.mode /\ t.db = Shared.db /\ t.backfill = Shared.backfill
          /\ t.mx = Len(t.wal) /\ t.wal \in Seq(GoodFrame) /\ Len(t.wal) <= MaxFrames
          /\ Shared.mx < Len(t.wal) /\ t.wal[Len(t.wal)].commit
          /\ \A i \in 1 .. Shared.mx : t.wal[i] = Shared.wal[i]
          /\ \A i \in Shared.mx + 1 .. Len(t.wal) : t.wal[i].page.key = Right(t)
          /\ Shared.mx = Ends(Shared.wal)
      BY <1>2, <1>3, <1>9, <1>11, <1>14, <2>2
    <3>4. CommitOf(Shared, t)
      BY Zenon, <2>1, <2>3, <3>1, <3>2, <3>3 DEF CommitOf
    <3> QED
      BY <1>2, <3>4, CommitShared
<1> PICK k : k = Idle(conn[c])
  OBVIOUS
<1>17. /\ k \in Connection /\ k.st = "idle" /\ k.read = conn[c].read
       /\ k.write = conn[c].write /\ k.warm = conn[c].warm /\ k.cur = conn[c].cur
       /\ k.own = 0 /\ k.dirty = Clean /\ ~Active(k) /\ ~Copying(k) /\ ~Writing(k)
  BY <1>2, IdleIs
<1>18. KeysOK(k, t)
  BY <1>1, <1>2, <1>3, <1>11, <1>12, <1>17 DEF KeysOK, Unwritable
<1>19. ConnOK(k, t)
  BY <1>16, <1>17, <1>18 DEF ConnOK
<1>20. \A d \in Conn \ {c} : ConnOK(conn[d], t)
  <2>1. SharedTypes(t)
    BY <1>16 DEF SharedOK
  <2> QED
    BY <1>2, <1>3, <1>9, <1>11, <1>12, <1>14, <1>16, <2>1, OtherKeeps
<1>21. \A d \in Conn \ {c} : PairOK(k, conn[d], t) /\ PairOK(conn[d], k, t)
  BY <1>3, <1>17, QuietPair
<1>22. Len(t.wal) = Ends(t.wal)
  BY <1>11, <1>16
<1>23. conn' = [conn EXCEPT ![c] = k]
  BY <1>1
<1> QED
  BY <1>3, <1>11, <1>16, <1>17, <1>19, <1>20, <1>21, <1>22, <1>23, StepOne

\* Another connection changes the key: this one is no longer current.
Forgotten(k) == [k EXCEPT !.cur = FALSE]

\* To be no longer current asks less of a connection.
LEMMA ForgottenIs ==
  ASSUME NEW s, NEW k, ConnOK(k, s), NEW j, j = Forgotten(k)
  PROVE  /\ ConnOK(j, s) /\ ~j.cur /\ j.st = k.st /\ j.warm = k.warm
         /\ (Writing(j) <=> Writing(k)) /\ (Copying(j) <=> Copying(k))
         /\ \A o : PairOK(j, o, s) <=> PairOK(k, o, s)
         /\ \A o : PairOK(o, j, s) <=> PairOK(o, k, s)
<1>1. k \in Connection
  BY DEF ConnOK
<1>2. /\ j.st = k.st /\ j.read = k.read /\ j.write = k.write /\ j.warm = k.warm
      /\ j.lo = k.lo /\ j.hi = k.hi /\ j.direct = k.direct /\ j.dirty = k.dirty
      /\ j.own = k.own /\ j.todo = k.todo /\ j.safe = k.safe /\ j.seen = k.seen
      /\ j.cur = FALSE
  BY <1>1 DEF Forgotten, Connection
<1>3. j \in Connection
  <2>1. FALSE \in BOOLEAN
    OBVIOUS
  <2> QED
    BY <1>1, <2>1 DEF Forgotten, Connection
<1>4. /\ Active(j) <=> Active(k)
      /\ Writing(j) <=> Writing(k)
      /\ Copying(j) <=> Copying(k)
  BY <1>2 DEF Active, Writing, Copying
<1>5. j.st = "closed" => j = Closed
  <2>1. k.st = "closed" => k = Closed
    BY DEF ConnOK
  <2>2. Forgotten(Closed) = Closed
    <3>1. PICK r : r = Closed
      OBVIOUS
    <3>2. r = [st |-> "closed", read |-> Plain, write |-> Plain, warm |-> FALSE,
               lo |-> 1, hi |-> 0, direct |-> FALSE, dirty |-> Clean, own |-> 0,
               todo |-> {}, safe |-> 0, cur |-> FALSE, seen |-> Clean]
      BY <3>1 DEF Closed
    <3>3. PICK q : q = [r EXCEPT !.cur = FALSE]
      OBVIOUS
    <3>4. q = [st |-> "closed", read |-> Plain, write |-> Plain, warm |-> FALSE,
               lo |-> 1, hi |-> 0, direct |-> FALSE, dirty |-> Clean, own |-> 0,
               todo |-> {}, safe |-> 0, cur |-> FALSE, seen |-> Clean]
      BY <3>2, <3>3
    <3> QED
      BY <3>1, <3>2, <3>3, <3>4, Zenon DEF Forgotten
  <2> QED
    BY <1>2, <2>1, <2>2
<1>6. k.st # "closed" => KeysOK(j, s)
  BY <1>2 DEF ConnOK, KeysOK, Unwritable
<1>7. Active(k) => SnapshotOK(j, s)
  BY <1>2, SnapshotSame DEF ConnOK
<1>8. Writing(k) => WritingOK(j, s)
  BY <1>2 DEF ConnOK, WritingOK
<1>9. Copying(k) => CopyingOK(j, s)
  BY <1>2 DEF ConnOK, CopyingOK
<1>10. ConnOK(j, s)
  BY <1>2, <1>3, <1>4, <1>5, <1>6, <1>7, <1>8, <1>9 DEF ConnOK
<1>11. \A o : PairOK(j, o, s) <=> PairOK(k, o, s)
  BY <1>2, <1>4 DEF PairOK
<1>12. \A o : PairOK(o, j, s) <=> PairOK(o, k, s)
  BY <1>2, <1>4 DEF PairOK
<1> QED
  BY <1>2, <1>4, <1>10, <1>11, <1>12

\* The connection that has changed the key.
LEMMA FinishedIs ==
  ASSUME NEW k, k \in Connection, NEW f, f = Finished(k)
  PROVE  /\ f \in Connection /\ f.st = "idle" /\ f.cur
         /\ f.read = k.write /\ f.write = k.write /\ f.warm = k.warm
         /\ f.own = 0 /\ f.dirty = Clean
         /\ ~Active(f) /\ ~Copying(f) /\ ~Writing(f)
<1> PICK i : i = Idle(k)
  OBVIOUS
<1>1. /\ i \in Connection /\ i.st = "idle" /\ i.write = k.write /\ i.warm = k.warm
      /\ i.own = 0 /\ i.dirty = Clean
  BY IdleIs
<1>2. f = [i EXCEPT !.cur = TRUE, !.read = k.write]
  BY DEF Finished
<1>3. k.write \in Key /\ TRUE \in BOOLEAN
  BY DEF Connection
<1>4. f \in Connection
  BY <1>1, <1>2, <1>3 DEF Connection
<1>5. /\ f.st = "idle" /\ f.cur = TRUE /\ f.read = k.write /\ f.write = i.write
      /\ f.warm = i.warm /\ f.own = i.own /\ f.dirty = i.dirty
  BY <1>1, <1>2 DEF Connection
<1> QED
  BY <1>1, <1>4, <1>5 DEF Active, Copying, Writing

\* A rekey commits: every page has a frame under the new key.
LEMMA RekeyCommitKeeps ==
  ASSUME Sound, IInv, NEW c \in Conn, RekeyCommit(c)
  PROVE  IInv'
<1>1. /\ Writing(conn[c]) /\ conn[c].st = "rekey" /\ ~conn[c].direct
      /\ UNCHANGED <<mode, db, backfill>>
  BY DEF RekeyCommit, Writing
<1>2. /\ SharedOK(Shared) /\ SharedTypes(Shared)
      /\ ConnOK(conn[c], Shared) /\ conn[c] \in Connection
      /\ Shared.mode = mode /\ Shared.db = db /\ Shared.wal = wal
      /\ Shared.mx = mx /\ Shared.backfill = backfill /\ Shared.want = want
      /\ \A d \in Conn \ {c} : ConnOK(conn[d], Shared)
  BY Here, Fields
<1>3. /\ Log(c) = wal /\ mx = Ends(wal) /\ mx \in Nat /\ conn[c].warm
      /\ KeysOK(conn[c], Shared) /\ WritingOK(conn[c], Shared)
      /\ \A d \in Conn \ {c} : ~Writing(conn[d]) /\ conn[d].st # "closing"
  BY <1>1, WriterLog
<1> PICK w : w = CommitLog(c)
  OBVIOUS
<1>4. wal' = w /\ mx' = Len(w) /\ Len(wal) + NumPages <= MaxFrames
  BY <1>3 DEF RekeyCommit
<1> PICK new : new = conn[c].write[1]
  OBVIOUS
<1>5. /\ mode.auth /\ want.pass # None
      /\ new \in Pass \cup {None} /\ conn[c].write = KeyIn(db, new)
  BY <1>1, <1>2, <1>3 DEF KeysOK
<1>6. want' = [want EXCEPT !.pass = new]
  BY DEF RekeyCommit
<1>7. want.val \in [Page -> Vals] /\ want = [val |-> want.val, pass |-> want.pass]
  BY <1>2 DEF SharedTypes
<1>8. want' = [val |-> want.val, pass |-> new]
  <2> PICK u : u = want.pass
    OBVIOUS
  <2> PICK x : x = want.val
    OBVIOUS
  <2>1. want = [val |-> x, pass |-> u]
    BY <1>7
  <2> QED
    BY <1>6, <2>1
<1>9. /\ w \in Seq(GoodFrame)
      /\ Len(w) \in Nat /\ Len(wal) < Len(w) /\ Len(w) <= Len(wal) + NumPages
      /\ \A i \in 1 .. mx : w[i] = wal[i]
      /\ w[Len(w)].commit
      /\ \A i \in mx + 1 .. Len(w) : w[i].page.key = conn[c].write
      /\ \A p \in Page :
           LET j == LatestIn(w, p, mx + 1, Len(w))
           IN  IF j = 0 THEN conn[c].dirty[p] = None /\ OwnFrame(c, p) = 0
               ELSE w[j].page = [val |-> Changed(c, p), key |-> conn[c].write]
  BY <1>1, CommitLogIs
<1> PICK t : t = Shared'
  OBVIOUS
<1>10. /\ t.mode = mode /\ t.db = db /\ t.wal = w /\ t.mx = Len(w)
       /\ t.backfill = backfill /\ t.want = [val |-> want.val, pass |-> new]
  BY <1>1, <1>4, <1>8, NextFields
<1>11. t.want.val = want.val /\ t.want.pass = new
  BY <1>10
<1>12. Right(t) = conn[c].write
  BY <1>5, <1>10, <1>11 DEF Right
<1>13. ASSUME NEW p \in Page
       PROVE  LET j == LatestIn(w, p, mx + 1, Len(w))
              IN  j # 0 /\ w[j].page = [val |-> want.val[p], key |-> Right(t)]
  <2> PICK j : j = LatestIn(w, p, mx + 1, Len(w))
    OBVIOUS
  <2>1. IF j = 0 THEN conn[c].dirty[p] = None /\ OwnFrame(c, p) = 0
        ELSE w[j].page = [val |-> Changed(c, p), key |-> conn[c].write]
    BY <1>9, Zenon
  <2>2. OwnFrame(c, p) = LatestIn(wal, p, mx + 1, mx + conn[c].own)
    BY <1>1, OwnFrameIs
  <2>3. IF conn[c].dirty[p] # None THEN conn[c].dirty[p] = conn[c].seen[p]
        ELSE OwnFrame(c, p) # 0 /\ wal[OwnFrame(c, p)].page.val = conn[c].seen[p]
    BY <1>1, <1>2, <1>3, <2>2 DEF WritingOK
  <2>4. /\ conn[c].dirty[p] # None => Changed(c, p) = conn[c].dirty[p]
        /\ conn[c].dirty[p] = None /\ OwnFrame(c, p) # 0 =>
             Changed(c, p) = wal[OwnFrame(c, p)].page.val
    BY <1>1, ChangedIs
  <2>5. conn[c].seen[p] = want.val[p]
    BY <1>1, <1>2, WriterCurrent
  <2> QED
    BY <1>12, <2>1, <2>3, <2>4, <2>5
<1>14. /\ mx < Len(w) /\ Len(w) <= MaxFrames /\ mx <= Len(w)
  <2>1. /\ mx \in Nat /\ Len(wal) \in Nat /\ mx <= Len(wal) /\ NumPages \in Nat
        /\ MaxFrames \in Nat
    BY <1>2, Numbers, WalAssumption
  <2>2. /\ Len(w) \in Nat /\ Len(wal) < Len(w) /\ Len(w) <= Len(wal) + NumPages
        /\ Len(wal) + NumPages <= MaxFrames
    BY <1>4, <1>9
  <2> QED
    BY <2>1, <2>2
<1>15. SharedOK(t) /\ t.mx = Ends(t.wal)
  <2>1. t.want = [val |-> t.want.val, pass |-> t.want.pass]
    BY <1>10
  <2>2. \A i \in mx + 1 .. Len(w) : w[i].page.key = Right(t)
    BY <1>9, <1>12
  <2>3. \A p \in Page :
          LET j == LatestIn(t.wal, p, Shared.mx + 1, Len(t.wal))
          IN  IF j = 0 THEN t.want.val[p] = Shared.want.val[p] /\ Right(t) = Right(Shared)
              ELSE t.wal[j].page = [val |-> t.want.val[p], key |-> Right(t)]
    BY <1>2, <1>10, <1>11, <1>13
  <2>4. /\ ~Shared.mode.auth => Right(t) = Right(Shared)
        /\ t.want.pass # None => Shared.want.pass # None
    BY <1>2, <1>5
  <2>5. t.want.val \in [Page -> Vals] /\ t.want.pass \in Pass \cup {None}
    BY <1>5, <1>7, <1>11
  <2>6. /\ t.mode = Shared.mode /\ t.db = Shared.db /\ t.backfill = Shared.backfill
        /\ t.mx = Len(t.wal) /\ t.wal \in Seq(GoodFrame) /\ Len(t.wal) <= MaxFrames
        /\ Shared.mx < Len(t.wal) /\ t.wal[Len(t.wal)].commit
        /\ \A i \in 1 .. Shared.mx : t.wal[i] = Shared.wal[i]
        /\ \A i \in Shared.mx + 1 .. Len(t.wal) : t.wal[i].page.key = Right(t)
        /\ Shared.mx = Ends(Shared.wal)
    BY <1>2, <1>3, <1>9, <1>10, <1>14, <2>2
  <2> QED
    <3>1. CommitOf(Shared, t)
      BY Zenon, <2>1, <2>3, <2>4, <2>5, <2>6 DEF CommitOf
    <3> QED
      BY <1>2, <3>1, CommitShared
<1> PICK f : f = Finished(conn[c])
  OBVIOUS
<1>16. /\ f \in Connection /\ f.st = "idle" /\ f.cur
       /\ f.read = conn[c].write /\ f.write = conn[c].write /\ f.warm = conn[c].warm
       /\ f.own = 0 /\ f.dirty = Clean
       /\ ~Active(f) /\ ~Copying(f) /\ ~Writing(f)
  BY <1>2, FinishedIs
<1>17. KeysOK(f, t)
  BY <1>12, <1>16 DEF KeysOK
<1>18. ConnOK(f, t)
  BY <1>15, <1>16, <1>17 DEF ConnOK
<1>19. conn' = [o \in Conn |-> IF o = c THEN f ELSE Forgotten(conn[o])]
  BY DEF RekeyCommit, Forgotten
<1>20. conn'[c] = f /\ \A d \in Conn \ {c} : conn'[d] = Forgotten(conn[d])
  BY <1>19
<1>21. ASSUME NEW d \in Conn \ {c}
       PROVE  /\ ConnOK(conn'[d], t) /\ ~Writing(conn'[d]) /\ conn'[d].st # "closing"
              /\ \A o : PairOK(conn'[d], o, Shared) <=> PairOK(conn[d], o, Shared)
              /\ \A o : PairOK(o, conn'[d], Shared) <=> PairOK(o, conn[d], Shared)
  <2> PICK j : j = Forgotten(conn[d])
    OBVIOUS
  <2>1. conn'[d] = j /\ ConnOK(conn[d], Shared)
    BY <1>2, <1>20
  <2>2. /\ ConnOK(j, Shared) /\ ~j.cur /\ j.st = conn[d].st /\ j.warm = conn[d].warm
        /\ (Writing(j) <=> Writing(conn[d])) /\ (Copying(j) <=> Copying(conn[d]))
        /\ \A o : PairOK(j, o, Shared) <=> PairOK(conn[d], o, Shared)
        /\ \A o : PairOK(o, j, Shared) <=> PairOK(o, conn[d], Shared)
    BY <2>1, ForgottenIs
  <2>3. ~Writing(j) /\ j.st # "closing"
    BY <1>3, <2>2
  <2>4. SharedTypes(t)
    BY <1>15 DEF SharedOK
  <2>5. ConnOK(j, t)
    BY <1>2, <1>5, <1>9, <1>10, <1>14, <1>15, <2>2, <2>3, <2>4, OtherKeeps
  <2> QED
    BY <2>1, <2>2, <2>3, <2>5
<1>22. \A d \in Conn : ConnOK(conn'[d], Shared')
  BY <1>18, <1>20, <1>21
<1>23. \A d, e \in Conn : d # e => PairOK(conn'[d], conn'[e], Shared')
  <2> SUFFICES ASSUME NEW d \in Conn, NEW e \in Conn, d # e
               PROVE  PairOK(conn'[d], conn'[e], t)
    OBVIOUS
  <2>1. CASE d = c
    <3>1. e \in Conn \ {c}
      BY <2>1
    <3>2. conn'[e].st # "closing"
      BY <1>21, <3>1
    <3> QED
      BY <1>16, <1>20, <2>1, <3>2, QuietPair
  <2>2. CASE e = c
    <3>1. d \in Conn \ {c}
      BY <2>2
    <3>2. conn'[d].st # "closing"
      BY <1>21, <3>1
    <3> QED
      BY <1>16, <1>20, <2>2, <3>2, QuietPair
  <2>3. CASE d # c /\ e # c
    <3>1. d \in Conn \ {c} /\ e \in Conn \ {c}
      BY <2>3
    <3>2. PairOK(conn[d], conn[e], Shared)
      BY DEF IInv
    <3>3. PairOK(conn'[d], conn'[e], Shared)
      BY <1>21, <3>1, <3>2
    <3> QED
      BY <1>2, <1>10, <3>3 DEF PairOK
  <2> QED
    BY <2>1, <2>2, <2>3
<1>24. conn' = [d \in Conn |-> conn'[d]]
  BY <1>19
<1>25. ~(\A d \in Conn : ~conn'[d].warm)
  BY <1>3, <1>16, <1>20
<1>26. Len(wal') = Ends(wal')
  BY <1>4, <1>10, <1>15
<1>27. SharedOK(Shared')
  BY <1>15
<1> QED
  BY <1>22, <1>23, <1>24, <1>25, <1>26, <1>27 DEF IInv

-----------------------------------------------------------------------------
(* Checkpoints.                                                            *)

\* How far a checkpoint may go: no further than the readers of the log.
LEMMA SafeIs ==
  ASSUME IInv, NEW c \in Conn, ~Active(conn[c]), conn[c].warm,
         NEW blocked \in BOOLEAN,
         blocked = (\E o \in Conn : /\ conn[o].st \in {"read", "write", "rekey"}
                                    /\ conn[o].direct),
         NEW safe, safe = IF blocked THEN backfill ELSE SafeFrame(c)
  PROVE  /\ safe \in Nat /\ backfill <= safe /\ safe <= mx
         /\ Max({safe, backfill}) = safe
         /\ \A d \in Conn \ {c} : Active(conn[d]) =>
              IF conn[d].direct THEN safe = backfill ELSE safe <= conn[d].hi
         /\ (\A d \in Conn \ {c} : ~conn[d].warm) => safe = mx
<1>1. /\ mx \in Nat /\ backfill \in Nat /\ backfill <= mx
      /\ Shared.mx = mx /\ Shared.backfill = backfill
  BY Here, Fields, Numbers
<1>2. ASSUME NEW d \in Conn, Active(conn[d])
      PROVE  /\ conn[d].warm /\ conn[d].hi \in Nat /\ d # c
             /\ ~conn[d].direct => backfill <= conn[d].hi /\ conn[d].hi <= mx
  <2>1. ConnOK(conn[d], Shared)
    BY DEF IInv
  <2>2. conn[d].warm /\ SnapshotOK(conn[d], Shared) /\ conn[d].hi \in Nat
    BY <1>2, <2>1 DEF ConnOK, Connection
  <2> QED
    BY <1>1, <1>2, <2>2 DEF SnapshotOK
<1>3. blocked <=> \E o \in Conn : Active(conn[o]) /\ conn[o].direct
  BY DEF Active
<1> DEFINE His == {mx} \cup {conn[o].hi : o \in Marked \ {c}}
<1>4. \A o \in Marked : Active(conn[o]) /\ ~conn[o].direct /\ o \in Conn
  BY DEF Marked, Active
<1>5. \A h \in His : h \in Nat /\ backfill <= h
  <2> SUFFICES ASSUME NEW o \in Marked PROVE conn[o].hi \in Nat /\ backfill <= conn[o].hi
    BY <1>1
  <2> QED
    BY <1>2, <1>4
<1>6. /\ Min(His) \in His /\ \A h \in His : Min(His) <= h
  <2>1. His \in SUBSET Nat /\ His # {}
    BY <1>5
  <2> QED
    BY <2>1, MinIsLeast
<1>7. SafeFrame(c) = Min(His)
  BY DEF SafeFrame
<1>8. CASE blocked
  <2>1. safe = backfill
    BY <1>8
  <2>2. Max({safe, backfill}) = safe
    <3>1. \A x, y : x \in {safe, backfill} /\ y \in {safe, backfill} => x = backfill
      BY <2>1
    <3>2. {safe, backfill} \in SUBSET Nat /\ \A x \in {safe, backfill} : x <= backfill
      BY <1>1, <2>1
    <3>3. Max({safe, backfill}) \in {safe, backfill}
      BY <1>1, <3>2, MaxIsGreatest
    <3> QED
      BY <2>1, <3>3
  <2>3. ASSUME NEW d \in Conn \ {c}, Active(conn[d]), ~conn[d].direct
        PROVE  safe <= conn[d].hi
    BY <1>2, <2>1, <2>3
  <2>4. ~(\A d \in Conn \ {c} : ~conn[d].warm)
    BY <1>2, <1>3, <1>8
  <2> QED
    BY <1>1, <2>1, <2>2, <2>3, <2>4
<1>9. CASE ~blocked
  <2>1. safe = Min(His)
    BY <1>7, <1>9
  <2>2. safe \in Nat /\ backfill <= safe /\ safe <= mx
    BY <1>5, <1>6, <2>1
  <2>3. Max({safe, backfill}) = safe
    <3>1. {safe, backfill} \in SUBSET Nat /\ \A x \in {safe, backfill} : x <= safe
      BY <1>1, <2>2
    <3>2. /\ Max({safe, backfill}) \in {safe, backfill}
          /\ \A x \in {safe, backfill} : x <= Max({safe, backfill})
      BY <2>2, <3>1, MaxIsGreatest
    <3> QED
      BY <1>1, <2>2, <3>2
  <2>4. ASSUME NEW d \in Conn \ {c}, Active(conn[d])
        PROVE  IF conn[d].direct THEN safe = backfill ELSE safe <= conn[d].hi
    <3>1. ~conn[d].direct
      BY <1>3, <1>9, <2>4
    <3>2. d \in Marked \ {c}
      BY <2>4, <3>1 DEF Active, Marked
    <3>3. conn[d].hi \in His
      BY <3>2
    <3> QED
      BY <1>6, <2>1, <3>1, <3>3
  <2>5. ASSUME \A d \in Conn \ {c} : ~conn[d].warm PROVE safe = mx
    <3>1. Marked \ {c} = {}
      BY <1>2, <1>4, <2>5
    <3>2. His = {mx}
      BY <3>1
    <3> QED
      BY <1>6, <2>1, <3>2
  <2> QED
    BY <2>2, <2>3, <2>4, <2>5
<1> QED
  BY <1>8, <1>9

\* walCheckpoint up to its loop: todo has what has to be copied, and safe stops
\* where a reader needs the file.
LEMMA CheckpointKeeps ==
  ASSUME IInv, NEW c \in Conn, NEW st \in {"ckpt", "closing"}, Checkpoint(c, st),
         conn[c].st = "idle", conn[c].warm,
         conn[c].write = conn[c].read,
         st = "ckpt" => backfill < mx,
         st = "closing" => \A o \in Conn \ {c} : ~conn[o].warm
  PROVE  IInv'
<1>1. /\ SharedOK(Shared) /\ SharedTypes(Shared)
      /\ ConnOK(conn[c], Shared) /\ conn[c] \in Connection
      /\ Shared.mode = mode /\ Shared.db = db /\ Shared.wal = wal
      /\ Shared.mx = mx /\ Shared.backfill = backfill /\ Shared.want = want
      /\ \A d \in Conn \ {c} : /\ ConnOK(conn[d], Shared)
                               /\ PairOK(conn[c], conn[d], Shared)
                               /\ PairOK(conn[d], conn[c], Shared)
  BY Here, Fields
<1>2. mx \in Nat /\ backfill \in Nat /\ backfill <= mx
  BY <1>1, Numbers
<1>3. ~Active(conn[c]) /\ ~Writing(conn[c]) /\ ~Copying(conn[c])
  BY DEF Active, Writing, Copying
<1>4. PICK blocked \in BOOLEAN :
        blocked = (\E o \in Conn : /\ conn[o].st \in {"read", "write", "rekey"}
                                   /\ conn[o].direct)
  OBVIOUS
<1>5. PICK safe : safe = IF blocked THEN backfill ELSE SafeFrame(c)
  OBVIOUS
<1>6. /\ safe \in Nat /\ backfill <= safe /\ safe <= mx
      /\ Max({safe, backfill}) = safe
      /\ \A d \in Conn \ {c} : Active(conn[d]) =>
           IF conn[d].direct THEN safe = backfill ELSE safe <= conn[d].hi
      /\ (\A d \in Conn \ {c} : ~conn[d].warm) => safe = mx
  BY <1>3, <1>4, <1>5, SafeIs
<1> PICK k : k = [conn[c] EXCEPT !.st = st, !.todo = Work(safe), !.safe = safe]
  OBVIOUS
<1>7. /\ \A o \in Conn : conn[o].st \notin {"ckpt", "closing"}
      /\ conn' = [conn EXCEPT ![c] = k]
      /\ UNCHANGED <<mode, db, wal, mx, backfill, want>>
  <2>1. /\ \A o \in Conn : conn[o].st \notin {"ckpt", "closing"}
        /\ Set(c, [conn[c] EXCEPT !.st = st, !.todo = Work(safe),
                                  !.safe = Max({safe, backfill})])
        /\ UNCHANGED <<mode, db, wal, mx, backfill, want>>
    BY <1>4, <1>5, Zenon DEF Checkpoint
  <2> QED
    BY <1>6, <2>1 DEF Set
<1>8. /\ k.st = st /\ k.read = conn[c].read /\ k.write = conn[c].write
      /\ k.warm = conn[c].warm /\ k.cur = conn[c].cur /\ k.own = conn[c].own
      /\ k.dirty = conn[c].dirty /\ k.todo = Work(safe) /\ k.safe = safe
  BY <1>1 DEF Connection
<1>9. k \in Connection
  <2>1. Work(safe) \in SUBSET Page
    BY DEF Work
  <2> QED
    BY <1>1, <1>6, <2>1 DEF Connection
<1>10. ~Active(k) /\ ~Writing(k) /\ Copying(k) /\ k.st # "closed" /\ k.st # "rekey"
  BY <1>8 DEF Active, Writing, Copying
<1>11. KeysOK(k, Shared)
  BY <1>1, <1>8, <1>10 DEF ConnOK, KeysOK
<1>12. Work(safe) = {p \in Page : LatestIn(wal, p, 1, mx) \in backfill + 1 .. safe}
  BY Operators DEF Work
<1>13. CopyingOK(k, Shared)
  <2>1. /\ backfill <= k.safe /\ k.safe <= mx
        /\ k.st = "ckpt" => backfill < mx
        /\ k.st = "closing" => k.safe = mx
    BY <1>6, <1>8
  <2>2. ASSUME NEW p \in k.todo
        PROVE  LatestIn(wal, p, 1, k.safe) \in backfill + 1 .. k.safe
    <3> PICK i : i = LatestIn(wal, p, 1, mx)
      OBVIOUS
    <3>1. i \in backfill + 1 .. safe /\ i \in 1 .. safe
      BY <1>2, <1>6, <1>8, <1>12, <2>2
    <3>2. LatestIn(wal, p, 1, safe) = i
      BY <1>2, <1>6, <3>1, LatestWithin
    <3> QED
      BY <1>8, <3>1, <3>2
  <2>3. \A p \in Page : LatestIn(wal, p, 1, mx) \in backfill + 1 .. k.safe => p \in k.todo
    BY <1>8, <1>12
  <2> QED
    BY <1>1, <2>1, <2>2, <2>3 DEF CopyingOK
<1>14. ConnOK(k, Shared)
  BY <1>1, <1>3, <1>8, <1>9, <1>10, <1>11, <1>13 DEF ConnOK
<1>15. ASSUME NEW d \in Conn \ {c}
       PROVE  PairOK(k, conn[d], Shared) /\ PairOK(conn[d], k, Shared)
  <2>1. ~Copying(conn[d]) /\ conn[d].st # "closing"
    BY <1>7 DEF Copying
  <2>2. Active(conn[d]) /\ conn[d].direct => k.todo = {} /\ k.safe = backfill
    <3> SUFFICES ASSUME Active(conn[d]), conn[d].direct PROVE k.todo = {} /\ k.safe = backfill
      OBVIOUS
    <3>1. safe = backfill
      BY <1>6
    <3>2. backfill + 1 .. safe = {}
      BY <1>2, <3>1
    <3> QED
      BY <1>8, <1>12, <3>1, <3>2
  <2>3. Active(conn[d]) /\ ~conn[d].direct => k.safe <= conn[d].hi
    BY <1>6, <1>8
  <2>4. k.st = "closing" => ~conn[d].warm
    BY <1>8
  <2> QED
    BY <1>1, <1>10, <2>1, <2>2, <2>3, <2>4 DEF PairOK
<1> QED
  BY <1>3, <1>7, <1>8, <1>14, <1>15, QuietStep

\* sqlite3WalCheckpoint, by an idle connection.
LEMMA BeginCheckpointKeeps ==
  ASSUME Sound, IInv, NEW c \in Conn, BeginCheckpoint(c) PROVE IInv'
BY CheckpointKeeps DEF BeginCheckpoint, MayWrite, Sound

\* The last connection copies the log, others go just like that.
LEMMA CloseKeeps ==
  ASSUME Sound, IInv, NEW c \in Conn, Close(c)
  PROVE  IInv'
<1>1. /\ SharedOK(Shared) /\ ConnOK(conn[c], Shared)
      /\ Shared.mx = mx /\ Shared.backfill = backfill /\ Shared.wal = wal
      /\ \A d \in Conn \ {c} : /\ ConnOK(conn[d], Shared)
                               /\ PairOK(conn[d], conn[c], Shared)
  BY Here, Fields
<1>2. conn[c].st = "idle"
  BY DEF Close
<1>3. CASE conn[c].warm /\ \A o \in Conn \ {c} : ~conn[o].warm
  BY <1>2, <1>3, CheckpointKeeps DEF Close, MayWrite, Sound
<1>4. CASE ~(conn[c].warm /\ \A o \in Conn \ {c} : ~conn[o].warm)
  <2>1. conn' = [conn EXCEPT ![c] = Closed] /\ UNCHANGED <<mode, db, wal, mx, backfill, want>>
    BY <1>4 DEF Close, Set
  <2>2. Shared' = Shared
    BY <2>1 DEF Shared
  <2>3. \A d \in Conn \ {c} : PairOK(Closed, conn[d], Shared) /\ PairOK(conn[d], Closed, Shared)
    BY ClosedIs, QuietPair
  <2>4. (\A d \in Conn \ {c} : ~conn[d].warm) => mx = 0 /\ backfill = 0
    BY <1>4 DEF IInv
  <2>5. (\A d \in Conn \ {c} : ~Writing(conn[d])) => Len(wal) = Ends(wal)
    BY <1>2 DEF IInv, Writing
  <2> QED
    BY <1>1, <2>1, <2>2, <2>3, <2>4, <2>5, ClosedIs, StepOne
<1> QED
  BY <1>3, <1>4

\* A frame that is not copied yet, of the log that counts, goes to the file.
CopiedTo(s, t, p, i) ==
  /\ p \in Page /\ i \in s.backfill + 1 .. s.mx /\ s.wal[i].pg = p
  /\ s.mx = Ends(s.wal)
  /\ t.mode = s.mode /\ t.wal = s.wal /\ t.mx = s.mx /\ t.backfill = s.backfill
  /\ t.want = s.want /\ t.db = [s.db EXCEPT ![p] = s.wal[i].page]

\* What is kept by the copy of frame i to page p.
CopyKept(s, t, p, i) ==
  /\ SharedOK(t) /\ t.mx = Ends(t.wal) /\ Right(t) = Right(s)
  /\ t.db[p] = s.wal[i].page /\ \A q \in Page \ {p} : t.db[q] = s.db[q]
  /\ s.want.pass # None => t.db[1].key[2] = s.db[1].key[2]

\* The heart of a checkpoint: a page of the file becomes its latest frame, and
\* readers of the file behind the log see no difference.
LEMMA CopyShared ==
  ASSUME NEW s, NEW t, SharedOK(s), NEW p, NEW i, CopiedTo(s, t, p, i)
  PROVE  CopyKept(s, t, p, i)
<1>1. /\ p \in Page /\ i \in s.backfill + 1 .. s.mx /\ s.wal[i].pg = p
      /\ s.mx = Ends(s.wal)
      /\ t.mode = s.mode /\ t.wal = s.wal /\ t.mx = s.mx /\ t.backfill = s.backfill
      /\ t.want = s.want /\ t.db = [s.db EXCEPT ![p] = s.wal[i].page]
  BY DEF CopiedTo
<1>2. /\ SharedTypes(s) /\ s.mx \in Nat /\ s.backfill \in Nat /\ s.backfill <= s.mx
      /\ Len(s.wal) \in Nat /\ s.mx <= Len(s.wal)
      /\ \A j \in 1 .. Len(s.wal) : s.wal[j] \in GoodFrame
  BY Numbers DEF SharedOK
<1>3. i \in 1 .. s.mx /\ i \in 1 .. Len(s.wal) /\ i \in Nat
  BY <1>1, <1>2
<1>4. s.wal[i].page \in GoodPage /\ s.db \in [Page -> GoodPage]
  BY <1>2, <1>3 DEF GoodFrame, SharedTypes
<1>5. t.db[p] = s.wal[i].page /\ \A q \in Page \ {p} : t.db[q] = s.db[q]
  BY <1>1, <1>4
<1>6. t.db \in [Page -> GoodPage]
  BY <1>1, <1>4
<1>7. SharedTypes(t)
  BY <1>1, <1>2, <1>6 DEF SharedTypes
<1>8. 1 \in Page
  BY WalAssumption DEF Page
<1>9. s.want.pass # None => t.db[1].key[2] = s.db[1].key[2]
  <2> SUFFICES ASSUME s.want.pass # None PROVE t.db[1].key[2] = s.db[1].key[2]
    OBVIOUS
  <2>1. CASE p = 1
    BY <1>1, <1>3, <1>5, <2>1 DEF SharedOK, Salted
  <2>2. CASE p # 1
    BY <1>5, <1>8, <2>2
  <2> QED
    BY <2>1, <2>2
<1>10. Right(t) = Right(s)
  BY <1>1, <1>9 DEF Right, KeyIn
<1>11. ASSUME NEW q \in Page
       PROVE  /\ AtIn(t.wal, t.db, q, 1, t.mx) = [val |-> t.want.val[q], key |-> Right(t)]
              /\ LatestIn(t.wal, q, 1, t.mx) \in 1 .. t.backfill =>
                   t.db[q] = t.wal[LatestIn(t.wal, q, 1, t.mx)].page
  <2> PICK j : j = LatestIn(s.wal, q, 1, s.mx)
    OBVIOUS
  <2>1. /\ AtIn(s.wal, s.db, q, 1, s.mx) = [val |-> s.want.val[q], key |-> Right(s)]
        /\ j \in 1 .. s.backfill => s.db[q] = s.wal[j].page
    BY <1>1 DEF SharedOK, Kept
  <2>2. CASE q = p
    <3>1. j \in Nat /\ i <= j
      BY <1>1, <1>2, <1>3, <2>2, LatestIsLast
    <3>2. j # 0 /\ j \notin 1 .. s.backfill
      BY <1>1, <1>2, <3>1
    <3>3. AtIn(t.wal, t.db, q, 1, t.mx) = AtIn(s.wal, s.db, q, 1, s.mx)
      BY <1>1, <3>2 DEF AtIn
    <3> QED
      BY <1>1, <1>10, <2>1, <3>2, <3>3
  <2>3. CASE q # p
    <3>1. t.db[q] = s.db[q]
      BY <1>5, <2>3
    <3>2. AtIn(t.wal, t.db, q, 1, t.mx) = AtIn(s.wal, s.db, q, 1, s.mx)
      BY <1>1, <3>1 DEF AtIn
    <3> QED
      BY <1>1, <1>10, <2>1, <3>1, <3>2
  <2> QED
    BY <2>2, <2>3
<1>12. Kept(t)
  <2>1. t.mx = Ends(t.wal)
    BY <1>1
  <2>2. \A q \in Page : AtIn(t.wal, t.db, q, 1, t.mx) = [val |-> t.want.val[q], key |-> Right(t)]
    BY <1>11
  <2>3. \A q \in Page : LatestIn(t.wal, q, 1, t.mx) \in 1 .. t.backfill =>
                          t.db[q] = t.wal[LatestIn(t.wal, q, 1, t.mx)].page
    BY <1>11
  <2> QED
    BY <2>1, <2>2, <2>3 DEF Kept
<1>13. Salted(t)
  <2>1. ~t.mode.auth => \A i_1 \in 1 .. Len(t.wal) : t.wal[i_1].page.key = Right(t)
    BY <1>1, <1>10 DEF SharedOK, Salted
  <2>2. ~t.mode.auth => \A q \in Page : t.db[q].key = Right(t)
    <3> SUFFICES ASSUME ~t.mode.auth, NEW q \in Page PROVE t.db[q].key = Right(t)
      OBVIOUS
    <3>1. CASE q = p
      BY <1>1, <1>3, <1>5, <2>1, <3>1
    <3>2. CASE q # p
      BY <1>1, <1>5, <1>10, <3>2 DEF SharedOK, Salted
    <3> QED
      BY <3>1, <3>2
  <2>3. t.want.pass # None =>
          \A j \in 1 .. Ends(t.wal) :
            t.wal[j].pg = 1 => t.wal[j].page.key[2] = t.db[1].key[2]
    BY <1>1, <1>9 DEF SharedOK, Salted
  <2> QED
    BY <2>1, <2>2, <2>3 DEF Salted
<1> QED
  <2>1. SharedOK(t)
    BY <1>7, <1>12, <1>13 DEF SharedOK
  <2>2. t.mx = Ends(t.wal) /\ Right(t) = Right(s)
    BY <1>1, <1>10
  <2>3. t.db[p] = s.wal[i].page /\ \A q \in Page \ {p} : t.db[q] = s.db[q]
    BY <1>1, <1>5
  <2>4. s.want.pass # None => t.db[1].key[2] = s.db[1].key[2]
    BY <1>9
  <2> QED
    BY Zenon, <2>1, <2>2, <2>3, <2>4 DEF CopyKept

\* Readers of the log do not look at the file for this page.
LEMMA CopyOther ==
  ASSUME NEW s, NEW t, SharedOK(s), NEW p, NEW i, CopiedTo(s, t, p, i),
         NEW k, ConnOK(k, s), ~Copying(k), Active(k) => ~k.direct /\ i <= k.hi
  PROVE  ConnOK(k, t)
<1>1. /\ p \in Page /\ i \in s.backfill + 1 .. s.mx /\ s.wal[i].pg = p
      /\ s.mx = Ends(s.wal)
      /\ t.mode = s.mode /\ t.wal = s.wal /\ t.mx = s.mx /\ t.backfill = s.backfill
      /\ t.want = s.want
  BY DEF CopiedTo
<1>2. /\ t.mx = Ends(t.wal) /\ Right(t) = Right(s)
      /\ \A q \in Page \ {p} : t.db[q] = s.db[q]
      /\ s.want.pass # None => t.db[1].key[2] = s.db[1].key[2]
  <2>1. CopyKept(s, t, p, i)
    BY CopyShared
  <2> QED
    BY Zenon, <2>1 DEF CopyKept
<1>3. k \in Connection
  BY DEF ConnOK
<1>4. k.st # "closed" => KeysOK(k, t)
  <2> SUFFICES ASSUME k.st # "closed" PROVE KeysOK(k, t)
    OBVIOUS
  <2>1. KeysOK(k, s)
    BY DEF ConnOK
  <2>2. s.want.pass # None => KeyIn(t.db, k.write[1]) = KeyIn(s.db, k.write[1])
    BY <1>2 DEF KeyIn
  <2> QED
    BY <1>1, <1>2, <2>1, <2>2 DEF KeysOK, Unwritable
<1>5. Active(k) => SnapshotOK(k, t)
  <2> SUFFICES ASSUME Active(k) PROVE SnapshotOK(k, t)
    OBVIOUS
  <2>1. SnapshotOK(k, s) /\ k.lo \in Nat /\ k.hi \in Nat /\ ~k.direct /\ i <= k.hi
    BY <1>3 DEF ConnOK, Connection
  <2>2. s.backfill \in Nat /\ k.lo <= s.backfill + 1 /\ s.mx \in Nat
    BY <2>1, Numbers DEF SharedOK, SnapshotOK
  <2>3. i \in k.lo .. k.hi /\ i > 0
    BY <1>1, <2>1, <2>2
  <2>4. ASSUME NEW q \in Page PROVE ViewIn(t, k, q) = ViewIn(s, k, q)
    <3>1. CASE q = p
      <4>1. i <= LatestIn(s.wal, p, k.lo, k.hi) /\ LatestIn(s.wal, p, k.lo, k.hi) \in Nat
        BY <1>1, <2>1, <2>3, LatestIsLast
      <4>2. LatestIn(s.wal, p, k.lo, k.hi) # 0
        BY <2>3, <4>1
      <4> QED
        BY <1>1, <2>1, <3>1, <4>2 DEF ViewIn, AtIn
    <3>2. CASE q # p
      <4>1. t.db[q] = s.db[q]
        BY <1>2, <3>2
      <4> QED
        BY <1>1, <4>1 DEF ViewIn, AtIn
    <3> QED
      BY <3>1, <3>2
  <2> QED
    BY <1>1, <2>1, <2>4 DEF SnapshotOK
<1>6. Writing(k) => WritingOK(k, t)
  BY <1>1 DEF ConnOK, WritingOK
<1> QED
  BY <1>1, <1>2, <1>3, <1>4, <1>5, <1>6 DEF ConnOK

\* Nobody has the log open any more: the index is forgotten.
LEMMA IndexForgotten ==
  ASSUME NEW s, NEW t, SharedOK(s), t.mode = s.mode, t.db = s.db, t.wal = s.wal,
         t.want = s.want, t.mx = 0, t.backfill = 0
  PROVE  SharedOK(t)
<1>1. SharedTypes(s) /\ Kept(s) /\ Salted(s) /\ Len(s.wal) \in Nat
  BY Numbers DEF SharedOK
<1>2. SharedTypes(t)
  BY <1>1 DEF SharedTypes
<1>3. Right(t) = Right(s)
  BY DEF Right
<1>4. 1 .. t.backfill = {}
  OBVIOUS
<1>5. Kept(t)
  BY <1>1, <1>3, <1>4 DEF Kept
<1>6. Salted(t)
  BY <1>1, <1>3 DEF Salted
<1> QED
  BY <1>2, <1>5, <1>6 DEF SharedOK

\* The last connection is gone.
LEMMA LastLeaves ==
  ASSUME IInv, NEW c \in Conn, conn[c].st = "closing", NEW t, t = Shared', SharedOK(t),
         conn' = [conn EXCEPT ![c] = Closed], UNCHANGED <<mode, db, want>>,
         mx' = 0, backfill' = 0, Len(wal') = Ends(wal')
  PROVE  IInv'
<1>1. /\ Shared.mode = mode /\ Shared.db = db /\ Shared.want = want
      /\ \A d \in Conn \ {c} : ConnOK(conn[d], Shared) /\ ~conn[d].warm
  BY Here, Fields DEF PairOK
<1>2. /\ t.mode = mode /\ t.db = db /\ t.want = want /\ t.wal = wal' /\ t.mx = 0
      /\ t.backfill = 0
  BY NextFields
<1>3. \A d \in Conn \ {c} : ConnOK(conn[d], t)
  BY <1>1, <1>2, ColdKeeps
<1>4. \A d \in Conn \ {c} : conn[d].st # "closing"
  BY <1>1 DEF ConnOK, Copying
<1>5. \A d \in Conn \ {c} : PairOK(Closed, conn[d], t) /\ PairOK(conn[d], Closed, t)
  BY <1>4, ClosedIs, QuietPair
<1>6. \A d \in Conn \ {c} : ~Copying(conn[d])
  BY <1>1 DEF ConnOK
<1>7. ConnOK(Closed, t)
  BY ClosedIs
<1> QED
  BY <1>2, <1>3, <1>5, <1>6, <1>7, StepOne

\* One page is copied: as it is in the log, whatever the cipher.
LEMMA CopyIs ==
  ASSUME Sound, IInv, NEW c \in Conn, Copying(conn[c]), NEW p \in conn[c].todo,
         NEW i, i = LatestIn(wal, p, 1, conn[c].safe)
  PROVE  /\ p \in Page /\ i \in backfill + 1 .. mx /\ wal[i].pg = p
         /\ i <= conn[c].safe /\ mx = Ends(wal)
         /\ ~Fails(conn[c], wal[i].page) => Copied(conn[c], p, wal[i].page) = wal[i].page
<1>1. /\ SharedOK(Shared) /\ SharedTypes(Shared) /\ conn[c] \in Connection
      /\ ConnOK(conn[c], Shared)
      /\ Shared.mode = mode /\ Shared.db = db /\ Shared.wal = wal
      /\ Shared.mx = mx /\ Shared.backfill = backfill /\ Shared.want = want
  BY Here, Fields
<1>2. conn[c].st \notin {"closed", "rekey"}
  BY DEF Copying
<1>3. /\ CopyingOK(conn[c], Shared) /\ KeysOK(conn[c], Shared) /\ mx = Ends(wal)
      /\ conn[c].safe \in Nat /\ p \in Page
  BY <1>1, <1>2 DEF ConnOK, Connection
<1>4. /\ mx \in Nat /\ backfill \in Nat /\ Len(wal) \in Nat /\ mx <= Len(wal)
      /\ \A j \in 1 .. Len(wal) : wal[j] \in GoodFrame
  BY <1>1, Numbers
<1>5. i \in backfill + 1 .. conn[c].safe /\ conn[c].safe <= mx
  BY <1>1, <1>3 DEF CopyingOK
<1>6. i \in backfill + 1 .. mx /\ i \in 1 .. Len(wal) /\ i # 0 /\ i <= conn[c].safe
  BY <1>3, <1>4, <1>5
<1>7. wal[i].pg = p
  BY <1>3, <1>6, LatestIsLast
<1>8. wal[i].page \in GoodPage
  BY <1>4, <1>6 DEF GoodFrame
<1>9. conn[c].write = conn[c].read
  BY <1>2, <1>3 DEF Copying, KeysOK, Unwritable
<1>10. ~mode.auth => wal[i].page.key = conn[c].read
  BY <1>1, <1>3, <1>6 DEF SharedOK, Salted, KeysOK
<1> PICK s : s = wal[i].page
  OBVIOUS
<1>11. s.key = conn[c].read => [s EXCEPT !.key = conn[c].write] = s
  <2>1. s = [val |-> s.val, key |-> s.key]
    BY <1>8 DEF GoodPage
  <2> QED
    BY <1>9, <2>1
<1>12. ASSUME ~Fails(conn[c], s) PROVE Copied(conn[c], p, s) = s
  <2>1. s.key = conn[c].read \/ conn[c].read = Plain
    BY <1>10, <1>12 DEF Fails
  <2> QED
    BY <1>11, <2>1 DEF Copied
<1> QED
  BY <1>3, <1>6, <1>7, <1>12

\* One round of the loop of walCheckpoint, through mcReadWal and mcWriteMainDb.
LEMMA CopyPageKeeps ==
  ASSUME Sound, IInv, NEW c \in Conn, CopyPage(c)
  PROVE  IInv'
<1>1. /\ SharedOK(Shared) /\ SharedTypes(Shared) /\ conn[c] \in Connection
      /\ ConnOK(conn[c], Shared)
      /\ Shared.mode = mode /\ Shared.db = db /\ Shared.wal = wal
      /\ Shared.mx = mx /\ Shared.backfill = backfill /\ Shared.want = want
      /\ \A d \in Conn \ {c} : /\ ConnOK(conn[d], Shared)
                               /\ PairOK(conn[c], conn[d], Shared)
                               /\ PairOK(conn[d], conn[c], Shared)
  BY Here, Fields
<1> PICK p : p = Min(conn[c].todo)
  OBVIOUS
<1> PICK i : i = LatestIn(wal, p, 1, conn[c].safe)
  OBVIOUS
<1> PICK s : s = wal[i].page
  OBVIOUS
<1>2. /\ conn[c].st \in {"ckpt", "closing"} /\ conn[c].todo # {}
      /\ IF Fails(conn[c], s)
           THEN /\ UNCHANGED db
                /\ IF conn[c].st = "ckpt"
                     THEN /\ Set(c, Idle(conn[c]))
                          /\ UNCHANGED <<mx, backfill>>
                     ELSE /\ Set(c, Closed)
                          /\ mx' = 0 /\ backfill' = 0
           ELSE /\ db' = [db EXCEPT ![p] = Copied(conn[c], p, s)]
                /\ Set(c, [conn[c] EXCEPT !.todo = @ \ {p}])
                /\ UNCHANGED <<mx, backfill>>
      /\ UNCHANGED <<mode, wal, want>>
  BY Operators DEF CopyPage
<1>3. Copying(conn[c]) /\ ~Active(conn[c]) /\ ~Writing(conn[c]) /\ conn[c].warm
  BY <1>1, <1>2 DEF Copying, Active, Writing, ConnOK
<1>4. p \in conn[c].todo
  <2>1. conn[c].todo \in SUBSET Nat
    BY <1>1 DEF Connection, Page
  <2> QED
    BY <1>2, <2>1, MinIsLeast
<1>5. /\ p \in Page /\ i \in backfill + 1 .. mx /\ wal[i].pg = p
      /\ i <= conn[c].safe /\ mx = Ends(wal)
      /\ ~Fails(conn[c], s) => Copied(conn[c], p, s) = s
  BY <1>3, <1>4, CopyIs
<1>6. CASE Fails(conn[c], s) /\ conn[c].st = "ckpt"
  BY <1>2, <1>6, IdleStep
<1>7. CASE Fails(conn[c], s) /\ conn[c].st # "ckpt"
  <2>1. /\ conn[c].st = "closing" /\ conn' = [conn EXCEPT ![c] = Closed]
        /\ mx' = 0 /\ backfill' = 0 /\ UNCHANGED <<mode, db, wal, want>>
    BY <1>2, <1>7 DEF Set
  <2> PICK t : t = Shared'
    OBVIOUS
  <2>2. SharedOK(t)
    BY <1>1, <2>1, NextFields, IndexForgotten
  <2>3. \A d \in Conn \ {c} : ~conn[d].warm
    BY <1>1, <2>1 DEF PairOK
  <2>4. \A d \in Conn : ~Writing(conn[d])
    BY <1>1, <1>3, <2>3 DEF ConnOK, Active, Writing
  <2>5. Len(wal') = Ends(wal')
    BY <2>1, <2>4 DEF IInv
  <2> QED
    BY <2>1, <2>2, <2>5, LastLeaves
<1>8. CASE ~Fails(conn[c], s)
  <2> PICK k : k = [conn[c] EXCEPT !.todo = @ \ {p}]
    OBVIOUS
  <2> PICK t : t = Shared'
    OBVIOUS
  <2>1. /\ db' = [db EXCEPT ![p] = s] /\ conn' = [conn EXCEPT ![c] = k]
        /\ UNCHANGED <<mode, wal, mx, backfill, want>>
    BY <1>2, <1>5, <1>8 DEF Set
  <2>2. /\ t.mode = mode /\ t.db = [db EXCEPT ![p] = s] /\ t.wal = wal
        /\ t.mx = mx /\ t.backfill = backfill /\ t.want = want
    BY <2>1, NextFields
  <2>3. CopiedTo(Shared, t, p, i)
    BY <1>1, <1>5, <2>2 DEF CopiedTo
  <2>4. /\ SharedOK(t) /\ t.mx = Ends(t.wal) /\ Right(t) = Right(Shared)
        /\ t.db[p] = s /\ \A q \in Page \ {p} : t.db[q] = db[q]
    <3>0. CopyKept(Shared, t, p, i)
      BY <1>1, <2>3, CopyShared
    <3>1. SharedOK(t) /\ t.mx = Ends(t.wal)
      BY Zenon, <3>0 DEF CopyKept
    <3>2. Right(t) = Right(Shared)
      BY Zenon, <3>0 DEF CopyKept
    <3>3. t.db[p] = Shared.wal[i].page
      BY Zenon, <3>0 DEF CopyKept
    <3>4. \A q \in Page \ {p} : t.db[q] = Shared.db[q]
      <4>1. db \in [Page -> GoodPage]
        BY <1>1 DEF SharedTypes
      <4> QED
        BY <1>1, <2>2, <4>1
    <3> QED
      BY <1>1, <3>1, <3>2, <3>3, <3>4
  <2>5. mx \in Nat /\ backfill \in Nat
    BY <1>1, Numbers
  <2>6. ASSUME NEW d \in Conn \ {c} PROVE ConnOK(conn[d], t)
    <3>1. ~Copying(conn[d])
      BY <1>1, <1>3 DEF PairOK
    <3>2. Active(conn[d]) => ~conn[d].direct /\ conn[c].safe <= conn[d].hi
      BY <1>1, <1>2, <1>3 DEF PairOK
    <3>3. conn[c].safe \in Nat /\ i \in Nat /\ (Active(conn[d]) => conn[d].hi \in Nat)
      BY <1>1, <1>5, <2>5 DEF ConnOK, Connection
    <3>4. Active(conn[d]) => ~conn[d].direct /\ i <= conn[d].hi
      BY <1>5, <3>2, <3>3
    <3>5. ConnOK(conn[d], Shared)
      BY <1>1
    <3> QED
      BY <1>1, <2>3, <3>1, <3>4, <3>5, CopyOther
  <2>7. /\ k.st = conn[c].st /\ k.read = conn[c].read /\ k.write = conn[c].write
        /\ k.warm = conn[c].warm /\ k.cur = conn[c].cur /\ k.own = conn[c].own
        /\ k.dirty = conn[c].dirty /\ k.todo = conn[c].todo \ {p}
        /\ k.safe = conn[c].safe
    BY <1>1 DEF Connection
  <2>8. k \in Connection
    <3>1. conn[c].todo \ {p} \in SUBSET Page
      BY <1>1 DEF Connection
    <3> QED
      BY <1>1, <3>1 DEF Connection
  <2>9. Copying(k) /\ ~Active(k) /\ ~Writing(k) /\ k.st # "closed" /\ k.st # "rekey"
    BY <1>2, <2>7 DEF Copying, Active, Writing
  <2>10. KeysOK(k, t)
    BY <1>1, <2>2, <2>4, <2>7, <2>9 DEF ConnOK, KeysOK, Unwritable
  <2>11. CopyingOK(k, t)
    <3>1. CopyingOK(conn[c], Shared) /\ conn[c].safe \in Nat
      BY <1>1, <1>3 DEF ConnOK, Connection
    <3>2. ASSUME NEW q \in Page, LatestIn(wal, q, 1, mx) \in backfill + 1 .. k.safe
          PROVE  q \in k.todo \/ t.db[q] = wal[LatestIn(wal, q, 1, mx)].page
      <4>1. CASE q = p
        <5>1. LatestIn(wal, p, 1, mx) \in 1 .. conn[c].safe /\ conn[c].safe <= mx
          BY <1>1, <2>5, <2>7, <3>1, <3>2, <4>1 DEF CopyingOK
        <5>2. i = LatestIn(wal, p, 1, mx)
          BY <2>5, <3>1, <5>1, LatestWithin
        <5> QED
          BY <2>4, <4>1, <5>2
      <4>2. CASE q # p
        <5>1. q \in conn[c].todo \/ db[q] = wal[LatestIn(wal, q, 1, mx)].page
          BY <1>1, <2>7, <3>1, <3>2 DEF CopyingOK
        <5>2. t.db[q] = db[q]
          BY <2>4, <4>2
        <5> QED
          BY <2>7, <4>2, <5>1, <5>2
      <4> QED
        BY <4>1, <4>2
    <3>3. \A q \in k.todo : LatestIn(wal, q, 1, k.safe) \in backfill + 1 .. k.safe
      BY <1>1, <2>7, <3>1 DEF CopyingOK
    <3>4. /\ backfill <= k.safe /\ k.safe <= mx
          /\ k.st = "ckpt" => backfill < mx
          /\ k.st = "closing" => k.safe = mx
      BY <1>1, <2>7, <3>1 DEF CopyingOK
    <3> QED
      BY <2>2, <3>2, <3>3, <3>4 DEF CopyingOK
  <2>12. ConnOK(k, t)
    BY <1>1, <1>3, <2>4, <2>7, <2>8, <2>9, <2>10, <2>11 DEF ConnOK
  <2>13. \A d \in Conn \ {c} : PairOK(k, conn[d], t) /\ PairOK(conn[d], k, t)
    BY <1>1, <1>3, <2>2, <2>7, <2>9 DEF PairOK
  <2>14. (\A d \in Conn \ {c} : ~Writing(conn[d])) => Len(t.wal) = Ends(t.wal)
    BY <1>3, <2>2 DEF IInv
  <2> QED
    BY <1>3, <2>1, <2>2, <2>4, <2>6, <2>7, <2>12, <2>13, <2>14, StepOne
<1> QED
  BY <1>6, <1>7, <1>8

\* The frames that are copied are recorded.
LEMMA EndCheckpointKeeps ==
  ASSUME IInv, NEW c \in Conn, EndCheckpoint(c)
  PROVE  IInv'
<1>1. /\ SharedOK(Shared) /\ SharedTypes(Shared) /\ conn[c] \in Connection
      /\ ConnOK(conn[c], Shared)
      /\ Shared.mode = mode /\ Shared.db = db /\ Shared.wal = wal
      /\ Shared.mx = mx /\ Shared.backfill = backfill /\ Shared.want = want
      /\ \A d \in Conn \ {c} : /\ ConnOK(conn[d], Shared)
                               /\ PairOK(conn[c], conn[d], Shared)
                               /\ PairOK(conn[d], conn[c], Shared)
  BY Here, Fields
<1> PICK safe : safe = conn[c].safe
  OBVIOUS
<1> PICK k : k = Idle(conn[c])
  OBVIOUS
<1> PICK t : t = Shared'
  OBVIOUS
<1>2. /\ conn[c].st = "ckpt" /\ conn[c].todo = {} /\ backfill' = safe
      /\ conn' = [conn EXCEPT ![c] = k] /\ UNCHANGED <<mode, db, wal, mx, want>>
  BY DEF EndCheckpoint, Set
<1>3. Copying(conn[c]) /\ ~Active(conn[c]) /\ ~Writing(conn[c]) /\ conn[c].warm
  BY <1>1, <1>2 DEF Copying, Active, Writing, ConnOK
<1>4. /\ CopyingOK(conn[c], Shared) /\ mx = Ends(wal) /\ safe \in Nat
      /\ mx \in Nat /\ backfill \in Nat /\ Len(wal) \in Nat /\ mx <= Len(wal)
  BY <1>1, <1>3, Numbers DEF ConnOK, Connection
<1>5. backfill <= safe /\ safe <= mx /\ backfill < mx
  BY <1>1, <1>2, <1>4 DEF CopyingOK
<1>6. /\ t.mode = mode /\ t.db = db /\ t.wal = wal /\ t.mx = mx
      /\ t.backfill = safe /\ t.want = want
  BY <1>2, NextFields
<1>7. Right(t) = Right(Shared)
  BY <1>1, <1>6 DEF Right
<1>8. SharedOK(t)
  <2>1. SharedTypes(t)
    BY <1>1, <1>4, <1>5, <1>6 DEF SharedTypes
  <2>2. ASSUME NEW p \in Page, LatestIn(wal, p, 1, mx) \in 1 .. safe
        PROVE  db[p] = wal[LatestIn(wal, p, 1, mx)].page
    <3> PICK i : i = LatestIn(wal, p, 1, mx)
      OBVIOUS
    <3>1. i \in 1 .. backfill \/ i \in backfill + 1 .. safe
      BY <1>4, <2>2
    <3>2. i \in 1 .. backfill => db[p] = wal[i].page
      BY <1>1 DEF SharedOK, Kept
    <3>3. i \in backfill + 1 .. safe => db[p] = wal[i].page
      BY <1>1, <1>2, <1>4 DEF CopyingOK
    <3> QED
      BY <3>1, <3>2, <3>3
  <2>3. Kept(t)
    BY <1>1, <1>6, <1>7, <2>2 DEF SharedOK, Kept
  <2>4. Salted(t)
    BY <1>1, <1>6, <1>7 DEF SharedOK, Salted
  <2> QED
    BY <2>1, <2>3, <2>4 DEF SharedOK
<1>9. /\ k \in Connection /\ k.st = "idle" /\ k.warm
      /\ ~Active(k) /\ ~Copying(k) /\ ~Writing(k)
      /\ k.read = conn[c].read /\ k.write = conn[c].write /\ k.cur = conn[c].cur
      /\ k.own = 0 /\ k.dirty = Clean
  BY <1>1, <1>3, IdleIs
<1>10. KeysOK(k, t)
  BY <1>1, <1>2, <1>6, <1>7, <1>9 DEF ConnOK, KeysOK, Unwritable
<1>11. ConnOK(k, t)
  BY <1>4, <1>6, <1>9, <1>10 DEF ConnOK
<1>12. ASSUME NEW d \in Conn \ {c} PROVE ConnOK(conn[d], t) /\ ~Copying(conn[d])
  <2>1. ConnOK(conn[d], Shared) /\ ~Copying(conn[d]) /\ conn[d] \in Connection
    BY <1>1, <1>3 DEF PairOK, ConnOK
  <2>2. conn[d].st # "closed" => KeysOK(conn[d], t)
    BY <1>1, <1>6, <1>7, <2>1 DEF ConnOK, KeysOK, Unwritable
  <2>3. Active(conn[d]) => SnapshotOK(conn[d], t)
    <3> SUFFICES ASSUME Active(conn[d]) PROVE SnapshotOK(conn[d], t)
      OBVIOUS
    <3>1. SnapshotOK(conn[d], Shared) /\ conn[d].lo \in Nat /\ conn[d].hi \in Nat
      BY <2>1 DEF ConnOK, Connection
    <3>2. ~conn[d].direct => safe <= conn[d].hi
      BY <1>1, <1>3 DEF PairOK
    <3>3. \A p \in Page : ViewIn(t, conn[d], p) = ViewIn(Shared, conn[d], p)
      BY <1>1, <1>6 DEF ViewIn
    <3>4. ~conn[d].direct => conn[d].lo <= safe + 1 /\ conn[d].hi <= mx
      BY <1>1, <1>4, <1>5, <3>1 DEF SnapshotOK
    <3> QED
      BY <1>6, <3>1, <3>2, <3>3, <3>4 DEF SnapshotOK
  <2>4. Writing(conn[d]) => WritingOK(conn[d], t)
    <3> SUFFICES ASSUME Writing(conn[d]) PROVE WritingOK(conn[d], t)
      OBVIOUS
    <3>1. WritingOK(conn[d], Shared)
      BY <2>1 DEF ConnOK
    <3>2. ~conn[d].direct
      BY <1>1, <1>4, <1>5, <3>1 DEF WritingOK
    <3> QED
      BY <1>1, <1>6, <3>1, <3>2 DEF WritingOK
  <2> QED
    BY <1>1, <1>4, <1>6, <2>1, <2>2, <2>3, <2>4 DEF ConnOK
<1>13. \A d \in Conn \ {c} : PairOK(k, conn[d], t) /\ PairOK(conn[d], k, t)
  <2>1. \A d \in Conn \ {c} : conn[d].st # "closing"
    BY <1>12 DEF Copying
  <2> QED
    BY <1>9, <2>1, QuietPair
<1>14. (\A d \in Conn \ {c} : ~Writing(conn[d])) => Len(t.wal) = Ends(t.wal)
  BY <1>3, <1>6 DEF IInv
<1> QED
  BY <1>2, <1>8, <1>9, <1>11, <1>12, <1>13, <1>14, StepOne

\* Everything is copied, and the last connection deletes the log.
LEMMA UnlinkKeeps ==
  ASSUME IInv, NEW c \in Conn, Unlink(c)
  PROVE  IInv'
<1>1. /\ SharedOK(Shared) /\ SharedTypes(Shared) /\ Salted(Shared)
      /\ ConnOK(conn[c], Shared)
      /\ Shared.mode = mode /\ Shared.db = db /\ Shared.wal = wal
      /\ Shared.mx = mx /\ Shared.backfill = backfill /\ Shared.want = want
  BY Here, Fields DEF SharedOK
<1> PICK t : t = Shared'
  OBVIOUS
<1>2. /\ conn[c].st = "closing" /\ conn[c].todo = {} /\ wal' = <<>>
      /\ mx' = 0 /\ backfill' = 0 /\ conn' = [conn EXCEPT ![c] = Closed]
      /\ UNCHANGED <<mode, db, want>>
  BY DEF Unlink, Set
<1>3. CopyingOK(conn[c], Shared) /\ mx = Ends(wal) /\ mx \in Nat /\ backfill \in Nat
  BY <1>1, <1>2, Numbers DEF ConnOK, Copying
<1>4. ASSUME NEW p \in Page
      PROVE  db[p] = [val |-> want.val[p], key |-> Right(Shared)]
  <2> PICK i : i = LatestIn(wal, p, 1, mx)
    OBVIOUS
  <2>1. AtIn(wal, db, p, 1, mx) = [val |-> want.val[p], key |-> Right(Shared)]
    BY <1>1, <1>3 DEF SharedOK, Kept
  <2>2. i \in 1 .. backfill => db[p] = wal[i].page
    BY <1>1 DEF SharedOK, Kept
  <2>3. i \in backfill + 1 .. mx => db[p] = wal[i].page
    BY <1>1, <1>2, <1>3 DEF CopyingOK
  <2>4. i = 0 \/ i \in 1 .. backfill \/ i \in backfill + 1 .. mx
    <3>1. i = 0 \/ i \in 1 .. mx
      BY <1>3, LatestIsLast
    <3> QED
      BY <1>3, <3>1
  <2>5. i # 0 => db[p] = wal[i].page
    BY <2>2, <2>3, <2>4
  <2>6. AtIn(wal, db, p, 1, mx) = IF i = 0 THEN db[p] ELSE wal[i].page
    BY DEF AtIn
  <2> QED
    BY <2>1, <2>5, <2>6
<1>5. /\ t.mode = mode /\ t.db = db /\ t.want = want /\ t.wal = <<>> /\ t.mx = 0
      /\ t.backfill = 0
  BY <1>2, NextFields
<1>6. SharedOK(t) /\ Len(t.wal) = Ends(t.wal)
  BY <1>1, <1>4, <1>5, EmptyLog
<1>7. Len(wal') = Ends(wal')
  BY <1>2, <1>5, <1>6
<1> QED
  BY <1>2, <1>6, <1>7, LastLeaves

\* All processes die.
LEMMA CrashKeeps ==
  ASSUME IInv, Crash
  PROVE  IInv'
<1>1. /\ SharedOK(Shared) /\ SharedTypes(Shared)
      /\ Shared.mode = mode /\ Shared.db = db /\ Shared.wal = wal
      /\ Shared.mx = mx /\ Shared.backfill = backfill /\ Shared.want = want
  BY Fields DEF IInv, SharedOK
<1>2. /\ conn' = [c \in Conn |-> Closed] /\ mx' = 0 /\ backfill' = 0
      /\ wal' = IF Writers = {} THEN wal ELSE Undone(CHOOSE c \in Writers : TRUE)
      /\ UNCHANGED <<mode, db, want>>
  BY DEF Crash
<1> PICK t : t = Shared'
  OBVIOUS
<1>3. /\ t.mode = mode /\ t.db = db /\ t.want = want /\ t.wal = wal' /\ t.mx = 0
      /\ t.backfill = 0
  BY <1>2, NextFields
<1>4. SharedOK(t) /\ Len(wal') = Ends(wal')
  <2>1. CASE Writers = {}
    <3>1. wal' = wal /\ Len(wal) = Ends(wal)
      BY <1>2, <2>1, NoWriters
    <3> QED
      BY <1>1, <1>3, <3>1, IndexForgotten
  <2>2. CASE Writers # {}
    <3> PICK c : c = CHOOSE x \in Writers : TRUE
      OBVIOUS
    <3>1. c \in Conn /\ Writing(conn[c])
      BY <2>2 DEF Writers, Writing
    <3> PICK w : w = Undone(c)
      OBVIOUS
    <3>2. wal' = w
      BY <1>2, <2>2
    <3>3. w \in Seq(GoodFrame) /\ Len(w) = mx /\ \A i \in 1 .. mx : w[i] = wal[i]
      BY <3>1, UndoneIs
    <3>4. mx = Ends(wal) /\ mx \in Nat /\ Len(wal) <= MaxFrames /\ mx <= Len(wal)
      BY <1>1, <3>1, WriterLog, Numbers
    <3>5. Len(w) <= MaxFrames /\ mx + 1 .. Len(w) = {} /\ mx <= Len(w)
      <4>1. Len(wal) \in Nat /\ MaxFrames \in Nat
        BY <1>1, Numbers, WalAssumption
      <4>2. mx \in Nat /\ Len(wal) <= MaxFrames /\ mx <= Len(wal)
        BY <3>4
      <4>3. mx <= MaxFrames /\ mx + 1 .. mx = {} /\ mx <= mx
        BY <4>1, <4>2
      <4> QED
        BY <3>3, <4>3
    <3> PICK u : u = [mode |-> mode, db |-> db, wal |-> w, mx |-> mx,
                      backfill |-> backfill, want |-> want]
      OBVIOUS
    <3>6. /\ u.mode = mode /\ u.db = db /\ u.wal = w /\ u.mx = mx
          /\ u.backfill = backfill /\ u.want = want
      OBVIOUS
    <3>7. SharedOK(u) /\ u.mx = Ends(u.wal)
      <4>1. \A i \in Shared.mx + 1 .. Len(u.wal) :
              ~u.wal[i].commit /\ (~Shared.mode.auth => u.wal[i].page.key = Right(Shared))
        BY <1>1, <3>5, <3>6
      <4>2. /\ u.wal \in Seq(GoodFrame) /\ Len(u.wal) <= MaxFrames
            /\ Shared.mx <= Len(u.wal)
            /\ \A i \in 1 .. Shared.mx : u.wal[i] = Shared.wal[i]
        BY <1>1, <3>3, <3>5, <3>6
      <4>3. /\ u.mode = Shared.mode /\ u.db = Shared.db /\ u.mx = Shared.mx
            /\ u.backfill = Shared.backfill /\ u.want = Shared.want
            /\ Shared.mx = Ends(Shared.wal)
        BY <1>1, <3>4, <3>6
      <4> QED
        <5>1. TailOf(Shared, u)
          BY Zenon, <4>1, <4>2, <4>3 DEF TailOf
        <5> QED
          BY <1>1, <5>1, TailKeeps
    <3>8. SharedOK(t)
      BY <1>3, <3>2, <3>6, <3>7, IndexForgotten
    <3> QED
      BY <3>2, <3>3, <3>6, <3>7, <3>8
  <2> QED
    BY <2>1, <2>2
<1>5. \A c \in Conn : conn'[c] = Closed
  BY <1>2
<1>6. \A c \in Conn : ConnOK(conn'[c], Shared')
  BY <1>5, ClosedIs
<1>7. \A c, d \in Conn : PairOK(conn'[c], conn'[d], Shared')
  BY <1>5, ClosedIs, QuietPair
<1>8. conn' = [c \in Conn |-> conn'[c]]
  BY <1>2
<1>9. SharedOK(Shared')
  BY <1>4
<1> QED
  BY <1>2, <1>4, <1>6, <1>7, <1>8, <1>9 DEF IInv

-----------------------------------------------------------------------------
(* The invariant, and what follows from it.                                *)

\* A database without a log.
LEMMA InitIInv ==
  ASSUME Init
  PROVE  IInv
<1>1. /\ mode \in Modes /\ want \in [val : [Page -> Vals], pass : Pass \cup {None}]
      /\ wal = <<>> /\ mx = 0 /\ backfill = 0 /\ conn = [c \in Conn |-> Closed]
  BY DEF Init
<1>2. PICK salt \in Salts :
        db = [p \in Page |->
               [val |-> want.val[p],
                key |-> IF want.pass = None THEN Plain ELSE <<want.pass, salt>>]]
  BY DEF Init
<1> PICK key : key = IF want.pass = None THEN Plain ELSE <<want.pass, salt>>
  OBVIOUS
<1>3. key \in Key
  BY <1>1 DEF Key
<1>4. \A p \in Page : db[p] = [val |-> want.val[p], key |-> key] /\ db[p].key = key
  <2> SUFFICES ASSUME NEW p \in Page
               PROVE  db[p] = [val |-> want.val[p], key |-> key] /\ db[p].key = key
    OBVIOUS
  <2>1. db[p] = [val |-> want.val[p], key |-> key]
    BY <1>2
  <2>2. [val |-> want.val[p], key |-> key].key = key
    OBVIOUS
  <2> QED
    BY <2>1, <2>2
<1>5. 1 \in Page
  BY WalAssumption DEF Page
<1>6. Right(Shared) = key
  <2>1. db[1].key = key
    BY <1>4, <1>5
  <2>2. want.pass # None => key[2] = salt
    OBVIOUS
  <2> QED
    BY <2>1, <2>2, Fields DEF Right, KeyIn
<1>7. /\ Shared.mode = mode /\ Shared.db = db /\ Shared.wal = <<>>
      /\ Shared.mx = 0 /\ Shared.backfill = 0 /\ Shared.want = want
  BY <1>1, Fields
<1>8. Len(Shared.wal) = 0 /\ Shared.wal \in Seq(GoodFrame)
  BY <1>7, EmptySeq
<1>9. SharedTypes(Shared)
  <2>1. db \in [Page -> GoodPage]
    BY <1>1, <1>2, <1>3, <1>4 DEF GoodPage
  <2>2. /\ want.val \in [Page -> Vals] /\ want.pass \in Pass \cup {None}
        /\ want = [val |-> want.val, pass |-> want.pass]
    BY <1>1
  <2> QED
    BY <1>1, <1>7, <1>8, <2>1, <2>2, WalAssumption DEF SharedTypes
<1>10. Salted(Shared)
  <2>1. Ends(Shared.wal) = 0
    BY <1>8, EndsIsLast
  <2>2. 1 .. 0 = {}
    OBVIOUS
  <2>3. \A p \in Page : db[p].key = Right(Shared)
    BY <1>4, <1>6
  <2> QED
    BY <1>7, <1>8, <2>1, <2>2, <2>3 DEF Salted
<1>11. \A p \in Page : Shared.db[p] = [val |-> Shared.want.val[p], key |-> Right(Shared)]
  BY <1>4, <1>6, <1>7
<1>12. SharedOK(Shared) /\ Len(Shared.wal) = Ends(Shared.wal)
  BY <1>7, <1>9, <1>10, <1>11, EmptyLog
<1>13. \A c \in Conn : conn[c] = Closed
  BY <1>1
<1>14. \A c \in Conn : ConnOK(conn[c], Shared)
  BY <1>13, ClosedIs
<1>15. \A c, d \in Conn : PairOK(conn[c], conn[d], Shared)
  BY <1>13, ClosedIs, QuietPair
<1>16. conn = [c \in Conn |-> conn[c]]
  BY <1>1
<1>17. Len(wal) = Ends(wal)
  BY <1>1, <1>7, <1>12
<1> QED
  BY <1>1, <1>12, <1>14, <1>15, <1>16, <1>17 DEF IInv

\* One lemma per action.
LEMMA StepIInv ==
  ASSUME Sound, IInv, [Next]_vars
  PROVE  IInv'
<1>1. CASE UNCHANGED vars
  BY <1>1 DEF vars, IInv, Shared
<1>2. CASE Crash
  BY <1>2, CrashKeeps
<1>3. ASSUME NEW c \in Conn, NEW pass \in Pass \cup {None}, Open(c, pass) \/ Rekey(c, pass)
      PROVE  IInv'
  BY <1>3, OpenKeeps, RekeyKeeps
<1>4. ASSUME NEW c \in Conn, BeginRead(c) \/ EndRead(c) \/ BeginWrite(c)
      PROVE  IInv'
  BY <1>4, BeginReadKeeps, EndReadKeeps, BeginWriteKeeps
<1>5. ASSUME NEW c \in Conn, NEW p \in Page, Spill(c, p) \/ \E v \in Vals : Write(c, p, v)
      PROVE  IInv'
  BY <1>5, SpillKeeps, WriteKeeps
<1>6. ASSUME NEW c \in Conn,
             Restart(c) \/ Commit(c) \/ Rollback(c) \/ RekeyCommit(c) \/ RekeyFail(c)
      PROVE  IInv'
  BY <1>6, RestartKeeps, CommitKeeps, RollbackKeeps, RekeyCommitKeeps, RekeyFailKeeps
<1>7. ASSUME NEW c \in Conn,
             BeginCheckpoint(c) \/ CopyPage(c) \/ EndCheckpoint(c) \/ Close(c) \/ Unlink(c)
      PROVE  IInv'
  BY <1>7, BeginCheckpointKeeps, CopyPageKeeps, EndCheckpointKeeps, CloseKeeps, UnlinkKeeps
<1> QED
  BY <1>1, <1>2, <1>3, <1>4, <1>5, <1>6, <1>7 DEF Next

\* The invariant behind all theorems: the last commit is readable under one key
\* (Kept, Salted), and every connection has the keys, the snapshot, the frames of
\* its transaction and the pages of its checkpoint that go with it (ConnOK), after
\* every step of pager.c and wal.c under the codec.
THEOREM Inductive ==
  ASSUME Sound
  PROVE  Spec => []IInv
<1>1. Init => IInv
  BY InitIInv
<1>2. IInv /\ [Next]_vars => IInv'
  BY StepIInv
<1> QED
  BY <1>1, <1>2, PTL DEF Spec

\* A set has at most one element if no two are different.
LEMMA AtMostOne ==
  ASSUME NEW S, \A x, y \in S : x = y
  PROVE  Cardinality(S) <= 1
<1>1. CASE S = {}
  BY <1>1, FS_EmptySet
<1>2. CASE S # {}
  <2>1. PICK x \in S : S = {x}
    BY <1>2
  <2>2. Cardinality({x}) = 1
    BY FS_Singleton
  <2> QED
    BY <2>1, <2>2
<1> QED
  BY <1>1, <1>2

\* From the invariant to each property.
LEMMA TypesFollow ==
  ASSUME IInv
  PROVE  TypeOK
<1>1. /\ SharedOK(Shared) /\ SharedTypes(Shared)
      /\ Shared.mode = mode /\ Shared.db = db /\ Shared.wal = wal
      /\ Shared.mx = mx /\ Shared.backfill = backfill /\ Shared.want = want
  BY Fields DEF IInv, SharedOK
<1>2. /\ mode \in Modes /\ db \in [Page -> GoodPage] /\ wal \in Seq(GoodFrame)
      /\ Len(wal) <= MaxFrames /\ want.val \in [Page -> Vals]
      /\ want.pass \in Pass \cup {None} /\ want = [val |-> want.val, pass |-> want.pass]
  BY <1>1 DEF SharedTypes
<1>3. /\ mx \in Nat /\ backfill \in Nat /\ Len(wal) \in Nat /\ backfill <= mx
      /\ mx <= Len(wal) /\ DOMAIN wal = 1 .. Len(wal)
      /\ \A i \in 1 .. Len(wal) : wal[i] \in GoodFrame
  BY <1>1, Numbers
<1>4. db \in [Page -> Stored]
  BY <1>2 DEF GoodPage, Stored
<1>5. wal \in Seq(Frame)
  <2>1. \A f \in GoodFrame : f \in Frame
    BY DEF GoodFrame, GoodPage, Frame, Stored
  <2>2. wal = [i \in 1 .. Len(wal) |-> wal[i]]
    BY <1>2, <1>3, SeqDef
  <2>3. wal \in [1 .. Len(wal) -> Frame]
    BY <1>3, <2>1, <2>2
  <2> QED
    BY <1>3, <2>3, SeqDef
<1>6. mx \in 0 .. Len(wal) /\ backfill \in 0 .. mx
  BY <1>3
<1>7. conn \in [Conn -> Connection]
  BY DEF IInv, ConnOK
<1>8. want \in [val : [Page -> Vals], pass : Pass \cup {None}]
  BY <1>2
<1>9. \A c, d \in Conn : c # d => PairOK(conn[c], conn[d], Shared)
  BY DEF IInv
<1>10. Cardinality(Writers) <= 1
  <2>1. \A c, d \in Writers : c = d
    BY <1>9 DEF Writers, Writing, PairOK
  <2> QED
    BY <2>1, AtMostOne
<1>11. Cardinality({c \in Conn : conn[c].st \in {"ckpt", "closing"}}) <= 1
  <2>1. \A c, d \in {e \in Conn : conn[e].st \in {"ckpt", "closing"}} : c = d
    BY <1>9 DEF Copying, PairOK
  <2> QED
    BY <2>1, AtMostOne
<1> QED
  BY <1>2, <1>4, <1>5, <1>6, <1>7, <1>8, <1>10, <1>11 DEF TypeOK

\* The image of the database for the one who has the passphrase.
LEMMA ImageIs ==
  ASSUME Sound, IInv
  PROVE  HolderReads
<1>1. /\ SharedOK(Shared) /\ Shared.db = db /\ Shared.wal = wal /\ Shared.want = want
  BY Fields DEF IInv
<1>2. Recovered(RightKey) = Ends(wal)
  BY <1>1, RecoveryFinds
<1>3. ASSUME NEW p \in Page
      PROVE  At(p, 1, Recovered(RightKey)) = [val |-> want.val[p], key |-> RightKey]
  <2>1. AtIn(wal, db, p, 1, Ends(wal)) = [val |-> want.val[p], key |-> Right(Shared)]
    BY <1>1 DEF SharedOK, Kept
  <2>2. At(p, 1, Ends(wal)) = AtIn(wal, db, p, 1, Ends(wal)) /\ RightKey = Right(Shared)
    BY Operators
  <2> QED
    BY <1>2, <2>1, <2>2
<1>4. Image = [p \in Page |-> At(p, 1, Recovered(RightKey))]
  BY Zenon DEF Image
<1> QED
  BY <1>3, <1>4 DEF HolderReads

\* A snapshot is part of the invariant.
LEMMA SnapshotsFollow ==
  ASSUME IInv
  PROVE  SnapshotReadable
<1> SUFFICES ASSUME NEW c \in Conn, conn[c].st \in {"read", "write", "rekey"}, NEW p \in Page
             PROVE  View(conn[c], p) = [val |-> conn[c].seen[p], key |-> conn[c].read]
  BY DEF SnapshotReadable
<1>1. SnapshotOK(conn[c], Shared)
  BY Here DEF ConnOK, Active
<1>2. ViewIn(Shared, conn[c], p) = [val |-> conn[c].seen[p], key |-> conn[c].read]
  BY <1>1 DEF SnapshotOK
<1>3. View(conn[c], p) = ViewIn(Shared, conn[c], p)
  BY Operators
<1> QED
  BY <1>2, <1>3

\* The key of a current connection is that of page 1.
LEMMA SessionsFollow ==
  ASSUME Sound, IInv
  PROVE  SessionCurrent
<1>1. 1 \in Page
  BY WalAssumption DEF Page
<1>2. Image[1].key = Right(Shared)
  BY <1>1, ImageIs, Operators DEF HolderReads
<1>3. ASSUME NEW c \in Conn, conn[c].st # "closed", conn[c].cur
      PROVE  /\ conn[c].read = Image[1].key
             /\ \/ conn[c].st = "rekey" \/ conn[c].write = conn[c].read
                \/ conn[c].st \in {"idle", "read"} /\ conn[c].write = Plain
  <2>1. KeysOK(conn[c], Shared)
    BY <1>3, Here DEF ConnOK
  <2> QED
    BY <1>2, <1>3, <2>1 DEF KeysOK, Unwritable
<1> QED
  BY <1>3 DEF SessionCurrent

\* What a step changes in the file is a frame of the log.
LEMMA FileStep ==
  ASSUME Sound, IInv, [Next]_vars, NEW p \in Page, db'[p] # db[p]
  PROVE  \E i \in 1 .. mx : wal[i].pg = p /\ wal[i].page = db'[p]
<1>1. db' # db
  OBVIOUS
<1>2. PICK c \in Conn : CopyPage(c)
  <2>1. ~UNCHANGED vars /\ ~Crash
    BY <1>1 DEF vars, Crash
  <2>2. ASSUME NEW c \in Conn, NEW pass \in Pass \cup {None} PROVE ~Open(c, pass) /\ ~Rekey(c, pass)
    BY <1>1 DEF Open, Rekey, Begin
  <2>3. ASSUME NEW c \in Conn PROVE ~BeginRead(c) /\ ~EndRead(c) /\ ~BeginWrite(c)
    BY <1>1 DEF BeginRead, Begin, EndRead, BeginWrite
  <2>4. ASSUME NEW c \in Conn, NEW q \in Page PROVE ~Spill(c, q) /\ \A v \in Vals : ~Write(c, q, v)
    BY <1>1 DEF Spill, Write
  <2>5. ASSUME NEW c \in Conn
        PROVE  ~Restart(c) /\ ~Commit(c) /\ ~Rollback(c) /\ ~RekeyCommit(c) /\ ~RekeyFail(c)
    BY <1>1 DEF Restart, Commit, Rollback, RekeyCommit, RekeyFail
  <2>6. ASSUME NEW c \in Conn
        PROVE  ~BeginCheckpoint(c) /\ ~EndCheckpoint(c) /\ ~Close(c) /\ ~Unlink(c)
    BY <1>1 DEF BeginCheckpoint, EndCheckpoint, Close, Checkpoint, Unlink
  <2> QED
    BY <2>1, <2>2, <2>3, <2>4, <2>5, <2>6 DEF Next
<1> PICK q : q = Min(conn[c].todo)
  OBVIOUS
<1> PICK i : i = LatestIn(wal, q, 1, conn[c].safe)
  OBVIOUS
<1> PICK s : s = wal[i].page
  OBVIOUS
<1>3. /\ conn[c].st \in {"ckpt", "closing"} /\ conn[c].todo # {}
      /\ IF Fails(conn[c], s) THEN UNCHANGED db
         ELSE db' = [db EXCEPT ![q] = Copied(conn[c], q, s)]
  BY <1>2, Operators DEF CopyPage
<1>4. q \in conn[c].todo
  <2>1. conn[c].todo \in SUBSET Nat
    BY Here DEF Connection, Page
  <2> QED
    BY <1>3, <2>1, MinIsLeast
<1>5. /\ q \in Page /\ i \in backfill + 1 .. mx /\ wal[i].pg = q
      /\ ~Fails(conn[c], s) => Copied(conn[c], q, s) = s
  BY <1>3, <1>4, CopyIs DEF Copying
<1>6. db' = [db EXCEPT ![q] = s]
  BY <1>1, <1>3, <1>5
<1>7. db \in [Page -> GoodPage] /\ backfill \in Nat /\ mx \in Nat
  BY Here, Fields DEF SharedTypes
<1>8. p = q /\ db'[p] = s
  BY <1>5, <1>6, <1>7
<1>9. i \in 1 .. mx
  BY <1>5, <1>7
<1> QED
  BY <1>5, <1>8, <1>9

-----------------------------------------------------------------------------
(* Theorems.                                                               *)

\* The log, its index and the connections are well formed, one connection
\* writes and one copies: what the locks of wal.c and pager.c are for.
THEOREM TypeCorrect ==
  ASSUME Sound
  PROVE  Spec => []TypeOK
<1>1. IInv => TypeOK
  BY TypesFollow
<1> QED
  BY <1>1, Inductive, PTL

\* Who opens the database with the passphrase of the last commit derives the
\* key of every page and reads what was committed, after any history of
\* commits, rekeys (sqlite3_rekey_v2) that succeed or fail, checkpoints by
\* whatever connection, restarts of the log and crashes.
THEOREM HolderAlwaysReads ==
  ASSUME Sound
  PROVE  Spec => []HolderReads
<1>1. IInv => HolderReads
  BY ImageIs
<1> QED
  BY <1>1, Inductive, PTL

\* A transaction reads its snapshot to the end under the key it began with:
\* neither a checkpoint (walCheckpoint) nor a rekey of another connection nor
\* walRestartLog takes it away.
THEOREM SnapshotsReadable ==
  ASSUME Sound
  PROVE  Spec => []SnapshotReadable
<1>1. IInv => SnapshotReadable
  BY SnapshotsFollow
<1> QED
  BY <1>1, Inductive, PTL

\* The codec of a connection that is current, because it was opened with the
\* right passphrase or has finished the last rekey (leave_rekey), is that of
\* the database, but for the write cipher a failed removal does not restore.
THEOREM SessionsCurrent ==
  ASSUME Sound
  PROVE  Spec => []SessionCurrent
<1>1. IInv => SessionCurrent
  BY SessionsFollow
<1> QED
  BY <1>1, Inductive, PTL

\* A connection with a key that is not the key of the database writes nothing
\* to the file that is not in the log: a checkpoint that decrypts and encrypts
\* (mcReadWal, mcWriteMainDb) fails or copies frames as they are.
THEOREM StaleHarmless ==
  ASSUME Sound
  PROVE  Spec => StaleIsHarmless
<1> DEFINE Harmless ==
      \A c \in Conn :
        /\ conn[c].st # "closed" /\ ~conn[c].cur /\ ~conn'[c].cur
        /\ conn[c] # conn'[c]
        /\ \A o \in Conn \ {c} : conn[o] = conn'[o]
        => \A p \in Page : db'[p] # db[p] =>
             \E i \in 1 .. mx : wal[i].pg = p /\ wal[i].page = db'[p]
<1>1. IInv /\ [Next]_vars => Harmless
  BY FileStep
<1> QED
  BY <1>1, Inductive, PTL DEF Spec, StaleIsHarmless
=============================================================================
