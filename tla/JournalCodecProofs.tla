------------------------- MODULE JournalCodecProofs -------------------------
(***************************************************************************)
(* Theorems about JournalCodec, for every number of pages and contents:    *)
(* types, and, as long as a page is longer than a block of the header and  *)
(* not as long as the name of a super-journal, what a crash, a rollback    *)
(* and a playback find in an encrypted rollback journal.                   *)
(***************************************************************************)
EXTENDS JournalCodec, FiniteSetTheorems, SequenceTheorems, TLAPS

\* A page is not as long as a block of a header, nor as the name of a
\* super-journal.
Lengths == Encrypted => PageSize > SectorSize /\ PageSize # SuperLen

\* The number a record of page p is encrypted under.
Right(p) == IF Encrypted THEN p ELSE 0

(* Of a journal j: a synced segment counts its records; headers are plain, *)
(* only the last may not be synced, and a page is encrypted under its      *)
(* number, once in a segment; a record has the content of w.               *)
Formed(j) ==
  \A i \in 1 .. Len(j) :
    /\ j[i].nrec <= Len(j[i].recs)
    /\ j[i].synced => j[i].nrec = Len(j[i].recs)

CodedRecs(R) ==
  /\ \A k \in 1 .. Len(R) : R[k].code = Right(R[k].pg)
  /\ \A k, l \in 1 .. Len(R) : k # l => R[k].pg # R[l].pg

Coded(j) ==
  \A i \in 1 .. Len(j) :
    /\ j[i].code = 0
    /\ i < Len(j) => j[i].synced
    /\ CodedRecs(j[i].recs)

AllSynced(j) == \A i \in 1 .. Len(j) : j[i].synced

Old(j, w) ==
  \A i \in 1 .. Len(j) : \A k \in 1 .. Len(j[i].recs) :
    j[i].recs[k].val = w[j[i].recs[k].pg]

InPages(j, p)  == \E i \in 1 .. Len(j) : p \in PagesOf(j[i])
InSynced(j, p) == \E i \in 1 .. Len(j) : j[i].synced /\ p \in PagesOf(j[i])

\* The form of the journal, and the position of a playback.
Form ==
  /\ Formed(jrnl)
  /\ pc \in {"txn", "commit", "finish", "super", "undo"} => jrnl # <<>>
  /\ pc = "txn" => ~ Last(jrnl).synced
  /\ pc = "idle" => jrnl = <<>>
  /\ pc = "undo" => at[1] > 0 /\ (at[2] > 0 => at[1] <= Len(jrnl))

\* The transaction of several files is committed, the journal still there.
Committed == name # NoName /\ ~ super

\* What the journal holds, and what of the file it does not need to restore.
Restores == Old(jrnl, want) /\ \A p \in Page : disk[p] # want[p] => InSynced(jrnl, p)

\* Page p is in a record that the playback has not read yet.
Ahead(i, k) == i > at[1] \/ (i = at[1] /\ k >= at[2])

ToRestore(p) ==
  \E i \in 1 .. Len(jrnl) : \E k \in 1 .. Len(jrnl[i].recs) :
    Ahead(i, k) /\ jrnl[i].recs[k].pg = p

\* The pages at each point of the pager's work.
Pages ==
  /\ pc \in {"txn", "commit"} =>
       /\ ~ hot
       /\ \A p \in dirty : InPages(jrnl, p)
       /\ \A p \in Page \ dirty : disk[p] = cache[p]
  /\ pc \in {"txn", "commit", "super"} =>
       \A p \in Page : ~ InPages(jrnl, p) => cache[p] = want[p]
  /\ pc # "dead" /\ ~ hot /\ ~ dbmod => disk = want
  /\ pc \in {"idle", "end"} => disk = want /\ cache = want
  /\ pc = "undo" => \A p \in Page : cache[p] # want[p] \/ disk[p] # want[p] => ToRestore(p)
  /\ hot \/ pc \in {"dead", "commit"} => AllSynced(jrnl)
  /\ pc \in {"idle", "dead"} => dirty = {} /\ ~ dbmod /\ ~ hot

\* How the transaction stands.
Outcome ==
  /\ name \in {0, NoName} /\ (super => name # NoName)
  /\ name # NoName => jrnl # <<>> /\ AllSynced(jrnl)
  /\ pc = "txn" => name = NoName
  /\ pc = "finish" => Committed
  /\ pc \in {"commit", "undo"} => ~ Committed
  /\ IF Committed THEN disk = want /\ (pc # "dead" => cache = want) ELSE Restores

JInv == TypeOK /\ Form /\ Coded(jrnl) /\ Pages /\ Outcome

-----------------------------------------------------------------------------
(***************************************************************************)
(* The operations on a journal.                                            *)
(***************************************************************************)
\* The numbers of the model are different.
LEMMA Numbers ==
  /\ NumPages \in Nat /\ Page \subseteq Nat /\ 0 \notin Page /\ 0 \in Number
  /\ Page \subseteq Number /\ Sum \in Number /\ Sj \in Number /\ NoName # 0
  /\ \A p \in Page : Right(p) \in Number
BY SizesAssumption DEF Page, Sum, Sj, Number, NoName, Right

\* The number of a page, and pageNo, stay in their range.
LEMMA Codes ==
  ASSUME NEW n \in Nat, NEW no \in Number
  PROVE  /\ CodeOf(n, no) \in Number
         /\ \A v \in Number : After4(no, v) \in Number
         /\ AfterRead(no) \in Number
BY Numbers DEF CodeOf, After4, AfterRead

\* A record that is written, and how it is read.
LEMMA RecordFacts ==
  ASSUME TypeOK, NEW p \in Page
  PROVE  /\ NewRecord(pageNo, p) \in Record
         /\ NewRecord(pageNo, p).pg = p /\ NewRecord(pageNo, p).val = cache[p]
         /\ NewRecord(pageNo, p).code = Right(p)
         /\ AfterRecord(pageNo, p) \in Number
<1>1. cache[p] \in Vals /\ PageSize \in Nat
  BY SizesAssumption DEF TypeOK
<1>2. CodeOf(PageSize, After4(pageNo, p)) = Right(p)
  BY DEF CodeOf, After4, Right
<1>3. AfterRecord(pageNo, p) \in Number
  BY Numbers DEF AfterRecord, After4, TypeOK
<1> QED
  BY <1>1, <1>2, <1>3, Numbers DEF NewRecord, Record

\* The header of a segment.
LEMMA SegmentFacts ==
  ASSUME NEW no \in Number
  PROVE  /\ NewSegment(no) \in Segment
         /\ ~ NewSegment(no).synced /\ NewSegment(no).nrec = 0
         /\ NewSegment(no).recs = <<>> /\ Len(NewSegment(no).recs) = 0
         /\ Lengths => NewSegment(no).code = 0
<1> DEFINE n == IF PageSize > SectorSize THEN SectorSize ELSE PageSize
<1>1. n \in Nat
  BY SizesAssumption
<1>2. CodeOf(n, no) \in Number
  BY <1>1, Codes
<1>3. Lengths => CodeOf(n, no) = 0
  BY SizesAssumption DEF Lengths, CodeOf
<1>4. NewSegment(no) = [code |-> CodeOf(n, no), synced |-> FALSE, nrec |-> 0, recs |-> <<>>]
  BY DEF NewSegment
<1>5. <<>> \in Seq(Record) /\ Len(<<>>) = 0
  BY EmptySeq
<1> HIDE DEF n
<1> QED
  BY <1>2, <1>3, <1>4, <1>5 DEF Segment

\* The last segment of a journal is changed.
LEMMA LastChanged ==
  ASSUME NEW j \in Seq(Segment), j # <<>>, NEW s \in Segment
  PROVE  /\ Len(j) \in Nat \ {0} /\ j[Len(j)] \in Segment
         /\ [j EXCEPT ![Len(j)] = s] \in Seq(Segment)
         /\ Len([j EXCEPT ![Len(j)] = s]) = Len(j)
         /\ [j EXCEPT ![Len(j)] = s][Len(j)] = s
         /\ \A i \in 1 .. Len(j) : i # Len(j) => [j EXCEPT ![Len(j)] = s][i] = j[i]
<1>1. Len(j) \in Nat \ {0}
  BY EmptySeq
<1>2. Len(j) \in 1 .. Len(j)
  BY <1>1
<1> QED
  BY <1>1, <1>2, ElementOfSeq, ExceptSeq

\* A record goes to the last segment.
LEMMA AddFacts ==
  ASSUME NEW j \in Seq(Segment), j # <<>>, NEW r \in Record, NEW a, a = AddRecord(j, r)
  PROVE  /\ Len(j) \in Nat \ {0} /\ a \in Seq(Segment) /\ Len(a) = Len(j)
         /\ \A i \in 1 .. Len(j) : i # Len(j) => a[i] = j[i]
         /\ a[Len(j)].code = j[Len(j)].code /\ a[Len(j)].synced = j[Len(j)].synced
         /\ a[Len(j)].nrec = j[Len(j)].nrec
         /\ a[Len(j)].recs = Append(j[Len(j)].recs, r)
         /\ j[Len(j)].recs \in Seq(Record)
<1>1. PICK s : s = [j[Len(j)] EXCEPT !.recs = Append(j[Len(j)].recs, r)]
  OBVIOUS
<1>2. Len(j) \in Nat \ {0} /\ j[Len(j)] \in Segment
  BY EmptySeq, ElementOfSeq
<1>3. j[Len(j)].recs \in Seq(Record) /\ Append(j[Len(j)].recs, r) \in Seq(Record)
  BY <1>2 DEF Segment
<1>4. /\ s \in Segment /\ s.code = j[Len(j)].code /\ s.synced = j[Len(j)].synced
      /\ s.nrec = j[Len(j)].nrec /\ s.recs = Append(j[Len(j)].recs, r)
  BY <1>1, <1>2, <1>3 DEF Segment
<1>5. a = [j EXCEPT ![Len(j)] = s]
  BY <1>1 DEF AddRecord
<1> QED
  BY <1>2, <1>3, <1>4, <1>5, LastChanged

\* The last segment is synced.
LEMMA SyncFacts ==
  ASSUME NEW j \in Seq(Segment), j # <<>>, NEW a, a = Sync(j)
  PROVE  /\ Len(j) \in Nat \ {0} /\ a \in Seq(Segment) /\ Len(a) = Len(j)
         /\ \A i \in 1 .. Len(j) : i # Len(j) => a[i] = j[i]
         /\ a[Len(j)].code = j[Len(j)].code /\ a[Len(j)].synced
         /\ a[Len(j)].nrec = Len(j[Len(j)].recs) /\ a[Len(j)].recs = j[Len(j)].recs
<1>1. PICK s : s = [j[Len(j)] EXCEPT !.synced = TRUE, !.nrec = Len(j[Len(j)].recs)]
  OBVIOUS
<1>2. Len(j) \in Nat \ {0} /\ j[Len(j)] \in Segment
  BY EmptySeq, ElementOfSeq
<1>3. Len(j[Len(j)].recs) \in Nat
  BY <1>2, LenProperties DEF Segment
<1>4. /\ s \in Segment /\ s.code = j[Len(j)].code /\ s.synced = TRUE
      /\ s.nrec = Len(j[Len(j)].recs) /\ s.recs = j[Len(j)].recs
  BY <1>1, <1>2, <1>3 DEF Segment
<1>5. a = [j EXCEPT ![Len(j)] = s]
  BY <1>1 DEF Sync
<1> QED
  BY <1>2, <1>4, <1>5, LastChanged

\* A new segment is begun.
LEMMA AppendFacts ==
  ASSUME NEW j \in Seq(Segment), NEW s \in Segment, NEW a, a = Append(j, s)
  PROVE  /\ Len(j) \in Nat /\ a \in Seq(Segment) /\ Len(a) = Len(j) + 1 /\ a # <<>>
         /\ \A i \in 1 .. Len(j) : a[i] = j[i]
         /\ a[Len(a)] = s
OBVIOUS

\* What a crash leaves.
LEMMA DurableFacts ==
  ASSUME NEW j \in Seq(Segment), NEW a, a = Durable(j)
  PROVE  /\ Len(j) \in Nat /\ a \in Seq(Segment) /\ Len(a) \in Nat
         /\ Len(a) <= Len(j) /\ Len(j) <= Len(a) + 1
         /\ \A i \in 1 .. Len(a) : a[i] = j[i]
         /\ Len(a) < Len(j) => ~ j[Len(j)].synced
         /\ Len(a) = Len(j) /\ j # <<>> => j[Len(j)].synced
<1>1. Len(j) \in Nat /\ (j # <<>> => Len(j) > 0)
  BY EmptySeq, LenProperties
<1>2. CASE j # <<>> /\ ~ Last(j).synced
  <2>1. PICK n \in Nat : n = Len(j) - 1
    BY <1>1, <1>2
  <2>2. a = SubSeq(j, 1, n)
    BY <1>2, <2>1 DEF Durable
  <2>3. \A i \in 1 .. n : j[i] \in Segment
    BY <1>1, <2>1, ElementOfSeq
  <2>4. /\ a \in Seq(Segment) /\ Len(a) = (IF 1 <= n THEN n - 1 + 1 ELSE 0)
        /\ \A i \in 1 .. n - 1 + 1 : a[i] = j[1 + i - 1]
    BY <2>2, <2>3, SubSeqProperties
  <2>5. Len(a) = n /\ \A i \in 1 .. n : a[i] = j[i]
    <3>1. Len(a) = n /\ 1 .. n - 1 + 1 = 1 .. n
      BY <2>1, <2>4
    <3>2. ASSUME NEW i \in 1 .. n PROVE a[i] = j[i]
      <4>1. 1 + i - 1 = i
        OBVIOUS
      <4> QED
        BY <2>4, <3>1, <4>1, Zenon
    <3> QED
      BY <3>1, <3>2
  <2> QED
    BY <1>1, <1>2, <2>1, <2>4, <2>5 DEF Last
<1>3. CASE ~ (j # <<>> /\ ~ Last(j).synced)
  <2>1. a = j
    BY <1>3 DEF Durable
  <2> QED
    BY <1>1, <1>3, <2>1 DEF Last
<1> QED
  BY <1>2, <1>3

\* The last segment of a journal, and a page in it.
LEMMA LastFacts ==
  ASSUME NEW j \in Seq(Segment), j # <<>>
  PROVE  Len(j) \in 1 .. Len(j) /\ Last(j) = j[Len(j)] /\ Last(j) \in Segment
<1>1. Len(j) \in Nat \ {0}
  BY EmptySeq
<1> QED
  BY <1>1, ElementOfSeq DEF Last

\* What is kept, and what is new, when a record is added.
LEMMA AddKeeps ==
  ASSUME NEW j \in Seq(Segment), j # <<>>, ~ Last(j).synced, NEW r \in Record,
         NEW a, a = AddRecord(j, r)
  PROVE  /\ a \in Seq(Segment) /\ a # <<>> /\ ~ Last(a).synced
         /\ Formed(j) => Formed(a)
         /\ Coded(j) /\ r.code = Right(r.pg) /\ ~ InPages(j, r.pg) => Coded(a)
         /\ \A w : Old(j, w) /\ r.val = w[r.pg] => Old(a, w)
         /\ \A p : InPages(a, p) <=> InPages(j, p) \/ p = r.pg
         /\ \A p : InSynced(j, p) => InSynced(a, p)
<1> DEFINE n == Len(j)
           R == j[n].recs
<1>1. /\ (n \in Nat \ {0} /\ a \in Seq(Segment) /\ Len(a) = n)
      /\ /\ \A i \in 1 .. n : i # n => a[i] = j[i]
         /\ a[n].code = j[n].code /\ a[n].synced = j[n].synced
      /\ /\ a[n].nrec = j[n].nrec
         /\ a[n].recs = Append(R, r) /\ R \in Seq(Record)
  <2>1. Len(j) \in Nat \ {0} /\ a \in Seq(Segment) /\ Len(a) = Len(j)
    BY AddFacts
  <2>2. /\ \A i \in 1 .. Len(j) : i # Len(j) => a[i] = j[i]
        /\ a[Len(j)].code = j[Len(j)].code /\ a[Len(j)].synced = j[Len(j)].synced
    BY AddFacts
  <2>3. /\ a[Len(j)].nrec = j[Len(j)].nrec
        /\ a[Len(j)].recs = Append(j[Len(j)].recs, r) /\ j[Len(j)].recs \in Seq(Record)
    BY AddFacts
  <2> QED
    BY <2>1, <2>2, <2>3
<1>2. n \in 1 .. n /\ ~ j[n].synced /\ a # <<>> /\ Last(a) = a[n]
  <2>1. Last(j) = j[n]
    BY LastFacts
  <2> QED
    BY <1>1, <2>1 DEF Last
<1>3. /\ Len(R) \in Nat /\ Len(a[n].recs) = Len(R) + 1
      /\ \A k \in 1 .. Len(R) : a[n].recs[k] = R[k]
      /\ a[n].recs[Len(R) + 1] = r
  BY <1>1
<1>4. \A i \in 1 .. n : j[i] \in Segment
  BY <1>1, ElementOfSeq
<1>5. \A i \in 1 .. n : j[i].nrec \in Nat
  BY <1>4 DEF Segment
<1> HIDE DEF n, R
<1>6. Formed(j) => Formed(a)
  <2> SUFFICES ASSUME Formed(j), NEW i \in 1 .. n
               PROVE  /\ a[i].nrec <= Len(a[i].recs)
                      /\ a[i].synced => a[i].nrec = Len(a[i].recs)
    BY <1>1 DEF Formed
  <2>1. j[i].nrec <= Len(j[i].recs) /\ (j[i].synced => j[i].nrec = Len(j[i].recs))
    BY DEF Formed, n
  <2>2. CASE i # n
    BY <1>1, <2>1, <2>2
  <2>3. CASE i = n
    <3>1. j[n].nrec <= Len(R)
      BY <2>1, <2>3 DEF R
    <3> QED
      BY <1>1, <1>2, <1>3, <1>5, <2>3, <3>1
  <2> QED
    BY <2>2, <2>3
<1>7. ASSUME Coded(j), r.code = Right(r.pg), ~ InPages(j, r.pg) PROVE Coded(a)
  <2> SUFFICES ASSUME NEW i \in 1 .. n
               PROVE  a[i].code = 0 /\ (i < n => a[i].synced) /\ CodedRecs(a[i].recs)
    BY <1>1 DEF Coded
  <2>1. CASE i # n
    <3>1. a[i] = j[i]
      BY <1>1, <2>1
    <3>2. j[i].code = 0 /\ (i < n => j[i].synced) /\ CodedRecs(j[i].recs)
      BY <1>7 DEF Coded, n
    <3> QED
      BY <3>1, <3>2
  <2>2. CASE i = n
    <3>1. /\ j[n].code = 0
          /\ \A k \in 1 .. Len(R) : R[k].code = Right(R[k].pg)
          /\ \A k, l \in 1 .. Len(R) : k # l => R[k].pg # R[l].pg
      <4>1. j[n].code = 0 /\ CodedRecs(R)
        BY <1>2, <1>7 DEF Coded, n, R
      <4> QED
        BY <4>1 DEF CodedRecs
    <3>2. \A k \in 1 .. Len(R) : R[k].pg # r.pg
      BY <1>2, <1>7 DEF InPages, PagesOf, n, R
    <3>3. \A k \in 1 .. Len(R) + 1 : k \in 1 .. Len(R) \/ k = Len(R) + 1
      BY <1>3
    <3>4. \A k \in 1 .. Len(R) + 1 : a[n].recs[k].code = Right(a[n].recs[k].pg)
      BY <1>3, <1>7, <3>1, <3>3
    <3>5. \A k, l \in 1 .. Len(R) + 1 : k # l => a[n].recs[k].pg # a[n].recs[l].pg
      <4> SUFFICES ASSUME NEW k \in 1 .. Len(R) + 1, NEW l \in 1 .. Len(R) + 1, k # l
                   PROVE  a[n].recs[k].pg # a[n].recs[l].pg
        OBVIOUS
      <4>1. CASE k = Len(R) + 1
        <5>1. l \in 1 .. Len(R)
          BY <3>3, <4>1
        <5>2. a[n].recs[k] = r /\ a[n].recs[l] = R[l]
          BY <1>3, <4>1, <5>1
        <5>3. R[l].pg # r.pg
          BY <3>2, <5>1
        <5> QED
          BY <5>2, <5>3
      <4>2. CASE l = Len(R) + 1
        <5>1. k \in 1 .. Len(R)
          BY <3>3, <4>2
        <5>2. a[n].recs[k] = R[k] /\ a[n].recs[l] = r
          BY <1>3, <4>2, <5>1
        <5>3. R[k].pg # r.pg
          BY <3>2, <5>1
        <5> QED
          BY <5>2, <5>3
      <4>3. CASE k # Len(R) + 1 /\ l # Len(R) + 1
        <5>1. k \in 1 .. Len(R) /\ l \in 1 .. Len(R)
          BY <3>3, <4>3
        <5>2. a[n].recs[k] = R[k] /\ a[n].recs[l] = R[l]
          BY <1>3, <5>1
        <5>3. R[k].pg # R[l].pg
          BY <3>1, <5>1
        <5> QED
          BY <5>2, <5>3
      <4> QED
        BY <4>1, <4>2, <4>3
    <3>6. a[i].code = 0
      BY <1>1, <2>2, <3>1
    <3>7. i < n => a[i].synced
      BY <1>1, <2>2
    <3>8. CodedRecs(a[n].recs)
      <4>1. Len(a[n].recs) = Len(R) + 1
        BY <1>3
      <4>2. /\ \A k \in 1 .. Len(a[n].recs) : a[n].recs[k].code = Right(a[n].recs[k].pg)
            /\ \A k, l \in 1 .. Len(a[n].recs) : k # l => a[n].recs[k].pg # a[n].recs[l].pg
        BY <3>4, <3>5, <4>1
      <4> QED
        BY Zenon, <4>2 DEF CodedRecs
    <3> QED
      BY <2>2, <3>6, <3>7, <3>8
  <2> QED
    BY <2>1, <2>2
<1>8. ASSUME NEW w, Old(j, w), r.val = w[r.pg] PROVE Old(a, w)
  <2> SUFFICES ASSUME NEW i \in 1 .. n, NEW k \in 1 .. Len(a[i].recs)
               PROVE  a[i].recs[k].val = w[a[i].recs[k].pg]
    BY <1>1 DEF Old
  <2>1. CASE i # n
    BY <1>1, <1>8, <2>1 DEF Old, n
  <2>2. CASE i = n
    <3>1. \A l \in 1 .. Len(R) : R[l].val = w[R[l].pg]
      BY <1>2, <1>8 DEF Old, n, R
    <3>2. k \in 1 .. Len(R) \/ k = Len(R) + 1
      BY <1>3, <2>2
    <3> QED
      BY <1>3, <1>8, <2>2, <3>1, <3>2
  <2> QED
    BY <2>1, <2>2
<1>9. PagesOf(a[n]) = PagesOf(j[n]) \cup {r.pg}
  <2>1. PagesOf(j[n]) = {R[k].pg : k \in 1 .. Len(R)}
    BY DEF PagesOf, R
  <2>2. PagesOf(a[n]) = {a[n].recs[k].pg : k \in 1 .. Len(R) + 1}
    BY <1>3 DEF PagesOf
  <2>3. 1 .. Len(R) + 1 = (1 .. Len(R)) \cup {Len(R) + 1}
    BY <1>3
  <2>4. {a[n].recs[k].pg : k \in 1 .. Len(R)} = {R[k].pg : k \in 1 .. Len(R)}
    BY <1>3
  <2>5. a[n].recs[Len(R) + 1].pg = r.pg
    BY <1>3
  <2> QED
    BY Zenon, <2>1, <2>2, <2>3, <2>4, <2>5
<1>10. \A p : InPages(a, p) <=> InPages(j, p) \/ p = r.pg
  BY <1>1, <1>2, <1>9 DEF InPages, n
<1>11. \A p : InSynced(j, p) => InSynced(a, p)
  BY <1>1, <1>2 DEF InSynced, n
<1> QED
  BY <1>1, <1>2, <1>6, <1>7, <1>8, <1>10, <1>11

\* A journal that is synced has the same records.
LEMMA SameRecords ==
  ASSUME NEW j \in Seq(Segment), j # <<>>, NEW a, a = Sync(j)
  PROVE  /\ a \in Seq(Segment) /\ a # <<>> /\ Last(a).synced /\ Len(a) = Len(j)
         /\ Formed(j) => Formed(a)
         /\ Coded(j) => Coded(a) /\ \A i \in 1 .. Len(a) : a[i].synced
         /\ \A w : Old(j, w) => Old(a, w)
         /\ \A p : InPages(a, p) <=> InPages(j, p)
         /\ \A p : Coded(j) => (InSynced(a, p) <=> InPages(j, p))
<1>1. /\ Len(j) \in Nat \ {0} /\ a \in Seq(Segment) /\ Len(a) = Len(j)
      /\ \A i \in 1 .. Len(j) : i # Len(j) => a[i] = j[i]
      /\ a[Len(j)].code = j[Len(j)].code /\ a[Len(j)].synced
      /\ a[Len(j)].nrec = Len(j[Len(j)].recs) /\ a[Len(j)].recs = j[Len(j)].recs
  BY SyncFacts
<1>2. \A i \in 1 .. Len(j) : a[i].recs = j[i].recs /\ a[i].code = j[i].code
  BY <1>1
<1>3. a # <<>> /\ Last(a) = a[Len(j)] /\ Len(j) \in 1 .. Len(j)
  BY <1>1 DEF Last
<1>4. Formed(j) => Formed(a)
  <2>1. Len(a[Len(j)].recs) \in Nat
    BY <1>1, <1>3, ElementOfSeq, LenProperties DEF Segment
  <2> QED
    BY <1>1, <2>1 DEF Formed
<1>5. Coded(j) => Coded(a) /\ \A i \in 1 .. Len(a) : a[i].synced
  <2>1. Coded(j) => \A i \in 1 .. Len(a) : a[i].synced
    BY <1>1 DEF Coded
  <2>2. ASSUME Coded(j) PROVE Coded(a)
    <3>1. Len(a) = Len(j)
      BY <1>1
    <3> SUFFICES ASSUME NEW i \in 1 .. Len(j)
                 PROVE  /\ a[i].code = 0 /\ (i < Len(j) => a[i].synced)
                        /\ CodedRecs(a[i].recs)
      BY <3>1 DEF Coded
    <3>2. a[i].synced /\ a[i].recs = j[i].recs /\ a[i].code = j[i].code
      BY <1>2, <2>1, <2>2, <3>1
    <3>3. j[i].code = 0 /\ CodedRecs(j[i].recs)
      BY <2>2 DEF Coded
    <3> QED
      BY <3>2, <3>3
  <2> QED
    BY <2>1, <2>2
<1>6. \A w : Old(j, w) => Old(a, w)
  BY <1>1, <1>2 DEF Old
<1>7. \A i \in 1 .. Len(j) : PagesOf(a[i]) = PagesOf(j[i])
  BY <1>2 DEF PagesOf
<1>8. \A p : InPages(a, p) <=> InPages(j, p)
  BY <1>1, <1>7 DEF InPages
<1>9. \A p : Coded(j) => (InSynced(a, p) <=> InPages(j, p))
  BY <1>1, <1>5, <1>7 DEF InPages, InSynced
<1> QED
  BY <1>1, <1>3, <1>4, <1>5, <1>6, <1>8, <1>9

\* A segment without records is added.
LEMMA AppendKeeps ==
  ASSUME NEW j \in Seq(Segment), NEW no \in Number, NEW a, a = Append(j, NewSegment(no))
  PROVE  /\ a \in Seq(Segment) /\ a # <<>> /\ ~ Last(a).synced
         /\ Formed(j) => Formed(a)
         /\ Lengths /\ Coded(j) /\ (\A i \in 1 .. Len(j) : j[i].synced) => Coded(a)
         /\ \A w : Old(j, w) => Old(a, w)
         /\ \A p : InPages(a, p) <=> InPages(j, p)
         /\ \A p : InSynced(a, p) <=> InSynced(j, p)
<1> DEFINE n == Len(j)
<1>1. PICK s : s = NewSegment(no)
  OBVIOUS
<1>2. /\ s \in Segment /\ ~ s.synced /\ s.nrec = 0 /\ Len(s.recs) = 0
      /\ Lengths => s.code = 0
  BY <1>1, SegmentFacts
<1>3. /\ n \in Nat /\ a \in Seq(Segment) /\ Len(a) = n + 1 /\ a # <<>>
      /\ \A i \in 1 .. n : a[i] = j[i]
      /\ a[n + 1] = s
  BY <1>1, <1>2, AppendFacts
<1>4. \A i \in 1 .. n + 1 : i \in 1 .. n \/ i = n + 1
  BY <1>3
<1>5. PagesOf(s) = {}
  BY <1>2 DEF PagesOf
<1>6. ~ Last(a).synced
  BY <1>2, <1>3 DEF Last
<1>7. Formed(j) => Formed(a)
  BY <1>2, <1>3, <1>4 DEF Formed
<1>8. Lengths /\ Coded(j) /\ (\A i \in 1 .. Len(j) : j[i].synced) => Coded(a)
  <2>1. \A i \in 1 .. n + 1 : i < n + 1 => i \in 1 .. n
    BY <1>3
  <2>2. CodedRecs(s.recs)
    <3>1. \A k \in 1 .. Len(s.recs) : FALSE
      BY <1>2
    <3> QED
      BY <3>1 DEF CodedRecs
  <2> QED
    BY <1>2, <1>3, <1>4, <2>1, <2>2 DEF Coded
<1>9. \A w : Old(j, w) => Old(a, w)
  BY <1>2, <1>3, <1>4 DEF Old
<1>10. \A i \in 1 .. n : i \in 1 .. n + 1
  BY <1>3
<1>11. \A p : InPages(a, p) <=> InPages(j, p)
  BY <1>3, <1>4, <1>5, <1>10 DEF InPages
<1>12. \A p : InSynced(a, p) <=> InSynced(j, p)
  BY <1>2, <1>3, <1>4, <1>10 DEF InSynced
<1> QED
  BY <1>3, <1>6, <1>7, <1>8, <1>9, <1>11, <1>12

-----------------------------------------------------------------------------
(***************************************************************************)
(* Types and the form of the journal, for every length of a page.          *)
(***************************************************************************)
\* The journal a transaction starts with.
LEMMA StartedFacts ==
  ASSUME TypeOK, Form, pc \in {"idle", "txn"}
  PROVE  /\ Started \in Seq(Segment) /\ Started # <<>> /\ ~ Last(Started).synced
         /\ Formed(Started)
         /\ Lengths /\ Coded(jrnl) => Coded(Started)
         /\ \A w : Old(jrnl, w) => Old(Started, w)
         /\ \A p : InPages(Started, p) <=> InPages(jrnl, p)
         /\ \A p : InSynced(Started, p) <=> InSynced(jrnl, p)
<1>1. CASE jrnl = <<>>
  <2>1. jrnl \in Seq(Segment) /\ Len(jrnl) = 0 /\ pageNo \in Number
    BY <1>1, EmptySeq DEF TypeOK
  <2>2. PICK s : s = NewSegment(pageNo)
    OBVIOUS
  <2>3. Started = Append(jrnl, s)
    BY <1>1, <2>2 DEF Started
  <2>4. \A i \in 1 .. Len(jrnl) : jrnl[i].synced
    BY <2>1
  <2>5. Formed(jrnl)
    BY DEF Form
  <2> QED
    BY <2>1, <2>2, <2>3, <2>4, <2>5, AppendKeeps
<1>2. CASE jrnl # <<>>
  <2>1. Started = jrnl
    BY <1>2 DEF Started
  <2>2. pc = "txn"
    BY <1>2 DEF Form
  <2> QED
    BY <1>2, <2>1, <2>2 DEF Form, TypeOK
<1> QED
  BY <1>1, <1>2

\* Where the records of a journal are.
LEMMA InJournalFacts ==
  /\ \A p : p \in InJournal <=> InPages(jrnl, p)
BY DEF InJournal, InPages

\* A page that is not in the journal yet: the journal with its record.
LEMMA NewRecordFacts ==
  ASSUME TypeOK, Form, pc \in {"idle", "txn"}, NEW p \in Page, ~ InPages(jrnl, p),
         NEW a, a = AddRecord(Started, NewRecord(pageNo, p))
  PROVE  /\ a \in Seq(Segment) /\ a # <<>> /\ ~ Last(a).synced
         /\ Formed(a)
         /\ Lengths /\ Coded(jrnl) => Coded(a)
         /\ \A w : Old(jrnl, w) /\ cache[p] = w[p] => Old(a, w)
         /\ \A q : InPages(a, q) <=> InPages(jrnl, q) \/ q = p
         /\ \A q : InSynced(jrnl, q) => InSynced(a, q)
<1>1. PICK s : s = Started
  OBVIOUS
<1>2. PICK r : r = NewRecord(pageNo, p)
  OBVIOUS
<1>3. /\ s \in Seq(Segment) /\ s # <<>> /\ ~ Last(s).synced
      /\ Formed(s)
      /\ Lengths /\ Coded(jrnl) => Coded(s)
      /\ \A w : Old(jrnl, w) => Old(s, w)
      /\ \A q : InPages(s, q) <=> InPages(jrnl, q)
      /\ \A q : InSynced(s, q) <=> InSynced(jrnl, q)
  BY <1>1, StartedFacts
<1>4. r \in Record /\ r.pg = p /\ r.val = cache[p] /\ r.code = Right(p)
  BY <1>2, RecordFacts
<1>5. a = AddRecord(s, r)
  BY <1>1, <1>2
<1>6. /\ a \in Seq(Segment) /\ a # <<>> /\ ~ Last(a).synced
      /\ Formed(s) => Formed(a)
      /\ Coded(s) /\ r.code = Right(r.pg) /\ ~ InPages(s, r.pg) => Coded(a)
      /\ \A w : Old(s, w) /\ r.val = w[r.pg] => Old(a, w)
      /\ \A q : InPages(a, q) <=> InPages(s, q) \/ q = r.pg
      /\ \A q : InSynced(s, q) => InSynced(a, q)
  BY <1>3, <1>4, <1>5, AddKeeps
<1> QED
  BY <1>3, <1>4, <1>6

\* A write keeps types and form.
LEMMA WriteTypes ==
  ASSUME TypeOK, Form, NEW p \in Page, NEW v \in Vals, Write(p, v)
  PROVE  TypeOK' /\ Form'
<1>1. /\ pc \in {"idle", "txn"} /\ pc' = "txn" /\ open' = TRUE
      /\ cache' = [cache EXCEPT ![p] = v] /\ dirty' = dirty \cup {p}
      /\ UNCHANGED <<disk, name, super, dbmod, hot, at, want>>
  BY DEF Write
<1>2. /\ jrnl' \in Seq(Segment) /\ jrnl' # <<>> /\ ~ Last(jrnl').synced
      /\ Formed(jrnl') /\ pageNo' \in Number
  <2>1. CASE p \in InJournal
    <3>1. jrnl' = jrnl /\ pageNo' = pageNo
      BY <2>1 DEF Write
    <3>2. jrnl # <<>>
      <4>1. Len(<<>>) = 0
        BY EmptySeq
      <4> QED
        BY <2>1, <4>1 DEF InJournal
    <3>3. pc = "txn"
      BY <1>1, <3>2 DEF Form
    <3> QED
      BY <3>1, <3>2, <3>3 DEF Form, TypeOK
  <2>2. CASE p \notin InJournal
    <3>1. jrnl' = AddRecord(Started, NewRecord(pageNo, p)) /\ pageNo' = AfterRecord(pageNo, p)
      BY <2>2 DEF Write
    <3>2. ~ InPages(jrnl, p)
      BY <2>2, InJournalFacts
    <3> QED
      BY <1>1, <3>1, <3>2, NewRecordFacts, RecordFacts
  <2> QED
    BY <2>1, <2>2
<1>3. Form'
  BY <1>1, <1>2 DEF Form
<1> QED
  BY <1>1, <1>2, <1>3 DEF TypeOK

\* A failed write keeps types and form.
LEMMA WriteFailsTypes ==
  ASSUME TypeOK, Form, NEW p \in Page, WriteFails(p)
  PROVE  TypeOK' /\ Form'
<1>1. /\ pc \in {"idle", "txn"} /\ pc' = "super" /\ open' = TRUE /\ jrnl' = Started
      /\ pageNo' \in {After4(pageNo, 0), After4(pageNo, p)} /\ dirty' = dirty \cup {p}
      /\ UNCHANGED <<disk, name, super, cache, dbmod, hot, at, want>>
  BY DEF WriteFails
<1>2. jrnl' \in Seq(Segment) /\ jrnl' # <<>> /\ Formed(jrnl')
  BY <1>1, StartedFacts
<1>3. pageNo' \in Number
  BY <1>1, Numbers DEF After4, TypeOK
<1>4. Form'
  BY <1>1, <1>2 DEF Form
<1> QED
  BY <1>1, <1>2, <1>3, <1>4 DEF TypeOK

\* The journal once a page was spilled.
LEMMA SpillFacts ==
  ASSUME TypeOK, Form, pc = "txn", NEW p, NEW a,
         a = IF p \in NeedSync \/ ~dbmod
               THEN Append(Sync(jrnl), NewSegment(pageNo)) ELSE jrnl
  PROVE  /\ a \in Seq(Segment) /\ a # <<>> /\ ~ Last(a).synced
         /\ Formed(a)
         /\ Lengths /\ Coded(jrnl) => Coded(a)
         /\ \A w : Old(jrnl, w) => Old(a, w)
         /\ \A q : InPages(a, q) <=> InPages(jrnl, q)
         /\ \A q : Coded(jrnl) /\ InSynced(jrnl, q) => InSynced(a, q)
         /\ Coded(jrnl) /\ InPages(jrnl, p) => InSynced(a, p)
<1>1. jrnl \in Seq(Segment) /\ jrnl # <<>> /\ ~ Last(jrnl).synced /\ Formed(jrnl)
  BY DEF Form, TypeOK
<1>2. CASE p \in NeedSync \/ ~dbmod
  <2>1. PICK s : s = Sync(jrnl)
    OBVIOUS
  <2>2. pageNo \in Number /\ a = Append(s, NewSegment(pageNo))
    BY <1>2, <2>1 DEF TypeOK
  <2>3. /\ s \in Seq(Segment) /\ Formed(s)
        /\ Coded(jrnl) => Coded(s) /\ \A i \in 1 .. Len(s) : s[i].synced
        /\ \A w : Old(jrnl, w) => Old(s, w)
        /\ \A q : InPages(s, q) <=> InPages(jrnl, q)
        /\ \A q : Coded(jrnl) => (InSynced(s, q) <=> InPages(jrnl, q))
    BY <1>1, <2>1, SameRecords
  <2>4. /\ a \in Seq(Segment) /\ a # <<>> /\ ~ Last(a).synced
        /\ Formed(s) => Formed(a)
        /\ Lengths /\ Coded(s) /\ (\A i \in 1 .. Len(s) : s[i].synced) => Coded(a)
        /\ \A w : Old(s, w) => Old(a, w)
        /\ \A q : InPages(a, q) <=> InPages(s, q)
        /\ \A q : InSynced(a, q) <=> InSynced(s, q)
    BY <2>2, <2>3, AppendKeeps
  <2>5. \A q : InSynced(jrnl, q) => InPages(jrnl, q)
    BY DEF InSynced, InPages
  <2> QED
    BY <2>3, <2>4, <2>5
<1>3. CASE ~ (p \in NeedSync \/ ~dbmod)
  <2>1. a = jrnl
    BY <1>3
  <2>2. Coded(jrnl) /\ InPages(jrnl, p) => InSynced(jrnl, p)
    <3>1. p \notin PagesOf(Last(jrnl))
      BY <1>1, <1>3 DEF NeedSync
    <3>2. Last(jrnl) = jrnl[Len(jrnl)] /\ Len(jrnl) \in Nat
      BY <1>1, EmptySeq DEF Last
    <3>3. \A i \in 1 .. Len(jrnl) : i = Len(jrnl) \/ i < Len(jrnl)
      BY <3>2
    <3> QED
      BY <3>1, <3>2, <3>3 DEF InPages, InSynced, Coded
  <2> QED
    BY <1>1, <2>1, <2>2
<1> QED
  BY <1>2, <1>3

\* A spill keeps types and form.
LEMMA SpillTypes ==
  ASSUME TypeOK, Form, NEW p \in Page, Spill(p)
  PROVE  TypeOK' /\ Form'
<1>1. /\ pc = "txn" /\ p \in dirty /\ dbmod' = TRUE
      /\ disk' = [disk EXCEPT ![p] = cache[p]] /\ dirty' = dirty \ {p}
      /\ UNCHANGED <<name, super, open, pageNo, cache, pc, hot, at, want>>
      /\ jrnl' = IF p \in NeedSync \/ ~dbmod
                   THEN Append(Sync(jrnl), NewSegment(pageNo)) ELSE jrnl
  BY DEF Spill
<1>2. jrnl' \in Seq(Segment) /\ jrnl' # <<>> /\ ~ Last(jrnl').synced /\ Formed(jrnl')
  BY <1>1, SpillFacts
<1>3. Form'
  BY <1>1, <1>2 DEF Form
<1>4. disk' \in [Page -> Vals]
  BY <1>1 DEF TypeOK
<1> QED
  BY <1>1, <1>2, <1>3, <1>4 DEF TypeOK

\* The first phase of a commit keeps types and form.
LEMMA CommitSyncTypes ==
  ASSUME TypeOK, Form, NEW multi \in BOOLEAN, CommitSync(multi)
  PROVE  TypeOK' /\ Form'
<1>1. /\ pc = "txn" /\ pc' = "commit" /\ jrnl' = Sync(jrnl)
      /\ UNCHANGED <<disk, open, cache, dirty, dbmod, hot, at, want>>
  BY DEF CommitSync
<1>2. jrnl \in Seq(Segment) /\ jrnl # <<>> /\ Formed(jrnl)
  BY <1>1 DEF Form, TypeOK
<1>3. jrnl' \in Seq(Segment) /\ jrnl' # <<>> /\ Formed(jrnl')
  BY <1>1, <1>2, SameRecords
<1>4. super' \in BOOLEAN
  BY Zenon DEF CommitSync, TypeOK
<1>5. name' \in Number \cup {NoName} /\ pageNo' \in Number
  <2>1. SuperLen \in Nat /\ Sum \in Number /\ Sj \in Number /\ pageNo \in Number
    BY SizesAssumption, Numbers DEF TypeOK
  <2>2. After4(pageNo, Sj) \in Number /\ After4(pageNo, Sum) \in Number
    BY Zenon, <2>1, SizesAssumption, Codes
  <2>3. CodeOf(SuperLen, After4(pageNo, Sj)) \in Number
    BY <2>1, <2>2, Codes
  <2> QED
    BY <2>2, <2>3 DEF CommitSync, TypeOK
<1>6. Form'
  BY <1>1, <1>3 DEF Form
<1> QED
  BY <1>1, <1>3, <1>4, <1>5, <1>6 DEF TypeOK

\* What ends a transaction keeps types and form.
LEMMA FinalizeTypes ==
  ASSUME TypeOK, Form, Finalize, UNCHANGED <<disk, cache>>,
         want' \in {want, cache}, super' \in {super, FALSE}
  PROVE  TypeOK' /\ Form'
<1>1. /\ jrnl' = <<>> /\ name' = NoName /\ open' = Keep /\ dirty' = {}
      /\ pageNo' = (IF Keep THEN pageNo ELSE 0) /\ dbmod' = FALSE
      /\ pc' = "idle" /\ hot' = FALSE /\ at' = <<0, 0>>
  BY DEF Finalize
<1>2. jrnl' \in Seq(Segment) /\ Len(jrnl') = 0
  BY <1>1, EmptySeq
<1>3. pageNo' \in Number
  BY <1>1, Numbers DEF TypeOK
<1>4. super' \in BOOLEAN /\ open' \in BOOLEAN /\ dbmod' \in BOOLEAN /\ hot' \in BOOLEAN
  BY <1>1, SizesAssumption, Zenon DEF TypeOK
<1>5. Form'
  BY <1>1, <1>2 DEF Form, Formed
<1> QED
  BY <1>1, <1>2, <1>3, <1>4, <1>5 DEF TypeOK

\* A crash keeps types and form.
LEMMA CrashTypes ==
  ASSUME TypeOK, Form, Crash
  PROVE  TypeOK' /\ Form'
<1>1. /\ pc' = "dead" /\ jrnl' = Durable(jrnl) /\ open' = FALSE /\ pageNo' = 0
      /\ cache' = disk /\ dirty' = {} /\ dbmod' = FALSE /\ hot' = FALSE /\ at' = <<0, 0>>
      /\ UNCHANGED <<disk, name, super, want>>
  BY DEF Crash
<1>2. PICK a : a = Durable(jrnl)
  OBVIOUS
<1>3. /\ a \in Seq(Segment) /\ Len(a) \in Nat /\ Len(jrnl) \in Nat /\ Len(a) <= Len(jrnl)
      /\ \A i \in 1 .. Len(a) : a[i] = jrnl[i]
  BY <1>2, DurableFacts DEF TypeOK
<1>4. Formed(a)
  BY <1>3 DEF Form, Formed
<1>5. Form'
  BY <1>1, <1>2, <1>4 DEF Form
<1>6. jrnl' \in Seq(Segment) /\ pageNo' \in Number
  BY <1>1, <1>2, <1>3, Numbers
<1> QED
  BY <1>1, <1>5, <1>6 DEF TypeOK

\* A new process opens the database.
LEMMA ReopenTypes ==
  ASSUME TypeOK, Form, Reopen
  PROVE  TypeOK' /\ Form'
<1>1. /\ pc = "dead" /\ cache' = disk
      /\ UNCHANGED <<fileVars, pageNo, dirty, dbmod, at, want>>
  BY DEF Reopen
<1>2. \/ jrnl = <<>> /\ pc' = "idle" /\ hot' = FALSE /\ open' = FALSE
      \/ jrnl # <<>> /\ pc' = "super" /\ hot' = TRUE /\ open' = TRUE
  BY DEF Reopen
<1>3. Form'
  BY <1>1, <1>2 DEF Form, fileVars
<1> QED
  BY <1>1, <1>2, <1>3 DEF TypeOK, fileVars

\* The name of the super-journal is looked for.
LEMMA ReadSuperTypes ==
  ASSUME TypeOK, Form, ReadSuper
  PROVE  TypeOK' /\ Form'
<1>1. /\ pc = "super" /\ pageNo' = After4(pageNo, Sum)
      /\ \/ pc' = "end" /\ at' = at
         \/ pc' = "undo" /\ at' = <<1, 0>>
      /\ UNCHANGED <<fileVars, open, cache, dirty, dbmod, hot, want>>
  BY DEF ReadSuper
<1>2. Form'
  BY <1>1 DEF Form, fileVars
<1>3. pageNo' \in Number
  BY <1>1, Numbers DEF After4, TypeOK
<1> QED
  BY <1>1, <1>2, <1>3 DEF TypeOK, fileVars

\* A playback reads a header.
LEMMA ReadHeaderTypes ==
  ASSUME TypeOK, Form, ReadHeader
  PROVE  TypeOK' /\ Form'
<1>1. /\ pc = "undo" /\ at[2] = 0
      /\ \/ pc' = "end" /\ at' = at
         \/ pc' = "undo" /\ at' = <<at[1], 1>> /\ at[1] <= Len(jrnl)
      /\ UNCHANGED <<fileVars, open, cache, dirty, dbmod, hot, want>>
      /\ pageNo' \in {After4(pageNo, Sum), pageNo}
  BY DEF ReadHeader
<1>2. at[1] \in Nat /\ at[1] > 0 /\ jrnl # <<>>
  BY <1>1 DEF Form, TypeOK
<1>3. Form'
  BY <1>1, <1>2 DEF Form, fileVars
<1>4. pageNo' \in Number /\ at' \in Nat \X Nat
  BY <1>1, <1>2, Numbers DEF After4, TypeOK
<1> QED
  BY <1>1, <1>3, <1>4 DEF TypeOK, fileVars

\* The record a playback reads is in the journal.
LEMMA CountFacts ==
  ASSUME TypeOK, Form, pc = "undo", at[2] > 0, at[2] <= Count(at[1])
  PROVE  /\ at[1] \in 1 .. Len(jrnl) /\ at[2] \in 1 .. Len(jrnl[at[1]].recs)
         /\ jrnl[at[1]].recs[at[2]] \in Record
<1>1. /\ at[1] \in Nat /\ at[2] \in Nat /\ at[1] > 0 /\ at[1] <= Len(jrnl)
      /\ Len(jrnl) \in Nat
  BY DEF Form, TypeOK
<1>2. at[1] \in 1 .. Len(jrnl)
  BY <1>1
<1>3. jrnl[at[1]] \in Segment
  BY <1>2, ElementOfSeq DEF TypeOK
<1>4. /\ jrnl[at[1]].recs \in Seq(Record) /\ Len(jrnl[at[1]].recs) \in Nat
      /\ jrnl[at[1]].nrec \in Nat
  BY <1>3 DEF Segment
<1>5. jrnl[at[1]].nrec <= Len(jrnl[at[1]].recs)
  BY <1>2 DEF Form, Formed
<1>6. Count(at[1]) <= Len(jrnl[at[1]].recs) /\ Count(at[1]) \in Nat
  BY <1>4, <1>5 DEF Count
<1>7. at[2] \in 1 .. Len(jrnl[at[1]].recs)
  <2>1. \A x, y, z \in Nat : 0 < x /\ x <= y /\ y <= z => x \in 1 .. z
    OBVIOUS
  <2>2. at[2] \in Nat /\ 0 < at[2]
    BY <1>1
  <2>3. Len(jrnl[at[1]].recs) \in Nat
    BY Zenon, <1>4
  <2> QED
    BY Zenon, <1>6, <2>1, <2>2, <2>3
<1> QED
  BY <1>2, <1>4, <1>7, ElementOfSeq

\* A record is read in a playback, below the number its segment counts.
LEMMA InReadRecord ==
  ASSUME ReadRecord
  PROVE  /\ pc = "undo" /\ at[2] > 0 /\ at[2] <= Count(at[1])
         /\ UNCHANGED <<jrnl, name, super, open, dirty, dbmod, hot, want>>
BY Zenon DEF ReadRecord

\* The fields of a record.
LEMMA RecordFields ==
  ASSUME NEW x \in Record
  PROVE  x.pg \in Page /\ x.val \in Vals
BY DEF Record

\* A playback reads a record, and puts a page of its type in its place.
LEMMA ReadRecordTypes ==
  ASSUME TypeOK, Form, ReadRecord
  PROVE  TypeOK' /\ Form'
<1> DEFINE i    == at[1]
           r    == jrnl[i].recs[at[2]]
           no   == After4(pageNo, r.pg)
           val  == IF r.code = CodeOf(PageSize, no) THEN r.val ELSE Garbage
           good == val # Garbage /\ jrnl[i].code = 0
<1>1. /\ pc = "undo" /\ at[2] > 0 /\ at[2] <= Count(i)
      /\ pageNo' = After4(AfterRead(no), Sum)
      /\ cache' = IF good THEN [cache EXCEPT ![r.pg] = val] ELSE cache
      /\ disk' = IF good /\ (hot \/ dbmod) THEN [disk EXCEPT ![r.pg] = val] ELSE disk
      /\ at' = IF good THEN <<i, at[2] + 1>> ELSE at
      /\ pc' = IF good THEN pc ELSE "end"
      /\ UNCHANGED <<jrnl, name, super, open, dirty, dbmod, hot, want>>
  BY Zenon DEF ReadRecord
<1>2. r \in Record /\ i \in 1 .. Len(jrnl)
  BY Zenon, InReadRecord, CountFacts
<1>3. r.pg \in Page /\ r.val \in Vals
  BY Zenon, <1>2, RecordFields
<1>4. good => val \in Vals
  BY Zenon, <1>3
<1> HIDE DEF good, val, r
<1>5. pageNo' \in Number
  <2>1. no \in Number
    BY <1>3, Numbers DEF After4, TypeOK
  <2>2. pageNo' = After4(AfterRead(no), Sum)
    BY <1>1
  <2> QED
    BY <2>1, <2>2, Numbers DEF After4, AfterRead
<1> HIDE DEF no
<1>6. cache' \in [Page -> Vals]
  BY <1>1, <1>3, <1>4 DEF TypeOK
<1>7. disk' \in [Page -> Vals]
  BY <1>1, <1>3, <1>4 DEF TypeOK
<1>8. at \in Nat \X Nat /\ at' \in Nat \X Nat /\ (pc' = "undo" => at'[1] = at[1])
  BY <1>1 DEF TypeOK
<1>9. Form'
  <2>1. pc' \in {"undo", "end"} /\ jrnl' = jrnl
    BY <1>1
  <2> QED
    BY <1>1, <1>2, <1>8, <2>1 DEF Form
<1> QED
  BY <1>1, <1>5, <1>6, <1>7, <1>8, <1>9 DEF TypeOK

\* A playback goes on to the next segment.
LEMMA NextHeaderTypes ==
  ASSUME TypeOK, Form, NextHeader
  PROVE  TypeOK' /\ Form'
<1>1. /\ pc = "undo" /\ at' = <<at[1] + 1, 0>>
      /\ UNCHANGED <<fileVars, open, pageNo, cache, dirty, dbmod, pc, hot, want>>
  BY DEF NextHeader
<1>2. at[1] \in Nat
  BY DEF TypeOK
<1>3. Form'
  BY <1>1, <1>2 DEF Form, fileVars
<1> QED
  BY <1>1, <1>2, <1>3 DEF TypeOK, fileVars

\* Steps that leave the journal as it is, and those that end a transaction.
LEMMA PlainTypes ==
  ASSUME TypeOK, Form,
         \/ \E p \in Page : CommitWrite(p)
         \/ Commit \/ DeleteSuper \/ FinishMulti \/ Rollback \/ EndPlayback
  PROVE  TypeOK' /\ Form'
<1>1. ASSUME NEW p \in Page, CommitWrite(p) PROVE TypeOK' /\ Form'
  <2>1. /\ pc = "commit" /\ disk' = [disk EXCEPT ![p] = cache[p]]
        /\ dirty' = dirty \ {p} /\ dbmod' = TRUE
        /\ UNCHANGED <<jrnl, name, super, open, pageNo, cache, pc, hot, at, want>>
    BY <1>1 DEF CommitWrite
  <2>2. disk' \in [Page -> Vals]
    BY <2>1 DEF TypeOK
  <2>3. Form'
    BY <2>1 DEF Form
  <2> QED
    BY <2>1, <2>2, <2>3 DEF TypeOK
<1>2. CASE Commit
  BY <1>2, FinalizeTypes DEF Commit
<1>3. CASE DeleteSuper
  <2>1. Form'
    BY <1>3 DEF DeleteSuper, Form
  <2> QED
    BY <1>3, <2>1 DEF DeleteSuper, TypeOK
<1>4. CASE FinishMulti
  BY <1>4, FinalizeTypes DEF FinishMulti
<1>5. CASE Rollback
  <2>1. Form'
    BY <1>5 DEF Rollback, Form, fileVars
  <2> QED
    BY <1>5, <2>1 DEF Rollback, TypeOK, fileVars
<1>6. CASE EndPlayback
  BY <1>6, FinalizeTypes DEF EndPlayback
<1> QED
  BY <1>1, <1>2, <1>3, <1>4, <1>5, <1>6

\* Every step keeps types and form.
LEMMA TypesStep ==
  ASSUME TypeOK, Form, [Next]_vars
  PROVE  TypeOK' /\ Form'
<1>1. CASE UNCHANGED vars
  BY <1>1 DEF vars, TypeOK, Form
<1>2. CASE Next
  BY <1>2, WriteTypes, WriteFailsTypes, SpillTypes, CommitSyncTypes, CrashTypes,
     ReopenTypes, ReadSuperTypes, ReadHeaderTypes, ReadRecordTypes, NextHeaderTypes,
     PlainTypes DEF Next
<1> QED
  BY <1>1, <1>2

\* A database that was just opened.
LEMMA InitForm ==
  ASSUME Init
  PROVE  TypeOK /\ Form
<1>1. jrnl \in Seq(Segment) /\ Len(jrnl) = 0
  BY EmptySeq DEF Init
<1>2. Form
  BY <1>1 DEF Init, Form, Formed
<1>3. pageNo \in Number /\ at \in Nat \X Nat
  BY Numbers DEF Init
<1> QED
  BY <1>1, <1>2, <1>3 DEF Init, TypeOK

\* Every variable has its type, whatever the lengths of a page, of a block of
\* the header and of the name of a super-journal: what a playback puts into
\* cache and file is always a page that was written (pager.c,
\* pager_playback_one_page), because it never gets past the records counted.
THEOREM TypeCorrect == Spec => []TypeOK
<1>1. Init => TypeOK /\ Form
  BY InitForm
<1>2. TypeOK /\ Form /\ [Next]_vars => TypeOK' /\ Form'
  BY TypesStep
<1> QED
  BY <1>1, <1>2, PTL DEF Spec

-----------------------------------------------------------------------------
(***************************************************************************)
(* What the journal holds.  From here on a page is longer than a block of  *)
(* the header and not as long as the name of a super-journal.              *)
(***************************************************************************)
\* A page in a synced segment is in the journal.
LEMMA SyncedIsIn ==
  /\ \A j, p : InSynced(j, p) => InPages(j, p)
  /\ \A j, p : AllSynced(j) /\ InPages(j, p) => InSynced(j, p)
BY DEF InSynced, InPages, AllSynced

\* Nothing is in an empty journal.
LEMMA EmptyJournal ==
  /\ \A p : ~ InPages(<<>>, p) /\ ~ InSynced(<<>>, p)
  /\ Coded(<<>>) /\ AllSynced(<<>>) /\ \A w : Old(<<>>, w)
<1>1. Len(<<>>) = 0
  BY EmptySeq
<1> QED
  BY <1>1 DEF InPages, InSynced, Coded, AllSynced, Old

\* Two contents are the same if all pages are.
LEMMA SamePages ==
  ASSUME NEW f \in [Page -> Vals], NEW g \in [Page -> Vals], \A p \in Page : f[p] = g[p]
  PROVE  f = g
OBVIOUS

\* A transaction that runs is not committed.
LEMMA RunningTransaction ==
  ASSUME JInv, pc \in {"idle", "txn", "commit"}
  PROVE  /\ ~ Committed /\ Restores /\ ~ hot
         /\ \A p \in Page : ~ InPages(jrnl, p) => cache[p] = want[p]
         /\ \A p \in dirty : InPages(jrnl, p)
         /\ \A p \in Page \ dirty : disk[p] = cache[p]
         /\ ~ dbmod => disk = want
         /\ pc \in {"idle", "txn"} => name = NoName /\ ~ super
<1>1. CASE pc = "idle"
  <2>1. jrnl = <<>> /\ name = NoName /\ ~ super
    BY <1>1 DEF JInv, Form, Outcome
  <2> QED
    BY <1>1, <2>1 DEF JInv, Pages, Outcome, Committed
<1>2. CASE pc \in {"txn", "commit"}
  <2>1. ~ Committed /\ (pc = "txn" => name = NoName /\ ~ super)
    BY <1>2 DEF JInv, Outcome, Committed
  <2>2. Restores
    BY <2>1 DEF JInv, Outcome
  <2> QED
    BY <1>2, <2>1, <2>2 DEF JInv, Pages
<1> QED
  BY <1>1, <1>2

\* The journal after a write of page p.
LEMMA WriteJournal ==
  ASSUME JInv, Lengths, NEW p \in Page, NEW v \in Vals, Write(p, v)
  PROVE  /\ Coded(jrnl') /\ Old(jrnl', want) /\ jrnl' # <<>>
         /\ InPages(jrnl', p)
         /\ \A q : InPages(jrnl, q) => InPages(jrnl', q)
         /\ \A q : InSynced(jrnl, q) => InSynced(jrnl', q)
<1>1. pc \in {"idle", "txn"} /\ Coded(jrnl) /\ TypeOK /\ Form
  BY DEF Write, JInv
<1>2. Old(jrnl, want)
  BY <1>1, RunningTransaction DEF Restores
<1>3. jrnl' # <<>>
  BY WriteTypes DEF Form, Write, JInv
<1>4. CASE p \in InJournal
  <2>1. jrnl' = jrnl /\ InPages(jrnl, p)
    BY <1>4, InJournalFacts DEF Write
  <2> QED
    BY <1>1, <1>2, <1>3, <2>1
<1>5. CASE p \notin InJournal
  <2>1. ~ InPages(jrnl, p)
    BY <1>5, InJournalFacts
  <2>2. cache[p] = want[p]
    BY <1>1, <2>1, RunningTransaction
  <2>3. PICK a : a = AddRecord(Started, NewRecord(pageNo, p))
    OBVIOUS
  <2>4. jrnl' = a
    BY <1>5, <2>3 DEF Write
  <2>5. /\ Lengths /\ Coded(jrnl) => Coded(a)
        /\ \A w : Old(jrnl, w) /\ cache[p] = w[p] => Old(a, w)
        /\ \A q : InPages(a, q) <=> InPages(jrnl, q) \/ q = p
        /\ \A q : InSynced(jrnl, q) => InSynced(a, q)
    BY <1>1, <2>1, <2>3, NewRecordFacts
  <2> QED
    BY <1>1, <1>2, <1>3, <2>2, <2>4, <2>5
<1> QED
  BY <1>4, <1>5

\* A write keeps what the journal holds.
LEMMA WriteStep ==
  ASSUME JInv, Lengths, NEW p \in Page, NEW v \in Vals, Write(p, v)
  PROVE  Coded(jrnl)' /\ Pages' /\ Outcome'
<1>1. /\ pc \in {"idle", "txn"} /\ pc' = "txn"
      /\ cache' = [cache EXCEPT ![p] = v] /\ dirty' = dirty \cup {p}
      /\ UNCHANGED <<disk, name, super, dbmod, hot, at, want>>
  BY DEF Write
<1>2. /\ Coded(jrnl') /\ Old(jrnl', want) /\ jrnl' # <<>> /\ InPages(jrnl', p)
      /\ \A q : InPages(jrnl, q) => InPages(jrnl', q)
      /\ \A q : InSynced(jrnl, q) => InSynced(jrnl', q)
  BY WriteJournal
<1>3. /\ ~ Committed /\ Restores /\ ~ hot
      /\ \A q \in Page : ~ InPages(jrnl, q) => cache[q] = want[q]
      /\ \A q \in dirty : InPages(jrnl, q)
      /\ \A q \in Page \ dirty : disk[q] = cache[q]
      /\ ~ dbmod => disk = want
      /\ name = NoName /\ ~ super
  BY <1>1, RunningTransaction
<1>4. \A q \in Page : q # p => cache'[q] = cache[q]
  BY <1>1 DEF JInv, TypeOK
<1>5. Restores'
  BY <1>1, <1>2, <1>3 DEF Restores
<1>6. ~ Committed' /\ Outcome'
  BY <1>1, <1>3, <1>5 DEF Outcome, Committed
<1>7. Pages'
  <2>1. \A q \in dirty' : InPages(jrnl', q)
    BY <1>1, <1>2, <1>3
  <2>2. \A q \in Page \ dirty' : disk'[q] = cache'[q]
    BY <1>1, <1>3, <1>4
  <2>3. \A q \in Page : ~ InPages(jrnl', q) => cache'[q] = want'[q]
    BY <1>1, <1>2, <1>3, <1>4
  <2>4. ~ dbmod' => disk' = want'
    BY <1>1, <1>3
  <2> QED
    BY <1>1, <1>3, <2>1, <2>2, <2>3, <2>4 DEF Pages
<1> QED
  BY <1>2, <1>6, <1>7

\* A failed write leaves a journal that restores what the transaction changed.
LEMMA WriteFailsStep ==
  ASSUME JInv, Lengths, NEW p \in Page, WriteFails(p)
  PROVE  Coded(jrnl)' /\ Pages' /\ Outcome'
<1>1. /\ pc \in {"idle", "txn"} /\ pc' = "super" /\ jrnl' = Started
      /\ UNCHANGED <<disk, name, super, cache, dbmod, hot, at, want>>
  BY DEF WriteFails
<1>2. /\ TypeOK /\ Form /\ Coded(jrnl)
  BY DEF JInv
<1>3. PICK s : s = Started
  OBVIOUS
<1>4. /\ Coded(s) /\ s # <<>>
      /\ \A w : Old(jrnl, w) => Old(s, w)
      /\ \A q : InPages(s, q) <=> InPages(jrnl, q)
      /\ \A q : InSynced(s, q) <=> InSynced(jrnl, q)
  BY <1>1, <1>2, <1>3, StartedFacts
<1>5. /\ ~ Committed /\ Restores /\ ~ hot
      /\ \A q \in Page : ~ InPages(jrnl, q) => cache[q] = want[q]
      /\ ~ dbmod => disk = want
      /\ name = NoName /\ ~ super
  BY <1>1, RunningTransaction
<1>6. Restores'
  BY <1>1, <1>3, <1>4, <1>5 DEF Restores
<1>7. Outcome'
  BY <1>1, <1>5, <1>6 DEF Outcome, Committed
<1>8. Pages'
  BY <1>1, <1>3, <1>4, <1>5 DEF Pages
<1> QED
  BY <1>1, <1>3, <1>4, <1>7, <1>8

\* A spill writes a page whose content is in a synced segment.
LEMMA SpillStep ==
  ASSUME JInv, Lengths, NEW p \in Page, Spill(p)
  PROVE  Coded(jrnl)' /\ Pages' /\ Outcome'
<1>1. /\ pc = "txn" /\ p \in dirty /\ dbmod' = TRUE
      /\ disk' = [disk EXCEPT ![p] = cache[p]] /\ dirty' = dirty \ {p}
      /\ UNCHANGED <<name, super, open, pageNo, cache, pc, hot, at, want>>
      /\ jrnl' = IF p \in NeedSync \/ ~dbmod
                   THEN Append(Sync(jrnl), NewSegment(pageNo)) ELSE jrnl
  BY DEF Spill
<1>2. TypeOK /\ Form /\ Coded(jrnl)
  BY DEF JInv
<1>3. /\ ~ Committed /\ Restores /\ ~ hot
      /\ \A q \in Page : ~ InPages(jrnl, q) => cache[q] = want[q]
      /\ \A q \in dirty : InPages(jrnl, q)
      /\ \A q \in Page \ dirty : disk[q] = cache[q]
      /\ name = NoName /\ ~ super
  BY <1>1, RunningTransaction
<1>4. PICK a : a = IF p \in NeedSync \/ ~dbmod
                     THEN Append(Sync(jrnl), NewSegment(pageNo)) ELSE jrnl
  OBVIOUS
<1>5. /\ Coded(a)
      /\ \A w : Old(jrnl, w) => Old(a, w)
      /\ \A q : InPages(a, q) <=> InPages(jrnl, q)
      /\ \A q : InSynced(jrnl, q) => InSynced(a, q)
      /\ InSynced(a, p)
  BY <1>1, <1>2, <1>3, <1>4, SpillFacts
<1>6. jrnl' = a
  BY <1>1, <1>4
<1>7. \A q \in Page : q # p => disk'[q] = disk[q]
  BY <1>1, <1>2 DEF TypeOK
<1>8. disk'[p] = cache[p]
  BY <1>1, <1>2 DEF TypeOK
<1>9. Restores'
  BY <1>1, <1>3, <1>5, <1>6, <1>7 DEF Restores
<1>10. Outcome'
  BY <1>1, <1>3, <1>9 DEF Outcome, Committed
<1>11. Pages'
  <2>1. \A q \in dirty' : InPages(jrnl', q)
    BY <1>1, <1>3, <1>5, <1>6
  <2>2. \A q \in Page \ dirty' : disk'[q] = cache'[q]
    BY <1>1, <1>3, <1>7, <1>8
  <2>3. \A q \in Page : ~ InPages(jrnl', q) => cache'[q] = want'[q]
    BY <1>1, <1>3, <1>5, <1>6
  <2> QED
    BY <1>1, <1>3, <2>1, <2>2, <2>3 DEF Pages
<1> QED
  BY <1>5, <1>6, <1>10, <1>11

\* The name of a super-journal is not encrypted.
LEMMA PlainName ==
  ASSUME Lengths, NEW no
  PROVE  CodeOf(SuperLen, no) = 0 /\ CodeOf(SuperLen, no) # NoName
<1>1. CodeOf(SuperLen, no) = 0
  BY DEF Lengths, CodeOf
<1> QED
  BY <1>1, Numbers

\* Phase one of a commit makes every record one that counts.
LEMMA CommitSyncStep ==
  ASSUME JInv, Lengths, NEW multi \in BOOLEAN, CommitSync(multi)
  PROVE  Coded(jrnl)' /\ Pages' /\ Outcome'
<1>1. /\ pc = "txn" /\ pc' = "commit" /\ jrnl' = Sync(jrnl)
      /\ UNCHANGED <<disk, open, cache, dirty, dbmod, hot, at, want>>
  BY DEF CommitSync
<1>2. TypeOK /\ Form /\ Coded(jrnl) /\ jrnl \in Seq(Segment) /\ jrnl # <<>>
  BY <1>1 DEF JInv, TypeOK, Form
<1>3. /\ ~ Committed /\ Restores /\ ~ hot
      /\ \A q \in Page : ~ InPages(jrnl, q) => cache[q] = want[q]
      /\ \A q \in dirty : InPages(jrnl, q)
      /\ \A q \in Page \ dirty : disk[q] = cache[q]
      /\ ~ dbmod => disk = want
      /\ name = NoName /\ ~ super
  BY <1>1, RunningTransaction
<1>4. /\ jrnl' # <<>> /\ Coded(jrnl') /\ AllSynced(jrnl')
      /\ \A w : Old(jrnl, w) => Old(jrnl', w)
      /\ \A q : InPages(jrnl', q) <=> InPages(jrnl, q)
      /\ \A q : InSynced(jrnl', q) <=> InPages(jrnl, q)
  BY <1>1, <1>2, SameRecords DEF AllSynced
<1>5. name' \in {0, NoName} /\ ~ Committed' /\ (super' => name' # NoName)
  <2>1. CASE multi
    BY <2>1, PlainName DEF CommitSync, Committed
  <2>2. CASE ~ multi
    BY <1>3, <2>2 DEF CommitSync, Committed
  <2> QED
    BY <2>1, <2>2
<1>6. Restores'
  BY <1>1, <1>3, <1>4, SyncedIsIn DEF Restores
<1>7. Outcome'
  BY <1>1, <1>4, <1>5, <1>6 DEF Outcome
<1>8. Pages'
  BY <1>1, <1>3, <1>4 DEF Pages
<1> QED
  BY <1>4, <1>7, <1>8

\* A page is written that is in the synced journal.
LEMMA CommitWriteStep ==
  ASSUME JInv, Lengths, NEW p \in Page, CommitWrite(p)
  PROVE  Coded(jrnl)' /\ Pages' /\ Outcome'
<1>1. /\ pc = "commit" /\ p \in dirty /\ dbmod' = TRUE
      /\ disk' = [disk EXCEPT ![p] = cache[p]] /\ dirty' = dirty \ {p}
      /\ UNCHANGED <<jrnl, name, super, open, pageNo, cache, pc, hot, at, want>>
  BY DEF CommitWrite
<1>2. TypeOK /\ Coded(jrnl) /\ AllSynced(jrnl) /\ Outcome
  BY <1>1 DEF JInv, Pages
<1>3. /\ ~ Committed /\ Restores /\ ~ hot
      /\ \A q \in Page : ~ InPages(jrnl, q) => cache[q] = want[q]
      /\ \A q \in dirty : InPages(jrnl, q)
      /\ \A q \in Page \ dirty : disk[q] = cache[q]
  BY <1>1, RunningTransaction
<1>4. InSynced(jrnl, p)
  BY <1>1, <1>2, <1>3, SyncedIsIn
<1>5. \A q \in Page : q # p => disk'[q] = disk[q]
  BY <1>1, <1>2 DEF TypeOK
<1>6. disk'[p] = cache[p]
  BY <1>1, <1>2 DEF TypeOK
<1>7. Restores'
  BY <1>1, <1>3, <1>4, <1>5 DEF Restores
<1>8. Outcome'
  BY <1>1, <1>2, <1>3, <1>7 DEF Outcome, Committed
<1>9. Pages'
  <2>1. \A q \in Page \ dirty' : disk'[q] = cache'[q]
    BY <1>1, <1>3, <1>5, <1>6
  <2> QED
    BY <1>1, <1>2, <1>3, <2>1 DEF Pages
<1> QED
  BY <1>1, <1>2, <1>8, <1>9

\* What ends a transaction leaves, if file and cache are the content wanted.
LEMMA FinalizeStep ==
  ASSUME Finalize, disk' = want', cache' = want', ~ super'
  PROVE  Coded(jrnl)' /\ Pages' /\ Outcome'
<1>1. /\ jrnl' = <<>> /\ name' = NoName /\ dirty' = {} /\ dbmod' = FALSE
      /\ pc' = "idle" /\ hot' = FALSE
  BY DEF Finalize
<1>2. Coded(jrnl') /\ Old(jrnl', want')
  BY <1>1, EmptyJournal
<1>3. Restores'
  BY <1>2 DEF Restores
<1>4. Outcome'
  BY <1>1, <1>3, Numbers DEF Outcome, Committed
<1>5. Pages'
  BY <1>1 DEF Pages
<1> QED
  BY <1>2, <1>4, <1>5

\* The commit of one file.
LEMMA CommitStep ==
  ASSUME JInv, Commit
  PROVE  Coded(jrnl)' /\ Pages' /\ Outcome'
<1>1. /\ pc = "commit" /\ dirty = {} /\ name = NoName /\ Finalize
      /\ want' = cache /\ UNCHANGED <<disk, super, cache>>
  BY DEF Commit
<1>2. ~ super
  BY <1>1 DEF JInv, Outcome
<1>3. \A q \in Page : disk[q] = cache[q]
  BY <1>1, RunningTransaction
<1>4. disk = cache
  BY <1>3, SamePages DEF JInv, TypeOK
<1> QED
  BY <1>1, <1>2, <1>4, FinalizeStep

\* The commit of several files, when the super-journal is deleted.
LEMMA DeleteSuperStep ==
  ASSUME JInv, DeleteSuper
  PROVE  Coded(jrnl)' /\ Pages' /\ Outcome'
<1>1. /\ pc = "commit" /\ dirty = {} /\ name # NoName /\ super' = FALSE
      /\ want' = cache /\ pc' = "finish"
      /\ UNCHANGED <<disk, jrnl, name, open, pageNo, cache, dirty, dbmod, hot, at>>
  BY DEF DeleteSuper
<1>2. TypeOK /\ Coded(jrnl) /\ Outcome
  BY DEF JInv
<1>3. ~ hot /\ \A q \in Page : disk[q] = cache[q]
  BY <1>1, RunningTransaction
<1>4. disk = cache
  BY <1>2, <1>3, SamePages DEF TypeOK
<1>5. Outcome'
  BY <1>1, <1>2, <1>4 DEF Outcome, Committed
<1>6. Pages'
  BY <1>1, <1>3, <1>4 DEF Pages
<1> QED
  BY <1>1, <1>2, <1>5, <1>6

\* Each file of the transaction ends it.
LEMMA FinishMultiStep ==
  ASSUME JInv, FinishMulti
  PROVE  Coded(jrnl)' /\ Pages' /\ Outcome'
<1>1. pc = "finish" /\ Finalize /\ UNCHANGED <<disk, super, cache, want>>
  BY DEF FinishMulti
<1>2. ~ super /\ disk = want /\ cache = want
  BY <1>1 DEF JInv, Outcome, Committed
<1> QED
  BY <1>1, <1>2, FinalizeStep

\* A playback that ended has restored everything.
LEMMA EndPlaybackStep ==
  ASSUME JInv, EndPlayback
  PROVE  Coded(jrnl)' /\ Pages' /\ Outcome'
<1>1. pc = "end" /\ Finalize /\ super' = FALSE /\ UNCHANGED <<disk, cache, want>>
  BY DEF EndPlayback
<1>2. disk = want /\ cache = want
  BY <1>1 DEF JInv, Pages
<1> QED
  BY <1>1, <1>2, FinalizeStep

\* A rollback begins.
LEMMA RollbackStep ==
  ASSUME JInv, Rollback
  PROVE  Coded(jrnl)' /\ Pages' /\ Outcome'
<1>1. /\ pc \in {"txn", "commit"} /\ pc' = "super"
      /\ UNCHANGED <<disk, jrnl, name, super, open, pageNo, cache, dirty, dbmod, hot,
                     at, want>>
  BY DEF Rollback, fileVars
<1>2. TypeOK /\ Coded(jrnl) /\ Outcome
  BY DEF JInv
<1>3. /\ ~ Committed /\ Restores /\ ~ hot
      /\ \A q \in Page : ~ InPages(jrnl, q) => cache[q] = want[q]
      /\ ~ dbmod => disk = want
  BY <1>1, RunningTransaction
<1>4. Outcome'
  BY <1>1, <1>2, <1>3 DEF Outcome, Committed, Restores
<1>5. Pages'
  BY <1>1, <1>3 DEF Pages
<1> QED
  BY <1>1, <1>2, <1>4, <1>5

\* A crash leaves the segments that are synced.
LEMMA DurableKeeps ==
  ASSUME NEW j \in Seq(Segment), Coded(j), NEW a, a = Durable(j)
  PROVE  /\ Coded(a) /\ AllSynced(a)
         /\ \A w : Old(j, w) => Old(a, w)
         /\ \A q : InSynced(j, q) => InSynced(a, q)
         /\ AllSynced(j) => a = j
<1>1. /\ Len(j) \in Nat /\ Len(a) \in Nat /\ Len(a) <= Len(j) /\ Len(j) <= Len(a) + 1
      /\ \A i \in 1 .. Len(a) : a[i] = j[i]
      /\ Len(a) < Len(j) => ~ j[Len(j)].synced
      /\ Len(a) = Len(j) /\ j # <<>> => j[Len(j)].synced
  BY DurableFacts
<1>2. Len(j) > 0 => j # <<>>
  BY EmptySeq
<1>3. \A i \in 1 .. Len(a) : i \in 1 .. Len(j)
  BY <1>1
<1>4. AllSynced(a)
  <2> SUFFICES ASSUME NEW i \in 1 .. Len(a) PROVE j[i].synced
    BY <1>1 DEF AllSynced
  <2>1. CASE i < Len(j)
    BY <1>3, <2>1 DEF Coded
  <2>2. CASE ~ i < Len(j)
    <3>1. i = Len(j) /\ Len(a) = Len(j) /\ Len(j) > 0
      BY <1>1, <2>2
    <3> QED
      BY <1>1, <1>2, <3>1
  <2> QED
    BY <2>1, <2>2
<1>5. Coded(a)
  BY <1>1, <1>3, <1>4 DEF Coded, AllSynced
<1>6. \A w : Old(j, w) => Old(a, w)
  BY <1>1, <1>3 DEF Old
<1>7. ASSUME NEW q, InSynced(j, q) PROVE InSynced(a, q)
  <2>1. PICK i \in 1 .. Len(j) : j[i].synced /\ q \in PagesOf(j[i])
    BY <1>7 DEF InSynced
  <2>2. i \in 1 .. Len(a)
    <3>1. Len(a) < Len(j) => i # Len(j)
      BY <1>1, <2>1
    <3> QED
      BY <1>1, <3>1
  <2> QED
    BY <1>1, <2>1, <2>2 DEF InSynced
<1>8. ASSUME AllSynced(j) PROVE a = j
  <2>1. j # <<>> => Last(j).synced
    BY <1>8, LastFacts DEF AllSynced
  <2> QED
    BY <2>1 DEF Durable
<1> QED
  BY <1>4, <1>5, <1>6, <1>7, <1>8

\* A crash loses nothing that the next process needs.
LEMMA CrashStep ==
  ASSUME JInv, Crash
  PROVE  Coded(jrnl)' /\ Pages' /\ Outcome'
<1>1. /\ pc' = "dead" /\ jrnl' = Durable(jrnl) /\ cache' = disk /\ dirty' = {}
      /\ dbmod' = FALSE /\ hot' = FALSE
      /\ UNCHANGED <<disk, name, super, want>>
  BY DEF Crash
<1>2. jrnl \in Seq(Segment) /\ Coded(jrnl) /\ Outcome
  BY DEF JInv, TypeOK
<1>3. PICK a : a = Durable(jrnl)
  OBVIOUS
<1>4. /\ Coded(a) /\ AllSynced(a)
      /\ \A w : Old(jrnl, w) => Old(a, w)
      /\ \A q : InSynced(jrnl, q) => InSynced(a, q)
      /\ AllSynced(jrnl) => a = jrnl
  BY <1>2, <1>3, DurableKeeps
<1>5. jrnl' = a
  BY <1>1, <1>3
<1>6. Restores => Restores'
  BY <1>1, <1>4, <1>5 DEF Restores
<1>7. Outcome'
  BY <1>1, <1>2, <1>4, <1>5, <1>6 DEF Outcome, Committed
<1>8. Pages'
  BY <1>1, <1>4, <1>5 DEF Pages
<1> QED
  BY <1>4, <1>5, <1>7, <1>8

\* The next process finds a hot journal if there is anything to restore.
LEMMA ReopenStep ==
  ASSUME JInv, Reopen
  PROVE  Coded(jrnl)' /\ Pages' /\ Outcome'
<1>1. /\ pc = "dead" /\ cache' = disk
      /\ UNCHANGED <<disk, jrnl, name, super, pageNo, dirty, dbmod, at, want>>
      /\ \/ jrnl = <<>> /\ pc' = "idle" /\ hot' = FALSE
         \/ jrnl # <<>> /\ pc' = "super" /\ hot' = TRUE
  BY DEF Reopen, fileVars
<1>2. TypeOK /\ Coded(jrnl) /\ Outcome
  BY DEF JInv
<1>3. AllSynced(jrnl) /\ dirty = {} /\ ~ dbmod
  BY <1>1 DEF JInv, Pages
<1>4. ~ Committed => \A q \in Page : ~ InPages(jrnl, q) => disk[q] = want[q]
  BY <1>2, SyncedIsIn DEF Outcome, Restores
<1>5. \A q \in Page : ~ InPages(jrnl, q) => disk[q] = want[q]
  BY <1>2, <1>4 DEF Outcome
<1>6. jrnl = <<>> => disk = want
  <2>1. jrnl = <<>> => \A q \in Page : disk[q] = want[q]
    BY <1>5, EmptyJournal
  <2> QED
    BY <1>2, <2>1, SamePages DEF TypeOK
<1>7. Outcome'
  BY <1>1, <1>2 DEF Outcome, Committed, Restores
<1>8. Pages'
  BY <1>1, <1>3, <1>5, <1>6 DEF Pages
<1> QED
  BY <1>1, <1>2, <1>7, <1>8

\* A playback begins before the first record, unless the transaction is
\* committed.
LEMMA ReadSuperStep ==
  ASSUME JInv, Lengths, ReadSuper
  PROVE  Coded(jrnl)' /\ Pages' /\ Outcome'
<1>1. /\ pc = "super"
      /\ IF Committed THEN pc' = "end" /\ at' = at ELSE pc' = "undo" /\ at' = <<1, 0>>
      /\ UNCHANGED <<disk, jrnl, name, super, cache, dirty, dbmod, hot, want>>
  <2>1. CodeOf(SuperLen, After4(pageNo, Sum)) = 0
    BY PlainName
  <2>2. name \in {0, NoName}
    BY DEF JInv, Outcome
  <2>3. Committed <=>
          name # NoName /\ name = CodeOf(SuperLen, After4(pageNo, Sum)) /\ ~super
    BY <2>1, <2>2 DEF Committed
  <2> QED
    BY <2>3 DEF ReadSuper, fileVars
<1>2. TypeOK /\ Coded(jrnl) /\ Outcome /\ jrnl # <<>>
  BY <1>1 DEF JInv, Form
<1>3. /\ \A p \in Page : ~ InPages(jrnl, p) => cache[p] = want[p]
      /\ ~ hot /\ ~ dbmod => disk = want
      /\ hot => AllSynced(jrnl)
  BY <1>1 DEF JInv, Pages
<1>4. Outcome'
  BY <1>1, <1>2 DEF Outcome, Committed, Restores
<1>5. CASE Committed
  <2>1. disk = want /\ cache = want
    BY <1>1, <1>2, <1>5 DEF Outcome
  <2>2. Pages'
    BY <1>1, <1>3, <1>5, <2>1 DEF Pages
  <2> QED
    BY <1>1, <1>2, <1>4, <2>2
<1>6. CASE ~ Committed
  <2>1. Restores
    BY <1>2, <1>6 DEF Outcome
  <2>2. ASSUME NEW p \in Page, cache[p] # want[p] \/ disk[p] # want[p]
        PROVE  ToRestore(p)'
    <3>1. InPages(jrnl, p)
      BY <1>3, <2>1, <2>2, SyncedIsIn DEF Restores
    <3>2. PICK i \in 1 .. Len(jrnl) : p \in PagesOf(jrnl[i])
      BY <3>1 DEF InPages
    <3>3. PICK k \in 1 .. Len(jrnl[i].recs) : jrnl[i].recs[k].pg = p
      BY <3>2 DEF PagesOf
    <3>4. Ahead(i, k)'
      BY <1>1, <1>6 DEF Ahead
    <3> QED
      BY <1>1, <3>3, <3>4 DEF ToRestore
  <2>3. Pages'
    BY <1>1, <1>3, <1>6, <2>2 DEF Pages
  <2> QED
    BY <1>1, <1>2, <1>4, <2>3
<1> QED
  BY <1>5, <1>6

\* The facts of a playback that goes on.
LEMMA UndoFacts ==
  ASSUME JInv, pc = "undo"
  PROVE  /\ TypeOK /\ Form /\ Coded(jrnl) /\ Outcome /\ ~ Committed /\ Restores
         /\ \A p \in Page : cache[p] # want[p] \/ disk[p] # want[p] => ToRestore(p)
         /\ ~ hot /\ ~ dbmod => disk = want
         /\ hot => AllSynced(jrnl)
<1>1. TypeOK /\ Form /\ Coded(jrnl) /\ Outcome /\ Pages
  BY DEF JInv
<1>2. ~ Committed /\ Restores
  BY <1>1 DEF Outcome
<1> QED
  BY <1>1, <1>2 DEF Pages

\* A playback ends before a header only if there are no more segments.
LEMMA ReadHeaderStep ==
  ASSUME JInv, ReadHeader
  PROVE  Coded(jrnl)' /\ Pages' /\ Outcome'
<1>1. /\ pc = "undo" /\ at[2] = 0
      /\ UNCHANGED <<disk, jrnl, name, super, cache, dirty, dbmod, hot, want>>
  BY DEF ReadHeader, fileVars
<1>2. /\ TypeOK /\ Form /\ Coded(jrnl) /\ Outcome /\ ~ Committed /\ Restores
      /\ \A p \in Page : cache[p] # want[p] \/ disk[p] # want[p] => ToRestore(p)
      /\ ~ hot /\ ~ dbmod => disk = want
      /\ hot => AllSynced(jrnl)
  BY <1>1, UndoFacts
<1>3. at[1] \in Nat /\ at[2] \in Nat /\ at[1] > 0 /\ Len(jrnl) \in Nat /\ jrnl # <<>>
  BY <1>1, <1>2 DEF TypeOK, Form
<1>4. IF at[1] <= Len(jrnl) THEN pc' = "undo" /\ at' = <<at[1], 1>>
                            ELSE pc' = "end" /\ at' = at
  <2>1. CASE at[1] <= Len(jrnl)
    <3>1. at[1] \in 1 .. Len(jrnl)
      BY <1>3, <2>1
    <3>2. jrnl[at[1]].code = 0 /\ (hot => jrnl[at[1]].synced)
      BY <1>2, <3>1 DEF Coded, AllSynced
    <3> QED
      BY <2>1, <3>2 DEF ReadHeader
  <2>2. CASE ~ at[1] <= Len(jrnl)
    BY <2>2 DEF ReadHeader
  <2> QED
    BY <2>1, <2>2
<1>5. Outcome'
  BY <1>1, <1>2, <1>4 DEF Outcome, Committed, Restores
<1>6. CASE at[1] <= Len(jrnl)
  <2>1. ASSUME NEW p \in Page, ToRestore(p) PROVE ToRestore(p)'
    <3>1. PICK i \in 1 .. Len(jrnl) : \E k \in 1 .. Len(jrnl[i].recs) :
            Ahead(i, k) /\ jrnl[i].recs[k].pg = p
      BY <2>1 DEF ToRestore
    <3>2. PICK k \in 1 .. Len(jrnl[i].recs) : Ahead(i, k) /\ jrnl[i].recs[k].pg = p
      BY <3>1
    <3>3. Ahead(i, k)'
      BY <1>1, <1>3, <1>4, <1>6, <3>2 DEF Ahead
    <3> QED
      BY <1>1, <3>2, <3>3 DEF ToRestore
  <2>2. Pages'
    BY <1>1, <1>2, <1>4, <1>6, <2>1 DEF Pages
  <2> QED
    BY <1>1, <1>2, <1>5, <2>2
<1>7. CASE ~ at[1] <= Len(jrnl)
  <2>1. \A p : ~ ToRestore(p)
    BY <1>3, <1>7 DEF ToRestore, Ahead
  <2>2. (\A p \in Page : disk[p] = want[p]) /\ (\A p \in Page : cache[p] = want[p])
    BY <1>2, <2>1
  <2>3. disk = want /\ cache = want
    BY <1>2, <2>2, SamePages DEF TypeOK
  <2>4. Pages'
    <3>1. pc' = "end" /\ disk' = disk /\ cache' = cache /\ want' = want
      BY <1>1, <1>4, <1>7
    <3>2. disk' = want' /\ cache' = want'
      BY <2>3, <3>1
    <3>3. hot' => AllSynced(jrnl)'
      BY <1>1, <1>2 DEF AllSynced
    <3> QED
      BY <3>1, <3>2, <3>3 DEF Pages
  <2> QED
    BY <1>1, <1>2, <1>5, <2>4
<1> QED
  BY <1>6, <1>7

\* What the reading of record r comes to: its page gets the content wanted.
Restored(r) ==
  /\ r.pg \in Page /\ at[1] \in 1 .. Len(jrnl) /\ at[2] \in 1 .. Len(jrnl[at[1]].recs)
  /\ cache' = [cache EXCEPT ![r.pg] = want[r.pg]]
  /\ disk' = IF hot \/ dbmod THEN [disk EXCEPT ![r.pg] = want[r.pg]] ELSE disk
  /\ at' = <<at[1], at[2] + 1>> /\ pc' = "undo"

\* A record is read under the number it was written under, and its page gets
\* the content wanted.
LEMMA RecordIsRight ==
  ASSUME JInv, ReadRecord, NEW r, r = jrnl[at[1]].recs[at[2]]
  PROVE  Restored(r)
<1>1. pc = "undo" /\ at[2] > 0 /\ at[2] <= Count(at[1])
  BY InReadRecord
<1>2. TypeOK /\ Form /\ Coded(jrnl) /\ Restores
  BY <1>1, UndoFacts
<1>3. /\ at[1] \in 1 .. Len(jrnl) /\ at[2] \in 1 .. Len(jrnl[at[1]].recs)
      /\ r \in Record
  BY <1>1, <1>2, CountFacts
<1>4. r.pg \in Page /\ r.val \in Vals
  BY <1>3 DEF Record
<1>5. r.code = Right(r.pg) /\ r.val = want[r.pg] /\ jrnl[at[1]].code = 0
  <2>1. CodedRecs(jrnl[at[1]].recs) /\ jrnl[at[1]].code = 0
    BY <1>2, <1>3 DEF Coded
  <2>2. r.code = Right(r.pg)
    BY Zenon, <1>3, <2>1 DEF CodedRecs
  <2>3. r.val = want[r.pg]
    BY <1>2, <1>3 DEF Restores, Old
  <2> QED
    BY <2>1, <2>2, <2>3
<1>6. r.code = CodeOf(PageSize, After4(pageNo, r.pg))
  BY <1>5 DEF CodeOf, After4, Right
<1>7. r.val # Garbage
  BY <1>4, SizesAssumption
<1>8. PICK val : val = IF r.code = CodeOf(PageSize, After4(pageNo, r.pg)) THEN r.val ELSE Garbage
  OBVIOUS
<1>9. val = want[r.pg] /\ val # Garbage /\ jrnl[at[1]].code = 0
  <2>1. val = r.val
    BY <1>6, <1>8
  <2> QED
    BY <1>5, <1>7, <2>1
<1>10. cache' = IF val # Garbage /\ jrnl[at[1]].code = 0
                THEN [cache EXCEPT ![r.pg] = val] ELSE cache
  BY Zenon, <1>8 DEF ReadRecord
<1>11. disk' = IF val # Garbage /\ jrnl[at[1]].code = 0 /\ (hot \/ dbmod)
                THEN [disk EXCEPT ![r.pg] = val] ELSE disk
  BY Zenon, <1>8 DEF ReadRecord
<1>12. /\ at' = IF val # Garbage /\ jrnl[at[1]].code = 0
                 THEN <<at[1], at[2] + 1>> ELSE at
       /\ pc' = IF val # Garbage /\ jrnl[at[1]].code = 0 THEN pc ELSE "end"
  BY Zenon, <1>8 DEF ReadRecord
<1>13. cache' = [cache EXCEPT ![r.pg] = want[r.pg]]
  BY Zenon, <1>9, <1>10
<1>14. disk' = IF hot \/ dbmod THEN [disk EXCEPT ![r.pg] = want[r.pg]] ELSE disk
  BY Zenon, <1>9, <1>11
<1>15. at' = <<at[1], at[2] + 1>> /\ pc' = "undo"
  BY Zenon, <1>1, <1>9, <1>12
<1>16. /\ r.pg \in Page /\ at[1] \in 1 .. Len(jrnl)
       /\ at[2] \in 1 .. Len(jrnl[at[1]].recs)
  BY Zenon, <1>3, <1>4
<1> QED
  BY Zenon, <1>13, <1>14, <1>15, <1>16 DEF Restored

\* A playback reads a record: the page it restores is no longer ahead.
LEMMA ReadRecordStep ==
  ASSUME JInv, ReadRecord
  PROVE  /\ Coded(jrnl)' /\ Pages' /\ Outcome'
         /\ \A p \in Page : disk'[p] \in {disk[p], want[p]}
<1>1. PICK r : r = jrnl[at[1]].recs[at[2]]
  OBVIOUS
<1>2. /\ r.pg \in Page /\ at[1] \in 1 .. Len(jrnl) /\ at[2] \in 1 .. Len(jrnl[at[1]].recs)
      /\ cache' = [cache EXCEPT ![r.pg] = want[r.pg]]
      /\ disk' = IF hot \/ dbmod THEN [disk EXCEPT ![r.pg] = want[r.pg]] ELSE disk
      /\ at' = <<at[1], at[2] + 1>> /\ pc' = "undo"
  <2>1. Restored(r)
    BY <1>1, RecordIsRight
  <2> QED
    BY Zenon, <2>1 DEF Restored
<1>3. pc = "undo" /\ UNCHANGED <<jrnl, name, super, open, dirty, dbmod, hot, want>>
  BY InReadRecord
<1>4. /\ TypeOK /\ Form /\ Coded(jrnl) /\ Outcome /\ ~ Committed /\ Restores
      /\ \A p \in Page : cache[p] # want[p] \/ disk[p] # want[p] => ToRestore(p)
      /\ ~ hot /\ ~ dbmod => disk = want
      /\ hot => AllSynced(jrnl)
  BY <1>3, UndoFacts
<1>5. /\ disk \in [Page -> Vals] /\ cache \in [Page -> Vals] /\ want \in [Page -> Vals]
      /\ at[1] \in Nat /\ at[2] \in Nat
  BY <1>4 DEF TypeOK
<1>6. /\ cache'[r.pg] = want[r.pg]
      /\ \A p \in Page : p # r.pg => cache'[p] = cache[p]
  BY <1>2, <1>5
<1>7. disk'[r.pg] = want[r.pg] /\ \A p \in Page : p # r.pg => disk'[p] = disk[p]
  BY <1>2, <1>4, <1>5
<1>8. \A p \in Page : disk'[p] \in {disk[p], want[p]}
  BY <1>7
<1>9. Restores'
  BY <1>3, <1>4, <1>7 DEF Restores
<1>10. Outcome'
  BY <1>2, <1>3, <1>4, <1>9 DEF Outcome, Committed
<1>11. ASSUME NEW p \in Page, cache'[p] # want[p] \/ disk'[p] # want[p]
       PROVE  ToRestore(p)'
  <2>1. p # r.pg /\ ToRestore(p)
    BY <1>4, <1>6, <1>7, <1>11
  <2>2. PICK i \in 1 .. Len(jrnl) : \E k \in 1 .. Len(jrnl[i].recs) :
          Ahead(i, k) /\ jrnl[i].recs[k].pg = p
    BY <2>1 DEF ToRestore
  <2>3. PICK k \in 1 .. Len(jrnl[i].recs) : Ahead(i, k) /\ jrnl[i].recs[k].pg = p
    BY <2>2
  <2>4. ~ (i = at[1] /\ k = at[2])
    BY <1>1, <2>1, <2>3
  <2>5. Ahead(i, k)'
    <3>1. k \in Int /\ i \in Int
      OBVIOUS
    <3>2. at'[1] = at[1] /\ at'[2] = at[2] + 1
      BY <1>2
    <3> QED
      BY <1>5, <2>3, <2>4, <3>1, <3>2 DEF Ahead
  <2> QED
    BY <1>3, <2>3, <2>5 DEF ToRestore
<1>12. ~ hot' /\ ~ dbmod' => disk' = want'
  BY <1>2, <1>3, <1>4
<1>13. Pages'
  BY <1>2, <1>3, <1>4, <1>11, <1>12 DEF Pages
<1> QED
  BY <1>3, <1>4, <1>8, <1>10, <1>13

\* All records of a segment are read before the next header.
LEMMA NextHeaderStep ==
  ASSUME JInv, NextHeader
  PROVE  Coded(jrnl)' /\ Pages' /\ Outcome'
<1>1. /\ pc = "undo" /\ at[2] > 0 /\ at[2] > Count(at[1]) /\ at' = <<at[1] + 1, 0>>
      /\ UNCHANGED <<disk, jrnl, name, super, cache, dirty, dbmod, pc, hot, want>>
  BY DEF NextHeader, fileVars
<1>2. /\ TypeOK /\ Form /\ Coded(jrnl) /\ Outcome /\ ~ Committed /\ Restores
      /\ \A p \in Page : cache[p] # want[p] \/ disk[p] # want[p] => ToRestore(p)
      /\ ~ hot /\ ~ dbmod => disk = want
      /\ hot => AllSynced(jrnl)
  BY <1>1, UndoFacts
<1>3. /\ at[1] \in Nat /\ at[2] \in Nat /\ at[1] > 0 /\ at[1] <= Len(jrnl)
      /\ Len(jrnl) \in Nat
  BY <1>1, <1>2 DEF TypeOK, Form
<1>4. Count(at[1]) = Len(jrnl[at[1]].recs)
  <2>1. at[1] \in 1 .. Len(jrnl)
    BY <1>3
  <2>2. hot => jrnl[at[1]].synced
    BY <1>2, <2>1 DEF AllSynced
  <2>3. jrnl[at[1]].synced => jrnl[at[1]].nrec = Len(jrnl[at[1]].recs)
    BY <1>2, <2>1 DEF Form, Formed
  <2> QED
    BY <2>2, <2>3 DEF Count
<1>5. ASSUME NEW p \in Page, ToRestore(p) PROVE ToRestore(p)'
  <2>1. PICK i \in 1 .. Len(jrnl) : \E k \in 1 .. Len(jrnl[i].recs) :
          Ahead(i, k) /\ jrnl[i].recs[k].pg = p
    BY <1>5 DEF ToRestore
  <2>2. PICK k \in 1 .. Len(jrnl[i].recs) : Ahead(i, k) /\ jrnl[i].recs[k].pg = p
    BY <2>1
  <2>3. i > at[1]
    <3> SUFFICES ASSUME i = at[1], k >= at[2] PROVE FALSE
      BY <2>2 DEF Ahead
    <3>1. jrnl[at[1]] \in Segment
      BY <1>2, <1>3, ElementOfSeq DEF TypeOK
    <3>2. Len(jrnl[at[1]].recs) \in Nat
      BY <3>1, LenProperties DEF Segment
    <3> QED
      BY <1>1, <1>3, <1>4, <3>2
  <2>4. Ahead(i, k)'
    <3>1. at'[1] = at[1] + 1 /\ at'[2] = 0
      BY <1>1
    <3> QED
      BY <1>3, <2>3, <3>1 DEF Ahead
  <2> QED
    BY <1>1, <2>2, <2>4 DEF ToRestore
<1>6. Outcome'
  BY <1>1, <1>2 DEF Outcome, Committed, Restores
<1>7. Pages'
  BY <1>1, <1>2, <1>5 DEF Pages
<1> QED
  BY <1>1, <1>2, <1>6, <1>7

-----------------------------------------------------------------------------
(***************************************************************************)
(* The theorems.                                                           *)
(***************************************************************************)
\* Every step keeps what is known of the journal.
LEMMA JournalStep ==
  ASSUME JInv, Lengths, [Next]_vars
  PROVE  JInv'
<1>1. TypeOK' /\ Form'
  BY TypesStep DEF JInv
<1>2. CASE UNCHANGED vars
  <2>1. Coded(jrnl)' /\ Pages'
    BY <1>2 DEF vars, JInv, Pages, ToRestore, Ahead
  <2>2. Outcome'
    BY <1>2 DEF vars, JInv, Outcome, Committed, Restores
  <2> QED
    BY <1>1, <2>1, <2>2 DEF JInv
<1>3. CASE Next
  <2>1. Coded(jrnl)' /\ Pages' /\ Outcome'
    BY <1>3, WriteStep, WriteFailsStep, SpillStep, CommitSyncStep, CommitWriteStep,
       CommitStep, DeleteSuperStep, FinishMultiStep, RollbackStep, CrashStep, ReopenStep,
       ReadSuperStep, ReadHeaderStep, ReadRecordStep, NextHeaderStep, EndPlaybackStep
       DEF Next
  <2> QED
    BY <1>1, <2>1 DEF JInv
<1> QED
  BY <1>2, <1>3

\* At the start the journal is empty.
LEMMA InitJournal ==
  ASSUME Init
  PROVE  JInv
<1>1. TypeOK /\ Form
  BY InitForm
<1>2. /\ jrnl = <<>> /\ disk = want /\ cache = want /\ name = NoName /\ super = FALSE
      /\ pc = "idle" /\ hot = FALSE /\ dirty = {} /\ dbmod = FALSE
  BY DEF Init
<1>3. Coded(jrnl) /\ Old(jrnl, want)
  BY <1>2, EmptyJournal
<1>4. Pages
  BY <1>2 DEF Pages
<1>5. Outcome
  BY <1>2, <1>3, Numbers DEF Outcome, Committed, Restores
<1> QED
  BY <1>1, <1>3, <1>4, <1>5 DEF JInv

\* A segment has no more records than there are pages.
LEMMA SegmentIsShort ==
  ASSUME JInv, NEW i \in 1 .. Len(jrnl)
  PROVE  Len(jrnl[i].recs) \in Nat /\ Len(jrnl[i].recs) <= NumPages
<1> DEFINE R == jrnl[i].recs
           n == Len(R)
           f == [k \in 1 .. n |-> R[k].pg]
<1>1. jrnl[i] \in Segment
  BY ElementOfSeq DEF JInv, TypeOK
<1>2. R \in Seq(Record) /\ n \in Nat
  BY <1>1 DEF Segment
<1>3. \A k \in 1 .. n : R[k].pg \in Page
  <2> SUFFICES ASSUME NEW k \in 1 .. n PROVE R[k].pg \in Page
    OBVIOUS
  <2>1. R[k] \in Record
    BY <1>2, ElementOfSeq
  <2> QED
    BY <2>1 DEF Record
<1>4. \A k, l \in 1 .. n : k # l => R[k].pg # R[l].pg
  BY DEF JInv, Coded, CodedRecs
<1> HIDE DEF R, n
<1>5. f \in Injection(1 .. n, Page)
  BY <1>3, <1>4 DEF Injection, IsInjective
<1>6. NumPages \in Nat
  BY SizesAssumption
<1>7. IsFiniteSet(Page) /\ Cardinality(Page) = NumPages
  BY <1>6, FS_Interval DEF Page
<1>8. Cardinality(1 .. n) = n
  BY <1>2, FS_Interval
<1>9. Cardinality(1 .. n) <= Cardinality(Page)
  BY <1>5, <1>7, FS_Injection
<1> QED
  BY <1>2, <1>6, <1>7, <1>8, <1>9 DEF n, R

\* What a process that finds the journal reads of a page.
LEMMA SavedIsWanted ==
  ASSUME JInv, Lengths, ~ Committed, NEW p \in Page
  PROVE  /\ \A v \in Saved(p) : v = want[p]
         /\ InSynced(jrnl, p) => Saved(p) # {}
<1>1. TypeOK /\ Form /\ Coded(jrnl) /\ Restores
  BY DEF JInv, Outcome
<1>2. Len(jrnl) \in Nat /\ \A i \in 1 .. Len(jrnl) : jrnl[i] \in Segment
  BY <1>1, ElementOfSeq DEF TypeOK
<1>3. ASSUME NEW v \in Saved(p) PROVE v = want[p]
  <2>1. PICK ik \in (1 .. Len(jrnl)) \X (1 .. NumPages) :
          /\ ik[2] <= jrnl[ik[1]].nrec /\ jrnl[ik[1]].recs[ik[2]].pg = p
          /\ v = jrnl[ik[1]].recs[ik[2]].val
    BY <1>3 DEF Saved
  <2>2. ik[1] \in 1 .. Len(jrnl) /\ ik[2] \in 1 .. NumPages /\ NumPages \in Nat
    BY SizesAssumption
  <2>3. /\ jrnl[ik[1]].nrec <= Len(jrnl[ik[1]].recs) /\ jrnl[ik[1]].nrec \in Nat
        /\ Len(jrnl[ik[1]].recs) \in Nat
    <3>1. jrnl[ik[1]].nrec <= Len(jrnl[ik[1]].recs)
      BY <1>1, <2>2 DEF Form, Formed
    <3>2. jrnl[ik[1]] \in Segment
      BY <1>2, <2>2
    <3> QED
      BY <3>1, <3>2, LenProperties DEF Segment
  <2>4. ik[2] \in 1 .. Len(jrnl[ik[1]].recs)
    BY <2>1, <2>2, <2>3
  <2> QED
    BY <1>1, <2>1, <2>2, <2>4 DEF Restores, Old
<1>4. ASSUME InSynced(jrnl, p) PROVE Saved(p) # {}
  <2>1. PICK i \in 1 .. Len(jrnl) : jrnl[i].synced /\ p \in PagesOf(jrnl[i])
    BY <1>4 DEF InSynced
  <2>2. PICK k \in 1 .. Len(jrnl[i].recs) : jrnl[i].recs[k].pg = p
    BY <2>1 DEF PagesOf
  <2>3. /\ Len(jrnl[i].recs) \in Nat /\ Len(jrnl[i].recs) <= NumPages
        /\ jrnl[i].nrec = Len(jrnl[i].recs)
    BY <1>1, <2>1, SegmentIsShort DEF Form, Formed
  <2>4. k \in 1 .. NumPages /\ k <= jrnl[i].nrec
    BY <2>3, SizesAssumption
  <2>5. jrnl[i].recs[k].code = CodeOf(PageSize, After4(0, p))
    <3>1. CodedRecs(jrnl[i].recs)
      BY <1>1 DEF Coded
    <3>2. jrnl[i].recs[k].code = Right(p)
      BY <2>2, <3>1 DEF CodedRecs
    <3> QED
      BY <3>2 DEF CodeOf, After4, Right
  <2>6. \A m \in 1 .. i : jrnl[m].synced /\ jrnl[m].code = 0
    <3> SUFFICES ASSUME NEW m \in 1 .. i PROVE jrnl[m].synced /\ jrnl[m].code = 0
      OBVIOUS
    <3>1. m \in 1 .. Len(jrnl) /\ (m = i \/ m < Len(jrnl))
      BY <1>2
    <3> QED
      BY <1>1, <2>1, <3>1 DEF Coded
  <2>7. PICK ik : ik = <<i, k>>
    OBVIOUS
  <2>8. ik \in (1 .. Len(jrnl)) \X (1 .. NumPages) /\ ik[1] = i /\ ik[2] = k
    BY <2>4, <2>7
  <2>9. jrnl[ik[1]].recs[ik[2]].val \in Saved(p)
    <3>1. /\ ik[2] <= jrnl[ik[1]].nrec
          /\ jrnl[ik[1]].recs[ik[2]].pg = p
          /\ jrnl[ik[1]].recs[ik[2]].code = CodeOf(PageSize, After4(0, p))
          /\ \A m \in 1 .. ik[1] : jrnl[m].synced /\ jrnl[m].code = 0
      BY Zenon, <2>2, <2>4, <2>5, <2>6, <2>8
    <3> QED
      BY Zenon, <2>8, <3>1 DEF Saved
  <2> QED
    BY <2>9
<1> QED
  BY <1>3, <1>4

\* The journal and the file together are the last committed content.
LEMMA SafeNow ==
  ASSUME JInv, Lengths
  PROVE  CrashSafe
<1>1. TakenForCommitted <=> Committed
  <2>1. name \in {0, NoName}
    BY DEF JInv, Outcome
  <2> QED
    BY <2>1, PlainName DEF TakenForCommitted, Committed
<1>2. CASE Committed
  <2>1. disk = want
    BY <1>2 DEF JInv, Outcome
  <2> QED
    BY <1>1, <1>2, <2>1 DEF CrashSafe
<1>3. CASE ~ Committed
  <2> SUFFICES ASSUME NEW p \in Page
               PROVE  IF Saved(p) = {} THEN disk[p] = want[p] ELSE Saved(p) = {want[p]}
    BY <1>1, <1>3 DEF CrashSafe
  <2>1. disk[p] # want[p] => InSynced(jrnl, p)
    BY <1>3 DEF JInv, Outcome, Restores
  <2>2. (\A v \in Saved(p) : v = want[p]) /\ (InSynced(jrnl, p) => Saved(p) # {})
    BY <1>3, SavedIsWanted
  <2> QED
    BY <2>1, <2>2
<1> QED
  BY <1>2, <1>3

\* Whenever the process dies, the next one finds in the file and the journal
\* the last committed content, and takes no record for a page it is not: the
\* shim encrypts a page of the journal under the number that stands before it
\* (mcWriteMainJournal), and mcReadMainJournal decrypts it under the same
\* number, whether the write, a sync, the commit or an earlier recovery was
\* interrupted.  With a block of the header as long as a page, or a super-
\* journal's name as long as a page, it is not so: see Lengths.
THEOREM CrashesAreSafe == Lengths => (Spec => []CrashSafe)
<1> SUFFICES ASSUME Lengths PROVE Spec => []CrashSafe
  OBVIOUS
<1>1. Init => JInv
  BY InitJournal
<1>2. JInv /\ [Next]_vars => JInv'
  BY JournalStep
<1>3. JInv => CrashSafe
  BY SafeNow
<1> QED
  BY <1>1, <1>2, <1>3, PTL DEF Spec

\* Between transactions the file and the page cache are the last committed
\* content: a rollback (sqlite3PagerRollback), one after a failed write of the
\* journal, or the recovery of a hot journal has restored every page, and the
\* commit of several files ends as it was decided when the super-journal went.
THEOREM RollbacksRestore == Lengths => (Spec => []RollbackComplete)
<1> SUFFICES ASSUME Lengths PROVE Spec => []RollbackComplete
  OBVIOUS
<1>1. Init => JInv
  BY InitJournal
<1>2. JInv /\ [Next]_vars => JInv'
  BY JournalStep
<1>3. JInv => RollbackComplete
  BY DEF JInv, Pages, RollbackComplete
<1> QED
  BY <1>1, <1>2, <1>3, PTL DEF Spec

\* A step of a playback (pager_playback_one_page) leaves every page of the
\* file as it is or makes it the committed one: no page is decrypted under
\* the number of another, and no record of an earlier transaction is played.
THEOREM PlaybacksAreTrue == Lengths => (Spec => PlaybackRestores)
<1> SUFFICES ASSUME Lengths PROVE Spec => PlaybackRestores
  OBVIOUS
<1>1. Init => JInv
  BY InitJournal
<1>2. JInv /\ [Next]_vars => JInv'
  BY JournalStep
<1>3. JInv /\ [Next]_vars
        => [pc = "undo" => \A p \in Page : disk'[p] \in {disk[p], want[p]}]_vars
  <2> SUFFICES ASSUME JInv, Next, pc = "undo"
               PROVE  \A p \in Page : disk'[p] \in {disk[p], want[p]}
    OBVIOUS
  <2>1. CASE ReadRecord
    BY <2>1, ReadRecordStep
  <2>2. CASE ~ ReadRecord
    <3>1. disk' = disk
      BY <2>2 DEF Next, Write, WriteFails, Spill, CommitWrite, CommitSync, Commit,
         DeleteSuper, FinishMulti, Rollback, Crash, Reopen, ReadSuper, ReadHeader,
         NextHeader, EndPlayback, fileVars
    <3> QED
      BY <3>1
  <2> QED
    BY <2>1, <2>2
<1> QED
  BY <1>1, <1>2, <1>3, PTL DEF Spec, PlaybackRestores

=============================================================================
