-------------------------- MODULE FieldEditsProofs ---------------------------
(***************************************************************************)
(* Proofs about FieldEdits.  IInv has the types, among them the bound on   *)
(* the number of fields, which needs what every command on the stack adds  *)
(* to it (Sizes); that the fields of the layer are those of the buffer     *)
(* wherever it matters (Fresh); and what the stages of a commit have left  *)
(* to do (Snapshot, Pending, Matched).                                     *)
(*                                                                         *)
(* What undo and redo show needs more (HInv).  While nothing was lost      *)
(* there is a view of the buffer for every position of the stack; the one  *)
(* of the current position is what the buffer holds, and each command      *)
(* leads from one to the next (Remembered).  Within a commit what is left  *)
(* in the buffer still fits the fields of the provider (Handed).           *)
(***************************************************************************)
EXTENDS FieldEdits, SortedSetsProofs, FiniteSetTheorems, SequenceTheorems, TLAPS

Entry == Value \union {None}
Name == Names \union {None}
FieldRecords == [name : Names, from : {"provider", "edit"}, at : Index]

Buffers ==
    [added : Seq(Names), deleted : SUBSET Index, renamed : [Index -> Name],
     changed : [Fids -> [Index -> Entry]], features : [Fids -> Seq(Value) \union {None}],
     fields : Seq(FieldRecords), undefined : BOOLEAN]

Features == [op : {"feature"}, fid : Fids, attrs : Seq(Value)]
Changes == [op : {"change"}, fid : Fids, field : Index, new : Value, old : Entry]
Additions == [op : {"add"}, name : Names, field : Index]
Deletions ==
    {c \in [op : {"delete"}, field : Index, from : {"provider", "edit"}, at : Index,
            name : Name, old : Name, values : [Fids -> Entry]] :
        c.from = "edit" => c.name \in Names}
Renamings == [op : {"rename"}, field : Index, name : Names, old : Names]
Commands == Features \union Changes \union Additions \union Deletions \union Renamings

\* The old value of a change of a new feature is a value.
OldValue(c) == c.op = "change" /\ IsNew(c.fid) => c.old # None

\* How many fields a command adds to those of the provider and of the buffer.
Gain(c) ==
    IF c.op = "add" THEN 1 ELSE IF c.op = "delete" /\ c.from = "edit" THEN -1 ELSE 0
Size(e) == Len(columns) + Len(e.added)

NoneRenamed(e) == \A i \in Index : e.renamed[i] = None

\* If no renaming is pending the fields are what updateFields() makes of the buffer.
Fresh(e) == NoneRenamed(e) => e.fields = UpdateFields(e, columns).fields

Stages == {"deletes", "adds", "renames", "check", "values", "features", "finish"}

Types ==
    /\ columns \in Seq(Names)
    /\ rows \in [Fids -> Seq(Value) \union {None}]
    /\ \A f \in Fids : rows[f] # None => Len(rows[f]) = Len(columns)
    /\ ed \in Buffers /\ Len(ed.fields) <= MaxFields /\ Size(ed) <= MaxFields
    /\ cmds \in Seq(Commands) /\ Len(cmds) <= MaxCmds /\ index \in 0 .. Len(cmds)
    /\ hist \in Seq(Contents(hist)) /\ Len(hist) = Len(cmds) + 1
    /\ ok \in BOOLEAN /\ exact \in BOOLEAN
    /\ changes \subseteq {"changed", "wrong"}

\* Wherever undo and redo lead, there are no more fields than may be.
Sums(s) ==
    /\ s \in [0 .. Len(cmds) -> Int]
    /\ \A k \in 1 .. Len(cmds) : s[k] = s[k - 1] + Gain(cmds[k])
    /\ \A k \in 0 .. Len(cmds) : Size(ed) + s[k] - s[index] <= MaxFields
Sizes == (phase \notin Stages /\ ed.undefined) \/ \E s : Sums(s)

OldValues == \A k \in 1 .. Len(cmds) : OldValue(cmds[k])

\* Outside a commit the fields are up to date, and nothing has failed.
AtRest == phase \notin Stages => (ed.undefined \/ Fresh(ed)) /\ ok /\ changes = {}

\* What was lost is never called exact.
Inexact ==
    /\ ~ok => ~exact
    /\ "wrong" \in changes => ~exact /\ phase \in {"values", "features", "finish"}

\* oldFields is what the fields are as long as no stage has stored any.
Snapshot ==
    phase \in Stages /\ ok /\ "changed" \notin changes /\ NoneRenamed(ed) =>
        before = UpdateFields(ed, columns).fields

\* What the stages of a commit that has not failed leave to do.
Pending ==
    phase \in Stages /\ ok =>
        /\ phase # "deletes" => ed.deleted = {}
        /\ phase \notin {"deletes", "adds"} => ed.added = <<>>
        /\ phase \notin {"deletes", "adds", "renames"} => NoneRenamed(ed)

\* Values and features are stored if the provider has the fields that were there.
Matched ==
    phase \in {"values", "features"} /\ ok =>
        /\ "wrong" \notin changes => columns = [i \in DOMAIN before |-> before[i].name]
        /\ phase = "features" => "wrong" \notin changes

IInv == Types /\ Sizes /\ OldValues /\ AtRest /\ Inexact /\ Snapshot /\ Pending /\ Matched

-----------------------------------------------------------------------------
(* Sequences. *)

\* The bounds on fields and commands make up the indices.
LEMMA Bounds ==
    /\ MaxFields \in Nat /\ MaxCmds \in Nat /\ MaxFields + MaxCmds \in Nat
    /\ Index = 1 .. MaxFields + MaxCmds /\ 1 .. MaxFields \subseteq Index
BY BoundsAssumption DEF Index

\* A sequence without its i-th entry.
LEMMA Removed ==
    ASSUME NEW S, NEW s \in Seq(S), NEW i \in 1 .. Len(s)
    PROVE  RemoveAt(s, i) \in Seq(S) /\ Len(RemoveAt(s, i)) = Len(s) - 1
<1> DEFINE n == Len(s)
           a == SubSeq(s, 1, i - 1)
           b == SubSeq(s, i + 1, n)
<1>1. n \in Nat /\ i \in Int /\ 1 <= i /\ i <= n
  OBVIOUS
<1>2. a \in Seq(S) /\ Len(a) = i - 1
  <2>1. \A k \in 1 .. i - 1 : s[k] \in S
    <3>1. \A k \in 1 .. i - 1 : k \in 1 .. Len(s)
      BY <1>1
    <3> QED BY <3>1, ElementOfSeq
  <2>2. i - 1 \in Int /\ 1 \in Int
    BY <1>1
  <2>3. /\ SubSeq(s, 1, i - 1) \in Seq(S)
        /\ Len(SubSeq(s, 1, i - 1)) = IF 1 <= i - 1 THEN i - 1 - 1 + 1 ELSE 0
    BY <2>1, <2>2, SubSeqProperties
  <2> QED BY <1>1, <2>3
<1>3. b \in Seq(S) /\ Len(b) = n - i
  <2>1. \A k \in i + 1 .. n : s[k] \in S
    <3>1. \A k \in i + 1 .. n : k \in 1 .. Len(s)
      BY <1>1
    <3> QED BY <3>1, ElementOfSeq
  <2>2. i + 1 \in Int /\ n \in Int
    BY <1>1
  <2> HIDE DEF n
  <2>3. /\ SubSeq(s, i + 1, n) \in Seq(S)
        /\ Len(SubSeq(s, i + 1, n)) = IF i + 1 <= n THEN n - (i + 1) + 1 ELSE 0
    BY <2>1, <2>2, SubSeqProperties
  <2> QED BY <1>1, <2>3
<1>4. RemoveAt(s, i) = a \o b
  BY DEF RemoveAt
<1> HIDE DEF a, b, n
<1>5. a \o b \in Seq(S) /\ Len(a \o b) = Len(a) + Len(b)
  BY <1>2, <1>3, ConcatProperties
<1> QED BY <1>1, <1>2, <1>3, <1>4, <1>5 DEF n

\* A sequence with one more entry, at i.
LEMMA Inserted ==
    ASSUME NEW S, NEW s \in Seq(S), NEW i \in 1 .. Len(s) + 1, NEW x \in S
    PROVE  InsertAt(s, i, x) \in Seq(S) /\ Len(InsertAt(s, i, x)) = Len(s) + 1
<1> DEFINE n == Len(s)
           a == SubSeq(s, 1, i - 1)
           b == SubSeq(s, i, n)
<1>1. n \in Nat /\ i \in Int /\ 1 <= i /\ i <= n + 1
  OBVIOUS
<1>2. a \in Seq(S) /\ Len(a) = i - 1
  <2>1. \A k \in 1 .. i - 1 : s[k] \in S
    <3>1. \A k \in 1 .. i - 1 : k \in 1 .. Len(s)
      BY <1>1
    <3> QED BY <3>1, ElementOfSeq
  <2>2. i - 1 \in Int /\ 1 \in Int
    BY <1>1
  <2>3. /\ SubSeq(s, 1, i - 1) \in Seq(S)
        /\ Len(SubSeq(s, 1, i - 1)) = IF 1 <= i - 1 THEN i - 1 - 1 + 1 ELSE 0
    BY <2>1, <2>2, SubSeqProperties
  <2> QED BY <1>1, <2>3
<1>3. b \in Seq(S) /\ Len(b) = n + 1 - i
  <2>1. \A k \in i .. n : s[k] \in S
    <3>1. \A k \in i .. n : k \in 1 .. Len(s)
      BY <1>1
    <3> QED BY <3>1, ElementOfSeq
  <2> HIDE DEF n
  <2>3. /\ SubSeq(s, i, n) \in Seq(S)
        /\ Len(SubSeq(s, i, n)) = IF i <= n THEN n - i + 1 ELSE 0
    BY <1>1, <2>1, SubSeqProperties
  <2> QED BY <1>1, <2>3
<1> DEFINE c == a \o <<x>>
<1>4. InsertAt(s, i, x) = c \o b
  BY DEF InsertAt
<1> HIDE DEF a, b, n
<1>5. <<x>> \in Seq(S) /\ Len(<<x>>) = 1
  OBVIOUS
<1>6. c \in Seq(S) /\ Len(c) = Len(a) + 1
  BY <1>2, <1>5, ConcatProperties
<1> HIDE DEF c
<1>7. c \o b \in Seq(S) /\ Len(c \o b) = Len(c) + Len(b)
  BY <1>3, <1>6, ConcatProperties
<1>8. Len(c \o b) = n + 1
  BY <1>1, <1>2, <1>3, <1>6, <1>7
<1> QED BY <1>4, <1>7, <1>8 DEF n

\* The ascending list of some of the first n numbers.
LEMMA SortedSome ==
    ASSUME NEW n \in Nat, NEW ids \in SUBSET (1 .. n)
    PROVE  /\ Sorted(ids) \in Seq(ids) /\ Len(Sorted(ids)) \in Nat /\ Len(Sorted(ids)) <= n
           /\ DOMAIN Sorted(ids) = 1 .. Len(Sorted(ids))
           /\ \A k \in DOMAIN Sorted(ids) : Sorted(ids)[k] \in ids
<1>1. IsFiniteSet(1 .. n) /\ Cardinality(1 .. n) = n
  BY FS_Interval
<1>2. IsFiniteSet(ids) /\ Cardinality(ids) <= n /\ Cardinality(ids) \in Nat
  BY <1>1, FS_Subset, FS_CardinalityType
<1>3. ids \in SUBSET Int
  OBVIOUS
<1> QED BY <1>2, <1>3, SortedProperties

\* The first n numbers in ascending order are themselves.
LEMMA SortedAll ==
    ASSUME NEW n \in Nat
    PROVE  Sorted(1 .. n) = [k \in 1 .. n |-> k]
<1>1. Sorted(1 .. 1 + n - 1) = [k \in 1 .. n |-> 1 + k - 1]
  BY SortedInterval
<1>2. 1 + n - 1 = n /\ \A k \in 1 .. n : 1 + k - 1 = k
  OBVIOUS
<1> QED BY <1>1, <1>2

\* Nothing, in order, is nothing.
LEMMA SortedNone == Sorted({}) = <<>>
<1>1. Cardinality({}) = 0
  BY FS_EmptySet
<1> QED BY <1>1 DEF Sorted

-----------------------------------------------------------------------------
(* The helpers of the edit buffer. *)

\* The fields that updateFields() makes are those of the provider and of the buffer.
LEMMA UpdateFieldsType ==
    ASSUME NEW e \in Buffers, columns \in Seq(Names), Size(e) <= MaxFields
    PROVE  /\ UpdateFields(e, columns) \in Buffers
           /\ Len(UpdateFields(e, columns).fields) <= Size(e)
           /\ UpdateFields(e, columns).added = e.added
           /\ UpdateFields(e, columns).deleted = e.deleted
           /\ UpdateFields(e, columns).renamed = e.renamed
           /\ UpdateFields(e, columns).changed = e.changed
           /\ UpdateFields(e, columns).features = e.features
           /\ UpdateFields(e, columns).undefined <=>
                 e.undefined \/ \E i \in Index : i > Len(UpdateFields(e, columns).fields) /\ e.renamed[i] # None
<1> DEFINE kept == Sorted(DOMAIN columns \ e.deleted)
           news == Sorted(Appended(e, columns))
           first == [i \in DOMAIN kept |-> [name |-> columns[kept[i]], from |-> "provider", at |-> kept[i]]]
           second == [i \in DOMAIN news |-> [name |-> e.added[news[i]], from |-> "edit", at |-> news[i]]]
           all == first \o second
           fields == [i \in DOMAIN all |->
                         IF e.renamed[i] = None THEN all[i] ELSE [all[i] EXCEPT !.name = e.renamed[i]]]
           undefined == e.undefined \/ \E i \in Index \ DOMAIN all : e.renamed[i] # None
           u == UpdateFields(e, columns)
<1>1. u = [e EXCEPT !.fields = fields, !.undefined = undefined]
  BY DEF UpdateFields, Buffers
<1>2. /\ e.added \in Seq(Names) /\ e.renamed \in [Index -> Name] /\ e.undefined \in BOOLEAN
      /\ DOMAIN columns = 1 .. Len(columns) /\ Len(columns) \in Nat
      /\ DOMAIN e.added = 1 .. Len(e.added) /\ Len(e.added) \in Nat
      /\ Len(columns) <= MaxFields /\ Len(e.added) <= MaxFields /\ Len(columns) + Len(e.added) <= MaxFields
      /\ MaxFields \in Nat
  BY Bounds DEF Buffers, Size
<1>3. /\ Len(kept) \in Nat /\ Len(kept) <= Len(columns) /\ DOMAIN kept = 1 .. Len(kept)
      /\ \A k \in DOMAIN kept : kept[k] \in 1 .. Len(columns)
  <2> DEFINE ids == DOMAIN columns \ e.deleted
  <2>1. ids \in SUBSET (1 .. Len(columns))
    BY <1>2
  <2> HIDE DEF ids
  <2>2. /\ Len(Sorted(ids)) \in Nat /\ Len(Sorted(ids)) <= Len(columns)
        /\ DOMAIN Sorted(ids) = 1 .. Len(Sorted(ids))
        /\ \A k \in DOMAIN Sorted(ids) : Sorted(ids)[k] \in ids
    BY <1>2, <2>1, SortedSome
  <2> QED BY <2>1, <2>2 DEF ids
<1>4. /\ Len(news) \in Nat /\ Len(news) <= Len(e.added) /\ DOMAIN news = 1 .. Len(news)
      /\ \A k \in DOMAIN news : news[k] \in 1 .. Len(e.added)
  <2> DEFINE ids == Appended(e, columns)
  <2>1. ids \in SUBSET (1 .. Len(e.added))
    BY <1>2 DEF Appended
  <2> HIDE DEF ids
  <2>2. /\ Len(Sorted(ids)) \in Nat /\ Len(Sorted(ids)) <= Len(e.added)
        /\ DOMAIN Sorted(ids) = 1 .. Len(Sorted(ids))
        /\ \A k \in DOMAIN Sorted(ids) : Sorted(ids)[k] \in ids
    BY <1>2, <2>1, SortedSome
  <2> QED BY <2>1, <2>2 DEF ids
<1> HIDE DEF kept, news
<1>5. first \in Seq(FieldRecords) /\ Len(first) = Len(kept)
  <2>1. ASSUME NEW i \in DOMAIN kept
        PROVE  [name |-> columns[kept[i]], from |-> "provider", at |-> kept[i]] \in FieldRecords
    <3>1. kept[i] \in 1 .. Len(columns)
      BY <1>3
    <3>2. kept[i] \in Index
      BY <1>2, <3>1, Bounds
    <3>3. columns[kept[i]] \in Names
      BY <3>1, ElementOfSeq
    <3> QED BY <3>2, <3>3 DEF FieldRecords
  <2>2. first \in [1 .. Len(kept) -> FieldRecords]
    BY <1>3, <2>1
  <2> QED BY <1>3, <2>2
<1>6. second \in Seq(FieldRecords) /\ Len(second) = Len(news)
  <2>1. ASSUME NEW i \in DOMAIN news
        PROVE  [name |-> e.added[news[i]], from |-> "edit", at |-> news[i]] \in FieldRecords
    <3>1. news[i] \in 1 .. Len(e.added)
      BY <1>4
    <3>2. news[i] \in Index
      BY <1>2, <3>1, Bounds
    <3>3. e.added[news[i]] \in Names
      BY <1>2, <3>1, ElementOfSeq
    <3> QED BY <3>2, <3>3 DEF FieldRecords
  <2>2. second \in [1 .. Len(news) -> FieldRecords]
    BY <1>4, <2>1
  <2> QED BY <1>4, <2>2
<1> HIDE DEF first, second
<1>7. all \in Seq(FieldRecords) /\ Len(all) = Len(kept) + Len(news)
  <2>1. first \o second \in Seq(FieldRecords) /\ Len(first \o second) = Len(first) + Len(second)
    BY <1>5, <1>6, ConcatProperties
  <2> QED BY <1>5, <1>6, <2>1
<1> HIDE DEF all
<1>8. /\ DOMAIN all = 1 .. Len(all) /\ Len(all) \in Nat /\ Len(all) <= Size(e)
      /\ 1 .. Len(all) \subseteq Index
  <2>1. Len(all) \in Nat /\ Len(all) <= Len(columns) + Len(e.added) /\ Len(all) <= MaxFields
    BY <1>2, <1>3, <1>4, <1>7
  <2> QED BY <1>2, <1>7, <2>1, Bounds DEF Size
<1>9. fields \in Seq(FieldRecords) /\ Len(fields) = Len(all)
  <2>1. ASSUME NEW i \in DOMAIN all
        PROVE  (IF e.renamed[i] = None THEN all[i] ELSE [all[i] EXCEPT !.name = e.renamed[i]]) \in FieldRecords
    <3>1. all[i] \in FieldRecords
      BY <1>7, <1>8, ElementOfSeq
    <3>2. e.renamed[i] \in Name
      BY <1>2, <1>8
    <3> QED BY <3>1, <3>2 DEF FieldRecords, Name
  <2>2. fields \in [1 .. Len(all) -> FieldRecords]
    BY <1>8, <2>1
  <2> QED BY <1>8, <2>2
<1>10. undefined <=> e.undefined \/ \E i \in Index : i > Len(fields) /\ e.renamed[i] # None
  <2>1. \A i \in Index : i \notin DOMAIN all <=> i > Len(fields)
    BY <1>8, <1>9, Bounds
  <2> HIDE DEF fields
  <2> QED BY <2>1
<1>11. undefined \in BOOLEAN
  BY <1>2
<1> HIDE DEF fields, undefined, u
<1>12. u \in Buffers /\ u.fields = fields /\ (u.undefined <=> undefined)
  BY <1>1, <1>9, <1>11 DEF Buffers
<1>13. /\ u.added = e.added /\ u.deleted = e.deleted /\ u.renamed = e.renamed
       /\ u.changed = e.changed /\ u.features = e.features
  BY <1>1 DEF Buffers
<1> QED BY <1>8, <1>9, <1>10, <1>12, <1>13 DEF u

\* They depend on nothing else.
LEMMA SameFields ==
    ASSUME NEW d \in Buffers, NEW e \in Buffers, NEW names,
           d.added = e.added, d.deleted = e.deleted, d.renamed = e.renamed
    PROVE  UpdateFields(d, names).fields = UpdateFields(e, names).fields
<1>1. Appended(d, names) = Appended(e, names)
  BY DEF Appended
<1> DEFINE kept(b) == Sorted(DOMAIN names \ b.deleted)
           news(b) == Sorted(Appended(b, names))
           all(b) == [i \in DOMAIN kept(b) |-> [name |-> names[kept(b)[i]], from |-> "provider", at |-> kept(b)[i]]]
                     \o [i \in DOMAIN news(b) |-> [name |-> b.added[news(b)[i]], from |-> "edit", at |-> news(b)[i]]]
<1>2. all(d) = all(e)
  BY <1>1
<1>3. ASSUME NEW b \in Buffers
      PROVE  UpdateFields(b, names).fields =
                [i \in DOMAIN all(b) |-> IF b.renamed[i] = None THEN all(b)[i]
                                         ELSE [all(b)[i] EXCEPT !.name = b.renamed[i]]]
  BY ZenonT(40) DEF UpdateFields, Buffers
<1> DEFINE entries == all(e)
           names2 == e.renamed
<1>4. /\ UpdateFields(d, names).fields =
            [i \in DOMAIN entries |-> IF names2[i] = None THEN entries[i]
                                      ELSE [entries[i] EXCEPT !.name = names2[i]]]
      /\ UpdateFields(e, names).fields =
            [i \in DOMAIN entries |-> IF names2[i] = None THEN entries[i]
                                      ELSE [entries[i] EXCEPT !.name = names2[i]]]
  <2>1. UpdateFields(d, names).fields =
            [i \in DOMAIN all(d) |-> IF d.renamed[i] = None THEN all(d)[i]
                                     ELSE [all(d)[i] EXCEPT !.name = d.renamed[i]]]
    BY <1>3, ZenonT(40)
  <2>2. UpdateFields(e, names).fields =
            [i \in DOMAIN all(e) |-> IF e.renamed[i] = None THEN all(e)[i]
                                     ELSE [all(e)[i] EXCEPT !.name = e.renamed[i]]]
    BY <1>3, ZenonT(40)
  <2> HIDE DEF all
  <2> QED BY <1>2, <2>1, <2>2
<1> HIDE DEF all, entries, names2
<1> QED BY <1>4

\* With nothing pending they are those of the provider.
LEMMA NothingPending ==
    ASSUME NEW e \in Buffers, columns \in Seq(Names), e.deleted = {}, e.added = <<>>, NoneRenamed(e),
           Len(columns) <= MaxFields
    PROVE  UpdateFields(e, columns).fields = Opened(columns).fields
<1> DEFINE kept == Sorted(DOMAIN columns \ e.deleted)
           news == Sorted(Appended(e, columns))
           first == [i \in DOMAIN kept |-> [name |-> columns[kept[i]], from |-> "provider", at |-> kept[i]]]
           second == [i \in DOMAIN news |-> [name |-> e.added[news[i]], from |-> "edit", at |-> news[i]]]
           all == first \o second
           fields == [i \in DOMAIN all |->
                         IF e.renamed[i] = None THEN all[i] ELSE [all[i] EXCEPT !.name = e.renamed[i]]]
           opened == [i \in DOMAIN columns |-> [name |-> columns[i], from |-> "provider", at |-> i]]
           n == Len(columns)
<1>1. UpdateFields(e, columns).fields = fields
  BY DEF UpdateFields, Buffers
<1>2. n \in Nat /\ n <= MaxFields /\ DOMAIN columns = 1 .. n /\ MaxFields \in Nat
  BY Bounds
<1>3. kept = [k \in 1 .. n |-> k]
  BY <1>2, SortedAll
<1>4. news = <<>>
  <2>1. Appended(e, columns) = {}
    BY DEF Appended
  <2> QED BY <2>1, SortedNone
<1>5. first = opened
  BY <1>2, <1>3
<1>6. second = <<>>
  BY <1>4
<1> HIDE DEF first, second
<1>7. opened \in Seq(FieldRecords) /\ DOMAIN opened = 1 .. n
  <2>1. ASSUME NEW i \in 1 .. n
        PROVE  [name |-> columns[i], from |-> "provider", at |-> i] \in FieldRecords
    <3>1. i \in Index
      BY <1>2, Bounds
    <3>2. columns[i] \in Names
      BY ElementOfSeq
    <3> QED BY <3>1, <3>2 DEF FieldRecords
  <2>2. opened \in [1 .. n -> FieldRecords]
    BY <1>2, <2>1
  <2> QED BY <1>2, <2>2
<1>8. all = opened
  <2> HIDE DEF opened
  <2> QED BY <1>5, <1>6, <1>7, ConcatEmptySeq
<1>9. \A i \in 1 .. n : e.renamed[i] = None
  BY <1>2, Bounds DEF NoneRenamed
<1>10. fields = opened
  <2> HIDE DEF all, opened
  <2>1. fields = [i \in 1 .. n |-> opened[i]]
    BY <1>7, <1>8, <1>9
  <2>2. opened = [i \in 1 .. n |-> opened[i]]
    BY <1>2 DEF opened
  <2> QED BY <2>1, <2>2
<1>11. Opened(columns).fields = opened
  BY DEF Opened
<1> QED BY <1>1, <1>10, <1>11

\* A new buffer is typed, and has nothing pending.
LEMMA OpenedType ==
    ASSUME columns \in Seq(Names), Len(columns) <= MaxFields
    PROVE  /\ Opened(columns) \in Buffers
           /\ Opened(columns).added = <<>> /\ Opened(columns).deleted = {} /\ NoneRenamed(Opened(columns))
           /\ ~Opened(columns).undefined
           /\ Len(Opened(columns).fields) = Len(columns)
<1>1. Len(columns) \in Nat /\ DOMAIN columns = 1 .. Len(columns) /\ MaxFields \in Nat
  BY Bounds
<1> DEFINE opened == [i \in DOMAIN columns |-> [name |-> columns[i], from |-> "provider", at |-> i]]
<1>2. opened \in Seq(FieldRecords) /\ Len(opened) = Len(columns)
  <2>1. ASSUME NEW i \in 1 .. Len(columns)
        PROVE  [name |-> columns[i], from |-> "provider", at |-> i] \in FieldRecords
    <3>1. i \in Index
      BY <1>1, Bounds
    <3>2. columns[i] \in Names
      BY ElementOfSeq
    <3> QED BY <3>1, <3>2 DEF FieldRecords
  <2>2. opened \in [1 .. Len(columns) -> FieldRecords]
    BY <1>1, <2>1
  <2> QED BY <1>1, <2>2
<1>3. NoChanges \in [Fids -> [Index -> Entry]] /\ NoFeatures \in [Fids -> Seq(Value) \union {None}]
  BY DEF NoChanges, NoFeatures, Entry
<1>4. [i \in Index |-> None] \in [Index -> Name] /\ <<>> \in Seq(Names)
  BY DEF Name
<1> DEFINE none == [i \in Index |-> None]
<1>5. Opened(columns) = [added |-> <<>>, deleted |-> {}, renamed |-> none, changed |-> NoChanges,
                         features |-> NoFeatures, fields |-> opened, undefined |-> FALSE]
  BY DEF Opened
<1>6. \A i \in Index : none[i] = None
  OBVIOUS
<1> HIDE DEF opened, none
<1> QED BY <1>2, <1>3, <1>4, <1>5, <1>6 DEF Buffers, NoneRenamed, none

\* A shifted map is a map.
LEMMA ShiftTypes ==
    ASSUME NEW S, NEW map \in [Index -> S], None \in S, NEW i \in Index
    PROVE  /\ ShiftedUp(map, i) \in [Index -> S] /\ ShiftedDown(map, i) \in [Index -> S]
           /\ RenamedUp(map, i) \in [Index -> S] /\ RenamedDown(map, i) \in [Index -> S]
<1>1. \A j \in Index : ~(j < i) /\ j # i => j - 1 \in Index
  BY Bounds
<1>2. ShiftedUp(map, i) \in [Index -> S]
  BY <1>1 DEF ShiftedUp
<1>3. RenamedUp(map, i) \in [Index -> S]
  BY <1>1 DEF RenamedUp
<1>4. ShiftedDown(map, i) \in [Index -> S]
  BY DEF ShiftedDown
<1>5. RenamedDown(map, i) \in [Index -> S]
  BY DEF RenamedDown
<1> QED BY <1>2, <1>3, <1>4, <1>5

\* Of the pending renamings only one at the last index can be shifted away.
LEMMA RenamedStay ==
    ASSUME NEW map \in [Index -> Name], NEW i \in Index, NEW j \in Index, map[j] # None,
           \A k \in Index : RenamedUp(map, i)[k] = None
    PROVE  j = MaxFields + MaxCmds
<1>1. CASE j < i
  <2>1. RenamedUp(map, i)[j] = map[j]
    BY <1>1 DEF RenamedUp
  <2> QED BY <2>1
<1>2. CASE ~(j < i) /\ j # MaxFields + MaxCmds
  <2>1. j + 1 \in Index /\ ~(j + 1 < i) /\ j + 1 # i /\ j + 1 - 1 = j
    BY <1>2, Bounds
  <2>2. RenamedUp(map, i)[j + 1] = map[j]
    <3> DEFINE k == j + 1
    <3>1. k \in Index /\ ~(k < i) /\ k # i /\ k - 1 = j
      BY <2>1, Bounds
    <3> HIDE DEF k
    <3>2. RenamedUp(map, i)[k] = map[j]
      BY <3>1 DEF RenamedUp
    <3> QED BY <3>2 DEF k
  <2> QED BY <2>1, <2>2
<1> QED BY <1>1, <1>2

\* handleAttributeAdded() keeps the types, and changes only what is keyed by a field index.
LEMMA AttributeAdded ==
    ASSUME NEW e \in Buffers, NEW i \in Index
    PROVE  /\ HandleAttributeAdded(e, i) \in Buffers
           /\ HandleAttributeAdded(e, i).added = e.added
           /\ HandleAttributeAdded(e, i).deleted = e.deleted
           /\ HandleAttributeAdded(e, i).fields = e.fields
           /\ HandleAttributeAdded(e, i).renamed = RenamedUp(e.renamed, i)
           /\ HandleAttributeAdded(e, i).changed = [f \in Fids |-> ShiftedUp(e.changed[f], i)]
           /\ HandleAttributeAdded(e, i).undefined <=>
                 e.undefined \/ \E f \in Fids : e.features[f] # None /\ i > Len(e.features[f]) + 1
<1> DEFINE changed == [f \in Fids |-> ShiftedUp(e.changed[f], i)]
           features == [f \in Fids |-> IF e.features[f] = None \/ i > Len(e.features[f]) + 1 THEN e.features[f]
                                       ELSE InsertAt(e.features[f], i, Null)]
           renamed == RenamedUp(e.renamed, i)
           undefined == e.undefined \/ \E f \in Fids : e.features[f] # None /\ i > Len(e.features[f]) + 1
           h == HandleAttributeAdded(e, i)
<1>1. h = [e EXCEPT !.changed = changed, !.features = features, !.renamed = renamed, !.undefined = undefined]
  BY DEF HandleAttributeAdded, Buffers
<1>2. changed \in [Fids -> [Index -> Entry]]
  <2>1. ASSUME NEW f \in Fids PROVE ShiftedUp(e.changed[f], i) \in [Index -> Entry]
    <3>1. e.changed[f] \in [Index -> Entry] /\ None \in Entry
      BY DEF Buffers, Entry
    <3> QED BY <3>1, ShiftTypes
  <2> QED BY <2>1
<1>3. features \in [Fids -> Seq(Value) \union {None}]
  <2>1. ASSUME NEW f \in Fids
        PROVE  (IF e.features[f] = None \/ i > Len(e.features[f]) + 1 THEN e.features[f]
                ELSE InsertAt(e.features[f], i, Null)) \in Seq(Value) \union {None}
    <3>1. e.features[f] \in Seq(Value) \union {None}
      BY DEF Buffers
    <3>2. CASE e.features[f] # None /\ ~(i > Len(e.features[f]) + 1)
      <4>1. e.features[f] \in Seq(Value) /\ i \in 1 .. Len(e.features[f]) + 1 /\ Null \in Value
        BY <3>1, <3>2, Bounds DEF Value
      <4>2. InsertAt(e.features[f], i, Null) \in Seq(Value)
        BY <4>1, Inserted
      <4> QED BY <3>2, <4>2
    <3> QED BY <3>1, <3>2
  <2> QED BY <2>1
<1>4. renamed \in [Index -> Name]
  <2>1. e.renamed \in [Index -> Name] /\ None \in Name
    BY DEF Buffers, Name
  <2> QED BY <2>1, ShiftTypes
<1>5. undefined \in BOOLEAN
  BY DEF Buffers
<1> HIDE DEF changed, features, renamed, undefined, h
<1>6. h \in Buffers /\ (h.undefined <=> undefined)
  BY <1>1, <1>2, <1>3, <1>4, <1>5 DEF Buffers
<1>7. /\ h.added = e.added /\ h.deleted = e.deleted /\ h.fields = e.fields
      /\ h.renamed = renamed /\ h.changed = changed
  BY <1>1 DEF Buffers
<1> QED BY <1>6, <1>7 DEF h, renamed, changed, undefined

\* So does handleAttributeDeleted().
LEMMA AttributeDeleted ==
    ASSUME NEW e \in Buffers, NEW i \in Index
    PROVE  /\ HandleAttributeDeleted(e, i) \in Buffers
           /\ HandleAttributeDeleted(e, i).added = e.added
           /\ HandleAttributeDeleted(e, i).deleted = e.deleted
           /\ HandleAttributeDeleted(e, i).fields = e.fields
           /\ HandleAttributeDeleted(e, i).renamed = RenamedDown(e.renamed, i)
           /\ HandleAttributeDeleted(e, i).changed = [f \in Fids |-> ShiftedDown(e.changed[f], i)]
           /\ HandleAttributeDeleted(e, i).undefined <=>
                 e.undefined \/ \E f \in Fids : e.features[f] # None /\ i > Len(e.features[f])
<1> DEFINE changed == [f \in Fids |-> ShiftedDown(e.changed[f], i)]
           features == [f \in Fids |-> IF e.features[f] = None \/ i > Len(e.features[f]) THEN e.features[f]
                                       ELSE RemoveAt(e.features[f], i)]
           renamed == RenamedDown(e.renamed, i)
           undefined == e.undefined \/ \E f \in Fids : e.features[f] # None /\ i > Len(e.features[f])
           h == HandleAttributeDeleted(e, i)
<1>1. h = [e EXCEPT !.changed = changed, !.features = features, !.renamed = renamed, !.undefined = undefined]
  BY DEF HandleAttributeDeleted, Buffers
<1>2. changed \in [Fids -> [Index -> Entry]]
  <2>1. ASSUME NEW f \in Fids PROVE ShiftedDown(e.changed[f], i) \in [Index -> Entry]
    <3>1. e.changed[f] \in [Index -> Entry] /\ None \in Entry
      BY DEF Buffers, Entry
    <3> QED BY <3>1, ShiftTypes
  <2> QED BY <2>1
<1>3. features \in [Fids -> Seq(Value) \union {None}]
  <2>1. ASSUME NEW f \in Fids
        PROVE  (IF e.features[f] = None \/ i > Len(e.features[f]) THEN e.features[f]
                ELSE RemoveAt(e.features[f], i)) \in Seq(Value) \union {None}
    <3>1. e.features[f] \in Seq(Value) \union {None}
      BY DEF Buffers
    <3>2. CASE e.features[f] # None /\ ~(i > Len(e.features[f]))
      <4>1. e.features[f] \in Seq(Value) /\ i \in 1 .. Len(e.features[f])
        BY <3>1, <3>2, Bounds
      <4>2. RemoveAt(e.features[f], i) \in Seq(Value)
        BY <4>1, Removed
      <4> QED BY <3>2, <4>2
    <3> QED BY <3>1, <3>2
  <2> QED BY <2>1
<1>4. renamed \in [Index -> Name]
  <2>1. e.renamed \in [Index -> Name] /\ None \in Name
    BY DEF Buffers, Name
  <2> QED BY <2>1, ShiftTypes
<1>5. undefined \in BOOLEAN
  BY DEF Buffers
<1> HIDE DEF changed, features, renamed, undefined, h
<1>6. h \in Buffers /\ (h.undefined <=> undefined)
  BY <1>1, <1>2, <1>3, <1>4, <1>5 DEF Buffers
<1>7. /\ h.added = e.added /\ h.deleted = e.deleted /\ h.fields = e.fields
      /\ h.renamed = renamed /\ h.changed = changed
  BY <1>1 DEF Buffers
<1> QED BY <1>6, <1>7 DEF h, renamed, changed, undefined

-----------------------------------------------------------------------------
(* The commands. *)

\* What redo() and undo() of every command keep.
Good(e) ==
    /\ e \in Buffers
    /\ Size(e) <= MaxFields /\ Len(e.fields) <= MaxFields
    /\ e.undefined \/ Fresh(e)

\* A buffer that differs only in what is keyed by features.
LEMMA GoodValues ==
    ASSUME NEW d, NEW e, Good(d), e \in Buffers, e.added = d.added, e.deleted = d.deleted,
           e.renamed = d.renamed, e.fields = d.fields, e.undefined <=> d.undefined
    PROVE  Good(e) /\ Size(e) = Size(d)
<1>1. d \in Buffers
  BY DEF Good
<1>2. UpdateFields(d, columns).fields = UpdateFields(e, columns).fields
  BY <1>1, SameFields
<1> QED BY <1>2 DEF Good, Size, Fresh, NoneRenamed

\* After updateFields() the fields are up to date.
LEMMA UpdatedIsFresh ==
    ASSUME NEW e \in Buffers, columns \in Seq(Names), Size(e) <= MaxFields
    PROVE  /\ Good(UpdateFields(e, columns))
           /\ Fresh(UpdateFields(e, columns))
           /\ Size(UpdateFields(e, columns)) = Size(e)
<1> DEFINE u == UpdateFields(e, columns)
<1>1. /\ u \in Buffers /\ Len(u.fields) <= Size(e)
      /\ u.added = e.added /\ u.deleted = e.deleted /\ u.renamed = e.renamed
  BY UpdateFieldsType
<1>2. UpdateFields(u, columns).fields = u.fields
  <2> HIDE DEF u
  <2>1. UpdateFields(u, columns).fields = UpdateFields(e, columns).fields
    BY <1>1, SameFields
  <2> QED BY <2>1 DEF u
<1>3. Size(u) = Size(e) /\ Size(e) \in Int /\ Len(u.fields) \in Int /\ MaxFields \in Int
  <2>1. e.added \in Seq(Names) /\ u.fields \in Seq(FieldRecords)
    BY <1>1 DEF Buffers
  <2> HIDE DEF u
  <2> QED BY <1>1, <2>1, Bounds DEF Size
<1>4. Len(u.fields) <= MaxFields
  BY <1>1, <1>3
<1> HIDE DEF u
<1>5. Good(u) /\ Fresh(u) /\ Size(u) = Size(e)
  BY <1>1, <1>2, <1>3, <1>4 DEF Good, Fresh
<1> QED BY <1>5 DEF u

\* The fields are updated, then what is keyed by their index is shifted.
LEMMA AddedIsFresh ==
    ASSUME NEW e \in Buffers, columns \in Seq(Names), Size(e) <= MaxFields, MaxCmds # 0, NEW i \in Index
    PROVE  /\ Good(HandleAttributeAdded(UpdateFields(e, columns), i))
           /\ Size(HandleAttributeAdded(UpdateFields(e, columns), i)) = Size(e)
<1> DEFINE u == UpdateFields(e, columns)
           h == HandleAttributeAdded(u, i)
<1>1. /\ u \in Buffers /\ Fresh(u) /\ Size(u) = Size(e) /\ Len(u.fields) <= MaxFields
      /\ u.added = e.added /\ u.deleted = e.deleted /\ u.renamed = e.renamed
      /\ u.undefined <=> e.undefined \/ \E k \in Index : k > Len(u.fields) /\ e.renamed[k] # None
  BY UpdateFieldsType, UpdatedIsFresh DEF Good
<1> HIDE DEF u
<1>2. /\ h \in Buffers /\ h.added = u.added /\ h.deleted = u.deleted /\ h.fields = u.fields
      /\ h.renamed = RenamedUp(u.renamed, i)
      /\ u.undefined => h.undefined
  BY <1>1, AttributeAdded
<1> HIDE DEF h
<1>3. Size(h) = Size(e)
  BY <1>1, <1>2 DEF Size
<1>4. ASSUME ~h.undefined, NoneRenamed(h)
      PROVE  h.fields = UpdateFields(h, columns).fields
  <2>1. NoneRenamed(u)
    <3>1. SUFFICES ASSUME NEW j \in Index, u.renamed[j] # None PROVE FALSE
      BY DEF NoneRenamed
    <3>2. u.renamed \in [Index -> Name]
      BY <1>1 DEF Buffers
    <3>3. \A k \in Index : RenamedUp(u.renamed, i)[k] = None
      BY <1>2, <1>4 DEF NoneRenamed
    <3>4. j = MaxFields + MaxCmds
      BY <3>1, <3>2, <3>3, RenamedStay
    <3>5. j > Len(u.fields)
      <4>1. u.fields \in Seq(FieldRecords)
        BY <1>1 DEF Buffers
      <4>2. Len(u.fields) \in Nat
        BY <4>1
      <4>3. MaxCmds \in Nat /\ MaxFields \in Nat
        BY Bounds
      <4> QED BY <1>1, <3>4, <4>2, <4>3
    <3> QED BY <1>1, <1>2, <1>4, <3>1, <3>5
  <2>2. u.fields = UpdateFields(u, columns).fields
    BY <1>1, <2>1 DEF Fresh
  <2>3. u.renamed = h.renamed
    <3>1. u.renamed \in [Index -> Name] /\ h.renamed \in [Index -> Name]
      BY <1>1, <1>2 DEF Buffers
    <3> QED BY <1>4, <2>1, <3>1 DEF NoneRenamed
  <2>4. UpdateFields(u, columns).fields = UpdateFields(h, columns).fields
    BY <1>1, <1>2, <2>3, SameFields
  <2> QED BY <1>2, <2>2, <2>4
<1>5. Good(h) /\ Size(h) = Size(e)
  BY <1>1, <1>2, <1>3, <1>4 DEF Good, Fresh
<1> QED BY <1>5 DEF h, u

\* What the name of a command's operation says about its members.
LEMMA CommandKinds ==
    ASSUME NEW c \in Commands
    PROVE  /\ c.op = "feature" => c \in Features
           /\ c.op = "change" => c \in Changes
           /\ c.op = "add" => c \in Additions
           /\ c.op = "delete" => c \in Deletions
           /\ c.op = "rename" => c \in Renamings
           /\ c.op \in {"feature", "change", "add", "delete", "rename"}
BY DEF Commands, Features, Changes, Additions, Deletions, Renamings

\* Adding a feature, done and undone, adds no field.
LEMMA FeatureCommand ==
    ASSUME NEW c \in Features, NEW e, Good(e)
    PROVE  /\ Good(RedoAddFeature(e, c)) /\ Size(RedoAddFeature(e, c)) = Size(e)
           /\ Good(UndoAddFeature(e, c)) /\ Size(UndoAddFeature(e, c)) = Size(e)
<1>1. e \in Buffers /\ c.fid \in Fids /\ c.attrs \in Seq(Value)
  BY DEF Good, Features
<1>2. ASSUME NEW x \in Seq(Value) \union {None}
      PROVE  Good([e EXCEPT !.features[c.fid] = x]) /\ Size([e EXCEPT !.features[c.fid] = x]) = Size(e)
  <2> DEFINE d == [e EXCEPT !.features[c.fid] = x]
  <2>1. /\ d \in Buffers /\ d.added = e.added /\ d.deleted = e.deleted
        /\ d.renamed = e.renamed /\ d.fields = e.fields /\ d.undefined = e.undefined
    BY <1>1 DEF Buffers
  <2> HIDE DEF d
  <2>2. Good(d) /\ Size(d) = Size(e)
    BY <2>1, GoodValues
  <2> QED BY <2>2 DEF d
<1> QED BY <1>1, <1>2 DEF RedoAddFeature, UndoAddFeature

\* Nor does a change of a value.
LEMMA ChangeCommand ==
    ASSUME NEW c \in Changes, NEW e, Good(e)
    PROVE  /\ Good(RedoChange(e, c)) /\ Size(RedoChange(e, c)) = Size(e)
           /\ OldValue(c) => Good(UndoChange(e, c)) /\ Size(UndoChange(e, c)) = Size(e)
<1>1. e \in Buffers /\ c.fid \in Fids /\ c.field \in Index /\ c.new \in Value /\ c.old \in Entry
  BY DEF Good, Changes
<1>2. ASSUME NEW x \in Entry
      PROVE  Good([e EXCEPT !.changed[c.fid][c.field] = x])
             /\ Size([e EXCEPT !.changed[c.fid][c.field] = x]) = Size(e)
  <2> DEFINE d == [e EXCEPT !.changed[c.fid][c.field] = x]
             map == [e.changed[c.fid] EXCEPT ![c.field] = x]
  <2>1. e.changed[c.fid] \in [Index -> Entry] /\ e.changed \in [Fids -> [Index -> Entry]]
    BY <1>1 DEF Buffers
  <2>2. map \in [Index -> Entry]
    BY <2>1
  <2>3. d = [e EXCEPT !.changed = [e.changed EXCEPT ![c.fid] = map]]
    BY <1>1 DEF Buffers
  <2> HIDE DEF d, map
  <2>4. /\ d \in Buffers /\ d.added = e.added /\ d.deleted = e.deleted
        /\ d.renamed = e.renamed /\ d.fields = e.fields /\ d.undefined = e.undefined
    BY <1>1, <2>1, <2>2, <2>3 DEF Buffers
  <2>5. Good(d) /\ Size(d) = Size(e)
    BY <2>4, GoodValues
  <2> QED BY <2>5 DEF d
<1>3. ASSUME NEW x \in Value
      PROVE  Good(SetAttribute(e, c.fid, c.field, x)) /\ Size(SetAttribute(e, c.fid, c.field, x)) = Size(e)
  <2>1. CASE e.features[c.fid] # None /\ c.field \in DOMAIN e.features[c.fid]
    <3> DEFINE s == e.features[c.fid]
               t == [s EXCEPT ![c.field] = x]
               d == [e EXCEPT !.features = [e.features EXCEPT ![c.fid] = t]]
    <3>1. e.features \in [Fids -> Seq(Value) \union {None}] /\ s \in Seq(Value)
      BY <1>1, <2>1 DEF Buffers
    <3>2. t \in Seq(Value)
      <4>1. c.field \in 1 .. Len(s) /\ x \in Value
        BY <2>1, <3>1
      <4> HIDE DEF s
      <4> QED BY <3>1, <4>1, ExceptSeq
    <3>3. SetAttribute(e, c.fid, c.field, x) = d
      BY <1>1, <2>1 DEF SetAttribute, Buffers
    <3> HIDE DEF s, t
    <3>4. /\ d \in Buffers /\ d.added = e.added /\ d.deleted = e.deleted
          /\ d.renamed = e.renamed /\ d.fields = e.fields /\ d.undefined = e.undefined
      BY <1>1, <3>1, <3>2 DEF Buffers
    <3> HIDE DEF d
    <3>5. Good(d) /\ Size(d) = Size(e)
      BY <3>4, GoodValues
    <3> QED BY <3>3, <3>5
  <2>2. CASE ~(e.features[c.fid] # None /\ c.field \in DOMAIN e.features[c.fid])
    BY <2>2 DEF SetAttribute
  <2> QED BY <2>1, <2>2
<1>4. c.new \in Entry /\ (c.old # None => c.old \in Value) /\ c.op = "change"
  BY <1>1 DEF Entry, Changes
<1>5. Good(RedoChange(e, c)) /\ Size(RedoChange(e, c)) = Size(e)
  <2>1. CASE IsNew(c.fid)
    BY <1>1, <1>3, <2>1 DEF RedoChange
  <2>2. CASE ~IsNew(c.fid)
    BY <1>2, <1>4, <2>2 DEF RedoChange
  <2> QED BY <2>1, <2>2
<1>6. ASSUME OldValue(c)
      PROVE  Good(UndoChange(e, c)) /\ Size(UndoChange(e, c)) = Size(e)
  <2>1. CASE IsNew(c.fid)
    <3>1. c.old \in Value
      BY <1>4, <1>6, <2>1 DEF OldValue
    <3> QED BY <1>3, <2>1, <3>1 DEF UndoChange
  <2>2. CASE ~IsNew(c.fid)
    BY <1>1, <1>2, <2>2 DEF UndoChange
  <2> QED BY <2>1, <2>2
<1> QED BY <1>5, <1>6

\* A command whose index was out of range leaves the types as they are.
LEMMA UndefinedIsGood ==
    ASSUME NEW e, Good(e)
    PROVE  Good(Undefined(e)) /\ Undefined(e).undefined
<1> DEFINE d == Undefined(e)
<1>1. /\ d \in Buffers /\ d.added = e.added /\ d.fields = e.fields /\ d.undefined
  BY DEF Undefined, Good, Buffers
<1> HIDE DEF d
<1>2. Good(d)
  BY <1>1 DEF Good, Size
<1> QED BY <1>1, <1>2 DEF d

\* Renaming a field, done and undone.
LEMMA RenameCommand ==
    ASSUME NEW c \in Renamings, NEW e, Good(e), columns \in Seq(Names)
    PROVE  /\ Good(RedoRename(e, c)) /\ Size(RedoRename(e, c)) = Size(e)
           /\ Good(UndoRename(e, c)) /\ Size(UndoRename(e, c)) = Size(e)
<1>1. e \in Buffers /\ Size(e) <= MaxFields /\ c.field \in Index /\ c.name \in Name /\ c.old \in Name
  BY DEF Good, Renamings, Name
<1>2. ASSUME NEW x \in Name
      PROVE  LET d == UpdateFields([e EXCEPT !.renamed[c.field] = x], columns)
             IN  Good(d) /\ Size(d) = Size(e)
  <2> DEFINE r == [e EXCEPT !.renamed[c.field] = x]
  <2>1. r \in Buffers /\ r.added = e.added
    BY <1>1 DEF Buffers
  <2> HIDE DEF r
  <2>2. Size(r) = Size(e)
    BY <2>1 DEF Size
  <2>3. Good(UpdateFields(r, columns)) /\ Size(UpdateFields(r, columns)) = Size(r)
    BY <1>1, <2>1, <2>2, UpdatedIsFresh
  <2> QED BY <2>2, <2>3 DEF r
<1> QED BY <1>1, <1>2 DEF RedoRename, UndoRename

\* Adding a field, done and undone.
LEMMA AddCommand ==
    ASSUME NEW c \in Additions, NEW e, Good(e), columns \in Seq(Names), MaxCmds # 0
    PROVE  /\ Size(e) + 1 <= MaxFields => Good(RedoAdd(e, c)) /\ Size(RedoAdd(e, c)) = Size(e) + 1
           /\ Good(UndoAdd(e, c))
           /\ UndoAdd(e, c).undefined \/ Size(UndoAdd(e, c)) = Size(e) - 1
<1>1. e \in Buffers /\ Size(e) <= MaxFields /\ c.field \in Index /\ c.name \in Names
      /\ e.added \in Seq(Names) /\ Len(e.added) \in Nat /\ Len(columns) \in Nat
  BY DEF Good, Additions, Buffers
<1>2. ASSUME Size(e) + 1 <= MaxFields
      PROVE  Good(RedoAdd(e, c)) /\ Size(RedoAdd(e, c)) = Size(e) + 1
  <2> DEFINE a == [e EXCEPT !.added = Append(@, c.name)]
  <2>1. Append(e.added, c.name) \in Seq(Names) /\ Len(Append(e.added, c.name)) = Len(e.added) + 1
    BY <1>1, AppendProperties
  <2>2. a \in Buffers /\ a.added = Append(e.added, c.name)
    BY <1>1, <2>1 DEF Buffers
  <2> HIDE DEF a
  <2>3. Size(a) = Size(e) + 1
    BY <1>1, <2>1, <2>2 DEF Size
  <2>4. /\ Good(HandleAttributeAdded(UpdateFields(a, columns), c.field))
        /\ Size(HandleAttributeAdded(UpdateFields(a, columns), c.field)) = Size(a)
    BY <1>1, <1>2, <2>2, <2>3, AddedIsFresh
  <2> QED BY <2>3, <2>4 DEF RedoAdd, a
<1>3. Good(UndoAdd(e, c)) /\ (UndoAdd(e, c).undefined \/ Size(UndoAdd(e, c)) = Size(e) - 1)
  <2> DEFINE at == e.fields[c.field].at
  <2>1. CASE c.field \notin DOMAIN e.fields \/ at \notin DOMAIN e.added
    BY <2>1, UndefinedIsGood DEF UndoAdd
  <2>2. CASE c.field \in DOMAIN e.fields /\ at \in DOMAIN e.added
    <3> DEFINE r == [e EXCEPT !.added = RemoveAt(@, at)]
               h == HandleAttributeDeleted(r, c.field)
    <3>1. at \in 1 .. Len(e.added)
      BY <1>1, <2>2
    <3> HIDE DEF at
    <3>2. RemoveAt(e.added, at) \in Seq(Names) /\ Len(RemoveAt(e.added, at)) = Len(e.added) - 1
      BY <1>1, <3>1, Removed
    <3>3. r \in Buffers /\ r.added = RemoveAt(e.added, at)
      BY <1>1, <3>2 DEF Buffers
    <3> HIDE DEF r
    <3>4. h \in Buffers /\ h.added = r.added
      BY <1>1, <3>3, AttributeDeleted
    <3> HIDE DEF h
    <3>5. Size(h) = Size(e) - 1 /\ Size(h) <= MaxFields
      <4>1. Len(h.added) = Len(e.added) - 1
        BY <3>2, <3>3, <3>4
      <4> QED BY <1>1, <4>1, Bounds DEF Size
    <3>6. Good(UpdateFields(h, columns)) /\ Size(UpdateFields(h, columns)) = Size(h)
      BY <3>4, <3>5, UpdatedIsFresh
    <3>7. UndoAdd(e, c) = UpdateFields(h, columns)
      BY <2>2 DEF UndoAdd, h, r, at
    <3> QED BY <3>5, <3>6, <3>7
  <2> QED BY <2>1, <2>2
<1> QED BY <1>2, <1>3

\* Deleting a field.
LEMMA RedoDeleteCommand ==
    ASSUME NEW c \in Deletions, NEW e, Good(e), columns \in Seq(Names)
    PROVE  /\ Good(RedoDelete(e, c))
           /\ RedoDelete(e, c).undefined \/ Size(RedoDelete(e, c)) = Size(e) + Gain(c)
<1>1. e \in Buffers /\ Size(e) <= MaxFields /\ c.field \in Index /\ c.at \in Index /\ c.op = "delete"
      /\ e.added \in Seq(Names) /\ Len(e.added) \in Nat /\ Len(columns) \in Nat /\ e.deleted \subseteq Index
      /\ c.from \in {"provider", "edit"}
  BY DEF Good, Deletions, Buffers
<1>2. ASSUME NEW r \in Buffers, Size(r) <= MaxFields
      PROVE  LET d == UpdateFields(HandleAttributeDeleted(r, c.field), columns)
             IN  Good(d) /\ Size(d) = Size(r)
  <2> DEFINE h == HandleAttributeDeleted(r, c.field)
  <2>1. h \in Buffers /\ h.added = r.added
    BY <1>1, AttributeDeleted
  <2> HIDE DEF h
  <2>2. Size(h) = Size(r)
    BY <2>1 DEF Size
  <2>3. Good(UpdateFields(h, columns)) /\ Size(UpdateFields(h, columns)) = Size(h)
    BY <1>2, <2>1, <2>2, UpdatedIsFresh
  <2> QED BY <2>2, <2>3 DEF h
<1>3. CASE c.from = "provider"
  <2> DEFINE r == [e EXCEPT !.deleted = @ \union {c.at}]
  <2>1. r \in Buffers /\ r.added = e.added
    BY <1>1 DEF Buffers
  <2>2. RedoDelete(e, c) = UpdateFields(HandleAttributeDeleted(r, c.field), columns)
    BY <1>3 DEF RedoDelete
  <2> HIDE DEF r
  <2>3. Size(r) = Size(e) /\ Size(e) = Size(e) + Gain(c)
    BY <1>1, <1>3, <2>1 DEF Size, Gain
  <2> QED BY <1>1, <1>2, <2>1, <2>2, <2>3
<1>4. CASE c.from = "edit" /\ c.at \notin DOMAIN e.added
  BY <1>4, UndefinedIsGood DEF RedoDelete
<1>5. CASE c.from = "edit" /\ c.at \in DOMAIN e.added
  <2> DEFINE r == [e EXCEPT !.added = RemoveAt(@, c.at)]
  <2>1. RemoveAt(e.added, c.at) \in Seq(Names) /\ Len(RemoveAt(e.added, c.at)) = Len(e.added) - 1
    <3>1. c.at \in 1 .. Len(e.added)
      BY <1>1, <1>5
    <3> QED BY <1>1, <3>1, Removed
  <2>2. r \in Buffers /\ r.added = RemoveAt(e.added, c.at)
    BY <1>1, <2>1 DEF Buffers
  <2>3. RedoDelete(e, c) = UpdateFields(HandleAttributeDeleted(r, c.field), columns)
    BY <1>5 DEF RedoDelete
  <2> HIDE DEF r
  <2>4. Size(r) = Size(e) + Gain(c) /\ Size(r) <= MaxFields
    <3>1. Gain(c) = -1
      BY <1>1, <1>5 DEF Gain
    <3>2. Size(r) = Len(columns) + (Len(e.added) - 1) /\ Size(e) = Len(columns) + Len(e.added)
      BY <2>1, <2>2 DEF Size
    <3>3. Len(columns) \in Nat /\ Len(e.added) \in Nat /\ MaxFields \in Nat /\ Size(e) <= MaxFields
      BY <1>1, Bounds
    <3> HIDE DEF Size, Gain
    <3> QED BY <3>1, <3>2, <3>3
  <2> QED BY <1>2, <2>2, <2>3, <2>4
<1> QED BY <1>1, <1>3, <1>4, <1>5

\* Values put back when a deletion is undone.
LEMMA RestoredIsGood ==
    ASSUME NEW c \in Deletions, NEW e, Good(e)
    PROVE  Good(Restored(e, c)) /\ Size(Restored(e, c)) = Size(e)
<1> DEFINE features == [f \in Fids |->
                  IF e.features[f] = None \/ c.field \notin DOMAIN e.features[f] THEN e.features[f]
                  ELSE [e.features[f] EXCEPT ![c.field] = IF c.values[f] = None THEN Null ELSE c.values[f]]]
           changed == [f \in Fids |->
                  IF IsNew(f) \/ c.values[f] = None THEN e.changed[f]
                  ELSE [e.changed[f] EXCEPT ![c.field] = c.values[f]]]
           d == Restored(e, c)
<1>1. e \in Buffers /\ c.field \in Index /\ c.values \in [Fids -> Entry]
  BY DEF Good, Deletions
<1>2. d = [e EXCEPT !.features = features, !.changed = changed]
  BY DEF Restored
<1>3. features \in [Fids -> Seq(Value) \union {None}]
  <2>1. ASSUME NEW f \in Fids
        PROVE  (IF e.features[f] = None \/ c.field \notin DOMAIN e.features[f] THEN e.features[f]
                ELSE [e.features[f] EXCEPT ![c.field] = IF c.values[f] = None THEN Null ELSE c.values[f]])
                  \in Seq(Value) \union {None}
    <3> DEFINE x == IF c.values[f] = None THEN Null ELSE c.values[f]
               s == e.features[f]
    <3>1. s \in Seq(Value) \union {None}
      BY <1>1 DEF Buffers
    <3>2. x \in Value
      <4>1. c.values[f] \in Entry
        BY <1>1
      <4> QED BY <4>1 DEF Entry, Value
    <3> HIDE DEF x, s
    <3>3. CASE s # None /\ c.field \in DOMAIN s
      <4>1. s \in Seq(Value) /\ c.field \in 1 .. Len(s)
        BY <3>1, <3>3
      <4>2. [s EXCEPT ![c.field] = x] \in Seq(Value)
        BY <3>2, <4>1, ExceptSeq
      <4> QED BY <3>3, <4>2 DEF s, x
    <3>4. CASE ~(s # None /\ c.field \in DOMAIN s)
      BY <3>1, <3>4 DEF s
    <3> QED BY <3>3, <3>4
  <2> QED BY <2>1
<1>4. changed \in [Fids -> [Index -> Entry]]
  <2>1. ASSUME NEW f \in Fids
        PROVE  (IF IsNew(f) \/ c.values[f] = None THEN e.changed[f]
                ELSE [e.changed[f] EXCEPT ![c.field] = c.values[f]]) \in [Index -> Entry]
    <3>1. e.changed[f] \in [Index -> Entry] /\ c.values[f] \in Entry
      BY <1>1 DEF Buffers
    <3> QED BY <3>1
  <2> QED BY <2>1
<1> HIDE DEF features, changed, d
<1>5. /\ d \in Buffers /\ d.added = e.added /\ d.deleted = e.deleted
      /\ d.renamed = e.renamed /\ d.fields = e.fields /\ d.undefined = e.undefined
  BY <1>1, <1>2, <1>3, <1>4 DEF Buffers
<1>6. Good(d) /\ Size(d) = Size(e)
  BY <1>5, GoodValues
<1> QED BY <1>6 DEF d

\* Undoing the deletion of a field.
LEMMA UndoDeleteCommand ==
    ASSUME NEW c \in Deletions, NEW e, Good(e), columns \in Seq(Names), MaxCmds # 0,
           Size(e) - Gain(c) <= MaxFields
    PROVE  Good(UndoDelete(e, c)) /\ Size(UndoDelete(e, c)) = Size(e) - Gain(c)
<1>1. e \in Buffers /\ Size(e) <= MaxFields /\ c.field \in Index /\ c.at \in Index /\ c.op = "delete"
      /\ e.added \in Seq(Names) /\ Len(e.added) \in Nat /\ Len(columns) \in Nat /\ e.deleted \subseteq Index
      /\ c.from \in {"provider", "edit"} /\ c.old \in Name /\ (c.from = "edit" => c.name \in Names)
  BY DEF Good, Deletions, Buffers
<1> DEFINE back == IF c.from = "provider" THEN [e EXCEPT !.deleted = @ \ {c.at}]
                   ELSE [e EXCEPT !.added = InsertAt(@, IF c.at > Len(@) THEN Len(@) + 1 ELSE c.at, c.name)]
           shifted == HandleAttributeAdded(UpdateFields(back, columns), c.field)
           renamed == [shifted EXCEPT !.renamed[c.field] = c.old]
           named == IF c.old = None THEN shifted ELSE UpdateFields(renamed, columns)
<1>2. back \in Buffers /\ Size(back) = Size(e) - Gain(c)
  <2>1. CASE c.from = "provider"
    <3>1. back \in Buffers /\ back.added = e.added
      BY <1>1, <2>1 DEF Buffers
    <3>2. Gain(c) = 0
      BY <1>1, <2>1 DEF Gain
    <3> HIDE DEF back
    <3> QED BY <1>1, <3>1, <3>2 DEF Size
  <2>2. CASE c.from = "edit"
    <3> DEFINE i == IF c.at > Len(e.added) THEN Len(e.added) + 1 ELSE c.at
    <3>1. i \in 1 .. Len(e.added) + 1
      BY <1>1, Bounds
    <3>2. back = [e EXCEPT !.added = InsertAt(e.added, i, c.name)]
      BY <1>1, <2>2 DEF Buffers
    <3> HIDE DEF back, i
    <3>3. InsertAt(e.added, i, c.name) \in Seq(Names) /\ Len(InsertAt(e.added, i, c.name)) = Len(e.added) + 1
      <4>1. e.added \in Seq(Names) /\ c.name \in Names
        BY <1>1, <2>2
      <4> QED BY <3>1, <4>1, Inserted
    <3>4. back \in Buffers /\ back.added = InsertAt(e.added, i, c.name)
      BY <1>1, <3>2, <3>3 DEF Buffers
    <3>5. Gain(c) = -1
      BY <1>1, <2>2 DEF Gain
    <3>6. Len(back.added) = Len(e.added) + 1
      BY <3>3, <3>4
    <3> QED BY <1>1, <3>4, <3>5, <3>6 DEF Size
  <2> QED BY <1>1, <2>1, <2>2
<1> HIDE DEF back
<1>3. Good(shifted) /\ Size(shifted) = Size(back)
  BY <1>1, <1>2, AddedIsFresh
<1> HIDE DEF shifted
<1>4. Good(named) /\ Size(named) = Size(back)
  <2>1. CASE c.old = None
    BY <1>3, <2>1
  <2>2. CASE c.old # None
    <3>1. renamed \in Buffers /\ renamed.added = shifted.added
      BY <1>1, <1>3 DEF Good, Buffers
    <3> HIDE DEF renamed
    <3>2. Size(renamed) = Size(shifted) /\ Size(renamed) <= MaxFields
      BY <1>3, <3>1 DEF Size, Good
    <3>3. Good(UpdateFields(renamed, columns)) /\ Size(UpdateFields(renamed, columns)) = Size(renamed)
      BY <3>1, <3>2, UpdatedIsFresh
    <3> QED BY <1>3, <2>2, <3>2, <3>3
  <2> QED BY <2>1, <2>2
<1>5. UndoDelete(e, c) = Restored(named, c)
  BY DEF UndoDelete, back, shifted
<1> HIDE DEF named
<1> QED BY <1>2, <1>4, <1>5, RestoredIsGood

\* What redo() and undo() do to the buffer, and to the number of its fields.
LEMMA RedoIsGood ==
    ASSUME NEW c \in Commands, NEW e, Good(e), columns \in Seq(Names), MaxCmds # 0,
           Size(e) + Gain(c) <= MaxFields
    PROVE  Good(Redo(e, c)) /\ (Redo(e, c).undefined \/ Size(Redo(e, c)) = Size(e) + Gain(c))
<1>1. Size(e) \in Int
  <2>1. e.added \in Seq(Names)
    BY DEF Good, Buffers
  <2> QED BY <2>1 DEF Size
<1>2. CASE c.op = "feature"
  <2>1. Redo(e, c) = RedoAddFeature(e, c) /\ Gain(c) = 0 /\ c \in Features
    BY <1>2, CommandKinds DEF Redo, Gain
  <2> QED BY <1>1, <2>1, FeatureCommand
<1>3. CASE c.op = "change"
  <2>1. Redo(e, c) = RedoChange(e, c) /\ Gain(c) = 0 /\ c \in Changes
    BY <1>3, CommandKinds DEF Redo, Gain
  <2> QED BY <1>1, <2>1, ChangeCommand
<1>4. CASE c.op = "add"
  <2>1. Redo(e, c) = RedoAdd(e, c) /\ Gain(c) = 1 /\ c \in Additions
    BY <1>4, CommandKinds DEF Redo, Gain
  <2> QED BY <1>1, <2>1, AddCommand
<1>5. CASE c.op = "delete"
  <2>1. Redo(e, c) = RedoDelete(e, c) /\ c \in Deletions
    BY <1>5, CommandKinds DEF Redo
  <2> QED BY <2>1, RedoDeleteCommand
<1>6. CASE c.op = "rename"
  <2>1. Redo(e, c) = RedoRename(e, c) /\ Gain(c) = 0 /\ c \in Renamings
    BY <1>6, CommandKinds DEF Redo, Gain
  <2> QED BY <1>1, <2>1, RenameCommand
<1> QED BY <1>2, <1>3, <1>4, <1>5, <1>6, CommandKinds

\* undo() of every command, if the field it may bring back fits.
LEMMA UndoIsGood ==
    ASSUME NEW c \in Commands, NEW e, Good(e), columns \in Seq(Names), MaxCmds # 0,
           OldValue(c), Size(e) - Gain(c) <= MaxFields
    PROVE  Good(Undo(e, c)) /\ (Undo(e, c).undefined \/ Size(Undo(e, c)) = Size(e) - Gain(c))
<1>1. Size(e) \in Int
  <2>1. e.added \in Seq(Names)
    BY DEF Good, Buffers
  <2> QED BY <2>1 DEF Size
<1>2. CASE c.op = "feature"
  <2>1. Undo(e, c) = UndoAddFeature(e, c) /\ Gain(c) = 0 /\ c \in Features
    BY <1>2, CommandKinds DEF Undo, Gain
  <2> QED BY <1>1, <2>1, FeatureCommand
<1>3. CASE c.op = "change"
  <2>1. Undo(e, c) = UndoChange(e, c) /\ Gain(c) = 0 /\ c \in Changes
    BY <1>3, CommandKinds DEF Undo, Gain
  <2> QED BY <1>1, <2>1, ChangeCommand
<1>4. CASE c.op = "add"
  <2>1. Undo(e, c) = UndoAdd(e, c) /\ Gain(c) = 1 /\ c \in Additions
    BY <1>4, CommandKinds DEF Undo, Gain
  <2> QED BY <1>1, <2>1, AddCommand
<1>5. CASE c.op = "delete"
  <2>1. Undo(e, c) = UndoDelete(e, c) /\ c \in Deletions
    BY <1>5, CommandKinds DEF Undo
  <2> QED BY <2>1, UndoDeleteCommand
<1>6. CASE c.op = "rename"
  <2>1. Undo(e, c) = UndoRename(e, c) /\ Gain(c) = 0 /\ c \in Renamings
    BY <1>6, CommandKinds DEF Undo, Gain
  <2> QED BY <1>1, <2>1, RenameCommand
<1> QED BY <1>2, <1>3, <1>4, <1>5, <1>6, CommandKinds

-----------------------------------------------------------------------------
(* Outside a commit. *)

\* A phase is a stage of a commit, or not.
LEMMA Phases ==
    /\ \A p \in {"closed", "editing", "rollback"} : p \notin Stages
    /\ \A p \in Stages : p \notin {"closed", "editing", "rollback"}
BY DEF Stages

\* What must be shown of a step that edits, undoes or redoes.
LEMMA Moved ==
    ASSUME IInv, phase \notin Stages,
           columns' = columns, rows' = rows, phase' = phase, ok' = ok, changes' = changes,
           Good(ed'), exact' \in BOOLEAN,
           cmds' \in Seq(Commands), Len(cmds') <= MaxCmds, index' \in 0 .. Len(cmds'),
           hist' \in Seq(Contents(hist')), Len(hist') = Len(cmds') + 1,
           ed'.undefined \/ \E s : Sums(s)',
           \A k \in 1 .. Len(cmds') : OldValue(cmds'[k])
    PROVE  IInv'
<1>1. Types /\ ok /\ changes = {}
  BY DEF IInv, AtRest
<1>2. /\ ed' \in Buffers /\ Size(ed)' <= MaxFields /\ Len(ed'.fields) <= MaxFields
      /\ ed'.undefined \/ Fresh(ed)'
  BY DEF Good, Size, Fresh, NoneRenamed
<1>3. Types'
  BY <1>1, <1>2 DEF Types
<1>4. Sizes'
  BY <1>2 DEF Sizes
<1>5. OldValues'
  BY DEF OldValues, OldValue, IsNew
<1>6. AtRest'
  BY <1>1, <1>2 DEF AtRest
<1>7. Inexact' /\ Snapshot' /\ Pending' /\ Matched'
  BY <1>1 DEF Inexact, Snapshot, Pending, Matched, Stages
<1> QED BY <1>3, <1>4, <1>5, <1>6, <1>7 DEF IInv

\* What is known there.
LEMMA Rest ==
    ASSUME IInv, phase \notin Stages, ~ed.undefined
    PROVE  /\ Types /\ Good(ed) /\ ok /\ changes = {}
           /\ \E s : Sums(s)
           /\ \A k \in 1 .. Len(cmds) : OldValue(cmds[k])
           /\ Size(ed) \in Int
           /\ columns \in Seq(Names) /\ ed \in Buffers /\ cmds \in Seq(Commands) /\ Len(cmds) \in Nat
           /\ index \in 0 .. Len(cmds) /\ Len(hist) = Len(cmds) + 1 /\ MaxFields \in Nat /\ MaxCmds \in Nat
<1>1. Types /\ Sizes /\ OldValues /\ AtRest
  BY DEF IInv
<1>2. Good(ed) /\ ok /\ changes = {}
  BY <1>1 DEF Types, AtRest, Good
<1>3. \E s : Sums(s)
  BY <1>1 DEF Sizes
<1>4. \A k \in 1 .. Len(cmds) : OldValue(cmds[k])
  BY <1>1 DEF OldValues, Stages
<1>5. Size(ed) \in Int
  <2>1. columns \in Seq(Names) /\ ed.added \in Seq(Names)
    BY <1>1 DEF Types, Buffers
  <2> QED BY <2>1 DEF Size
<1>6. /\ columns \in Seq(Names) /\ ed \in Buffers /\ cmds \in Seq(Commands) /\ Len(cmds) \in Nat
      /\ index \in 0 .. Len(cmds) /\ Len(hist) = Len(cmds) + 1
  BY <1>1 DEF Types
<1> QED BY <1>1, <1>2, <1>3, <1>4, <1>5, <1>6, Bounds

\* There is room for what undo and redo lead to.
LEMMA StepFits ==
    ASSUME IInv, phase \notin Stages, ~ed.undefined, NEW i \in 1 .. Len(cmds)
    PROVE  /\ cmds[i] \in Commands /\ OldValue(cmds[i])
           /\ index = i => Size(ed) - Gain(cmds[i]) <= MaxFields
           /\ index = i - 1 => Size(ed) + Gain(cmds[i]) <= MaxFields
<1>1. PICK s : Sums(s)
  BY Rest
<1>2. /\ Size(ed) \in Int /\ MaxFields \in Int /\ Len(cmds) \in Nat
      /\ cmds[i] \in Commands /\ OldValue(cmds[i])
  BY Rest, ElementOfSeq
<1> DEFINE j == i - 1
           g == Gain(cmds[i])
<1>3. i \in 0 .. Len(cmds) /\ j \in 0 .. Len(cmds) /\ i \in Int
  BY <1>2
<1>4. g \in Int
  BY DEF Gain
<1>5. s[i] = s[j] + g
  BY <1>1 DEF Sums
<1> HIDE DEF g
<1>6. s[i] \in Int /\ s[j] \in Int
  <2> HIDE DEF j
  <2> QED BY <1>1, <1>3 DEF Sums
<1>7. index = i => Size(ed) - g <= MaxFields
  <2>1. Size(ed) + s[j] - s[index] <= MaxFields
    BY <1>1, <1>3 DEF Sums
  <2> HIDE DEF j
  <2> QED BY <1>2, <1>4, <1>5, <1>6, <2>1
<1>8. index = j => Size(ed) + g <= MaxFields
  <2>1. Size(ed) + s[i] - s[index] <= MaxFields
    BY <1>1, <1>3 DEF Sums
  <2> HIDE DEF j
  <2> QED BY <1>2, <1>4, <1>5, <1>6, <2>1
<1> QED BY <1>2, <1>7, <1>8 DEF g

\* An undo.
LEMMA UndoKeeps ==
    ASSUME IInv, phase \notin Stages, ~ed.undefined, StepBack
    PROVE  IInv'
<1>1. /\ index > 0 /\ ed' = Undo(ed, cmds[index]) /\ index' = index - 1 /\ cmds' = cmds /\ hist' = hist
      /\ columns' = columns /\ rows' = rows /\ phase' = phase /\ ok' = ok /\ changes' = changes
      /\ exact' \in BOOLEAN
  <2>1. exact \in BOOLEAN
    BY DEF IInv, Types
  <2> QED BY <2>1 DEF StepBack, store, locals
<1> DEFINE c == cmds[index]
<1>2. index \in 1 .. Len(cmds) /\ c \in Commands /\ OldValue(c) /\ MaxCmds # 0
  <2>1. index \in 1 .. Len(cmds)
    BY <1>1, Rest
  <2>2. Len(cmds) <= MaxCmds
    BY DEF IInv, Types
  <2> QED BY <2>1, <2>2, Rest, ElementOfSeq
<1>3. PICK s : Sums(s)
  BY Rest
<1>4. s[index] = s[index - 1] + Gain(c) /\ s[index] \in Int /\ s[index - 1] \in Int
  <2> DEFINE j == index - 1
  <2>1. j \in 0 .. Len(cmds) /\ index \in 0 .. Len(cmds)
    BY <1>2, Rest
  <2>2. s[index] = s[index - 1] + Gain(c)
    BY <1>2, <1>3 DEF Sums
  <2> HIDE DEF j
  <2>3. s[index] \in Int /\ s[j] \in Int
    BY <1>3, <2>1 DEF Sums
  <2> QED BY <2>2, <2>3 DEF j
<1>5. Gain(c) \in Int
  BY DEF Gain
<1>6. Size(ed) - Gain(c) <= MaxFields
  BY <1>2, StepFits
<1>7. Good(ed') /\ (ed'.undefined \/ Size(ed') = Size(ed) - Gain(c))
  BY <1>1, <1>2, <1>6, Rest, UndoIsGood
<1>8. ed'.undefined \/ Sums(s)'
  <2>1. SUFFICES ASSUME ~ed'.undefined, NEW k \in 0 .. Len(cmds)
                 PROVE  Size(ed)' + s[k] - s[index - 1] <= MaxFields
    BY <1>1, <1>3 DEF Sums
  <2>2. Size(ed)' = Size(ed) - Gain(c)
    BY <1>1, <1>7, <2>1 DEF Size
  <2>3. Size(ed) + s[k] - s[index] <= MaxFields /\ s[k] \in Int
    BY <1>3 DEF Sums
  <2>4. Size(ed) \in Int /\ MaxFields \in Int
    BY Rest
  <2> HIDE DEF c
  <2> QED BY <1>4, <1>5, <2>2, <2>3, <2>4
<1>9. index' \in 0 .. Len(cmds')
  BY <1>1, <1>2, Rest
<1>10. /\ cmds' \in Seq(Commands) /\ Len(cmds') <= MaxCmds
       /\ hist' \in Seq(Contents(hist')) /\ Len(hist') = Len(cmds') + 1
  BY <1>1 DEF IInv, Types
<1>11. \A k \in 1 .. Len(cmds') : OldValue(cmds'[k])
  BY <1>1, Rest
<1>12. ed'.undefined \/ \E z : Sums(z)'
  BY <1>8
<1> QED BY <1>1, <1>7, <1>9, <1>10, <1>11, <1>12, Moved

\* A redo.
LEMMA RedoKeeps ==
    ASSUME IInv, RedoCommand
    PROVE  IInv'
<1>1. /\ phase = "editing" /\ ~ed.undefined /\ index < Len(cmds)
      /\ ed' = Redo(ed, cmds[index + 1]) /\ index' = index + 1 /\ cmds' = cmds /\ hist' = hist
      /\ columns' = columns /\ rows' = rows /\ phase' = phase /\ ok' = ok /\ changes' = changes
      /\ exact' \in BOOLEAN
  <2>1. exact \in BOOLEAN
    BY DEF IInv, Types
  <2> QED BY <2>1 DEF RedoCommand, Editing, store, locals
<1>2. phase \notin Stages
  BY <1>1, Phases
<1> DEFINE c == cmds[index + 1]
<1>3. index + 1 \in 1 .. Len(cmds) /\ c \in Commands /\ MaxCmds # 0
  <2>1. index + 1 \in 1 .. Len(cmds)
    BY <1>1, <1>2, Rest
  <2>2. Len(cmds) <= MaxCmds
    BY DEF IInv, Types
  <2> QED BY <1>1, <1>2, <2>1, <2>2, Rest, ElementOfSeq
<1>4. PICK s : Sums(s)
  BY <1>1, <1>2, Rest
<1>5. s[index + 1] = s[index] + Gain(c) /\ s[index] \in Int /\ s[index + 1] \in Int
  <2> DEFINE j == index + 1
  <2>1. j \in 1 .. Len(cmds) /\ j - 1 = index /\ j \in 0 .. Len(cmds) /\ index \in 0 .. Len(cmds)
    BY <1>1, <1>2, <1>3, Rest
  <2> HIDE DEF j
  <2>2. s[j] = s[j - 1] + Gain(cmds[j]) /\ s[index] \in Int /\ s[j] \in Int
    BY <1>4, <2>1 DEF Sums
  <2> QED BY <2>1, <2>2 DEF j
<1>6. Gain(c) \in Int
  BY DEF Gain
<1>7. Size(ed) + Gain(c) <= MaxFields
  <2> DEFINE i == index + 1
  <2>1. index = i - 1 /\ i \in 1 .. Len(cmds)
    BY <1>1, <1>2, <1>3, Rest
  <2> HIDE DEF i
  <2>2. index = i - 1 => Size(ed) + Gain(cmds[i]) <= MaxFields
    BY <1>1, <1>2, <2>1, StepFits
  <2> QED BY <2>1, <2>2 DEF i
<1>8. Good(ed') /\ (ed'.undefined \/ Size(ed') = Size(ed) + Gain(c))
  BY <1>1, <1>2, <1>3, <1>7, Rest, RedoIsGood
<1>9. ed'.undefined \/ Sums(s)'
  <2>1. SUFFICES ASSUME ~ed'.undefined, NEW k \in 0 .. Len(cmds)
                 PROVE  Size(ed)' + s[k] - s[index + 1] <= MaxFields
    BY <1>1, <1>4 DEF Sums
  <2>2. Size(ed)' = Size(ed) + Gain(c)
    BY <1>1, <1>8, <2>1 DEF Size
  <2>3. Size(ed) + s[k] - s[index] <= MaxFields /\ s[k] \in Int
    BY <1>4 DEF Sums
  <2>4. Size(ed) \in Int /\ MaxFields \in Int
    BY <1>1, <1>2, Rest
  <2> HIDE DEF c
  <2> QED BY <1>5, <1>6, <2>2, <2>3, <2>4
<1>10. index' \in 0 .. Len(cmds')
  BY <1>1, <1>2, <1>3, Rest
<1>11. /\ cmds' \in Seq(Commands) /\ Len(cmds') <= MaxCmds
       /\ hist' \in Seq(Contents(hist')) /\ Len(hist') = Len(cmds') + 1
  BY <1>1 DEF IInv, Types
<1>12. \A k \in 1 .. Len(cmds') : OldValue(cmds'[k])
  BY <1>1, <1>2, Rest
<1>13. ed'.undefined \/ \E z : Sums(z)'
  BY <1>9
<1> QED BY <1>1, <1>2, <1>8, <1>10, <1>11, <1>12, <1>13, Moved

\* A sequence cut off after n entries, with one appended.
LEMMA CutAndAppended ==
    ASSUME NEW S, NEW s \in Seq(S), NEW n \in 0 .. Len(s), NEW x \in S
    PROVE  LET t == Append(SubSeq(s, 1, n), x)
           IN  /\ t \in Seq(S) /\ Len(t) = n + 1
               /\ \A k \in 1 .. n : t[k] = s[k]
               /\ t[n + 1] = x
<1> DEFINE cut == SubSeq(s, 1, n)
<1>1. \A k \in 1 .. n : s[k] \in S
  <2>1. \A k \in 1 .. n : k \in 1 .. Len(s)
    OBVIOUS
  <2> QED BY <2>1, ElementOfSeq
<1>2. n \in Int /\ 1 \in Int /\ n \in Nat
  OBVIOUS
<1>3. /\ SubSeq(s, 1, n) \in Seq(S) /\ Len(SubSeq(s, 1, n)) = IF 1 <= n THEN n - 1 + 1 ELSE 0
      /\ \A k \in 1 .. n - 1 + 1 : SubSeq(s, 1, n)[k] = s[1 + k - 1]
  BY <1>1, <1>2, SubSeqProperties
<1>4. cut \in Seq(S) /\ Len(cut) = n /\ \A k \in 1 .. n : cut[k] = s[k]
  <2>1. n - 1 + 1 = n /\ \A k \in 1 .. n : 1 + k - 1 = k
    BY <1>2
  <2> QED BY <1>2, <1>3, <2>1
<1> HIDE DEF cut
<1>5. /\ Append(cut, x) \in Seq(S) /\ Len(Append(cut, x)) = Len(cut) + 1
      /\ \A k \in 1 .. Len(cut) : Append(cut, x)[k] = cut[k]
      /\ Append(cut, x)[Len(cut) + 1] = x
  BY <1>4, AppendProperties
<1> QED BY <1>4, <1>5 DEF cut

\* A new command that is typed and fits.
LEMMA PushKeeps ==
    ASSUME IInv, Editing, NEW c \in Commands, OldValue(c), Size(ed) + Gain(c) <= MaxFields, Push(c)
    PROVE  IInv'
<1>1. /\ phase = "editing" /\ ~ed.undefined /\ index < MaxCmds
      /\ ed' = Redo(ed, c) /\ index' = index + 1 /\ cmds' = Append(SubSeq(cmds, 1, index), c)
      /\ hist' = Append(SubSeq(hist, 1, index + 1), Table(ed'))
      /\ columns' = columns /\ rows' = rows /\ phase' = phase /\ ok' = ok /\ changes' = changes
      /\ exact' \in BOOLEAN
  <2>1. exact \in BOOLEAN
    BY DEF IInv, Types
  <2> QED BY <2>1 DEF Push, Editing, store, locals
<1>2. phase \notin Stages
  BY <1>1, Phases
<1>3. /\ cmds' \in Seq(Commands) /\ Len(cmds') = index + 1
      /\ \A k \in 1 .. index : cmds'[k] = cmds[k]
      /\ cmds'[index + 1] = c
  BY <1>1, <1>2, Rest, CutAndAppended
<1>4. hist' \in Seq(Contents(hist')) /\ Len(hist') = index + 2
  <2> DEFINE x == Table(ed')
             S == Contents(hist) \union {x}
  <2>1. hist \in Seq(Contents(hist)) /\ Len(hist) = Len(cmds) + 1
    BY DEF IInv, Types
  <2>2. hist \in Seq(S) /\ x \in S
    BY <2>1, SeqMonotonic
  <2>3. index + 1 \in 0 .. Len(hist)
    BY <1>1, <1>2, <2>1, Rest
  <2> HIDE DEF x, S
  <2>4. Append(SubSeq(hist, 1, index + 1), x) \in Seq(S)
        /\ Len(Append(SubSeq(hist, 1, index + 1), x)) = index + 1 + 1
    BY <2>2, <2>3, CutAndAppended
  <2>5. hist' \in Seq(S) /\ Len(hist') = index + 2
    BY <1>1, <1>2, <2>4, Rest DEF x
  <2>6. \A k \in 1 .. Len(hist') : hist'[k] \in Contents(hist')
    BY <2>5 DEF Contents
  <2>7. hist' \in [1 .. Len(hist') -> Contents(hist')] /\ Len(hist') \in Nat
    BY <2>5, <2>6
  <2> QED BY <2>5, <2>7
<1>5. Gain(c) \in Int
  BY DEF Gain
<1>6. MaxCmds # 0 /\ index \in Nat /\ Len(cmds') <= MaxCmds
  BY <1>1, <1>2, <1>3, Rest
<1>7. Good(ed') /\ (ed'.undefined \/ Size(ed') = Size(ed) + Gain(c))
  BY <1>1, <1>2, <1>6, Rest, RedoIsGood
<1>8. PICK s : Sums(s)
  BY <1>1, <1>2, Rest
<1> DEFINE sums == [k \in 0 .. index + 1 |-> IF k <= index THEN s[k] ELSE s[index] + Gain(c)]
<1>t. PICK t : t = sums
  OBVIOUS
<1>9. ASSUME ~ed'.undefined PROVE Sums(t)'
  <2>1. /\ \A k \in 0 .. Len(cmds) : s[k] \in Int /\ Size(ed) + s[k] - s[index] <= MaxFields
        /\ \A k \in 1 .. Len(cmds) : s[k] = s[k - 1] + Gain(cmds[k])
    BY <1>8 DEF Sums
  <2>2. index \in 0 .. Len(cmds) /\ Len(cmds) \in Nat /\ MaxFields \in Nat /\ Size(ed) \in Int
    BY <1>1, <1>2, Rest
  <2>3. /\ \A k \in 0 .. index : k \in 0 .. Len(cmds) /\ t[k] = s[k] /\ t[k] \in Int
        /\ t[index + 1] = s[index] + Gain(c) /\ t[index + 1] \in Int
    BY <1>5, <1>t, <2>1, <2>2
  <2>4. \A k \in 0 .. index + 1 : k \in 0 .. index \/ k = index + 1
    BY <2>2
  <2>5. t \in [0 .. index + 1 -> Int]
    BY <1>t, <2>3, <2>4
  <2> HIDE DEF sums
  <2>6. ASSUME NEW k \in 1 .. index + 1 PROVE t[k] = t[k - 1] + Gain(cmds'[k])
    <3>1. CASE k = index + 1
      <4>1. k - 1 = index /\ index \in 0 .. index
        BY <2>2, <3>1
      <4> QED BY <1>3, <2>3, <3>1, <4>1
    <3>2. CASE k # index + 1
      <4>1. k \in 1 .. index /\ k \in 0 .. index /\ k - 1 \in 0 .. index /\ k \in 1 .. Len(cmds)
        BY <2>2, <3>2
      <4>2. cmds'[k] = cmds[k] /\ s[k] = s[k - 1] + Gain(cmds[k])
        BY <1>3, <2>1, <4>1
      <4> QED BY <2>3, <4>1, <4>2
    <3> QED BY <3>1, <3>2
  <2>7. Size(ed)' = Size(ed) + Gain(c)
    BY <1>1, <1>7, <1>9 DEF Size
  <2>8. ASSUME NEW k \in 0 .. index + 1 PROVE Size(ed)' + t[k] - t[index + 1] <= MaxFields
    <3>1. s[index] \in Int
      BY <2>1, <2>2
    <3>2. CASE k = index + 1
      BY <1>5, <2>2, <2>3, <2>7, <3>2
    <3>3. CASE k \in 0 .. index
      <4>1. t[k] = s[k] /\ s[k] \in Int /\ Size(ed) + s[k] - s[index] <= MaxFields
        BY <2>1, <2>3, <3>3
      <4> QED BY <1>5, <2>2, <2>3, <2>7, <3>1, <4>1
    <3> QED BY <2>4, <3>2, <3>3
  <2>9. \A k \in 0 .. Len(cmds') : Size(ed)' + t[k] - t[index'] <= MaxFields
    BY <1>1, <1>3, <2>8
  <2>10. \A k \in 1 .. Len(cmds') : t[k] = t[k - 1] + Gain(cmds'[k])
    BY <1>3, <2>6
  <2>11. t \in [0 .. Len(cmds') -> Int]
    BY <1>3, <2>5
  <2> QED BY <2>9, <2>10, <2>11 DEF Sums
<1>10. ed'.undefined \/ \E z : Sums(z)'
  <2> HIDE DEF sums
  <2> QED BY <1>9
<1>11. \A k \in 1 .. Len(cmds') : OldValue(cmds'[k])
  <2>1. \A k \in 1 .. index + 1 : k = index + 1 \/ (k \in 1 .. index /\ k \in 1 .. Len(cmds))
    BY <1>1, <1>2, Rest
  <2> QED BY <1>1, <1>2, <1>3, <2>1, Rest
<1>12. index' \in 0 .. Len(cmds') /\ Len(hist') = Len(cmds') + 1
  BY <1>1, <1>3, <1>4, <1>6
<1> QED BY <1>1, <1>2, <1>3, <1>4, <1>6, <1>7, <1>10, <1>11, <1>12, Moved

-----------------------------------------------------------------------------
(* What users find. *)

\* The fields of the layer while it is edited.
LEMMA FieldType ==
    ASSUME IInv, Editing
    PROVE  /\ phase \notin Stages /\ Types /\ ed \in Buffers
           /\ Len(ed.fields) \in Nat /\ Len(ed.fields) <= MaxFields
           /\ \A i \in DOMAIN ed.fields : i \in Index /\ ed.fields[i] \in FieldRecords
<1>1. phase = "editing" /\ ~ed.undefined /\ phase \notin Stages
  BY Phases DEF Editing
<1>2. Types
  BY DEF IInv
<1>3. ed \in Buffers /\ Len(ed.fields) <= MaxFields
  BY <1>2 DEF Types
<1>4. ed.fields \in Seq(FieldRecords)
  BY <1>3 DEF Buffers
<1>5. Len(ed.fields) \in Nat /\ DOMAIN ed.fields = 1 .. Len(ed.fields)
  BY <1>4
<1>6. \A i \in 1 .. Len(ed.fields) : i \in Index
  BY <1>3, <1>5, Bounds
<1>7. \A i \in 1 .. Len(ed.fields) : ed.fields[i] \in FieldRecords
  BY <1>4, ElementOfSeq
<1> QED BY <1>1, <1>2, <1>3, <1>5, <1>6, <1>7

-----------------------------------------------------------------------------
(* The start and the end of a session. *)

\* The sums of what commands add still fit when there are no more fields than before.
LEMMA SumsKept ==
    ASSUME Types, NEW s, Sums(s), cmds' = cmds, index' = index,
           Size(ed)' \in Int, Size(ed)' <= Size(ed)
    PROVE  Sums(s)'
<1>1. Len(cmds) \in Nat /\ index \in 0 .. Len(cmds) /\ MaxFields \in Int
  BY Bounds DEF Types
<1>2. Size(ed) \in Int
  <2>1. columns \in Seq(Names) /\ ed.added \in Seq(Names)
    BY DEF Types, Buffers
  <2> QED BY <2>1 DEF Size
<1>3. s \in [0 .. Len(cmds) -> Int] /\ \A k \in 1 .. Len(cmds) : s[k] = s[k - 1] + Gain(cmds[k])
  BY DEF Sums
<1>4. ASSUME NEW k \in 0 .. Len(cmds)
      PROVE  Size(ed)' + s[k] - s[index] <= MaxFields
  <2>1. Size(ed) + s[k] - s[index] <= MaxFields
    BY DEF Sums
  <2>2. s[k] \in Int /\ s[index] \in Int
    BY <1>1, <1>3
  <2> QED BY <1>1, <1>2, <2>1, <2>2
<1> QED BY <1>3, <1>4 DEF Sums

\* Nothing but the phase changes.
LEMMA OnlyPhase ==
    ASSUME IInv, phase \notin Stages, phase' \notin Stages,
           UNCHANGED <<store, ed, stack, locals, commits, hist, exact>>
    PROVE  IInv'
<1>1. /\ columns' = columns /\ rows' = rows /\ ed' = ed /\ cmds' = cmds /\ index' = index
      /\ ok' = ok /\ changes' = changes /\ before' = before /\ hist' = hist /\ exact' = exact
  BY DEF store, stack, locals
<1>2. Types'
  BY <1>1 DEF IInv, Types, Size
<1>3. Sizes'
  BY <1>1 DEF IInv, Sizes, Sums, Size
<1>4. OldValues'
  BY <1>1 DEF IInv, OldValues, OldValue, IsNew
<1>5. AtRest' /\ Inexact'
  BY <1>1 DEF IInv, AtRest, Inexact, Fresh, NoneRenamed
<1>6. Snapshot' /\ Pending' /\ Matched'
  BY DEF Snapshot, Pending, Matched, Stages
<1> QED BY <1>2, <1>3, <1>4, <1>5, <1>6 DEF IInv

\* A buffer that was just made, on an empty stack.
JustOpened ==
    /\ columns \in Seq(Names) /\ Len(columns) <= MaxFields
    /\ rows \in [Fids -> Seq(Value) \union {None}]
    /\ \A f \in Fids : rows[f] # None => Len(rows[f]) = Len(columns)
    /\ ed = Opened(columns) /\ cmds = <<>> /\ index = 0 /\ phase = "closed"
    /\ ok = TRUE /\ changes = {} /\ exact \in BOOLEAN
    /\ Len(hist) = 1 /\ hist \in Seq(Contents(hist))

\* It satisfies the invariant.
LEMMA OpenedKeeps == JustOpened => IInv
<1> SUFFICES ASSUME JustOpened PROVE IInv
  OBVIOUS
<1> USE DEF JustOpened
<1>1. /\ ed \in Buffers /\ ed.added = <<>> /\ ed.deleted = {} /\ NoneRenamed(ed)
      /\ ~ed.undefined /\ Len(ed.fields) = Len(columns)
  BY OpenedType
<1>2. Size(ed) = Len(columns) /\ Len(columns) \in Nat /\ MaxCmds \in Nat /\ MaxFields \in Nat
  BY <1>1, Bounds DEF Size
<1>3. Fresh(ed)
  BY <1>1, NothingPending DEF Fresh
<1>4. Types
  <2>1. cmds \in Seq(Commands) /\ Len(cmds) = 0 /\ index \in 0 .. 0
    OBVIOUS
  <2> QED BY <1>1, <1>2, <2>1 DEF Types
<1>5. Sizes
  <2>1. PICK s : s = [k \in 0 .. 0 |-> 0]
    OBVIOUS
  <2>2. Len(cmds) = 0 /\ \A k \in 0 .. 0 : k = 0 /\ s[k] = 0
    BY <2>1
  <2>3. s \in [0 .. Len(cmds) -> Int] /\ \A k \in 1 .. Len(cmds) : FALSE
    BY <2>1, <2>2
  <2>4. \A k \in 0 .. Len(cmds) : Size(ed) + s[k] - s[index] <= MaxFields
    BY <1>2, <2>2
  <2>5. Sums(s)
    BY <2>3, <2>4 DEF Sums
  <2> QED BY <2>5 DEF Sizes
<1>6. OldValues
  BY DEF OldValues
<1>7. AtRest /\ Inexact /\ Snapshot /\ Pending /\ Matched
  BY <1>3 DEF AtRest, Inexact, Snapshot, Pending, Matched, Stages
<1> QED BY <1>4, <1>5, <1>6, <1>7 DEF IInv

\* A session ends when it is undone, and when all is stored.
LEMMA Ends ==
    ASSUME IInv, FinishRollBack \/ CommitSucceeds
    PROVE  Types /\ Close /\ ok' = TRUE /\ changes' = {}
<1>1. CASE FinishRollBack
  <2>1. phase \notin Stages /\ Close /\ ok' = ok /\ changes' = changes
    BY <1>1, Phases DEF FinishRollBack, locals
  <2>2. Types /\ ok /\ changes = {} /\ ok \in BOOLEAN
    BY <2>1 DEF IInv, AtRest, Types
  <2> QED BY <2>1, <2>2
<1>2. CASE CommitSucceeds
  BY <1>2 DEF CommitSucceeds, ResetLocals, IInv
<1> QED BY <1>1, <1>2

\* The history begins anew with the table that is shown.
LEMMA Closes ==
    ASSUME Types, Close, ok' = TRUE, changes' = {}
    PROVE  JustOpened' /\ (hist = <<Table(ed)>>)'
<1>1. /\ columns' = columns /\ rows' = rows /\ ed' = Opened(columns') /\ cmds' = <<>> /\ index' = 0
      /\ phase' = "closed" /\ hist' = <<Table(ed')>> /\ exact' \in BOOLEAN
  BY DEF Close, store, IsInjective
<1>2. hist' \in Seq(Contents(hist')) /\ Len(hist') = 1
  <2>1. PICK x : x = Table(ed')
    OBVIOUS
  <2>2. hist' = <<x>>
    BY <1>1, <2>1
  <2>3. Contents(<<x>>) = {x}
    BY DEF Contents
  <2> QED BY <2>2, <2>3
<1>3. /\ columns' \in Seq(Names) /\ rows' \in [Fids -> Seq(Value) \union {None}]
      /\ \A f \in Fids : rows'[f] # None => Len(rows'[f]) = Len(columns')
  BY <1>1 DEF Types
<1>4. Len(columns') <= MaxFields
  <2>1. columns \in Seq(Names) /\ ed.added \in Seq(Names) /\ Size(ed) <= MaxFields /\ MaxFields \in Nat
    BY Bounds DEF Types, Buffers
  <2>2. Len(columns) \in Nat /\ Len(ed.added) \in Nat
    BY <2>1
  <2> QED BY <1>1, <2>1, <2>2 DEF Size
<1>5. JustOpened'
  BY <1>1, <1>2, <1>3, <1>4 DEF JustOpened
<1>6. (hist = <<Table(ed)>>)'
  <2>1. PICK d : d = ed'
    OBVIOUS
  <2>2. Table(d)' = Table(d)
    BY <1>1 DEF Table, Shown, UpdatedAttributes, IsNew
  <2> QED BY <1>1, <2>1, <2>2
<1> QED BY <1>5, <1>6

\* The layer is opened.
LEMMA FirstKeeps ==
    ASSUME Init
    PROVE  IInv
<1>1. /\ columns = Columns /\ rows = Rows /\ ed = Opened(columns) /\ cmds = <<>> /\ index = 0
      /\ phase = "closed" /\ ok = TRUE /\ changes = {} /\ hist = <<Table(ed)>> /\ exact \in BOOLEAN
  BY DEF Init
<1>2. hist \in Seq(Contents(hist)) /\ Len(hist) = 1
  <2>1. PICK x : x = Table(ed)
    OBVIOUS
  <2>2. hist = <<x>>
    BY <1>1, <2>1
  <2>3. Contents(<<x>>) = {x}
    BY DEF Contents
  <2> QED BY <2>2, <2>3
<1>3. columns \in Seq(Names) /\ Len(columns) <= MaxFields /\ Len(columns) \in Nat
  BY <1>1, ColumnsAssumption, BoundsAssumption
<1>4. rows \in [Fids -> [1 .. Len(columns) -> Value] \union {None}]
  BY <1>1, RowsAssumption
<1>5. \A s \in [1 .. Len(columns) -> Value] : s \in Seq(Value) /\ Len(s) = Len(columns)
  BY <1>3
<1>6. /\ rows \in [Fids -> Seq(Value) \union {None}]
      /\ \A f \in Fids : rows[f] # None => Len(rows[f]) = Len(columns)
  BY <1>4, <1>5
<1>7. JustOpened
  BY <1>1, <1>2, <1>3, <1>6 DEF JustOpened
<1> QED BY <1>7, OpenedKeeps

\* A commit begins: nothing is stored yet, and oldFields is what the fields are.
LEMMA CommitKeeps ==
    ASSUME IInv, CommitChanges
    PROVE  IInv'
<1>1. /\ phase = "editing" /\ ~ed.undefined /\ phase' = "deletes" /\ before' = ed.fields
      /\ columns' = columns /\ rows' = rows /\ ed' = ed /\ cmds' = cmds /\ index' = index
      /\ ok' = ok /\ changes' = changes /\ hist' = hist /\ exact' = exact
  BY DEF CommitChanges, Editing, store, stack
<1>2. phase \notin Stages
  BY <1>1, Phases
<1>3. ok /\ changes = {} /\ Fresh(ed) /\ \E s : Sums(s)
  BY <1>1, <1>2 DEF IInv, AtRest, Sizes
<1>4. Types'
  BY <1>1 DEF IInv, Types, Size
<1>5. Sizes'
  BY <1>1, <1>3 DEF Sizes, Sums, Size
<1>6. OldValues'
  BY <1>1 DEF IInv, OldValues, OldValue, IsNew
<1>7. AtRest' /\ Inexact' /\ Pending' /\ Matched'
  BY <1>1, <1>3 DEF AtRest, Inexact, Pending, Matched, Stages
<1>8. Snapshot'
  BY <1>1, <1>3 DEF Snapshot, Fresh, NoneRenamed
<1> QED BY <1>4, <1>5, <1>6, <1>7, <1>8 DEF IInv

\* A commit that failed goes back to editing, with updated fields.
LEMMA FailKeeps ==
    ASSUME IInv, CommitFails
    PROVE  IInv'
<1>1. /\ phase = "finish" /\ ok' = TRUE /\ changes' = {} /\ ed' = UpdateFields(ed, columns)
      /\ phase' = "editing" /\ columns' = columns /\ rows' = rows /\ cmds' = cmds /\ index' = index
      /\ hist' = hist /\ exact' = exact
  BY DEF CommitFails, ResetLocals, store, stack
<1>2. Types /\ phase \in Stages /\ phase' \notin Stages
  BY <1>1, Phases DEF IInv, Stages
<1>3. /\ ed \in Buffers /\ columns \in Seq(Names) /\ Size(ed) <= MaxFields
  BY <1>2 DEF Types
<1>4. Good(ed') /\ Fresh(ed') /\ Size(ed') = Size(ed)
  BY <1>1, <1>3, UpdatedIsFresh
<1>5. Size(ed)' = Size(ed) /\ Size(ed) \in Int
  <2>1. ed.added \in Seq(Names)
    BY <1>3 DEF Buffers
  <2> QED BY <1>1, <1>3, <1>4, <2>1 DEF Size
<1>6. Types'
  <2>1. ed' \in Buffers /\ Len(ed'.fields) <= MaxFields /\ Size(ed)' <= MaxFields
    BY <1>3, <1>4, <1>5 DEF Good
  <2> QED BY <1>1, <1>2, <2>1 DEF Types
<1>7. Sizes'
  <2>1. PICK s : Sums(s)
    BY <1>2 DEF IInv, Sizes
  <2>2. Size(ed)' <= Size(ed)
    BY <1>5
  <2>3. Sums(s)'
    BY <1>1, <1>2, <1>5, <2>1, <2>2, SumsKept
  <2> QED BY <2>3 DEF Sizes
<1>8. OldValues'
  BY <1>1 DEF IInv, OldValues, OldValue, IsNew
<1>9. AtRest'
  BY <1>1, <1>4 DEF AtRest, Fresh, NoneRenamed
<1>10. Inexact' /\ Snapshot' /\ Pending' /\ Matched'
  BY <1>1, <1>2 DEF Inexact, Snapshot, Pending, Matched
<1> QED BY <1>6, <1>7, <1>8, <1>9, <1>10 DEF IInv

-----------------------------------------------------------------------------
(* The stages of a commit. *)

\* What is known in every stage.
LEMMA Underway ==
    ASSUME IInv, phase \in Stages
    PROVE  /\ Types /\ columns \in Seq(Names) /\ ed \in Buffers /\ ed.added \in Seq(Names)
           /\ Len(columns) \in Nat /\ DOMAIN columns = 1 .. Len(columns) /\ Len(ed.added) \in Nat
           /\ Size(ed) = Len(columns) + Len(ed.added) /\ Size(ed) <= MaxFields
           /\ MaxFields \in Nat /\ Len(columns) <= MaxFields /\ Len(ed.fields) <= MaxFields
           /\ rows \in [Fids -> Seq(Value) \union {None}]
           /\ \A f \in Fids : rows[f] # None => Len(rows[f]) = Len(columns)
           /\ ok \in BOOLEAN /\ exact \in BOOLEAN /\ changes \subseteq {"changed", "wrong"}
           /\ \A s \in Seq(Value) : s # None
<1>1. Types
  BY DEF IInv
<1>2. /\ columns \in Seq(Names) /\ ed \in Buffers /\ Size(ed) <= MaxFields /\ Len(ed.fields) <= MaxFields
      /\ rows \in [Fids -> Seq(Value) \union {None}]
      /\ \A f \in Fids : rows[f] # None => Len(rows[f]) = Len(columns)
      /\ ok \in BOOLEAN /\ exact \in BOOLEAN /\ changes \subseteq {"changed", "wrong"}
  BY <1>1 DEF Types
<1>3. ed.added \in Seq(Names)
  BY <1>2 DEF Buffers
<1>4. /\ Len(columns) \in Nat /\ DOMAIN columns = 1 .. Len(columns) /\ Len(ed.added) \in Nat
      /\ Size(ed) = Len(columns) + Len(ed.added) /\ MaxFields \in Nat
  BY <1>2, <1>3, Bounds DEF Size
<1>5. Len(columns) <= MaxFields
  BY <1>2, <1>4
<1>6. \A s \in Seq(Value) : s # None
  BY SentinelAssumption
<1> QED BY <1>1, <1>2, <1>3, <1>4, <1>5, <1>6

\* What must be shown of a stage apart from what its success means.
LEMMA StageKeeps ==
    ASSUME IInv, phase \in Stages, phase' \in Stages,
           cmds' = cmds, index' = index, hist' = hist,
           columns' \in Seq(Names), rows' \in [Fids -> Seq(Value) \union {None}],
           \A f \in Fids : rows'[f] # None => Len(rows'[f]) = Len(columns'),
           \A f \in Fids : rows'[f] = None => rows[f] = None,
           ed' \in Buffers, Len(ed'.fields) <= MaxFields, Size(ed') = Len(columns) + Len(ed'.added),
           Len(columns') + Len(ed'.added) <= Size(ed),
           ok' \in BOOLEAN, exact' \in BOOLEAN, changes' \subseteq {"changed", "wrong"}
    PROVE  Types' /\ Sizes' /\ OldValues' /\ AtRest'
<1>1. Types
  BY DEF IInv
<1>2. Size(ed)' \in Int /\ Size(ed)' <= Size(ed) /\ Size(ed)' <= MaxFields
  <2>1. ed'.added \in Seq(Names)
    BY DEF Buffers
  <2>2. Len(columns') \in Nat /\ Len(ed'.added) \in Nat
    BY <2>1
  <2>3. Size(ed)' = Len(columns') + Len(ed'.added)
    BY DEF Size
  <2>4. Size(ed) \in Int /\ Size(ed) <= MaxFields /\ MaxFields \in Int
    BY Underway
  <2> QED BY <2>2, <2>3, <2>4
<1>3. Types'
  BY <1>1, <1>2 DEF Types
<1>4. Sizes'
  <2>1. PICK s : Sums(s)
    BY DEF IInv, Sizes
  <2>2. Sums(s)'
    BY <1>1, <1>2, <2>1, SumsKept
  <2> QED BY <2>2 DEF Sizes
<1>5. OldValues'
  <2>1. SUFFICES ASSUME NEW k \in 1 .. Len(cmds) PROVE OldValue(cmds[k])'
    BY DEF OldValues
  <2>2. OldValue(cmds[k]) /\ cmds[k] \in Commands
    BY <1>1, ElementOfSeq DEF IInv, OldValues, Types
  <2>3. cmds[k].op = "change" => cmds[k].fid \in Fids
    BY <2>2, CommandKinds DEF Changes
  <2> QED BY <2>2, <2>3 DEF OldValue, IsNew
<1>6. AtRest'
  BY DEF AtRest
<1> QED BY <1>3, <1>4, <1>5, <1>6

\* A stage that stores nothing.
LEMMA NothingStored ==
    ASSUME IInv, phase \in Stages, phase' \in Stages, UNCHANGED <<store, ed, stack, hist>>,
           ok' \in BOOLEAN, exact' \in BOOLEAN, changes' \subseteq {"changed", "wrong"}
    PROVE  Types' /\ Sizes' /\ OldValues' /\ AtRest'
<1>1. columns' = columns /\ rows' = rows /\ ed' = ed /\ cmds' = cmds /\ index' = index /\ hist' = hist
  BY DEF store, stack
<1>2. /\ columns' \in Seq(Names) /\ rows' \in [Fids -> Seq(Value) \union {None}]
      /\ \A f \in Fids : rows'[f] # None => Len(rows'[f]) = Len(columns')
      /\ \A f \in Fids : rows'[f] = None => rows[f] = None
  BY <1>1, Underway
<1>3. /\ ed' \in Buffers /\ Len(ed'.fields) <= MaxFields /\ Size(ed') = Len(columns) + Len(ed'.added)
      /\ Len(columns') + Len(ed'.added) <= Size(ed)
  <2>1. Size(ed') = Size(ed) /\ Size(ed) = Len(columns) + Len(ed.added) /\ Size(ed) \in Int
    BY <1>1, Underway DEF Size
  <2> QED BY <1>1, <2>1, Underway
<1> QED BY <1>1, <1>2, <1>3, StageKeeps

\* A stage that is refused: the commit has failed, so that nothing is claimed of it.
LEMMA RefusedKeeps ==
    ASSUME IInv, phase \in Stages, phase' \in Stages, UNCHANGED <<store, ed, stack, hist>>,
           ok' = FALSE, exact' = FALSE, changes' = changes,
           "wrong" \in changes => phase' \in {"values", "features", "finish"}
    PROVE  IInv'
<1>1. Types' /\ Sizes' /\ OldValues' /\ AtRest'
  BY NothingStored, Underway
<1>2. Inexact' /\ Snapshot' /\ Pending' /\ Matched'
  BY DEF Inexact, Snapshot, Pending, Matched
<1> QED BY <1>1, <1>2 DEF IInv

\* A stage with nothing to do.
LEMMA SkippedKeeps ==
    ASSUME IInv, phase \in Stages, phase' \in Stages, UNCHANGED <<store, ed, stack, hist>>,
           UNCHANGED <<ok, changes, exact, before>>,
           "wrong" \in changes => phase' \in {"values", "features", "finish"},
           Pending', Matched'
    PROVE  IInv'
<1>1. /\ columns' = columns /\ rows' = rows /\ ed' = ed
      /\ ok' = ok /\ changes' = changes /\ exact' = exact /\ before' = before
  BY DEF store
<1>2. Types' /\ Sizes' /\ OldValues' /\ AtRest'
  <2>1. ok' \in BOOLEAN /\ exact' \in BOOLEAN /\ changes' \subseteq {"changed", "wrong"}
    BY <1>1, Underway
  <2> QED BY <2>1, NothingStored
<1>3. Inexact'
  BY <1>1 DEF IInv, Inexact
<1>4. Snapshot'
  BY <1>1 DEF IInv, Snapshot, NoneRenamed
<1> QED BY <1>2, <1>3, <1>4 DEF IInv

\* The fields of a provider with nothing pending have its names.
LEMMA NamesOfProvider ==
    ASSUME IInv, phase \in Stages, ed.deleted = {}, ed.added = <<>>, NoneRenamed(ed)
    PROVE  LET fields == UpdateFields(ed, columns).fields
           IN  columns = [i \in DOMAIN fields |-> fields[i].name]
<1>1. UpdateFields(ed, columns).fields = Opened(columns).fields
  BY Underway, NothingPending
<1>2. Opened(columns).fields = [i \in DOMAIN columns |-> [name |-> columns[i], from |-> "provider", at |-> i]]
  BY DEF Opened
<1>3. columns = [i \in DOMAIN columns |-> columns[i]]
  BY Underway
<1> QED BY <1>1, <1>2, <1>3

\* Deleted fields are committed.
LEMMA CommitDeletesKeeps ==
    ASSUME IInv, CommitDeletes
    PROVE  IInv'
<1>1. /\ phase = "deletes" /\ phase' = "adds" /\ UNCHANGED <<stack, before, commits, hist>>
      /\ phase \in Stages /\ phase' \in Stages
  BY DEF CommitDeletes, Stage, Stages
<1>2. "wrong" \notin changes
  BY <1>1 DEF IInv, Inexact
<1>3. CASE ed.deleted = {} /\ Skipped
  <2>1. Pending' /\ Matched'
    BY <1>1, <1>3 DEF Pending, Matched, Skipped
  <2> QED BY <1>1, <1>2, <1>3, <2>1, SkippedKeeps DEF Skipped
<1>4. CASE Refused
  BY <1>1, <1>2, <1>4, RefusedKeeps DEF Refused
<1> DEFINE kept == Sorted(DOMAIN columns \ ed.deleted)
           Drop(s) == [i \in DOMAIN kept |-> s[kept[i]]]
<1>5. CASE /\ columns' = Drop(columns)
           /\ rows' = [f \in Fids |-> IF rows[f] = None THEN None ELSE Drop(rows[f])]
           /\ ed' = [ed EXCEPT !.deleted = {}]
           /\ Stored
  <2>1. changes' = changes \union {"changed"} /\ ok' = ok /\ exact' = exact
    BY <1>5 DEF Stored
  <2>2. /\ Len(kept) \in Nat /\ Len(kept) <= Len(columns) /\ DOMAIN kept = 1 .. Len(kept)
        /\ \A k \in DOMAIN kept : kept[k] \in 1 .. Len(columns)
    <3> DEFINE ids == DOMAIN columns \ ed.deleted
    <3>1. ids \in SUBSET (1 .. Len(columns)) /\ Len(columns) \in Nat
      BY <1>1, Underway
    <3> HIDE DEF ids
    <3>2. /\ Len(Sorted(ids)) \in Nat /\ Len(Sorted(ids)) <= Len(columns)
          /\ DOMAIN Sorted(ids) = 1 .. Len(Sorted(ids))
          /\ \A k \in DOMAIN Sorted(ids) : Sorted(ids)[k] \in ids
      BY <3>1, SortedSome
    <3> QED BY <3>1, <3>2 DEF ids
  <2>3. PICK list : list = kept
    OBVIOUS
  <2>4. /\ columns' = [i \in 1 .. Len(list) |-> columns[list[i]]]
        /\ rows' = [f \in Fids |-> IF rows[f] = None THEN None ELSE [i \in 1 .. Len(list) |-> rows[f][list[i]]]]
    BY <1>5, <2>2, <2>3
  <2>5. Len(list) \in Nat /\ Len(list) <= Len(columns) /\ \A k \in 1 .. Len(list) : list[k] \in 1 .. Len(columns)
    BY <2>2, <2>3
  <2> HIDE DEF kept
  <2>6. columns' \in Seq(Names) /\ Len(columns') = Len(list)
    <3>1. \A k \in 1 .. Len(list) : columns[list[k]] \in Names
      BY <1>1, <2>5, Underway, ElementOfSeq
    <3> QED BY <2>4, <2>5, <3>1
  <2>7. ASSUME NEW f \in Fids, rows[f] # None
        PROVE  rows'[f] \in Seq(Value) /\ rows'[f] # None /\ Len(rows'[f]) = Len(columns')
    <3>1. rows[f] \in Seq(Value) /\ Len(rows[f]) = Len(columns)
      BY <1>1, <2>7, Underway
    <3>2. \A k \in 1 .. Len(list) : rows[f][list[k]] \in Value
      BY <2>5, <3>1, ElementOfSeq
    <3>3. rows'[f] = [i \in 1 .. Len(list) |-> rows[f][list[i]]]
      BY <2>4, <2>7
    <3>4. rows'[f] \in Seq(Value) /\ Len(rows'[f]) = Len(list)
      BY <2>5, <3>2, <3>3
    <3> QED BY <1>1, <2>6, <3>4, Underway
  <2>8. /\ rows' \in [Fids -> Seq(Value) \union {None}]
        /\ \A f \in Fids : rows'[f] # None => Len(rows'[f]) = Len(columns')
        /\ \A f \in Fids : rows'[f] = None => rows[f] = None
    <3>1. \A f \in Fids : rows[f] = None => rows'[f] = None
      BY <2>4
    <3>2. \A f \in Fids : rows'[f] \in Seq(Value) \union {None}
      BY <2>7, <3>1
    <3>3. rows' = [f \in Fids |-> rows'[f]]
      BY <2>4
    <3> QED BY <2>7, <3>1, <3>2, <3>3
  <2>9. /\ ed' \in Buffers /\ ed'.deleted = {} /\ ed'.added = ed.added /\ ed'.fields = ed.fields
    <3>1. {} \in SUBSET Index
      OBVIOUS
    <3> QED BY <1>1, <1>5, <3>1, Underway DEF Buffers
  <2>10. /\ Len(ed'.fields) <= MaxFields /\ Size(ed') = Len(columns) + Len(ed'.added)
         /\ Len(columns') + Len(ed'.added) <= Size(ed)
    BY <1>1, <2>5, <2>6, <2>9, Underway DEF Size
  <2>11. ok' \in BOOLEAN /\ exact' \in BOOLEAN /\ changes' \subseteq {"changed", "wrong"}
    BY <1>1, <2>1, Underway
  <2>12. cmds' = cmds /\ index' = index /\ hist' = hist
    BY <1>1 DEF stack
  <2>13. Types' /\ Sizes' /\ OldValues' /\ AtRest'
    BY <1>1, <2>6, <2>8, <2>9, <2>10, <2>11, <2>12, StageKeeps
  <2>14. Inexact'
    BY <1>2, <2>1 DEF IInv, Inexact
  <2>15. Snapshot' /\ Pending' /\ Matched'
    BY <1>1, <2>1, <2>9 DEF Snapshot, Pending, Matched
  <2> QED BY <2>13, <2>14, <2>15 DEF IInv
<1> QED BY <1>3, <1>4, <1>5 DEF CommitDeletes

\* Added fields are committed.
LEMMA CommitAddsKeeps ==
    ASSUME IInv, CommitAdds
    PROVE  IInv'
<1>1. /\ phase = "adds" /\ phase' = "renames" /\ UNCHANGED <<stack, before, commits, hist>>
      /\ phase \in Stages /\ phase' \in Stages
  BY DEF CommitAdds, Stage, Stages
<1>2. "wrong" \notin changes
  BY <1>1 DEF IInv, Inexact
<1>3. CASE ed.added = <<>> /\ Skipped
  <2>1. Pending' /\ Matched'
    BY <1>1, <1>3 DEF IInv, Pending, Matched, Skipped
  <2> QED BY <1>1, <1>2, <1>3, <2>1, SkippedKeeps DEF Skipped
<1>4. CASE Refused
  BY <1>1, <1>2, <1>4, RefusedKeeps DEF Refused
<1>5. CASE /\ columns' = columns \o ed.added
           /\ rows' = [f \in Fids |-> IF rows[f] = None THEN None
                                      ELSE rows[f] \o [i \in DOMAIN ed.added |-> Null]]
           /\ ed' = [ed EXCEPT !.added = <<>>]
           /\ Stored
  <2>1. changes' = changes \union {"changed"} /\ ok' = ok /\ exact' = exact
    BY <1>5 DEF Stored
  <2>2. columns' \in Seq(Names) /\ Len(columns') = Len(columns) + Len(ed.added)
    BY <1>1, <1>5, Underway, ConcatProperties
  <2> DEFINE nulls == [i \in DOMAIN ed.added |-> Null]
  <2>3. nulls \in Seq(Value) /\ Len(nulls) = Len(ed.added)
    <3>1. DOMAIN ed.added = 1 .. Len(ed.added) /\ Len(ed.added) \in Nat /\ Null \in Value
      BY <1>1, Underway DEF Value
    <3> QED BY <3>1
  <2>4. rows' = [f \in Fids |-> IF rows[f] = None THEN None ELSE rows[f] \o nulls]
    BY <1>5
  <2> HIDE DEF nulls
  <2>5. ASSUME NEW f \in Fids, rows[f] # None
        PROVE  rows'[f] \in Seq(Value) /\ rows'[f] # None /\ Len(rows'[f]) = Len(columns')
    <3>1. rows[f] \in Seq(Value) /\ Len(rows[f]) = Len(columns)
      BY <1>1, <2>5, Underway
    <3>2. rows'[f] = rows[f] \o nulls
      BY <2>4, <2>5
    <3>3. rows[f] \o nulls \in Seq(Value) /\ Len(rows[f] \o nulls) = Len(rows[f]) + Len(nulls)
      <4>1. PICK s : s = rows[f]
        OBVIOUS
      <4>2. s \in Seq(Value)
        BY <3>1, <4>1
      <4>3. s \o nulls \in Seq(Value) /\ Len(s \o nulls) = Len(s) + Len(nulls)
        BY <2>3, <4>2, ConcatProperties
      <4> QED BY <4>1, <4>3
    <3> QED BY <1>1, <2>2, <2>3, <3>1, <3>2, <3>3, Underway
  <2>6. /\ rows' \in [Fids -> Seq(Value) \union {None}]
        /\ \A f \in Fids : rows'[f] # None => Len(rows'[f]) = Len(columns')
        /\ \A f \in Fids : rows'[f] = None => rows[f] = None
    <3>1. \A f \in Fids : rows[f] = None => rows'[f] = None
      BY <2>4
    <3>2. \A f \in Fids : rows'[f] \in Seq(Value) \union {None}
      BY <2>5, <3>1
    <3>3. rows' = [f \in Fids |-> rows'[f]]
      BY <2>4
    <3> QED BY <2>5, <3>1, <3>2, <3>3
  <2>7. /\ ed' \in Buffers /\ ed'.deleted = ed.deleted /\ ed'.added = <<>> /\ ed'.fields = ed.fields
    <3>1. <<>> \in Seq(Names)
      OBVIOUS
    <3> QED BY <1>1, <1>5, <3>1, Underway DEF Buffers
  <2>8. /\ Len(ed'.fields) <= MaxFields /\ Size(ed') = Len(columns) + Len(ed'.added)
        /\ Len(columns') + Len(ed'.added) <= Size(ed)
    <3>1. Len(ed'.added) = 0
      BY <2>7
    <3> QED BY <1>1, <2>2, <2>7, <3>1, Underway DEF Size
  <2>9. ok' \in BOOLEAN /\ exact' \in BOOLEAN /\ changes' \subseteq {"changed", "wrong"}
    BY <1>1, <2>1, Underway
  <2>10. cmds' = cmds /\ index' = index /\ hist' = hist
    BY <1>1 DEF stack
  <2>11. Types' /\ Sizes' /\ OldValues' /\ AtRest'
    BY <1>1, <2>2, <2>6, <2>7, <2>8, <2>9, <2>10, StageKeeps
  <2>12. Inexact'
    BY <1>2, <2>1 DEF IInv, Inexact
  <2>13. Snapshot' /\ Pending' /\ Matched'
    BY <1>1, <2>1, <2>7 DEF IInv, Snapshot, Pending, Matched
  <2> QED BY <2>11, <2>12, <2>13 DEF IInv
<1> QED BY <1>3, <1>4, <1>5 DEF CommitAdds

\* Renamings are committed, some or all.
LEMMA CommitRenamesKeeps ==
    ASSUME IInv, CommitRenames
    PROVE  IInv'
<1>1. /\ phase = "renames" /\ phase' = "check" /\ UNCHANGED <<stack, before, commits, hist>>
      /\ phase \in Stages /\ phase' \in Stages
  BY DEF CommitRenames, Stage, Stages
<1>2. "wrong" \notin changes
  BY <1>1 DEF IInv, Inexact
<1> DEFINE keys == {i \in Index : ed.renamed[i] # None}
           valid == {i \in keys : i \in DOMAIN columns /\ ed.renamed[i] \notin Range(columns)}
<1>3. CASE keys = {} /\ Skipped
  <2>1. NoneRenamed(ed)
    BY <1>3 DEF NoneRenamed
  <2>2. Pending' /\ Matched'
    BY <1>1, <1>3, <2>1 DEF IInv, Pending, Matched, Skipped, NoneRenamed
  <2> QED BY <1>1, <1>2, <1>3, <2>2, SkippedKeeps DEF Skipped
<1>4. CASE Refused
  BY <1>1, <1>2, <1>4, RefusedKeeps DEF Refused
<1>5. CASE /\ columns' = [i \in DOMAIN columns |-> IF i \in valid THEN ed.renamed[i] ELSE columns[i]]
           /\ IF valid = keys
              THEN ed' = [ed EXCEPT !.renamed = [i \in Index |-> None]] /\ Stored
              ELSE ok' = FALSE /\ exact' = FALSE /\ UNCHANGED <<ed, changes>>
           /\ UNCHANGED rows
  <2>1. columns' \in Seq(Names) /\ Len(columns') = Len(columns)
    <3>1. ed.renamed \in [Index -> Name]
      BY <1>1, Underway DEF Buffers
    <3>2. ASSUME NEW i \in 1 .. Len(columns)
          PROVE  (IF i \in valid THEN ed.renamed[i] ELSE columns[i]) \in Names
      <4>1. columns[i] \in Names
        BY <1>1, Underway, ElementOfSeq
      <4>2. i \in valid => ed.renamed[i] \in Names
        BY <3>1 DEF Name
      <4> QED BY <4>1, <4>2
    <3> HIDE DEF valid
    <3>3. Len(columns) \in Nat /\ DOMAIN columns = 1 .. Len(columns)
      BY <1>1, Underway
    <3> QED BY <1>5, <3>2, <3>3
  <2>2. /\ rows' \in [Fids -> Seq(Value) \union {None}]
        /\ \A f \in Fids : rows'[f] # None => Len(rows'[f]) = Len(columns')
        /\ \A f \in Fids : rows'[f] = None => rows[f] = None
    BY <1>1, <1>5, <2>1, Underway
  <2> HIDE DEF keys, valid
  <2>3. /\ ed' \in Buffers /\ ed'.deleted = ed.deleted /\ ed'.added = ed.added /\ ed'.fields = ed.fields
        /\ ok' => NoneRenamed(ed') /\ Stored
    <3> DEFINE none == [i \in Index |-> None]
    <3>1. none \in [Index -> Name] /\ \A i \in Index : none[i] = None
      BY DEF Name
    <3>2. ed' = [ed EXCEPT !.renamed = none] \/ (ed' = ed /\ ok' = FALSE)
      BY <1>5
    <3>3. ok' => ed' = [ed EXCEPT !.renamed = none] /\ Stored
      BY <1>5
    <3> HIDE DEF none
    <3>4. CASE ed' = [ed EXCEPT !.renamed = none]
      <4>1. /\ ed' \in Buffers /\ ed'.deleted = ed.deleted /\ ed'.added = ed.added
            /\ ed'.fields = ed.fields /\ ed'.renamed = none
        BY <1>1, <3>1, <3>4, Underway DEF Buffers
      <4> QED BY <3>1, <3>3, <4>1 DEF NoneRenamed
    <3>5. CASE ed' = ed /\ ok' = FALSE
      BY <1>1, <3>5, Underway
    <3> QED BY <3>2, <3>4, <3>5
  <2>4. /\ Len(ed'.fields) <= MaxFields /\ Size(ed') = Len(columns) + Len(ed'.added)
        /\ Len(columns') + Len(ed'.added) <= Size(ed)
    BY <1>1, <2>1, <2>3, Underway DEF Size
  <2>5. /\ ok' \in BOOLEAN /\ exact' \in BOOLEAN /\ changes' \subseteq {"changed", "wrong"}
        /\ "wrong" \notin changes'
        /\ ok' => ok /\ "changed" \in changes'
        /\ ~ok' => ~exact' \/ (ok' = ok /\ exact' = exact)
    BY <1>1, <1>2, <1>5, Underway DEF Stored
  <2>6. cmds' = cmds /\ index' = index /\ hist' = hist
    BY <1>1 DEF stack
  <2>7. Types' /\ Sizes' /\ OldValues' /\ AtRest'
    BY <1>1, <2>1, <2>2, <2>3, <2>4, <2>5, <2>6, StageKeeps
  <2>8. Inexact'
    BY <2>5 DEF IInv, Inexact
  <2>9. Pending'
    BY <1>1, <2>3, <2>5 DEF IInv, Pending
  <2>10. Snapshot' /\ Matched'
    BY <1>1, <2>5 DEF Snapshot, Matched
  <2> QED BY <2>7, <2>8, <2>9, <2>10 DEF IInv
<1> QED BY <1>3, <1>4, <1>5 DEF CommitRenames

\* The fields are compared with those the user saw.
LEMMA CheckFieldsKeeps ==
    ASSUME IInv, CheckFields
    PROVE  IInv'
<1>1. /\ phase = "check" /\ phase' = "values" /\ UNCHANGED <<stack, before, commits, hist>>
      /\ phase \in Stages /\ phase' \in Stages
  BY DEF CheckFields, Stage, Stages
<1>2. "wrong" \notin changes
  BY <1>1 DEF IInv, Inexact
<1>3. ok => ed.deleted = {} /\ ed.added = <<>> /\ NoneRenamed(ed)
  BY <1>1 DEF IInv, Pending
<1> DEFINE fields == UpdateFields(ed, columns).fields
<1>4. ok => columns = [i \in DOMAIN fields |-> fields[i].name]
  BY <1>1, <1>3, NamesOfProvider
<1>5. CASE "changed" \notin changes /\ Skipped
  <2>1. Pending'
    BY <1>1, <1>3, <1>5 DEF Pending, Skipped, NoneRenamed
  <2>2. ok => before = fields
    BY <1>1, <1>3, <1>5 DEF IInv, Snapshot
  <2>3. Matched'
    BY <1>1, <1>4, <1>5, <2>2 DEF Matched, Skipped, store
  <2> QED BY <1>1, <1>2, <1>5, <2>1, <2>3, SkippedKeeps DEF Skipped
<1>6. CASE /\ "changed" \in changes
           /\ ed' = UpdateFields(ed, columns)
           /\ changes' = IF FieldNames(ed') = [i \in DOMAIN before |-> before[i].name]
                         THEN changes ELSE changes \union {"wrong"}
           /\ exact' = (exact /\ changes' = changes)
           /\ UNCHANGED <<store, ok>>
  <2>1. columns' = columns /\ rows' = rows /\ ok' = ok /\ before' = before
    BY <1>1, <1>6 DEF store
  <2>2. /\ ed' \in Buffers /\ Len(ed'.fields) <= Size(ed)
        /\ ed'.added = ed.added /\ ed'.deleted = ed.deleted /\ ed'.renamed = ed.renamed
    BY <1>1, <1>6, Underway, UpdateFieldsType
  <2>3. /\ columns' \in Seq(Names) /\ rows' \in [Fids -> Seq(Value) \union {None}]
        /\ \A f \in Fids : rows'[f] # None => Len(rows'[f]) = Len(columns')
        /\ \A f \in Fids : rows'[f] = None => rows[f] = None
    BY <1>1, <2>1, Underway
  <2>4. /\ Len(ed'.fields) <= MaxFields /\ Size(ed') = Len(columns) + Len(ed'.added)
        /\ Len(columns') + Len(ed'.added) <= Size(ed)
    <3>1. Len(ed'.fields) \in Nat
      BY <2>2 DEF Buffers
    <3> QED BY <1>1, <2>1, <2>2, <3>1, Underway DEF Size
  <2>5. /\ ok' \in BOOLEAN /\ exact' \in BOOLEAN /\ changes' \subseteq {"changed", "wrong"}
        /\ "changed" \in changes' /\ (exact' => exact /\ "wrong" \notin changes')
    <3>1. ok \in BOOLEAN /\ exact \in BOOLEAN /\ changes \subseteq {"changed", "wrong"}
      BY <1>1, Underway
    <3>2. changes' = changes \/ changes' = changes \union {"wrong"}
      BY <1>6
    <3> QED BY <1>2, <1>6, <2>1, <3>1, <3>2
  <2>6. cmds' = cmds /\ index' = index /\ hist' = hist
    BY <1>1 DEF stack
  <2>7. Types' /\ Sizes' /\ OldValues' /\ AtRest'
    BY <1>1, <2>2, <2>3, <2>4, <2>5, <2>6, StageKeeps
  <2>8. Inexact'
    BY <1>1, <2>1, <2>5 DEF IInv, Inexact
  <2>9. Pending'
    BY <1>1, <1>3, <2>1, <2>2 DEF Pending, NoneRenamed
  <2>10. Matched'
    <3>1. SUFFICES ASSUME ok, "wrong" \notin changes'
                   PROVE  columns = [i \in DOMAIN before |-> before[i].name]
      BY <1>1, <2>1 DEF Matched
    <3>2. FieldNames(ed') = [i \in DOMAIN before |-> before[i].name]
      BY <1>6, <3>1
    <3>3. FieldNames(ed') = [i \in DOMAIN fields |-> fields[i].name]
      BY <1>6 DEF FieldNames
    <3> QED BY <1>4, <3>1, <3>2, <3>3
  <2>11. Snapshot'
    BY <1>6, <2>5 DEF Snapshot
  <2> QED BY <2>7, <2>8, <2>9, <2>10, <2>11 DEF IInv
<1> QED BY <1>5, <1>6 DEF CheckFields

\* Values and features are stored without a change of fields.
LEMMA RowsStored ==
    ASSUME IInv, phase \in Stages, phase' \in Stages, UNCHANGED <<stack, before, commits, hist>>,
           phase \notin {"deletes", "adds", "renames", "check"},
           UNCHANGED <<columns, ok, changes, exact>>,
           rows' \in [Fids -> Seq(Value) \union {None}],
           \A f \in Fids : rows'[f] # None => Len(rows'[f]) = Len(columns),
           \A f \in Fids : rows'[f] = None => rows[f] = None,
           ed' \in Buffers, ed'.added = ed.added, ed'.deleted = ed.deleted, ed'.renamed = ed.renamed,
           ed'.fields = ed.fields, phase' \in {"values", "features", "finish"}, Matched'
    PROVE  IInv'
<1>1. cmds' = cmds /\ index' = index /\ hist' = hist
  BY DEF stack
<1>2. /\ Len(ed'.fields) <= MaxFields /\ Size(ed') = Len(columns) + Len(ed'.added)
      /\ Len(columns') + Len(ed'.added) <= Size(ed)
  BY Underway DEF Size
<1>3. /\ columns' \in Seq(Names) /\ \A f \in Fids : rows'[f] # None => Len(rows'[f]) = Len(columns')
      /\ ok' \in BOOLEAN /\ exact' \in BOOLEAN /\ changes' \subseteq {"changed", "wrong"}
  BY Underway
<1>4. Types' /\ Sizes' /\ OldValues' /\ AtRest'
  BY <1>1, <1>2, <1>3, StageKeeps
<1>5. Inexact'
  BY DEF IInv, Inexact
<1>6. Snapshot'
  <2>1. UpdateFields(ed', columns).fields = UpdateFields(ed, columns).fields
    BY Underway, SameFields
  <2> QED BY <2>1 DEF IInv, Snapshot, NoneRenamed
<1>7. Pending'
  BY DEF IInv, Pending, NoneRenamed
<1> QED BY <1>4, <1>5, <1>6, <1>7 DEF IInv

\* Changed values are committed.
LEMMA CommitValuesKeeps ==
    ASSUME IInv, CommitValues
    PROVE  IInv'
<1>1. /\ phase = "values" /\ phase' = "features" /\ UNCHANGED <<stack, before, commits, hist>>
      /\ phase \in Stages /\ phase' \in Stages
  BY DEF CommitValues, Stage, Stages
<1>2. "wrong" \in changes => ~exact
  BY DEF IInv, Inexact
<1>3. CASE "wrong" \in changes /\ ok' = FALSE /\ UNCHANGED <<store, ed, changes, exact>>
  BY <1>1, <1>2, <1>3, RefusedKeeps, Underway
<1>4. CASE "wrong" \notin changes /\ Skipped
  <2>1. Pending' /\ Matched'
    BY <1>1, <1>4 DEF IInv, Pending, Matched, Skipped, NoneRenamed, store
  <2> QED BY <1>1, <1>4, <2>1, SkippedKeeps DEF Skipped
<1>5. CASE Refused
  BY <1>1, <1>5, RefusedKeeps DEF Refused
<1>6. CASE /\ "wrong" \notin changes
           /\ rows' = [f \in Fids |-> Written(f)]
           /\ ed' = [ed EXCEPT !.changed = NoChanges]
           /\ UNCHANGED <<columns, ok, changes, exact>>
  <2>1. /\ ed' \in Buffers /\ ed'.added = ed.added /\ ed'.deleted = ed.deleted
        /\ ed'.renamed = ed.renamed /\ ed'.fields = ed.fields
    <3>1. NoChanges \in [Fids -> [Index -> Entry]]
      BY DEF NoChanges, Entry
    <3> QED BY <1>1, <1>6, <3>1, Underway DEF Buffers
  <2>2. ASSUME NEW f \in Fids, rows[f] # None
        PROVE  rows'[f] \in Seq(Value) /\ rows'[f] # None /\ Len(rows'[f]) = Len(columns)
    <3>1. rows[f] \in Seq(Value) /\ Len(rows[f]) = Len(columns) /\ DOMAIN rows[f] = 1 .. Len(columns)
      BY <1>1, <2>2, Underway
    <3>2. rows'[f] = [i \in 1 .. Len(columns) |->
                         IF ed.changed[f][i] = None THEN rows[f][i] ELSE ed.changed[f][i]]
      BY <1>6, <2>2, <3>1 DEF Written
    <3>3. ASSUME NEW i \in 1 .. Len(columns)
          PROVE  (IF ed.changed[f][i] = None THEN rows[f][i] ELSE ed.changed[f][i]) \in Value
      <4>1. rows[f][i] \in Value
        BY <3>1, ElementOfSeq
      <4>2. i \in Index
        BY <1>1, Underway, Bounds
      <4>3. ed.changed[f][i] \in Entry
        BY <1>1, <4>2, Underway DEF Buffers
      <4> QED BY <4>1, <4>3 DEF Entry
    <3>4. Len(columns) \in Nat
      BY <1>1, Underway
    <3>5. rows'[f] \in Seq(Value) /\ Len(rows'[f]) = Len(columns)
      BY <3>2, <3>3, <3>4
    <3> QED BY <1>1, <3>5, Underway
  <2>3. \A f \in Fids : rows[f] = None => rows'[f] = None
    BY <1>6 DEF Written
  <2>4. rows' \in [Fids -> Seq(Value) \union {None}]
    <3>1. \A f \in Fids : rows'[f] \in Seq(Value) \union {None}
      BY <2>2, <2>3
    <3>2. rows' = [f \in Fids |-> rows'[f]]
      BY <1>6
    <3> QED BY <3>1, <3>2
  <2>5. Matched'
    BY <1>1, <1>6 DEF IInv, Matched
  <2> QED BY <1>1, <1>6, <2>1, <2>2, <2>3, <2>4, <2>5, RowsStored
<1> QED BY <1>3, <1>4, <1>5, <1>6 DEF CommitValues

\* Added features are committed.
LEMMA CommitFeaturesKeeps ==
    ASSUME IInv, CommitFeatures
    PROVE  IInv'
<1>1. /\ phase = "features" /\ phase' = "finish" /\ UNCHANGED <<stack, before, commits, hist>>
      /\ phase \in Stages /\ phase' \in Stages
  BY DEF CommitFeatures, Stage, Stages
<1>2. Matched'
  BY <1>1 DEF Matched
<1>3. CASE Skipped
  <2>1. Pending'
    BY <1>1, <1>3 DEF IInv, Pending, Skipped, NoneRenamed
  <2> QED BY <1>1, <1>2, <1>3, <2>1, SkippedKeeps DEF Skipped
<1>4. CASE Refused
  BY <1>1, <1>4, RefusedKeeps DEF Refused
<1>5. CASE /\ rows' = [f \in Fids |-> IF ed.features[f] = None THEN rows[f] ELSE Fitted(ed.features[f])]
           /\ ed' = [ed EXCEPT !.features = NoFeatures]
           /\ UNCHANGED <<columns, ok, changes, exact>>
  <2>1. /\ ed' \in Buffers /\ ed'.added = ed.added /\ ed'.deleted = ed.deleted
        /\ ed'.renamed = ed.renamed /\ ed'.fields = ed.fields
    <3>1. NoFeatures \in [Fids -> Seq(Value) \union {None}]
      BY DEF NoFeatures
    <3> QED BY <1>1, <1>5, <3>1, Underway DEF Buffers
  <2>2. ASSUME NEW attrs \in Seq(Value)
        PROVE  Fitted(attrs) \in Seq(Value) /\ Len(Fitted(attrs)) = Len(columns)
    <3>1. Len(columns) \in Nat /\ DOMAIN columns = 1 .. Len(columns)
      BY <1>1, Underway
    <3>2. ASSUME NEW i \in 1 .. Len(columns)
          PROVE  (IF i \in DOMAIN attrs THEN attrs[i] ELSE Null) \in Value
      <4>1. i \in 1 .. Len(attrs) => attrs[i] \in Value
        BY ElementOfSeq
      <4> QED BY <4>1 DEF Value
    <3>3. Fitted(attrs) = [i \in 1 .. Len(columns) |-> IF i \in DOMAIN attrs THEN attrs[i] ELSE Null]
      BY <3>1 DEF Fitted
    <3> QED BY <3>1, <3>2, <3>3
  <2>3. ASSUME NEW f \in Fids, ed.features[f] # None
        PROVE  rows'[f] \in Seq(Value) /\ rows'[f] # None /\ Len(rows'[f]) = Len(columns)
    <3>1. ed.features[f] \in Seq(Value)
      BY <1>1, <2>3, Underway DEF Buffers
    <3>2. rows'[f] = Fitted(ed.features[f])
      BY <1>5, <2>3
    <3> QED BY <1>1, <2>2, <3>1, <3>2, Underway
  <2>4. \A f \in Fids : ed.features[f] = None => rows'[f] = rows[f]
    BY <1>5
  <2>5. /\ rows' \in [Fids -> Seq(Value) \union {None}]
        /\ \A f \in Fids : rows'[f] # None => Len(rows'[f]) = Len(columns)
        /\ \A f \in Fids : rows'[f] = None => rows[f] = None
    <3>1. \A f \in Fids : rows[f] \in Seq(Value) \union {None} /\ (rows[f] # None => Len(rows[f]) = Len(columns))
      BY <1>1, Underway
    <3>2. \A f \in Fids : rows'[f] \in Seq(Value) \union {None}
      BY <2>3, <2>4, <3>1
    <3>3. rows' = [f \in Fids |-> rows'[f]]
      BY <1>5
    <3>4. rows' \in [Fids -> Seq(Value) \union {None}]
      BY <3>2, <3>3
    <3> QED BY <2>3, <2>4, <3>1, <3>4
  <2> QED BY <1>1, <1>2, <1>5, <2>1, <2>5, RowsStored
<1> QED BY <1>3, <1>4, <1>5 DEF CommitFeatures

-----------------------------------------------------------------------------
(* The history.  As long as nothing was lost, what undo and redo lead to    *)
(* is known at every position of the stack: a view, the buffer without the  *)
(* renamings, which an undo may leave in it with the name that was there.   *)

View(e) ==
    [added |-> e.added, deleted |-> e.deleted, names |-> FieldNames(e),
     changed |-> e.changed, features |-> e.features]

Views ==
    [added : Seq(Names), deleted : SUBSET Index, names : Seq(Names),
     changed : [Fids -> [Index -> Entry]], features : [Fids -> Seq(Value) \union {None}]]

\* The table that a view shows.
TableOf(v) == [names |-> v.names, values |-> [f \in Fids |-> Shown(v, f)]]

\* The fields of the provider that are not deleted, and what a field is called
\* unless it is renamed: it is one of these, or an added one.
Stays(v) == Sorted(DOMAIN columns \ v.deleted)
Count(v) == Len(Stays(v)) + Len(v.added)
Base(v, i) == IF i <= Len(Stays(v)) THEN columns[Stays(v)[i]] ELSE v.added[i - Len(Stays(v))]

\* No added field has the name of another field, which would hide it.
NoneHidden(v) == Appended(v, columns) = DOMAIN v.added

\* What is keyed by field index fits the fields.
Fits(v) ==
    /\ v \in Views
    /\ NoneHidden(v)
    /\ Len(v.names) = Count(v) /\ Count(v) <= MaxFields
    /\ \A f \in Fids, i \in Index : i > Count(v) \/ IsNew(f) => v.changed[f][i] = None
    /\ \A f \in Fids : v.features[f] # None => IsNew(f) /\ Len(v.features[f]) = Count(v)

\* What a command holds of the view it was made in.
Proper(c, v) ==
    CASE c.op = "feature" ->
            IsNew(c.fid) /\ v.features[c.fid] = None /\ Len(c.attrs) = Count(v)
      [] c.op = "change" ->
            /\ c.field \in 1 .. Count(v)
            /\ IF IsNew(c.fid) THEN v.features[c.fid] # None /\ c.old = v.features[c.fid][c.field]
               ELSE c.old = v.changed[c.fid][c.field]
      [] c.op = "add" -> c.field = Count(v) + 1
      [] c.op = "delete" ->
            /\ c.field \in 1 .. Count(v)
            /\ IF c.field <= Len(Stays(v)) THEN c.from = "provider" /\ c.at = Stays(v)[c.field]
               ELSE c.from = "edit" /\ c.at = c.field - Len(Stays(v)) /\ c.name = v.added[c.at]
            /\ v.names[c.field] = IF c.old = None THEN Base(v, c.field) ELSE c.old
            /\ \A f \in Fids :
                  c.values[f] = IF ~IsNew(f) THEN v.changed[f][c.field]
                                ELSE IF v.features[f] = None THEN None ELSE v.features[f][c.field]
      [] c.op = "rename" -> c.field \in 1 .. Count(v) /\ c.old = v.names[c.field]

\* What a command makes of a view.
Redone(v, c) ==
    CASE c.op = "feature" -> [v EXCEPT !.features[c.fid] = c.attrs]
      [] c.op = "change" -> RedoChange(v, c)
      [] c.op = "add" ->
            [v EXCEPT !.added = Append(@, c.name), !.names = Append(@, c.name),
                      !.features = [f \in Fids |-> IF @[f] = None THEN None ELSE InsertAt(@[f], c.field, Null)]]
      [] c.op = "delete" ->
            [v EXCEPT !.added = IF c.from = "edit" THEN RemoveAt(@, c.at) ELSE @,
                      !.deleted = IF c.from = "edit" THEN @ ELSE @ \union {c.at},
                      !.names = RemoveAt(@, c.field),
                      !.changed = [f \in Fids |-> ShiftedDown(@[f], c.field)],
                      !.features = [f \in Fids |-> IF @[f] = None THEN None ELSE RemoveAt(@[f], c.field)]]
      [] c.op = "rename" -> [v EXCEPT !.names[c.field] = c.name]

\* The fields are up to date, and none that is not there is renamed.
Settled(e) ==
    /\ ~e.undefined
    /\ e.fields = UpdateFields(e, columns).fields
    /\ \A i \in Index : i > Len(e.fields) => e.renamed[i] = None

\* The views at the positions of the stack, in terms of which history is kept.
Linked(v) ==
    /\ v \in [0 .. Len(cmds) -> Views]
    /\ v[0] = View(Opened(columns)) /\ v[index] = View(ed)
    /\ \A k \in 0 .. Len(cmds) : Fits(v[k]) /\ hist[k + 1] = TableOf(v[k])
    /\ \A k \in 1 .. Len(cmds) : Proper(cmds[k], v[k - 1]) /\ v[k] = Redone(v[k - 1], cmds[k])
    /\ \A k \in 0 .. Len(cmds), f \in Fids :
          v[k].features[f] # None => \E j \in 1 .. k : cmds[j].op = "feature" /\ cmds[j].fid = f

Remembered == exact /\ phase \notin Stages => Settled(ed) /\ \E v : Linked(v)

\* While a commit loses nothing, what is shown still fits the fields there were.
Handed ==
    exact /\ phase \in Stages =>
        /\ ~ed.undefined
        /\ \A f \in Fids, i \in Index :
              i > Len(ed.fields) => ed.changed[f][i] = None /\ ed.renamed[i] = None
        /\ \A f \in Fids : Shown(ed, f) # None => Len(Shown(ed, f)) = Len(ed.fields)
        /\ \A f \in Fids : ed.features[f] # None => IsNew(f)
        /\ FieldNames(ed) = [i \in DOMAIN before |-> before[i].name]
        /\ phase \in {"values", "features", "finish"} => FieldNames(ed) = columns
        /\ phase \in {"features", "finish"} => ed.changed = NoChanges
        /\ phase = "finish" => ed.features = NoFeatures

-----------------------------------------------------------------------------
(* Sequences, and what is taken out of them and put back. *)

\* Without its p-th element a set is listed without it.
LEMMA SortedWithout ==
    ASSUME NEW ids \in SUBSET Int, IsFiniteSet(ids), NEW p \in 1 .. Cardinality(ids)
    PROVE  LET rest == ids \ {Sorted(ids)[p]}
           IN  /\ IsFiniteSet(rest) /\ Cardinality(rest) = Cardinality(ids) - 1
               /\ \A k \in 1 .. Cardinality(ids) - 1 :
                     Sorted(rest)[k] = IF k < p THEN Sorted(ids)[k] ELSE Sorted(ids)[k + 1]
<1> DEFINE n == Cardinality(ids)
           s == Sorted(ids)
           x == s[p]
           rest == ids \ {x}
           t == Sorted(rest)
<1>1. n \in Nat /\ p \in 1 .. n
  BY FS_CardinalityType
<1>2. /\ \A k \in 1 .. n : s[k] \in ids /\ s[k] \in Int /\ Rank(ids, s[k]) = k - 1
      /\ \A k, m \in 1 .. n : k < m => s[k] < s[m]
  BY SortedProperties
<1> HIDE DEF s
<1>3. x \in ids /\ x \in Int
  BY <1>1, <1>2
<1> HIDE DEF x
<1>4. rest \in SUBSET Int /\ IsFiniteSet(rest) /\ Cardinality(rest) = n - 1
  BY <1>3, FS_RemoveElement
<1> HIDE DEF n
<1>5. ASSUME NEW k \in 1 .. n - 1
      PROVE  t[k] \in rest /\ t[k] \in Int /\ Rank(rest, t[k]) = k - 1
  <2> HIDE DEF rest
  <2> QED BY <1>4, SortedProperties
<1>6. ASSUME NEW k \in 1 .. n - 1
      PROVE  t[k] = IF k < p THEN s[k] ELSE s[k + 1]
  <2> DEFINE y == IF k < p THEN s[k] ELSE s[k + 1]
  <2>1. k \in 1 .. n /\ k + 1 \in 1 .. n /\ k \in Int /\ p \in Int
    BY <1>1
  <2>2. y \in rest /\ y \in Int /\ Rank(rest, y) = k - 1
    <3>1. CASE k < p
      <4>1. y = s[k] /\ s[k] < x
        BY <1>1, <1>2, <2>1, <3>1 DEF x
      <4>2. y \in ids /\ y \in Int /\ Rank(ids, y) = k - 1
        BY <1>2, <2>1, <4>1
      <4> HIDE DEF y
      <4>3. {j \in rest : j < y} = {j \in ids : j < y}
        BY <1>3, <4>1, <4>2
      <4> QED BY <1>3, <4>1, <4>2, <4>3 DEF Rank
    <3>2. CASE ~(k < p)
      <4>1. y = s[k + 1] /\ x < s[k + 1]
        <5>1. p < k + 1
          BY <1>1, <2>1, <3>2
        <5> QED BY <1>1, <1>2, <2>1, <3>2, <5>1 DEF x
      <4>2. y \in ids /\ y \in Int /\ Rank(ids, y) = k
        <5> DEFINE m == k + 1
        <5>1. m \in 1 .. n /\ m - 1 = k
          BY <2>1
        <5> HIDE DEF m, y
        <5>2. s[m] \in ids /\ s[m] \in Int /\ Rank(ids, s[m]) = m - 1
          BY <1>2, <5>1
        <5> QED BY <4>1, <5>1, <5>2 DEF m
      <4> HIDE DEF y
      <4>3. {j \in rest : j < y} = {j \in ids : j < y} \ {x}
        OBVIOUS
      <4>4. IsFiniteSet({j \in ids : j < y}) /\ x \in {j \in ids : j < y}
        <5>1. {j \in ids : j < y} \in SUBSET ids
          OBVIOUS
        <5> QED BY <1>3, <4>1, <5>1, FS_Subset
      <4>5. Cardinality({j \in rest : j < y}) = Cardinality({j \in ids : j < y}) - 1
        <5> DEFINE below == {j \in ids : j < y}
        <5>1. IsFiniteSet(below) /\ x \in below
          BY <4>4
        <5> HIDE DEF below
        <5>2. Cardinality(below \ {x}) = Cardinality(below) - 1
          BY <5>1, FS_RemoveElement
        <5> QED BY <4>3, <5>2 DEF below
      <4>6. y \in rest
        BY <1>3, <4>1, <4>2
      <4> QED BY <4>2, <4>5, <4>6 DEF Rank
    <3> QED BY <3>1, <3>2
  <2> HIDE DEF y, rest, t
  <2>3. /\ t[k] \in rest /\ t[k] \in Int /\ Rank(rest, t[k]) = k - 1
    BY <1>5
  <2>4. \A i, j \in rest : i < j => Rank(rest, i) < Rank(rest, j)
    BY <1>4, Ranks
  <2>5. ~(t[k] < y) /\ ~(y < t[k])
    BY <2>1, <2>2, <2>3, <2>4
  <2>6. t[k] = y
    BY <2>2, <2>3, <2>5
  <2> QED BY <2>6 DEF y
<1> QED BY <1>4, <1>6 DEF n, t, rest, x, s

\* The entries of a sequence from which one is removed, or into which one is inserted.
LEMMA RemovedEntries ==
    ASSUME NEW S, NEW s \in Seq(S), NEW i \in 1 .. Len(s)
    PROVE  \A k \in 1 .. Len(s) - 1 : RemoveAt(s, i)[k] = IF k < i THEN s[k] ELSE s[k + 1]
<1> DEFINE n == Len(s)
           a == SubSeq(s, 1, i - 1)
           b == SubSeq(s, i + 1, n)
<1>1. n \in Nat /\ i \in Int /\ 1 <= i /\ i <= n
  OBVIOUS
<1>2. \A k \in 1 .. n : s[k] \in S
  BY ElementOfSeq
<1>3. a \in Seq(S) /\ Len(a) = i - 1 /\ \A k \in 1 .. i - 1 : a[k] = s[k]
  <2>1. \A k \in 1 .. i - 1 : s[k] \in S
    BY <1>1, <1>2
  <2>2. i - 1 \in Int /\ 1 \in Int /\ i - 1 - 1 + 1 = i - 1
    BY <1>1
  <2>3. /\ SubSeq(s, 1, i - 1) \in Seq(S)
        /\ Len(SubSeq(s, 1, i - 1)) = IF 1 <= i - 1 THEN i - 1 - 1 + 1 ELSE 0
        /\ \A k \in 1 .. i - 1 - 1 + 1 : SubSeq(s, 1, i - 1)[k] = s[1 + k - 1]
    BY <2>1, <2>2, SubSeqProperties
  <2>4. \A k \in 1 .. i - 1 : 1 + k - 1 = k
    BY <1>1
  <2>5. \A k \in 1 .. i - 1 : a[k] = s[k]
    BY <2>2, <2>3, <2>4
  <2> QED BY <1>1, <2>3, <2>5
<1>4. b \in Seq(S) /\ Len(b) = n - i /\ \A k \in 1 .. n - i : b[k] = s[i + k]
  <2>1. \A k \in i + 1 .. n : s[k] \in S
    BY <1>1, <1>2
  <2>2. i + 1 \in Int /\ n \in Int /\ n - (i + 1) + 1 = n - i
    BY <1>1
  <2> HIDE DEF n
  <2>3. /\ SubSeq(s, i + 1, n) \in Seq(S)
        /\ Len(SubSeq(s, i + 1, n)) = IF i + 1 <= n THEN n - (i + 1) + 1 ELSE 0
        /\ \A k \in 1 .. n - (i + 1) + 1 : SubSeq(s, i + 1, n)[k] = s[i + 1 + k - 1]
    BY <2>1, <2>2, SubSeqProperties
  <2>4. \A k \in 1 .. n - i : i + 1 + k - 1 = i + k
    BY <1>1
  <2>5. \A k \in 1 .. n - i : b[k] = s[i + k]
    BY <2>2, <2>3, <2>4
  <2> QED BY <1>1, <2>3, <2>5
<1>5. RemoveAt(s, i) = a \o b
  BY DEF RemoveAt
<1> HIDE DEF a, b, n
<1>6. \A k \in 1 .. Len(a) + Len(b) : (a \o b)[k] = IF k <= Len(a) THEN a[k] ELSE b[k - Len(a)]
  BY <1>3, <1>4, ConcatProperties
<1>7. ASSUME NEW k \in 1 .. n - 1
      PROVE  RemoveAt(s, i)[k] = IF k < i THEN s[k] ELSE s[k + 1]
  <2>1. k \in 1 .. Len(a) + Len(b)
    BY <1>1, <1>3, <1>4
  <2>2. (a \o b)[k] = IF k <= Len(a) THEN a[k] ELSE b[k - Len(a)]
    BY <1>6, <2>1
  <2>3. CASE k < i
    <3>1. k <= Len(a) /\ k \in 1 .. i - 1
      BY <1>1, <1>3, <2>3
    <3> QED BY <1>3, <1>5, <2>2, <2>3, <3>1
  <2>4. CASE ~(k < i)
    <3> DEFINE m == k - Len(a)
    <3>1. ~(k <= Len(a)) /\ m \in 1 .. n - i /\ i + m = k + 1
      BY <1>1, <1>3, <2>4
    <3> HIDE DEF m
    <3>2. b[m] = s[k + 1]
      BY <1>4, <3>1
    <3>3. RemoveAt(s, i)[k] = b[m]
      BY <1>5, <2>2, <3>1 DEF m
    <3> QED BY <2>4, <3>2, <3>3
  <2> QED BY <2>3, <2>4
<1> QED BY <1>7 DEF n

\* The entries of a sequence into which one was inserted.
LEMMA InsertedEntries ==
    ASSUME NEW S, NEW s \in Seq(S), NEW i \in 1 .. Len(s) + 1, NEW x \in S
    PROVE  \A k \in 1 .. Len(s) + 1 :
              InsertAt(s, i, x)[k] = IF k < i THEN s[k] ELSE IF k = i THEN x ELSE s[k - 1]
<1> DEFINE n == Len(s)
           a == SubSeq(s, 1, i - 1)
           b == SubSeq(s, i, n)
<1>1. n \in Nat /\ i \in Int /\ 1 <= i /\ i <= n + 1
  OBVIOUS
<1>2. \A k \in 1 .. n : s[k] \in S
  BY ElementOfSeq
<1>3. a \in Seq(S) /\ Len(a) = i - 1 /\ \A k \in 1 .. i - 1 : a[k] = s[k]
  <2>1. \A k \in 1 .. i - 1 : s[k] \in S
    BY <1>1, <1>2
  <2>2. i - 1 \in Int /\ 1 \in Int /\ i - 1 - 1 + 1 = i - 1
    BY <1>1
  <2>3. /\ SubSeq(s, 1, i - 1) \in Seq(S)
        /\ Len(SubSeq(s, 1, i - 1)) = IF 1 <= i - 1 THEN i - 1 - 1 + 1 ELSE 0
        /\ \A k \in 1 .. i - 1 - 1 + 1 : SubSeq(s, 1, i - 1)[k] = s[1 + k - 1]
    BY <2>1, <2>2, SubSeqProperties
  <2>4. \A k \in 1 .. i - 1 : 1 + k - 1 = k
    BY <1>1
  <2>5. \A k \in 1 .. i - 1 : a[k] = s[k]
    BY <2>2, <2>3, <2>4
  <2> QED BY <1>1, <2>3, <2>5
<1>4. b \in Seq(S) /\ Len(b) = n + 1 - i /\ \A k \in 1 .. n + 1 - i : b[k] = s[i + k - 1]
  <2>1. \A k \in i .. n : s[k] \in S
    BY <1>1, <1>2
  <2>2. n \in Int /\ n - i + 1 = n + 1 - i
    BY <1>1
  <2> HIDE DEF n
  <2>3. /\ SubSeq(s, i, n) \in Seq(S)
        /\ Len(SubSeq(s, i, n)) = IF i <= n THEN n - i + 1 ELSE 0
        /\ \A k \in 1 .. n - i + 1 : SubSeq(s, i, n)[k] = s[i + k - 1]
    BY <1>1, <2>1, <2>2, SubSeqProperties
  <2> QED BY <1>1, <2>2, <2>3
<1> DEFINE c == a \o <<x>>
<1>5. InsertAt(s, i, x) = c \o b
  BY DEF InsertAt
<1> HIDE DEF a, b, n
<1>6. c \in Seq(S) /\ Len(c) = i /\ \A k \in 1 .. i : c[k] = IF k < i THEN a[k] ELSE x
  <2>1. <<x>> \in Seq(S) /\ Len(<<x>>) = 1 /\ <<x>>[1] = x
    OBVIOUS
  <2>2. /\ a \o <<x>> \in Seq(S) /\ Len(a \o <<x>>) = Len(a) + Len(<<x>>)
        /\ \A k \in 1 .. Len(a) + Len(<<x>>) :
              (a \o <<x>>)[k] = IF k <= Len(a) THEN a[k] ELSE <<x>>[k - Len(a)]
    BY <1>3, <2>1, ConcatProperties
  <2>3. ASSUME NEW k \in 1 .. i PROVE c[k] = IF k < i THEN a[k] ELSE x
    <3>1. k \in 1 .. Len(a) + Len(<<x>>)
      BY <1>1, <1>3, <2>1
    <3>2. (a \o <<x>>)[k] = IF k <= Len(a) THEN a[k] ELSE <<x>>[k - Len(a)]
      BY <2>2, <3>1
    <3>3. CASE k < i
      <4>1. k <= Len(a)
        BY <1>1, <1>3, <3>3
      <4> QED BY <3>2, <3>3, <4>1
    <3>4. CASE ~(k < i)
      <4>1. ~(k <= Len(a)) /\ k - Len(a) = 1
        BY <1>1, <1>3, <3>4
      <4> QED BY <2>1, <3>2, <3>4, <4>1
    <3> QED BY <3>3, <3>4
  <2>4. Len(c) = i
    BY <1>1, <1>3, <2>1, <2>2
  <2> QED BY <2>2, <2>3, <2>4
<1> HIDE DEF c
<1>7. \A k \in 1 .. Len(c) + Len(b) : (c \o b)[k] = IF k <= Len(c) THEN c[k] ELSE b[k - Len(c)]
  BY <1>4, <1>6, ConcatProperties
<1>8. ASSUME NEW k \in 1 .. n + 1
      PROVE  InsertAt(s, i, x)[k] = IF k < i THEN s[k] ELSE IF k = i THEN x ELSE s[k - 1]
  <2>1. k \in 1 .. Len(c) + Len(b)
    BY <1>1, <1>4, <1>6
  <2>2. (c \o b)[k] = IF k <= Len(c) THEN c[k] ELSE b[k - Len(c)]
    BY <1>7, <2>1
  <2>3. CASE k < i
    <3>1. k <= Len(c) /\ k \in 1 .. i - 1 /\ k \in 1 .. i
      BY <1>1, <1>6, <2>3
    <3> QED BY <1>3, <1>5, <1>6, <2>2, <2>3, <3>1
  <2>4. CASE k = i
    <3>1. k <= Len(c) /\ k \in 1 .. i /\ ~(k < i)
      BY <1>1, <1>6, <2>4
    <3> QED BY <1>5, <1>6, <2>2, <2>4, <3>1
  <2>5. CASE ~(k < i) /\ k # i
    <3> DEFINE m == k - Len(c)
    <3>1. ~(k <= Len(c)) /\ m \in 1 .. n + 1 - i /\ i + m - 1 = k - 1
      BY <1>1, <1>6, <2>5
    <3> HIDE DEF m
    <3>2. b[m] = s[k - 1]
      BY <1>4, <3>1
    <3>3. InsertAt(s, i, x)[k] = b[m]
      BY <1>5, <2>2, <3>1 DEF m
    <3> QED BY <2>5, <3>2, <3>3
  <2> QED BY <2>3, <2>4, <2>5
<1> QED BY <1>8 DEF n

\* Removing what was inserted, and inserting what was removed.
LEMMA RemovedInserted ==
    ASSUME NEW S, NEW s \in Seq(S), NEW i \in 1 .. Len(s) + 1, NEW x \in S
    PROVE  RemoveAt(InsertAt(s, i, x), i) = s
<1> DEFINE t == InsertAt(s, i, x)
           r == RemoveAt(t, i)
<1>1. /\ t \in Seq(S) /\ Len(t) = Len(s) + 1 /\ Len(s) \in Nat /\ i \in Int
      /\ \A k \in 1 .. Len(s) + 1 : t[k] = IF k < i THEN s[k] ELSE IF k = i THEN x ELSE s[k - 1]
  <2>1. t \in Seq(S) /\ Len(t) = Len(s) + 1
    BY Inserted
  <2>2. \A k \in 1 .. Len(s) + 1 : t[k] = IF k < i THEN s[k] ELSE IF k = i THEN x ELSE s[k - 1]
    BY InsertedEntries
  <2>3. Len(s) \in Nat /\ i \in Int
    OBVIOUS
  <2> HIDE DEF t
  <2> QED BY <2>1, <2>2, <2>3
<1> HIDE DEF t
<1>2. i \in 1 .. Len(t) /\ Len(t) - 1 = Len(s)
  BY <1>1
<1>3. /\ r \in Seq(S) /\ Len(r) = Len(s)
      /\ \A k \in 1 .. Len(s) : r[k] = IF k < i THEN t[k] ELSE t[k + 1]
  BY <1>1, <1>2, Removed, RemovedEntries
<1> HIDE DEF r
<1>4. ASSUME NEW k \in 1 .. Len(s) PROVE r[k] = s[k]
  <2> DEFINE m == k + 1
  <2>1. k \in 1 .. Len(s) + 1 /\ m \in 1 .. Len(s) + 1 /\ m - 1 = k
    BY <1>1
  <2>2. r[k] = IF k < i THEN t[k] ELSE t[m]
    BY <1>3
  <2>3. CASE k < i
    BY <1>1, <2>1, <2>2, <2>3
  <2>4. CASE ~(k < i)
    <3>1. ~(m < i) /\ m # i
      BY <1>1, <2>4
    <3> HIDE DEF m
    <3>2. t[m] = s[m - 1]
      BY <1>1, <2>1, <3>1
    <3> QED BY <2>1, <2>2, <2>4, <3>2
  <2> QED BY <2>3, <2>4
<1>5. r = s
  BY <1>3, <1>4, SeqEqual
<1> QED BY <1>5 DEF r, t

\* Taking an entry out and inserting another there replaces it.
LEMMA InsertedRemoved ==
    ASSUME NEW S, NEW s \in Seq(S), NEW i \in 1 .. Len(s), NEW x \in S
    PROVE  InsertAt(RemoveAt(s, i), i, x) = [s EXCEPT ![i] = x]
<1> DEFINE r == RemoveAt(s, i)
           t == InsertAt(r, i, x)
           z == [s EXCEPT ![i] = x]
<1>1. /\ r \in Seq(S) /\ Len(r) = Len(s) - 1 /\ Len(s) \in Nat /\ i \in Int
      /\ \A k \in 1 .. Len(s) - 1 : r[k] = IF k < i THEN s[k] ELSE s[k + 1]
  BY Removed, RemovedEntries
<1> HIDE DEF r
<1>2. i \in 1 .. Len(r) + 1 /\ Len(r) + 1 = Len(s)
  BY <1>1
<1>3. /\ t \in Seq(S) /\ Len(t) = Len(s)
      /\ \A k \in 1 .. Len(s) : t[k] = IF k < i THEN r[k] ELSE IF k = i THEN x ELSE r[k - 1]
  BY <1>1, <1>2, Inserted, InsertedEntries
<1>4. z \in Seq(S) /\ Len(z) = Len(s) /\ \A k \in 1 .. Len(s) : z[k] = IF k = i THEN x ELSE s[k]
  BY ExceptSeq
<1> HIDE DEF t, z
<1>5. ASSUME NEW k \in 1 .. Len(s) PROVE t[k] = z[k]
  <2>1. CASE k < i
    <3>1. k \in 1 .. Len(s) - 1
      BY <1>1, <2>1
    <3> QED BY <1>1, <1>3, <1>4, <2>1, <3>1
  <2>2. CASE k = i
    BY <1>1, <1>3, <1>4, <2>2
  <2>3. CASE ~(k < i) /\ k # i
    <3> DEFINE m == k - 1
    <3>1. m \in 1 .. Len(s) - 1 /\ ~(m < i) /\ m + 1 = k
      BY <1>1, <2>3
    <3> HIDE DEF m
    <3>2. r[m] = s[m + 1]
      BY <1>1, <3>1
    <3>3. t[k] = r[m]
      BY <1>3, <2>3 DEF m
    <3> QED BY <1>4, <2>3, <3>1, <3>2, <3>3
  <2> QED BY <2>1, <2>2, <2>3
<1>6. t = z
  BY <1>3, <1>4, <1>5, SeqEqual
<1> QED BY <1>6 DEF r, t, z

-----------------------------------------------------------------------------
(* The fields of a buffer and its view. *)

\* The fields of the provider that stay, as a list.
LEMMA StaysList ==
    ASSUME NEW v, columns \in Seq(Names)
    PROVE  /\ Stays(v) \in Seq(1 .. Len(columns)) /\ Len(Stays(v)) \in Nat /\ Len(Stays(v)) <= Len(columns)
           /\ Len(Stays(v)) = Cardinality(DOMAIN columns \ v.deleted)
           /\ DOMAIN Stays(v) = 1 .. Len(Stays(v))
           /\ \A k \in 1 .. Len(Stays(v)) : Stays(v)[k] \in 1 .. Len(columns) /\ Stays(v)[k] \notin v.deleted
           /\ DOMAIN columns \ v.deleted \in SUBSET Int /\ IsFiniteSet(DOMAIN columns \ v.deleted)
           /\ DOMAIN columns = 1 .. Len(columns) /\ Len(columns) \in Nat
<1> DEFINE n == Len(columns)
           ids == DOMAIN columns \ v.deleted
<1>1. n \in Nat /\ DOMAIN columns = 1 .. n
  OBVIOUS
<1>2. IsFiniteSet(1 .. n) /\ Cardinality(1 .. n) = n
  BY <1>1, FS_Interval
<1>3. ids \in SUBSET (1 .. n) /\ \A i \in ids : i \notin v.deleted
  BY <1>1
<1> HIDE DEF ids, n
<1>4. IsFiniteSet(ids) /\ Cardinality(ids) <= n /\ Cardinality(ids) \in Nat
  BY <1>2, <1>3, FS_Subset, FS_CardinalityType
<1>5. ids \in SUBSET Int
  BY <1>1, <1>3
<1>6. /\ Sorted(ids) \in Seq(ids) /\ Len(Sorted(ids)) = Cardinality(ids)
      /\ DOMAIN Sorted(ids) = 1 .. Cardinality(ids)
      /\ \A k \in 1 .. Cardinality(ids) : Sorted(ids)[k] \in ids
  BY <1>4, <1>5, SortedProperties
<1>7. Sorted(ids) \in Seq(1 .. n)
  BY <1>3, <1>6, SeqMonotonic
<1> QED BY <1>1, <1>3, <1>4, <1>5, <1>6, <1>7 DEF Stays, ids, n

\* What updateFields() makes of a buffer in which no field is hidden.
LEMMA FieldsAre ==
    ASSUME NEW e \in Buffers, columns \in Seq(Names), Size(e) <= MaxFields, NoneHidden(e)
    PROVE  LET u == UpdateFields(e, columns).fields
           IN  /\ Len(u) = Count(e) /\ Count(e) \in Nat /\ Count(e) <= MaxFields
               /\ DOMAIN u = 1 .. Count(e)
               /\ \A i \in 1 .. Count(e) :
                     u[i] = [name |-> IF e.renamed[i] = None THEN Base(e, i) ELSE e.renamed[i],
                             from |-> IF i <= Len(Stays(e)) THEN "provider" ELSE "edit",
                             at |-> IF i <= Len(Stays(e)) THEN Stays(e)[i] ELSE i - Len(Stays(e))]
<1> DEFINE kept == Stays(e)
           m == Len(kept)
           n == Len(e.added)
           news == Sorted(Appended(e, columns))
           first == [i \in DOMAIN kept |-> [name |-> columns[kept[i]], from |-> "provider", at |-> kept[i]]]
           second == [i \in DOMAIN news |-> [name |-> e.added[news[i]], from |-> "edit", at |-> news[i]]]
           all == first \o second
           fields == [i \in DOMAIN all |->
                         IF e.renamed[i] = None THEN all[i] ELSE [all[i] EXCEPT !.name = e.renamed[i]]]
           u == UpdateFields(e, columns).fields
<1>1. u = fields
  BY DEF UpdateFields, Buffers, Stays
<1>2. m \in Nat /\ n \in Nat /\ DOMAIN kept = 1 .. m /\ e.added \in Seq(Names) /\ DOMAIN e.added = 1 .. n
      /\ \A k \in 1 .. m : kept[k] \in 1 .. Len(columns)
  <2>1. e.added \in Seq(Names)
    BY DEF Buffers
  <2>2. n \in Nat /\ DOMAIN e.added = 1 .. n
    BY <2>1
  <2>3. /\ Len(Stays(e)) \in Nat /\ DOMAIN Stays(e) = 1 .. Len(Stays(e))
        /\ \A k \in 1 .. Len(Stays(e)) : Stays(e)[k] \in 1 .. Len(columns)
    BY StaysList
  <2> QED BY <2>1, <2>2, <2>3
<1>3. m + n <= MaxFields /\ m <= Len(columns) /\ Len(columns) + n <= MaxFields /\ MaxFields \in Nat
      /\ Len(columns) \in Nat
  <2>1. m <= Len(columns) /\ Len(columns) \in Nat
    BY StaysList
  <2>2. Len(columns) + n <= MaxFields
    BY DEF Size
  <2> HIDE DEF m, n
  <2> QED BY <1>2, <2>1, <2>2, Bounds
<1>4. news = [k \in 1 .. n |-> k]
  <2>1. Appended(e, columns) = 1 .. n
    BY <1>2 DEF NoneHidden
  <2> HIDE DEF n
  <2> QED BY <1>2, <2>1, SortedAll
<1> HIDE DEF kept, m, n, news
<1>5. first \in Seq(FieldRecords) /\ Len(first) = m
      /\ \A i \in 1 .. m : first[i] = [name |-> columns[kept[i]], from |-> "provider", at |-> kept[i]]
  <2>1. ASSUME NEW i \in 1 .. m
        PROVE  [name |-> columns[kept[i]], from |-> "provider", at |-> kept[i]] \in FieldRecords
    <3>1. kept[i] \in 1 .. Len(columns)
      BY <1>2
    <3>2. kept[i] \in Index
      <4> DEFINE c == Len(columns)
      <4>1. c <= MaxFields /\ c \in Nat /\ kept[i] \in 1 .. c
        BY <1>2, <1>3, <3>1
      <4> HIDE DEF c
      <4>2. kept[i] \in 1 .. MaxFields
        BY <1>3, <4>1
      <4> QED BY <4>2, Bounds
    <3>3. columns[kept[i]] \in Names
      BY <3>1, ElementOfSeq
    <3> QED BY <3>2, <3>3 DEF FieldRecords
  <2>2. first \in [1 .. m -> FieldRecords]
    BY <1>2, <2>1
  <2> QED BY <1>2, <2>2
<1>6. second \in Seq(FieldRecords) /\ Len(second) = n
      /\ \A i \in 1 .. n : second[i] = [name |-> e.added[i], from |-> "edit", at |-> i]
  <2>1. second = [i \in 1 .. n |-> [name |-> e.added[i], from |-> "edit", at |-> i]]
    BY <1>4
  <2>2. ASSUME NEW i \in 1 .. n
        PROVE  [name |-> e.added[i], from |-> "edit", at |-> i] \in FieldRecords
    <3>1. i \in Index
      BY <1>2, <1>3, Bounds
    <3>2. e.added[i] \in Names
      BY <1>2, ElementOfSeq DEF n
    <3> QED BY <3>1, <3>2 DEF FieldRecords
  <2>3. second \in [1 .. n -> FieldRecords]
    BY <2>1, <2>2
  <2>4. \A i \in 1 .. n : second[i] = [name |-> e.added[i], from |-> "edit", at |-> i]
    BY <2>1
  <2> HIDE DEF second, n
  <2>5. second \in Seq(FieldRecords) /\ Len(second) = n
    BY <1>2, <2>3
  <2> QED BY <2>4, <2>5
<1> HIDE DEF first, second
<1>7. all \in Seq(FieldRecords) /\ Len(all) = m + n
      /\ \A i \in 1 .. m + n : all[i] = IF i <= m THEN first[i] ELSE second[i - m]
  <2>1. /\ first \o second \in Seq(FieldRecords) /\ Len(first \o second) = Len(first) + Len(second)
        /\ \A i \in 1 .. Len(first) + Len(second) :
              (first \o second)[i] = IF i <= Len(first) THEN first[i] ELSE second[i - Len(first)]
    BY <1>5, <1>6, ConcatProperties
  <2> QED BY <1>5, <1>6, <2>1
<1> HIDE DEF all
<1>8. DOMAIN all = 1 .. m + n /\ m + n \in Nat
  BY <1>2, <1>7
<1>9. Count(e) = m + n
  BY DEF Count, m, n, kept
<1>10. Len(fields) = m + n /\ DOMAIN fields = 1 .. m + n
  BY <1>8
<1>11. ASSUME NEW i \in 1 .. m + n
       PROVE  fields[i] = [name |-> IF e.renamed[i] = None THEN Base(e, i) ELSE e.renamed[i],
                           from |-> IF i <= m THEN "provider" ELSE "edit",
                           at |-> IF i <= m THEN kept[i] ELSE i - m]
  <2>1. fields[i] = IF e.renamed[i] = None THEN all[i] ELSE [all[i] EXCEPT !.name = e.renamed[i]]
    BY <1>8
  <2>2. CASE i <= m
    <3>1. i \in 1 .. m
      BY <1>2, <2>2
    <3>2. all[i] = [name |-> columns[kept[i]], from |-> "provider", at |-> kept[i]]
      BY <1>5, <1>7, <2>2, <3>1
    <3>3. Base(e, i) = columns[kept[i]]
      BY <2>2 DEF Base, m, kept
    <3> QED BY <2>1, <2>2, <3>2, <3>3
  <2>3. CASE ~(i <= m)
    <3> DEFINE j == i - m
    <3>1. j \in 1 .. n
      BY <1>2, <2>3
    <3> HIDE DEF j
    <3>2. all[i] = [name |-> e.added[j], from |-> "edit", at |-> j]
      <4>1. all[i] = second[i - m]
        BY <1>7, <2>3
      <4>2. second[j] = [name |-> e.added[j], from |-> "edit", at |-> j]
        BY <1>6, <3>1
      <4> QED BY <4>1, <4>2 DEF j
    <3>3. Base(e, i) = e.added[j]
      BY <2>3 DEF Base, m, kept, j
    <3>4. fields[i] = [name |-> IF e.renamed[i] = None THEN Base(e, i) ELSE e.renamed[i],
                       from |-> "edit", at |-> j]
      BY <2>1, <3>2, <3>3
    <3> QED BY <2>3, <3>4 DEF j
  <2> QED BY <2>2, <2>3
<1> HIDE DEF fields, u
<1> QED BY <1>1, <1>3, <1>8, <1>9, <1>10, <1>11 DEF u, m, kept

\* If there are as many fields as there should be, none is hidden.
LEMMA CountedNotHidden ==
    ASSUME NEW e \in Buffers, columns \in Seq(Names), Size(e) <= MaxFields,
           Len(UpdateFields(e, columns).fields) = Cardinality(DOMAIN columns \ e.deleted) + Len(e.added)
    PROVE  NoneHidden(e)
<1> DEFINE kept == Stays(e)
           m == Len(kept)
           n == Len(e.added)
           ids == Appended(e, columns)
           news == Sorted(ids)
           first == [i \in DOMAIN kept |-> [name |-> columns[kept[i]], from |-> "provider", at |-> kept[i]]]
           second == [i \in DOMAIN news |-> [name |-> e.added[news[i]], from |-> "edit", at |-> news[i]]]
           all == first \o second
           fields == [i \in DOMAIN all |->
                         IF e.renamed[i] = None THEN all[i] ELSE [all[i] EXCEPT !.name = e.renamed[i]]]
<1>1. UpdateFields(e, columns).fields = fields
  BY DEF UpdateFields, Buffers, Stays
<1>2. m \in Nat /\ n \in Nat /\ DOMAIN kept = 1 .. m /\ DOMAIN e.added = 1 .. n
      /\ m = Cardinality(DOMAIN columns \ e.deleted)
  <2>1. e.added \in Seq(Names)
    BY DEF Buffers
  <2> QED BY <2>1, StaysList
<1>3. IsFiniteSet(1 .. n) /\ Cardinality(1 .. n) = n
  <2> HIDE DEF n
  <2> QED BY <1>2, FS_Interval
<1>4. ids \in SUBSET (1 .. n)
  BY <1>2 DEF Appended
<1> HIDE DEF ids, n, kept, m
<1>5. /\ IsFiniteSet(ids) /\ Cardinality(ids) <= n /\ Cardinality(ids) \in Nat
      /\ Cardinality(1 .. n) = Cardinality(ids) => 1 .. n = ids
  BY <1>3, <1>4, FS_Subset, FS_CardinalityType
<1>6. Len(news) = Cardinality(ids) /\ DOMAIN news = 1 .. Cardinality(ids)
  <2>1. ids \in SUBSET Int
    BY <1>2, <1>4
  <2> QED BY <1>5, <2>1, SortedProperties
<1> HIDE DEF news
<1>7. PICK k : k = Cardinality(ids)
  OBVIOUS
<1>8. first \in Seq({first[i] : i \in 1 .. m}) /\ Len(first) = m
  <2>1. DOMAIN first = 1 .. m
    BY <1>2
  <2>2. first = [i \in 1 .. m |-> first[i]]
    BY <1>2
  <2> HIDE DEF first
  <2>3. PICK S : S = {first[i] : i \in 1 .. m}
    OBVIOUS
  <2>4. first \in [1 .. m -> S]
    BY <2>1, <2>2, <2>3
  <2>5. m \in Nat
    BY <1>2
  <2>6. first \in Seq(S)
    BY <2>4, <2>5
  <2>7. Len(first) = m
    BY <2>1, <2>5, <2>6
  <2> QED BY <2>3, <2>6, <2>7
<1>9. second \in Seq({second[i] : i \in 1 .. k}) /\ Len(second) = k
  BY <1>5, <1>6, <1>7
<1> HIDE DEF first, second
<1>10. Len(all) = m + k /\ DOMAIN all = 1 .. m + k
  <2> DEFINE S == {first[i] : i \in 1 .. m} \union {second[i] : i \in 1 .. k}
  <2>1. first \in Seq(S) /\ second \in Seq(S)
    BY <1>8, <1>9, SeqMonotonic
  <2> HIDE DEF S
  <2>2. first \o second \in Seq(S) /\ Len(first \o second) = Len(first) + Len(second)
    BY <2>1, ConcatProperties
  <2> QED BY <1>8, <1>9, <2>2
<1> HIDE DEF all
<1>11. Len(fields) = m + k
  BY <1>2, <1>5, <1>7, <1>10
<1> HIDE DEF fields
<1>12. k = n
  BY <1>1, <1>2, <1>5, <1>7, <1>11 DEF n
<1>13. ids = 1 .. n
  BY <1>3, <1>5, <1>7, <1>12
<1>14. DOMAIN e.added = 1 .. n /\ ids = Appended(e, columns)
  BY <1>2 DEF ids
<1> QED BY <1>13, <1>14 DEF NoneHidden

\* What depends on the added and the deleted fields only.
LEMMA SameCount ==
    ASSUME NEW v, NEW w, v.added = w.added, v.deleted = w.deleted
    PROVE  /\ Stays(v) = Stays(w) /\ Count(v) = Count(w)
           /\ \A i : Base(v, i) = Base(w, i)
           /\ NoneHidden(v) <=> NoneHidden(w)
BY DEF Stays, Count, Base, NoneHidden, Appended

\* The fields of a buffer in which they are up to date.
LEMMA NamesAre ==
    ASSUME NEW e \in Buffers, columns \in Seq(Names), Size(e) <= MaxFields, NoneHidden(e),
           e.fields = UpdateFields(e, columns).fields
    PROVE  /\ Count(e) \in Nat /\ Count(e) <= MaxFields
           /\ Len(e.fields) = Count(e) /\ DOMAIN e.fields = 1 .. Count(e)
           /\ FieldNames(e) \in Seq(Names) /\ Len(FieldNames(e)) = Count(e)
           /\ \A i \in 1 .. Count(e) :
                 /\ FieldNames(e)[i] = IF e.renamed[i] = None THEN Base(e, i) ELSE e.renamed[i]
                 /\ e.fields[i].from = IF i <= Len(Stays(e)) THEN "provider" ELSE "edit"
                 /\ e.fields[i].at = IF i <= Len(Stays(e)) THEN Stays(e)[i] ELSE i - Len(Stays(e))
<1> DEFINE n == Count(e)
           names == FieldNames(e)
<1>1. /\ Len(e.fields) = n /\ n \in Nat /\ n <= MaxFields /\ DOMAIN e.fields = 1 .. n
      /\ \A i \in 1 .. n :
            e.fields[i] = [name |-> IF e.renamed[i] = None THEN Base(e, i) ELSE e.renamed[i],
                           from |-> IF i <= Len(Stays(e)) THEN "provider" ELSE "edit",
                           at |-> IF i <= Len(Stays(e)) THEN Stays(e)[i] ELSE i - Len(Stays(e))]
  BY FieldsAre
<1>2. e.fields \in Seq(FieldRecords)
  BY DEF Buffers
<1> HIDE DEF n
<1>3. names = [i \in 1 .. n |-> e.fields[i].name]
  BY <1>1 DEF FieldNames
<1>4. \A i \in 1 .. n : e.fields[i].name \in Names
  <2>1. \A i \in 1 .. n : e.fields[i] \in FieldRecords
    BY <1>1, <1>2, ElementOfSeq
  <2> QED BY <2>1 DEF FieldRecords
<1>5. names \in [1 .. n -> Names]
  BY <1>3, <1>4
<1> HIDE DEF names
<1>6. names \in Seq(Names) /\ Len(names) = n
  BY <1>1, <1>5
<1>7. ASSUME NEW i \in 1 .. n
      PROVE  /\ names[i] = IF e.renamed[i] = None THEN Base(e, i) ELSE e.renamed[i]
             /\ e.fields[i].from = IF i <= Len(Stays(e)) THEN "provider" ELSE "edit"
             /\ e.fields[i].at = IF i <= Len(Stays(e)) THEN Stays(e)[i] ELSE i - Len(Stays(e))
  <2>1. e.fields[i] = [name |-> IF e.renamed[i] = None THEN Base(e, i) ELSE e.renamed[i],
                       from |-> IF i <= Len(Stays(e)) THEN "provider" ELSE "edit",
                       at |-> IF i <= Len(Stays(e)) THEN Stays(e)[i] ELSE i - Len(Stays(e))]
    BY <1>1
  <2>2. names[i] = e.fields[i].name
    BY <1>3
  <2> QED BY <2>1, <2>2
<1> QED BY <1>1, <1>6, <1>7 DEF n, names

\* What updateFields() leaves is up to date, if no field is renamed that is not there.
LEMMA UpdatedSettles ==
    ASSUME NEW h \in Buffers, columns \in Seq(Names), Size(h) <= MaxFields, NoneHidden(h), ~h.undefined,
           \A i \in Index : i > Count(h) => h.renamed[i] = None
    PROVE  LET d == UpdateFields(h, columns)
           IN  Good(d) /\ Settled(d) /\ NoneHidden(d) /\ Count(d) = Count(h)
<1> DEFINE d == UpdateFields(h, columns)
<1>1. /\ d \in Buffers /\ d.added = h.added /\ d.deleted = h.deleted /\ d.renamed = h.renamed
      /\ d.undefined <=> h.undefined \/ \E i \in Index : i > Len(d.fields) /\ h.renamed[i] # None
  BY UpdateFieldsType
<1>2. Len(d.fields) = Count(h)
  BY FieldsAre
<1>3. Good(d)
  BY UpdatedIsFresh
<1>4. UpdateFields(d, columns).fields = d.fields
  <2> HIDE DEF d
  <2>1. UpdateFields(d, columns).fields = UpdateFields(h, columns).fields
    BY <1>1, SameFields
  <2> QED BY <2>1 DEF d
<1> HIDE DEF d
<1>5. Count(d) = Count(h) /\ NoneHidden(d)
  BY <1>1, SameCount
<1>6. Settled(d)
  BY <1>1, <1>2, <1>4 DEF Settled
<1> QED BY <1>3, <1>5, <1>6 DEF d

\* A buffer whose fields are up to date and in which all that is keyed by field fits.
Ready(e) == Good(e) /\ Settled(e) /\ Fits(View(e))

\* What makes a buffer one to which the commands of a history can be applied.
LEMMA ReadyIf ==
    ASSUME NEW e, Good(e), columns \in Seq(Names), NoneHidden(e), Settled(e),
           \A f \in Fids, i \in Index : i > Count(e) \/ IsNew(f) => e.changed[f][i] = None,
           \A f \in Fids : e.features[f] # None => IsNew(f) /\ Len(e.features[f]) = Count(e)
    PROVE  Ready(e)
<1> DEFINE v == View(e)
<1>1. /\ v.added = e.added /\ v.deleted = e.deleted /\ v.names = FieldNames(e)
      /\ v.changed = e.changed /\ v.features = e.features
  BY DEF View
<1>2. e \in Buffers /\ Size(e) <= MaxFields /\ e.fields = UpdateFields(e, columns).fields
  BY DEF Good, Settled
<1>3. Count(e) \in Nat /\ Count(e) <= MaxFields /\ FieldNames(e) \in Seq(Names) /\ Len(FieldNames(e)) = Count(e)
  BY <1>2, NamesAre
<1>4. v \in Views
  <2>1. /\ e.added \in Seq(Names) /\ e.deleted \in SUBSET Index /\ e.changed \in [Fids -> [Index -> Entry]]
        /\ e.features \in [Fids -> Seq(Value) \union {None}]
    BY <1>2 DEF Buffers
  <2> QED BY <1>3, <2>1 DEF View, Views
<1> HIDE DEF v
<1>5. Count(v) = Count(e) /\ NoneHidden(v)
  BY <1>1, SameCount
<1>6. Fits(v)
  BY <1>1, <1>3, <1>4, <1>5 DEF Fits
<1> QED BY <1>6 DEF Ready, v

\* What is known of such a buffer.
LEMMA ReadyFacts ==
    ASSUME NEW e, Ready(e), columns \in Seq(Names)
    PROVE  /\ Good(e) /\ Settled(e) /\ e \in Buffers /\ Size(e) <= MaxFields /\ ~e.undefined
           /\ e.fields = UpdateFields(e, columns).fields
           /\ NoneHidden(e) /\ Count(e) \in Nat /\ Count(e) <= MaxFields
           /\ Len(e.fields) = Count(e)
           /\ FieldNames(e) \in Seq(Names) /\ Len(FieldNames(e)) = Count(e)
           /\ \A i \in 1 .. Count(e) :
                 FieldNames(e)[i] = IF e.renamed[i] = None THEN Base(e, i) ELSE e.renamed[i]
           /\ \A i \in Index : i > Count(e) => e.renamed[i] = None
           /\ \A f \in Fids, i \in Index : i > Count(e) \/ IsNew(f) => e.changed[f][i] = None
           /\ \A f \in Fids : e.features[f] # None => IsNew(f) /\ Len(e.features[f]) = Count(e)
<1> DEFINE v == View(e)
<1>1. v.added = e.added /\ v.deleted = e.deleted /\ v.changed = e.changed /\ v.features = e.features
  BY DEF View
<1>2. e \in Buffers /\ Size(e) <= MaxFields /\ e.fields = UpdateFields(e, columns).fields /\ ~e.undefined
  BY DEF Ready, Good, Settled
<1>3. Fits(v)
  BY DEF Ready
<1> HIDE DEF v
<1>4. Count(v) = Count(e) /\ NoneHidden(e)
  BY <1>1, <1>3, SameCount DEF Fits
<1>5. /\ Count(e) \in Nat /\ Count(e) <= MaxFields /\ FieldNames(e) \in Seq(Names) /\ Len(FieldNames(e)) = Count(e)
      /\ Len(e.fields) = Count(e)
      /\ \A i \in 1 .. Count(e) :
            FieldNames(e)[i] = IF e.renamed[i] = None THEN Base(e, i) ELSE e.renamed[i]
  BY <1>2, <1>4, NamesAre
<1>6. \A i \in Index : i > Count(e) => e.renamed[i] = None
  BY <1>5 DEF Ready, Settled
<1>7. \A f \in Fids, i \in Index : i > Count(e) \/ IsNew(f) => e.changed[f][i] = None
  BY <1>1, <1>3, <1>4 DEF Fits
<1>8. \A f \in Fids : e.features[f] # None => IsNew(f) /\ Len(e.features[f]) = Count(e)
  BY <1>1, <1>3, <1>4 DEF Fits
<1> QED BY <1>2, <1>4, <1>5, <1>6, <1>7, <1>8 DEF Ready

\* Two buffers are shown alike.
LEMMA SameView ==
    ASSUME NEW d, NEW v, NEW a, NEW del, NEW names, NEW ch, NEW fe,
           v = [added |-> a, deleted |-> del, names |-> names, changed |-> ch, features |-> fe],
           d.added = a, d.deleted = del, FieldNames(d) = names, d.changed = ch, d.features = fe
    PROVE  View(d) = v
BY DEF View

-----------------------------------------------------------------------------
(* Each command, there and back. *)

\* Only what is keyed by feature has changed.
LEMMA ReadyValues ==
    ASSUME NEW d, NEW e, Ready(e), columns \in Seq(Names), d \in Buffers,
           d.added = e.added, d.deleted = e.deleted, d.renamed = e.renamed, d.fields = e.fields,
           d.undefined = e.undefined,
           \A f \in Fids, i \in Index : i > Count(e) \/ IsNew(f) => d.changed[f][i] = None,
           \A f \in Fids : d.features[f] # None => IsNew(f) /\ Len(d.features[f]) = Count(e)
    PROVE  Ready(d) /\ FieldNames(d) = FieldNames(e) /\ Count(d) = Count(e)
<1>1. /\ Good(e) /\ Settled(e) /\ e \in Buffers /\ NoneHidden(e)
  BY ReadyFacts
<1>2. Good(d)
  BY <1>1, GoodValues
<1>3. Count(d) = Count(e) /\ NoneHidden(d)
  BY <1>1, SameCount
<1>4. Settled(d)
  <2>1. UpdateFields(d, columns).fields = UpdateFields(e, columns).fields
    BY <1>1, SameFields
  <2> QED BY <1>1, <2>1 DEF Settled
<1>5. Ready(d)
  BY <1>2, <1>3, <1>4, ReadyIf
<1> QED BY <1>3, <1>5 DEF FieldNames

\* A view is the record of its fields.
LEMMA ViewRecord ==
    ASSUME NEW v \in Views
    PROVE  /\ v = [added |-> v.added, deleted |-> v.deleted, names |-> v.names,
                   changed |-> v.changed, features |-> v.features]
           /\ v.added \in Seq(Names) /\ v.deleted \in SUBSET Index /\ v.names \in Seq(Names)
           /\ v.changed \in [Fids -> [Index -> Entry]] /\ v.features \in [Fids -> Seq(Value) \union {None}]
BY DEF Views

\* Adding a feature, and undoing it.
LEMMA FeatureThere ==
    ASSUME NEW c \in Features, NEW e, Ready(e), columns \in Seq(Names), Proper(c, View(e))
    PROVE  Ready(RedoAddFeature(e, c)) /\ View(RedoAddFeature(e, c)) = Redone(View(e), c)
<1> DEFINE d == RedoAddFeature(e, c)
           features == [e.features EXCEPT ![c.fid] = c.attrs]
<1>1. c.op = "feature" /\ c.fid \in Fids /\ c.attrs \in Seq(Value)
  BY DEF Features
<1>2. /\ e \in Buffers
      /\ \A f \in Fids, i \in Index : i > Count(e) \/ IsNew(f) => e.changed[f][i] = None
      /\ \A f \in Fids : e.features[f] # None => IsNew(f) /\ Len(e.features[f]) = Count(e)
  BY ReadyFacts
<1>3. e.features \in [Fids -> Seq(Value) \union {None}]
  BY <1>2 DEF Buffers
<1>4. IsNew(c.fid) /\ Len(c.attrs) = Count(e)
  <2>1. Count(View(e)) = Count(e)
    <3>1. View(e).added = e.added /\ View(e).deleted = e.deleted
      BY DEF View
    <3> QED BY <3>1, SameCount
  <2>2. IsNew(c.fid) /\ Len(c.attrs) = Count(View(e))
    BY <1>1 DEF Proper
  <2> QED BY <2>1, <2>2
<1>5. features \in [Fids -> Seq(Value) \union {None}]
  BY <1>1, <1>3
<1>6. \A f \in Fids : features[f] # None => IsNew(f) /\ Len(features[f]) = Count(e)
  BY <1>1, <1>2, <1>3, <1>4
<1> HIDE DEF features
<1>7. /\ d \in Buffers /\ d.added = e.added /\ d.deleted = e.deleted /\ d.renamed = e.renamed
      /\ d.fields = e.fields /\ d.undefined = e.undefined /\ d.changed = e.changed /\ d.features = features
  BY <1>2, <1>5 DEF RedoAddFeature, Buffers, features
<1> HIDE DEF d
<1>8. Ready(d) /\ FieldNames(d) = FieldNames(e)
  <2>1. \A f \in Fids, i \in Index : i > Count(e) \/ IsNew(f) => d.changed[f][i] = None
    BY <1>2, <1>7
  <2>2. \A f \in Fids : d.features[f] # None => IsNew(f) /\ Len(d.features[f]) = Count(e)
    BY <1>6, <1>7
  <2>3. /\ d \in Buffers /\ d.added = e.added /\ d.deleted = e.deleted /\ d.renamed = e.renamed
        /\ d.fields = e.fields /\ d.undefined = e.undefined
    BY <1>7
  <2> QED BY <2>1, <2>2, <2>3, ReadyValues
<1>9. View(d) = Redone(View(e), c)
  <2>1. Redone(View(e), c) = [View(e) EXCEPT !.features = features]
    BY <1>1 DEF Redone, View, features
  <2> QED BY <1>7, <1>8, <2>1 DEF View
<1> QED BY <1>8, <1>9 DEF d

\* Undoing an added feature.
LEMMA FeatureBack ==
    ASSUME NEW c \in Features, NEW e, Ready(e), columns \in Seq(Names),
           NEW v, Fits(v), Proper(c, v), View(e) = Redone(v, c)
    PROVE  Ready(UndoAddFeature(e, c)) /\ View(UndoAddFeature(e, c)) = v
<1> DEFINE d == UndoAddFeature(e, c)
           features == [e.features EXCEPT ![c.fid] = None]
<1>1. c.op = "feature" /\ c.fid \in Fids /\ c.attrs \in Seq(Value)
  BY DEF Features
<1>2. /\ e \in Buffers
      /\ \A f \in Fids, i \in Index : i > Count(e) \/ IsNew(f) => e.changed[f][i] = None
      /\ \A f \in Fids : e.features[f] # None => IsNew(f) /\ Len(e.features[f]) = Count(e)
  BY ReadyFacts
<1>3. e.features \in [Fids -> Seq(Value) \union {None}]
  BY <1>2 DEF Buffers
<1>4. v \in Views
  BY DEF Fits
<1>5. v.features[c.fid] = None
  BY <1>1 DEF Proper
<1>6. /\ v = [added |-> v.added, deleted |-> v.deleted, names |-> v.names,
              changed |-> v.changed, features |-> v.features]
      /\ v.features \in [Fids -> Seq(Value) \union {None}]
  BY <1>4, ViewRecord
<1>7. /\ e.added = v.added /\ e.deleted = v.deleted /\ FieldNames(e) = v.names /\ e.changed = v.changed
      /\ e.features = [v.features EXCEPT ![c.fid] = c.attrs]
  <2>1. Redone(v, c) = [added |-> v.added, deleted |-> v.deleted, names |-> v.names, changed |-> v.changed,
                        features |-> [v.features EXCEPT ![c.fid] = c.attrs]]
    BY <1>1, <1>6 DEF Redone
  <2> QED BY <2>1 DEF View
<1>8. features \in [Fids -> Seq(Value) \union {None}] /\ features = v.features
  BY <1>1, <1>3, <1>5, <1>6, <1>7
<1>9. \A f \in Fids : features[f] # None => IsNew(f) /\ Len(features[f]) = Count(e)
  BY <1>1, <1>2, <1>3
<1> HIDE DEF features
<1>10. /\ d \in Buffers /\ d.added = e.added /\ d.deleted = e.deleted /\ d.renamed = e.renamed
       /\ d.fields = e.fields /\ d.undefined = e.undefined /\ d.changed = e.changed /\ d.features = features
  BY <1>2, <1>8 DEF UndoAddFeature, Buffers, features
<1> HIDE DEF d
<1>11. Ready(d) /\ FieldNames(d) = FieldNames(e)
  <2>1. \A f \in Fids, i \in Index : i > Count(e) \/ IsNew(f) => d.changed[f][i] = None
    BY <1>2, <1>10
  <2>2. \A f \in Fids : d.features[f] # None => IsNew(f) /\ Len(d.features[f]) = Count(e)
    BY <1>9, <1>10
  <2>3. /\ d \in Buffers /\ d.added = e.added /\ d.deleted = e.deleted /\ d.renamed = e.renamed
        /\ d.fields = e.fields /\ d.undefined = e.undefined
    BY <1>10
  <2> QED BY <2>1, <2>2, <2>3, ReadyValues
<1>12. View(d) = v
  BY <1>6, <1>7, <1>8, <1>10, <1>11, SameView
<1> QED BY <1>11, <1>12 DEF d

\* A value of a feature is put into a map of maps.
Put(map, f, i, x) == [map EXCEPT ![f] = [map[f] EXCEPT ![i] = x]]

\* A changed value is set.
LEMMA ChangedSet ==
    ASSUME NEW e, Ready(e), columns \in Seq(Names),
           NEW f \in Fids, ~IsNew(f), NEW i \in 1 .. Count(e), NEW x \in Entry,
           NEW d, d = [e EXCEPT !.changed = Put(e.changed, f, i, x)]
    PROVE  /\ Ready(d) /\ FieldNames(d) = FieldNames(e) /\ d.added = e.added /\ d.deleted = e.deleted
           /\ d.features = e.features /\ d.changed = Put(e.changed, f, i, x)
<1>1. /\ e \in Buffers /\ Count(e) \in Nat /\ Count(e) <= MaxFields
      /\ \A g \in Fids, k \in Index : k > Count(e) \/ IsNew(g) => e.changed[g][k] = None
      /\ \A g \in Fids : e.features[g] # None => IsNew(g) /\ Len(e.features[g]) = Count(e)
  BY ReadyFacts
<1>2. i \in Index /\ ~(i > Count(e))
  BY <1>1, Bounds
<1>3. e.changed \in [Fids -> [Index -> Entry]]
  BY <1>1 DEF Buffers
<1> DEFINE changed == Put(e.changed, f, i, x)
<1>4. changed \in [Fids -> [Index -> Entry]]
  BY <1>2, <1>3 DEF Put
<1>5. \A g \in Fids, k \in Index : k > Count(e) \/ IsNew(g) => changed[g][k] = None
  BY <1>1, <1>2, <1>3 DEF Put
<1> HIDE DEF changed
<1>6. /\ d \in Buffers /\ d.added = e.added /\ d.deleted = e.deleted /\ d.renamed = e.renamed
      /\ d.fields = e.fields /\ d.undefined = e.undefined
      /\ d.features = e.features /\ d.changed = changed
  BY <1>1, <1>4 DEF Buffers, changed
<1>7. \A g \in Fids, k \in Index : k > Count(e) \/ IsNew(g) => d.changed[g][k] = None
  BY <1>5, <1>6
<1>8. \A g \in Fids : d.features[g] # None => IsNew(g) /\ Len(d.features[g]) = Count(e)
  BY <1>1, <1>6
<1>9. PICK b : b = d
  OBVIOUS
<1>10. Ready(b) /\ FieldNames(b) = FieldNames(e)
  <2>1. /\ b \in Buffers /\ b.added = e.added /\ b.deleted = e.deleted /\ b.renamed = e.renamed
        /\ b.fields = e.fields /\ b.undefined = e.undefined
    BY <1>6, <1>9
  <2>2. \A g \in Fids, k \in Index : k > Count(e) \/ IsNew(g) => b.changed[g][k] = None
    BY <1>7, <1>9
  <2>3. \A g \in Fids : b.features[g] # None => IsNew(g) /\ Len(b.features[g]) = Count(e)
    BY <1>8, <1>9
  <2> QED BY <2>1, <2>2, <2>3, ReadyValues
<1> QED BY <1>6, <1>9, <1>10 DEF changed

\* A value of an added feature is set.
LEMMA AttributeSet ==
    ASSUME NEW e, Ready(e), columns \in Seq(Names),
           NEW f \in Fids, e.features[f] # None, NEW i \in 1 .. Count(e), NEW x \in Value,
           NEW d, d = SetAttribute(e, f, i, x)
    PROVE  /\ Ready(d) /\ FieldNames(d) = FieldNames(e) /\ d.added = e.added /\ d.deleted = e.deleted
           /\ d.changed = e.changed
           /\ d.features = Put(e.features, f, i, x)
<1>1. /\ e \in Buffers /\ Count(e) \in Nat
      /\ \A g \in Fids, k \in Index : k > Count(e) \/ IsNew(g) => e.changed[g][k] = None
      /\ \A g \in Fids : e.features[g] # None => IsNew(g) /\ Len(e.features[g]) = Count(e)
  BY ReadyFacts
<1>2. e.features \in [Fids -> Seq(Value) \union {None}]
  BY <1>1 DEF Buffers
<1> DEFINE s == e.features[f]
           t == [s EXCEPT ![i] = x]
           features == [e.features EXCEPT ![f] = t]
<1>3. s \in Seq(Value) /\ Len(s) = Count(e) /\ i \in 1 .. Len(s) /\ IsNew(f) /\ i \in DOMAIN s
  BY <1>1, <1>2
<1> HIDE DEF s
<1>4. t \in Seq(Value) /\ Len(t) = Len(s)
  BY <1>3, ExceptSeq
<1> HIDE DEF t
<1>5. features \in [Fids -> Seq(Value) \union {None}]
  BY <1>2, <1>4
<1>6. \A g \in Fids : features[g] # None => IsNew(g) /\ Len(features[g]) = Count(e)
  BY <1>1, <1>2, <1>3, <1>4
<1> HIDE DEF features
<1>7. d = [e EXCEPT !.features = features]
  BY <1>1, <1>3 DEF SetAttribute, Buffers, features, s, t
<1>8. /\ d \in Buffers /\ d.added = e.added /\ d.deleted = e.deleted /\ d.renamed = e.renamed
      /\ d.fields = e.fields /\ d.undefined = e.undefined
      /\ d.changed = e.changed /\ d.features = features
  BY <1>1, <1>5, <1>7 DEF Buffers
<1>9. \A g \in Fids, k \in Index : k > Count(e) \/ IsNew(g) => d.changed[g][k] = None
  BY <1>1, <1>8
<1>10. \A g \in Fids : d.features[g] # None => IsNew(g) /\ Len(d.features[g]) = Count(e)
  BY <1>6, <1>8
<1>11. Ready(d) /\ FieldNames(d) = FieldNames(e)
  BY <1>8, <1>9, <1>10, ReadyValues
<1> QED BY <1>8, <1>11 DEF features, s, t, Put

\* Changing a value, and undoing it.
LEMMA ChangeThere ==
    ASSUME NEW c \in Changes, NEW e, Ready(e), columns \in Seq(Names), Proper(c, View(e))
    PROVE  Ready(RedoChange(e, c)) /\ View(RedoChange(e, c)) = Redone(View(e), c)
<1> DEFINE d == RedoChange(e, c)
           f == c.fid
           i == c.field
           v == View(e)
<1>1. c.op = "change" /\ f \in Fids /\ c.new \in Value /\ c.new \in Entry /\ c.new # None
  <2>1. c.op = "change" /\ f \in Fids /\ c.new \in Value
    BY DEF Changes
  <2>2. None \notin Value
    BY SentinelAssumption DEF Value
  <2> QED BY <2>1, <2>2 DEF Entry
<1>2. /\ v.added = e.added /\ v.deleted = e.deleted /\ v.names = FieldNames(e)
      /\ v.changed = e.changed /\ v.features = e.features
  BY DEF View
<1>3. i \in 1 .. Count(e) /\ (IsNew(f) => e.features[f] # None)
  <2>1. Count(v) = Count(e)
    BY <1>2, SameCount
  <2> HIDE DEF v
  <2>2. i \in 1 .. Count(v) /\ (IsNew(f) => v.features[f] # None)
    BY <1>1 DEF Proper, v
  <2> QED BY <1>2, <2>1, <2>2
<1>4. v \in Views /\ e \in Buffers /\ Count(e) \in Nat
      /\ \A g \in Fids : e.features[g] # None => IsNew(g) /\ Len(e.features[g]) = Count(e)
  BY ReadyFacts DEF Ready, Fits
<1>5. Redone(v, c) = RedoChange(v, c)
  BY <1>1 DEF Redone
<1>6. v = [added |-> e.added, deleted |-> e.deleted, names |-> FieldNames(e), changed |-> e.changed,
           features |-> e.features]
  BY DEF View
<1> HIDE DEF i, f
<1>7. CASE ~IsNew(f)
  <2>1. d = [e EXCEPT !.changed[f][i] = c.new]
    BY <1>7 DEF RedoChange, i, f
  <2>2. /\ Ready(d) /\ FieldNames(d) = FieldNames(e) /\ d.added = e.added /\ d.deleted = e.deleted
        /\ d.features = e.features
        /\ d.changed = Put(e.changed, f, i, c.new)
    <3>1. f \in Fids /\ ~IsNew(f) /\ i \in 1 .. Count(e) /\ c.new \in Entry
      BY <1>1, <1>3, <1>7
    <3>2. d = [e EXCEPT !.changed = Put(e.changed, f, i, c.new)]
      BY <2>1 DEF Put
    <3> HIDE DEF d
    <3> QED BY <3>1, <3>2, ChangedSet
  <2>3. RedoChange(v, c) = [v EXCEPT !.changed[f][i] = c.new]
    BY <1>7 DEF RedoChange, i, f
  <2> HIDE DEF d, v
  <2>4. RedoChange(v, c) =
            [added |-> e.added, deleted |-> e.deleted, names |-> FieldNames(e),
             changed |-> Put(e.changed, f, i, c.new),
             features |-> e.features]
    BY <1>6, <2>3 DEF Put
  <2> QED BY <1>5, <2>2, <2>4, SameView DEF d, v
<1>8. CASE IsNew(f)
  <2>1. d = SetAttribute(e, f, i, c.new)
    BY <1>8 DEF RedoChange, i, f
  <2>2. /\ Ready(d) /\ FieldNames(d) = FieldNames(e) /\ d.added = e.added /\ d.deleted = e.deleted
        /\ d.changed = e.changed
        /\ d.features = Put(e.features, f, i, c.new)
    <3>1. f \in Fids /\ e.features[f] # None /\ i \in 1 .. Count(e) /\ c.new \in Value
      BY <1>1, <1>3, <1>8
    <3> HIDE DEF d
    <3> QED BY <2>1, <3>1, AttributeSet
  <2>3. RedoChange(v, c) = SetAttribute(v, f, i, c.new)
    BY <1>8 DEF RedoChange, i, f
  <2>4. v.features[f] # None /\ i \in DOMAIN v.features[f]
    <3>1. e.features[f] # None /\ e.features[f] \in Seq(Value) \union {None} /\ Len(e.features[f]) = Count(e)
      BY <1>1, <1>3, <1>4, <1>8 DEF Buffers
    <3> QED BY <1>2, <1>3, <1>4, <3>1
  <2> HIDE DEF d, v
  <2>5. RedoChange(v, c) = [v EXCEPT !.features[f][i] = c.new]
    BY <2>3, <2>4 DEF SetAttribute
  <2>6. RedoChange(v, c) =
            [added |-> e.added, deleted |-> e.deleted, names |-> FieldNames(e), changed |-> e.changed,
             features |-> Put(e.features, f, i, c.new)]
    BY <1>6, <2>5 DEF Put
  <2> QED BY <1>5, <2>2, <2>6, SameView DEF d, v
<1> QED BY <1>7, <1>8

\* Undoing a changed value.
LEMMA ChangeBack ==
    ASSUME NEW c \in Changes, NEW e, Ready(e), columns \in Seq(Names),
           NEW v, Fits(v), Proper(c, v), View(e) = Redone(v, c)
    PROVE  Ready(UndoChange(e, c)) /\ View(UndoChange(e, c)) = v
<1> DEFINE d == UndoChange(e, c)
           f == c.fid
           i == c.field
<1>1. c.op = "change" /\ f \in Fids /\ c.old \in Entry
  BY DEF Changes
<1>2. /\ i \in 1 .. Count(v)
      /\ IF IsNew(f) THEN v.features[f] # None /\ c.old = v.features[f][i] ELSE c.old = v.changed[f][i]
  BY <1>1 DEF Proper
<1>3. v \in Views /\ \A g \in Fids : v.features[g] # None => IsNew(g) /\ Len(v.features[g]) = Count(v)
  BY DEF Fits
<1>4. /\ v = [added |-> v.added, deleted |-> v.deleted, names |-> v.names,
              changed |-> v.changed, features |-> v.features]
      /\ v.features \in [Fids -> Seq(Value) \union {None}] /\ v.changed \in [Fids -> [Index -> Entry]]
  BY <1>3, ViewRecord
<1>5. View(e) = RedoChange(v, c)
  BY <1>1 DEF Redone
<1>6. Count(v) \in Nat /\ Count(v) <= MaxFields
  <2>1. Len(v.names) \in Nat
    BY <1>3 DEF Views
  <2> QED BY <2>1 DEF Fits
<1>7. i \in Index
  BY <1>2, <1>6, Bounds
<1> HIDE DEF i, f
<1>8. CASE ~IsNew(f)
  <2>1. RedoChange(v, c) = [v EXCEPT !.changed[f][i] = c.new]
    BY <1>8 DEF RedoChange, i, f
  <2>2. RedoChange(v, c) =
            [added |-> v.added, deleted |-> v.deleted, names |-> v.names,
             changed |-> [v.changed EXCEPT ![f] = [v.changed[f] EXCEPT ![i] = c.new]],
             features |-> v.features]
    BY <1>4, <2>1
  <2>3. /\ e.added = v.added /\ e.deleted = v.deleted /\ FieldNames(e) = v.names /\ e.features = v.features
        /\ e.changed = [v.changed EXCEPT ![f] = [v.changed[f] EXCEPT ![i] = c.new]]
    BY <1>5, <2>2 DEF View
  <2>4. i \in 1 .. Count(e)
    BY <1>2, <2>3, SameCount
  <2>5. d = [e EXCEPT !.changed[f][i] = c.old]
    BY <1>8 DEF UndoChange, i, f
  <2>6. /\ Ready(d) /\ FieldNames(d) = FieldNames(e) /\ d.added = e.added /\ d.deleted = e.deleted
        /\ d.features = e.features
        /\ d.changed = Put(e.changed, f, i, c.old)
    <3>1. f \in Fids /\ ~IsNew(f) /\ i \in 1 .. Count(e) /\ c.old \in Entry
      BY <1>1, <1>8, <2>4
    <3>2. d = [e EXCEPT !.changed = Put(e.changed, f, i, c.old)]
      BY <2>5 DEF Put
    <3> HIDE DEF d
    <3> QED BY <3>1, <3>2, ChangedSet
  <2> HIDE DEF d
  <2>7. d.changed = v.changed
    <3>1. [e.changed[f] EXCEPT ![i] = c.old] = v.changed[f]
      BY <1>1, <1>2, <1>4, <1>7, <1>8, <2>3
    <3> QED BY <1>1, <1>4, <2>3, <2>6, <3>1 DEF Put
  <2> QED BY <1>4, <2>3, <2>6, <2>7, SameView DEF d
<1>9. CASE IsNew(f)
  <2>1. RedoChange(v, c) = SetAttribute(v, f, i, c.new)
    BY <1>9 DEF RedoChange, i, f
  <2>2. v.features[f] # None /\ v.features[f] \in Seq(Value) /\ i \in 1 .. Len(v.features[f])
        /\ i \in DOMAIN v.features[f] /\ c.old = v.features[f][i]
    BY <1>1, <1>2, <1>3, <1>4, <1>9
  <2>3. RedoChange(v, c) =
            [added |-> v.added, deleted |-> v.deleted, names |-> v.names, changed |-> v.changed,
             features |-> [v.features EXCEPT ![f] = [v.features[f] EXCEPT ![i] = c.new]]]
    BY <1>4, <2>1, <2>2 DEF SetAttribute
  <2>4. /\ e.added = v.added /\ e.deleted = v.deleted /\ FieldNames(e) = v.names /\ e.changed = v.changed
        /\ e.features = [v.features EXCEPT ![f] = [v.features[f] EXCEPT ![i] = c.new]]
    BY <1>5, <2>3 DEF View
  <2>5. i \in 1 .. Count(e)
    BY <1>2, <2>4, SameCount
  <2>6. d = SetAttribute(e, f, i, c.old)
    BY <1>9 DEF UndoChange, i, f
  <2>7. e.features[f] # None
    <3>1. e.features[f] = [v.features[f] EXCEPT ![i] = c.new] /\ c.new \in Value
      BY <1>1, <1>4, <2>4 DEF Changes
    <3>2. [v.features[f] EXCEPT ![i] = c.new] \in Seq(Value)
      BY <2>2, <3>1, ExceptSeq
    <3> QED BY <3>1, <3>2, SentinelAssumption
  <2>8. c.old \in Value /\ c.old # None
    <3>1. c.old \in Value
      BY <2>2, ElementOfSeq
    <3> QED BY <3>1, SentinelAssumption DEF Value
  <2>9. /\ Ready(d) /\ FieldNames(d) = FieldNames(e) /\ d.added = e.added /\ d.deleted = e.deleted
        /\ d.changed = e.changed
        /\ d.features = Put(e.features, f, i, c.old)
    <3> HIDE DEF d
    <3>1. f \in Fids /\ e.features[f] # None /\ i \in 1 .. Count(e) /\ c.old \in Value
      BY <1>1, <2>5, <2>7, <2>8
    <3> QED BY <2>6, <3>1, AttributeSet
  <2> HIDE DEF d
  <2>10. d.features = v.features
    <3>1. e.features[f] = [v.features[f] EXCEPT ![i] = c.new]
      BY <1>1, <1>4, <2>4
    <3>2. [e.features[f] EXCEPT ![i] = c.old] = v.features[f]
      BY <2>2, <3>1
    <3> QED BY <1>1, <1>4, <2>4, <2>9, <3>2 DEF Put
  <2> QED BY <1>4, <2>4, <2>9, <2>10, SameView DEF d
<1> QED BY <1>8, <1>9

\* A field is renamed and the fields are updated.
Named(e, i, x) == UpdateFields([e EXCEPT !.renamed[i] = x], columns)

\* It has the new name in its place, and all else as before.
LEMMA FieldNamed ==
    ASSUME NEW e, Ready(e), columns \in Seq(Names), NEW i \in 1 .. Count(e), NEW x \in Names
    PROVE  /\ Ready(Named(e, i, x)) /\ FieldNames(Named(e, i, x)) = [FieldNames(e) EXCEPT ![i] = x]
           /\ Named(e, i, x).added = e.added /\ Named(e, i, x).deleted = e.deleted
           /\ Named(e, i, x).changed = e.changed /\ Named(e, i, x).features = e.features
<1> DEFINE d == Named(e, i, x)
           r == [e EXCEPT !.renamed[i] = x]
           n == Count(e)
           names == FieldNames(e)
<1>1. /\ e \in Buffers /\ Size(e) <= MaxFields /\ ~e.undefined /\ NoneHidden(e)
      /\ n \in Nat /\ n <= MaxFields /\ names \in Seq(Names) /\ Len(names) = n
      /\ \A k \in 1 .. n : names[k] = IF e.renamed[k] = None THEN Base(e, k) ELSE e.renamed[k]
      /\ \A k \in Index : k > n => e.renamed[k] = None
      /\ \A f \in Fids, k \in Index : k > n \/ IsNew(f) => e.changed[f][k] = None
      /\ \A f \in Fids : e.features[f] # None => IsNew(f) /\ Len(e.features[f]) = n
  BY ReadyFacts
<1>2. i \in Index /\ i \in 1 .. n /\ 1 .. n \subseteq Index /\ x # None
  BY <1>1, Bounds, SentinelAssumption
<1>3. e.renamed \in [Index -> Name]
  BY <1>1 DEF Buffers
<1>4. [e.renamed EXCEPT ![i] = x] \in [Index -> Name]
  BY <1>2, <1>3 DEF Name
<1>5. /\ r \in Buffers /\ r.renamed = [e.renamed EXCEPT ![i] = x] /\ r.added = e.added /\ r.deleted = e.deleted
      /\ r.changed = e.changed /\ r.features = e.features /\ r.undefined = e.undefined
  BY <1>1, <1>4 DEF Buffers
<1>6. d = UpdateFields(r, columns)
  BY DEF Named
<1> HIDE DEF r, n, d, names
<1>7. Count(r) = n /\ NoneHidden(r) /\ Size(r) = Size(e) /\ \A k : Base(r, k) = Base(e, k)
  BY <1>1, <1>5, SameCount DEF Size, n
<1>8. \A k \in Index : k > n => r.renamed[k] = None
  BY <1>1, <1>2, <1>3, <1>5
<1>9. Good(d) /\ Settled(d) /\ NoneHidden(d) /\ Count(d) = n
  BY <1>1, <1>5, <1>6, <1>7, <1>8, UpdatedSettles
<1>10. /\ d.added = r.added /\ d.deleted = r.deleted /\ d.renamed = r.renamed
       /\ d.changed = r.changed /\ d.features = r.features
  BY <1>1, <1>5, <1>6, <1>7, UpdateFieldsType
<1>11. Ready(d)
  <2>1. \A f \in Fids, k \in Index : k > Count(d) \/ IsNew(f) => d.changed[f][k] = None
    BY <1>1, <1>5, <1>9, <1>10
  <2>2. \A f \in Fids : d.features[f] # None => IsNew(f) /\ Len(d.features[f]) = Count(d)
    BY <1>1, <1>5, <1>9, <1>10
  <2> QED BY <1>9, <2>1, <2>2, ReadyIf
<1>12. /\ FieldNames(d) \in Seq(Names) /\ Len(FieldNames(d)) = n
       /\ \A k \in 1 .. n : FieldNames(d)[k] = IF d.renamed[k] = None THEN Base(d, k) ELSE d.renamed[k]
  BY <1>9, <1>11, ReadyFacts
<1>13. \A k : Base(d, k) = Base(e, k)
  BY <1>7, <1>10, SameCount
<1>14. FieldNames(d) = [names EXCEPT ![i] = x]
  <2>1. [names EXCEPT ![i] = x] \in Seq(Names) /\ Len([names EXCEPT ![i] = x]) = n
    BY <1>1, <1>2, ExceptSeq
  <2>2. ASSUME NEW k \in 1 .. n PROVE FieldNames(d)[k] = [names EXCEPT ![i] = x][k]
    <3>1. d.renamed[k] = IF k = i THEN x ELSE e.renamed[k]
      BY <1>2, <1>3, <1>5, <1>10
    <3>2. [names EXCEPT ![i] = x][k] = IF k = i THEN x ELSE names[k]
      BY <1>1
    <3> QED BY <1>1, <1>2, <1>12, <1>13, <3>1, <3>2
  <2> QED BY <1>12, <2>1, <2>2, SeqEqual
<1> QED BY <1>5, <1>10, <1>11, <1>14 DEF d, names

\* Renaming a field, and undoing it.
LEMMA RenameThere ==
    ASSUME NEW c \in Renamings, NEW e, Ready(e), columns \in Seq(Names), Proper(c, View(e))
    PROVE  Ready(RedoRename(e, c)) /\ View(RedoRename(e, c)) = Redone(View(e), c)
<1> DEFINE d == RedoRename(e, c)
           v == View(e)
           i == c.field
<1>1. c.op = "rename" /\ c.name \in Names
  BY DEF Renamings
<1>2. v.added = e.added /\ v.deleted = e.deleted
  BY DEF View
<1>3. i \in 1 .. Count(e)
  <2>1. Count(v) = Count(e)
    BY <1>2, SameCount
  <2> HIDE DEF v
  <2> QED BY <1>1, <2>1 DEF Proper, v
<1>4. d = Named(e, i, c.name)
  BY DEF RedoRename, Named
<1>5. Redone(v, c) = [added |-> e.added, deleted |-> e.deleted, names |-> [FieldNames(e) EXCEPT ![i] = c.name],
                      changed |-> e.changed, features |-> e.features]
  BY <1>1 DEF Redone, View
<1> HIDE DEF d, i
<1>6. /\ Ready(d) /\ FieldNames(d) = [FieldNames(e) EXCEPT ![i] = c.name]
      /\ d.added = e.added /\ d.deleted = e.deleted /\ d.changed = e.changed /\ d.features = e.features
  BY <1>1, <1>3, <1>4, FieldNamed
<1>7. View(d) = Redone(v, c)
  BY <1>5, <1>6 DEF View
<1> QED BY <1>6, <1>7 DEF d, v

\* Undoing a renaming.
LEMMA RenameBack ==
    ASSUME NEW c \in Renamings, NEW e, Ready(e), columns \in Seq(Names),
           NEW v, Fits(v), Proper(c, v), View(e) = Redone(v, c)
    PROVE  Ready(UndoRename(e, c)) /\ View(UndoRename(e, c)) = v
<1> DEFINE d == UndoRename(e, c)
           i == c.field
<1>1. c.op = "rename" /\ c.name \in Names /\ c.old \in Names
  BY DEF Renamings
<1>2. /\ v = [added |-> v.added, deleted |-> v.deleted, names |-> v.names,
              changed |-> v.changed, features |-> v.features]
      /\ v.names \in Seq(Names) /\ Len(v.names) = Count(v)
  BY ViewRecord DEF Fits
<1>3. i \in 1 .. Count(v) /\ c.old = v.names[i]
  BY <1>1 DEF Proper
<1>4. d = Named(e, i, c.old)
  BY DEF UndoRename, Named
<1>5. Redone(v, c) = [added |-> v.added, deleted |-> v.deleted, names |-> [v.names EXCEPT ![i] = c.name],
                      changed |-> v.changed, features |-> v.features]
  BY <1>1, <1>2 DEF Redone
<1> HIDE DEF d, i
<1>6. /\ e.added = v.added /\ e.deleted = v.deleted /\ FieldNames(e) = [v.names EXCEPT ![i] = c.name]
      /\ e.changed = v.changed /\ e.features = v.features
  BY <1>5 DEF View
<1>7. i \in 1 .. Count(e)
  BY <1>3, <1>6, SameCount
<1>8. /\ Ready(d) /\ FieldNames(d) = [FieldNames(e) EXCEPT ![i] = c.old]
      /\ d.added = e.added /\ d.deleted = e.deleted /\ d.changed = e.changed /\ d.features = e.features
  BY <1>1, <1>4, <1>7, FieldNamed
<1>9. [FieldNames(e) EXCEPT ![i] = c.old] = v.names
  <2>1. PICK s : s = v.names
    OBVIOUS
  <2>2. s \in Seq(Names) /\ i \in DOMAIN s /\ c.old = s[i] /\ FieldNames(e) = [s EXCEPT ![i] = c.name]
    BY <1>2, <1>3, <1>6, <2>1
  <2>3. s = [k \in DOMAIN s |-> s[k]]
    BY <2>2
  <2>4. [FieldNames(e) EXCEPT ![i] = c.old] = s
    BY <2>2, <2>3
  <2> QED BY <2>1, <2>4
<1>10. View(d) = v
  BY <1>2, <1>6, <1>8, <1>9, SameView
<1> QED BY <1>8, <1>10 DEF d

\* What the entries after the last field are does not matter to a shift up there.
LEMMA NothingToShift ==
    ASSUME NEW n \in Nat, NEW map \in [Index -> Name \union Entry],
           \A k \in Index : k > n => map[k] = None
    PROVE  ShiftedUp(map, n + 1) = map /\ RenamedUp(map, n + 1) = map
<1>1. MaxFields + MaxCmds \in Nat /\ Index = 1 .. MaxFields + MaxCmds
  BY Bounds
<1>2. ASSUME NEW k \in Index, k > n + 1 PROVE k - 1 \in Index /\ map[k - 1] = None /\ map[k] = None
  <2>1. k - 1 \in Index /\ k - 1 > n /\ k > n
    BY <1>1, <1>2
  <2> QED BY <2>1
<1>3. ASSUME NEW k \in Index PROVE k \in Int /\ (k < n + 1 \/ k = n + 1 \/ k > n + 1) /\ (k > n + 1 => ~(k < n + 1))
  BY <1>1
<1>4. ASSUME NEW k \in Index, k = n + 1 PROVE map[k] = None /\ ~(k < n + 1)
  <2>1. k > n
    BY <1>4
  <2> QED BY <1>4, <2>1
<1>5. ShiftedUp(map, n + 1) = map
  <2>1. \A k \in Index : ShiftedUp(map, n + 1)[k] = map[k]
    BY <1>2, <1>3, <1>4 DEF ShiftedUp
  <2> QED BY <2>1 DEF ShiftedUp
<1>6. RenamedUp(map, n + 1) = map
  <2>1. \A k \in Index : RenamedUp(map, n + 1)[k] = map[k]
    BY <1>2, <1>3, <1>4 DEF RenamedUp
  <2> QED BY <2>1 DEF RenamedUp
<1> QED BY <1>5, <1>6

\* Adding a field.
LEMMA AddThere ==
    ASSUME NEW c \in Additions, NEW e, Ready(e), columns \in Seq(Names), Proper(c, View(e)),
           Size(e) + 1 <= MaxFields, NoneHidden(Redone(View(e), c))
    PROVE  Ready(RedoAdd(e, c)) /\ View(RedoAdd(e, c)) = Redone(View(e), c)
<1> DEFINE a == [e EXCEPT !.added = Append(@, c.name)]
           u == UpdateFields(a, columns)
           i == c.field
           h == HandleAttributeAdded(u, i)
           n == Count(e)
           m == Len(Stays(e))
           added == Append(e.added, c.name)
           names == FieldNames(e)
           features == [f \in Fids |-> IF e.features[f] = None THEN None ELSE InsertAt(e.features[f], i, Null)]
<1>1. /\ e \in Buffers /\ Size(e) <= MaxFields /\ ~e.undefined /\ NoneHidden(e)
      /\ n \in Nat /\ n <= MaxFields /\ names \in Seq(Names) /\ Len(names) = n
      /\ \A k \in 1 .. n : names[k] = IF e.renamed[k] = None THEN Base(e, k) ELSE e.renamed[k]
      /\ \A k \in Index : k > n => e.renamed[k] = None
      /\ \A f \in Fids, k \in Index : k > n \/ IsNew(f) => e.changed[f][k] = None
      /\ \A f \in Fids : e.features[f] # None => IsNew(f) /\ Len(e.features[f]) = n
  BY ReadyFacts
<1>2. c.op = "add" /\ c.name \in Names /\ i \in Index
  BY DEF Additions
<1>3. /\ e.added \in Seq(Names) /\ e.renamed \in [Index -> Name] /\ e.changed \in [Fids -> [Index -> Entry]]
      /\ e.features \in [Fids -> Seq(Value) \union {None}] /\ Len(e.added) \in Nat
  BY <1>1 DEF Buffers
<1>4. /\ added \in Seq(Names) /\ Len(added) = Len(e.added) + 1
      /\ \A k \in 1 .. Len(e.added) : added[k] = e.added[k]
      /\ added[Len(e.added) + 1] = c.name
  BY <1>2, <1>3, AppendProperties
<1>5. i = n + 1
  <2>1. View(e).added = e.added /\ View(e).deleted = e.deleted
    BY DEF View
  <2>2. Count(View(e)) = n
    BY <2>1, SameCount
  <2> QED BY <1>2, <2>2 DEF Proper
<1>6. m \in Nat /\ Len(columns) \in Nat /\ m <= Len(columns) /\ n = m + Len(e.added)
  BY StaysList DEF Count
<1>7. Redone(View(e), c) = [added |-> added, deleted |-> e.deleted, names |-> Append(names, c.name),
                            changed |-> e.changed, features |-> features]
  BY <1>2 DEF Redone, View
<1>8. h = RedoAdd(e, c)
  BY DEF RedoAdd
<1> HIDE DEF added
<1>9. /\ a \in Buffers /\ a.added = added /\ a.deleted = e.deleted /\ a.renamed = e.renamed
      /\ a.changed = e.changed /\ a.features = e.features /\ a.undefined = e.undefined
  BY <1>1, <1>4 DEF Buffers, added
<1> HIDE DEF a, u, h, n, m, names, i, features
<1>10. Stays(a) = Stays(e) /\ Count(a) = n + 1
  <2>1. Stays(a) = Stays(e)
    BY <1>9 DEF Stays
  <2>2. Count(a) = m + (Len(e.added) + 1)
    BY <1>4, <1>9, <2>1 DEF Count, m
  <2> QED BY <1>3, <1>6, <2>1, <2>2
<1>11. NoneHidden(a)
  <2>1. Redone(View(e), c).added = added /\ Redone(View(e), c).deleted = e.deleted
    BY <1>7
  <2> QED BY <1>9, <2>1, SameCount
<1>12. Size(a) <= MaxFields
  <2>1. Size(a) = Size(e) + 1
    <3>1. Size(a) = Len(columns) + (Len(e.added) + 1) /\ Size(e) = Len(columns) + Len(e.added)
      BY <1>4, <1>9 DEF Size
    <3>2. Len(columns) \in Nat /\ Len(e.added) \in Nat
      BY <1>3, <1>6
    <3> QED BY <3>1, <3>2
  <2> QED BY <2>1
<1>13. \A k \in Index : k > Count(a) => a.renamed[k] = None
  <2>1. \A k \in Index : k > n + 1 => k > n
    BY <1>1, Bounds
  <2> QED BY <1>1, <1>9, <1>10, <2>1
<1>14. Good(u) /\ Settled(u) /\ NoneHidden(u) /\ Count(u) = n + 1
  BY <1>1, <1>9, <1>10, <1>11, <1>12, <1>13, UpdatedSettles DEF u
<1>15. /\ u \in Buffers /\ u.added = added /\ u.deleted = e.deleted /\ u.renamed = e.renamed
       /\ u.changed = e.changed /\ u.features = e.features /\ ~u.undefined
  <2>1. /\ u \in Buffers /\ u.added = a.added /\ u.deleted = a.deleted /\ u.renamed = a.renamed
        /\ u.changed = a.changed /\ u.features = a.features
    BY <1>9, <1>12, UpdateFieldsType DEF u
  <2> QED BY <1>9, <1>14, <2>1 DEF Settled
<1>16. /\ h \in Buffers /\ h.added = added /\ h.deleted = e.deleted /\ h.fields = u.fields
       /\ h.renamed = RenamedUp(e.renamed, i) /\ h.changed = [f \in Fids |-> ShiftedUp(e.changed[f], i)]
       /\ h.undefined <=> \E f \in Fids : e.features[f] # None /\ i > Len(e.features[f]) + 1
  <2> HIDE DEF u
  <2>1. /\ h \in Buffers /\ h.added = u.added /\ h.deleted = u.deleted /\ h.fields = u.fields
        /\ h.renamed = RenamedUp(u.renamed, i) /\ h.changed = [f \in Fids |-> ShiftedUp(u.changed[f], i)]
        /\ h.undefined <=> u.undefined \/ \E f \in Fids : u.features[f] # None /\ i > Len(u.features[f]) + 1
    BY <1>2, <1>15, AttributeAdded DEF h
  <2> QED BY <1>15, <2>1
<1>17. h.renamed = e.renamed
  <2>1. e.renamed \in [Index -> Name \union Entry]
    BY <1>3
  <2> QED BY <1>1, <1>5, <1>16, <2>1, NothingToShift
<1>18. h.changed = e.changed
  <2>1. ASSUME NEW f \in Fids PROVE ShiftedUp(e.changed[f], i) = e.changed[f]
    <3>1. e.changed[f] \in [Index -> Name \union Entry]
      BY <1>3
    <3>2. \A k \in Index : k > n => e.changed[f][k] = None
      BY <1>1
    <3> QED BY <1>1, <1>5, <3>1, <3>2, NothingToShift
  <2> QED BY <1>3, <1>16, <2>1
<1>19. ~h.undefined /\ \A f \in Fids : e.features[f] # None => ~(i > Len(e.features[f]) + 1)
  BY <1>1, <1>5, <1>16
<1>20. h.features = features
  <2>1. h.features = [f \in Fids |-> IF e.features[f] = None \/ i > Len(e.features[f]) + 1 THEN e.features[f]
                                     ELSE InsertAt(e.features[f], i, Null)]
    BY <1>15 DEF h, HandleAttributeAdded, Buffers
  <2> QED BY <1>3, <1>19, <2>1 DEF features
<1>21. \A f \in Fids : features[f] # None => IsNew(f) /\ Len(features[f]) = n + 1
  <2>1. ASSUME NEW f \in Fids, features[f] # None PROVE IsNew(f) /\ Len(features[f]) = n + 1
    <3>1. e.features[f] # None /\ features[f] = InsertAt(e.features[f], i, Null)
      BY <2>1 DEF features
    <3>2. e.features[f] \in Seq(Value) /\ Len(e.features[f]) = n /\ IsNew(f) /\ Null \in Value
      BY <1>1, <1>3, <3>1 DEF Value
    <3>3. i \in 1 .. Len(e.features[f]) + 1
      BY <1>1, <1>5, <3>2
    <3>4. Len(InsertAt(e.features[f], i, Null)) = n + 1
      BY <3>2, <3>3, Inserted
    <3> QED BY <3>1, <3>2, <3>4
  <2> QED BY <2>1
<1>22. Count(h) = n + 1 /\ NoneHidden(h)
  BY <1>14, <1>15, <1>16, SameCount
<1>23. Good(h) /\ Settled(h)
  <2>1. Good(h)
    BY <1>14, <1>15, <1>16, <1>17, <1>19, GoodValues
  <2>2. UpdateFields(h, columns).fields = UpdateFields(u, columns).fields
    BY <1>15, <1>16, <1>17, SameFields
  <2>3. Settled(h)
    BY <1>14, <1>15, <1>16, <1>17, <1>19, <2>2 DEF Settled
  <2> QED BY <2>1, <2>3
<1>24. Ready(h)
  <2>1. \A f \in Fids, k \in Index : k > Count(h) \/ IsNew(f) => h.changed[f][k] = None
    <3>1. \A k \in Index : k > n + 1 => k > n
      BY <1>1, Bounds
    <3> QED BY <1>1, <1>18, <1>22, <3>1
  <2>2. \A f \in Fids : h.features[f] # None => IsNew(f) /\ Len(h.features[f]) = Count(h)
    BY <1>20, <1>21, <1>22
  <2> QED BY <1>22, <1>23, <2>1, <2>2, ReadyIf
<1>25. /\ FieldNames(h) \in Seq(Names) /\ Len(FieldNames(h)) = n + 1
       /\ \A k \in 1 .. n + 1 : FieldNames(h)[k] = IF e.renamed[k] = None THEN Base(h, k) ELSE e.renamed[k]
  BY <1>17, <1>22, <1>24, ReadyFacts
<1>26. Stays(h) = Stays(e)
  BY <1>16 DEF Stays
<1>27. FieldNames(h) = Append(names, c.name)
  <2>1. /\ Append(names, c.name) \in Seq(Names) /\ Len(Append(names, c.name)) = n + 1
        /\ \A k \in 1 .. n : Append(names, c.name)[k] = names[k]
        /\ Append(names, c.name)[n + 1] = c.name
    BY <1>1, <1>2, AppendProperties
  <2>2. ASSUME NEW k \in 1 .. n + 1 PROVE FieldNames(h)[k] = Append(names, c.name)[k]
    <3>1. CASE k \in 1 .. n
      <4>1. Base(h, k) = Base(e, k)
        <5>1. CASE k <= m
          BY <1>26, <5>1 DEF Base, m
        <5>2. CASE ~(k <= m)
          <6>1. k - m \in 1 .. Len(e.added)
            BY <1>3, <1>6, <3>1, <5>2
          <6>2. Base(h, k) = added[k - m] /\ Base(e, k) = e.added[k - m]
            BY <1>16, <1>26, <5>2 DEF Base, m
          <6> QED BY <1>4, <6>1, <6>2
        <5> QED BY <5>1, <5>2
      <4> QED BY <1>1, <1>25, <2>1, <3>1, <4>1
    <3>2. CASE k = n + 1
      <4>1. k \in Index /\ k > n
        BY <1>1, <1>2, <1>5, <3>2
      <4>2. e.renamed[k] = None
        BY <1>1, <4>1
      <4>3. ~(k <= m) /\ k - m = Len(e.added) + 1
        BY <1>3, <1>6, <3>2
      <4>4. Base(h, k) = added[Len(e.added) + 1]
        BY <1>16, <1>26, <4>3 DEF Base, m
      <4> QED BY <1>4, <1>25, <2>1, <3>2, <4>2, <4>4
    <3> QED BY <1>1, <3>1, <3>2
  <2> QED BY <1>25, <2>1, <2>2, SeqEqual
<1>28. View(h) = Redone(View(e), c)
  BY <1>7, <1>16, <1>18, <1>20, <1>27 DEF View
<1> QED BY <1>8, <1>24, <1>28

\* What is keyed by field is shifted down: nothing remains after the last field.
LEMMA NothingAfter ==
    ASSUME NEW n \in Nat, NEW map \in [Index -> Name \union Entry], NEW i \in 1 .. n,
           \A k \in Index : k > n => map[k] = None
    PROVE  \A k \in Index : k > n - 1 => ShiftedDown(map, i)[k] = None
<1>1. MaxFields + MaxCmds \in Nat /\ Index = 1 .. MaxFields + MaxCmds /\ i \in Nat
  BY Bounds
<1>2. ASSUME NEW k \in Index, k > n - 1 PROVE ShiftedDown(map, i)[k] = None
  <2>1. ~(k < i)
    BY <1>1, <1>2
  <2>2. k + 1 \in Index => map[k + 1] = None
    <3>1. k + 1 > n
      BY <1>1, <1>2
    <3> QED BY <3>1
  <2> QED BY <2>1, <2>2 DEF ShiftedDown
<1> QED BY <1>2

\* Undoing the addition of the last field.
LEMMA AddBack ==
    ASSUME NEW c \in Additions, NEW e, Ready(e), columns \in Seq(Names),
           NEW v, Fits(v), Proper(c, v), View(e) = Redone(v, c), ~LosesNames(e, c, TRUE)
    PROVE  Ready(UndoAdd(e, c)) /\ View(UndoAdd(e, c)) = v
<1> DEFINE n == Count(v)
           m == Len(Stays(v))
           i == c.field
           at == e.fields[i].at
           r == [e EXCEPT !.added = RemoveAt(@, at)]
           h == HandleAttributeDeleted(r, i)
           d == UpdateFields(h, columns)
<1>1. c.op = "add" /\ c.name \in Names /\ i \in Index
  BY DEF Additions
<1>2. /\ v \in Views
      /\ v = [added |-> v.added, deleted |-> v.deleted, names |-> v.names,
              changed |-> v.changed, features |-> v.features]
      /\ v.added \in Seq(Names) /\ v.deleted \in SUBSET Index /\ v.names \in Seq(Names)
      /\ v.changed \in [Fids -> [Index -> Entry]] /\ v.features \in [Fids -> Seq(Value) \union {None}]
  BY ViewRecord DEF Fits
<1>3. /\ NoneHidden(v) /\ Len(v.names) = n /\ n <= MaxFields /\ n \in Nat
      /\ \A f \in Fids, k \in Index : k > n \/ IsNew(f) => v.changed[f][k] = None
      /\ \A f \in Fids : v.features[f] # None => IsNew(f) /\ Len(v.features[f]) = n
  BY <1>2 DEF Fits
<1>4. i = n + 1
  BY <1>1 DEF Proper
<1>5. m \in Nat /\ n = m + Len(v.added) /\ Len(v.added) \in Nat
  BY <1>2, StaysList DEF Count
<1> DEFINE added == Append(v.added, c.name)
           features == [f \in Fids |-> IF v.features[f] = None THEN None ELSE InsertAt(v.features[f], i, Null)]
<1>6. /\ e.added = added /\ e.deleted = v.deleted /\ FieldNames(e) = Append(v.names, c.name)
      /\ e.changed = v.changed /\ e.features = features
  <2>1. Redone(v, c) = [added |-> added, deleted |-> v.deleted, names |-> Append(v.names, c.name),
                        changed |-> v.changed, features |-> features]
    BY <1>1, <1>2 DEF Redone
  <2> QED BY <2>1 DEF View
<1>7. /\ added \in Seq(Names) /\ Len(added) = Len(v.added) + 1
      /\ \A k \in 1 .. Len(v.added) : added[k] = v.added[k]
  BY <1>1, <1>2, AppendProperties
<1> HIDE DEF added, n, m, i, features
<1>8. /\ e \in Buffers /\ Size(e) <= MaxFields /\ ~e.undefined /\ NoneHidden(e)
      /\ e.fields = UpdateFields(e, columns).fields
      /\ \A k \in 1 .. Count(e) : FieldNames(e)[k] = IF e.renamed[k] = None THEN Base(e, k) ELSE e.renamed[k]
      /\ \A k \in Index : k > Count(e) => e.renamed[k] = None
      /\ \A f \in Fids : e.features[f] # None => Len(e.features[f]) = Count(e)
  BY ReadyFacts
<1>9. Stays(e) = Stays(v) /\ Count(e) = n + 1
  <2>1. Stays(e) = Stays(v)
    BY <1>6 DEF Stays
  <2>2. Count(e) = m + (Len(v.added) + 1)
    BY <1>6, <1>7, <2>1 DEF Count, m
  <2> QED BY <1>5, <2>1, <2>2
<1>10. i \in DOMAIN e.fields /\ at = Len(v.added) + 1 /\ at \in DOMAIN e.added /\ at \in 1 .. Len(e.added)
  <2>1. i \in 1 .. Count(e) /\ ~(i <= Len(Stays(e))) /\ i - Len(Stays(e)) = Len(v.added) + 1
    BY <1>3, <1>4, <1>5, <1>9 DEF m
  <2>2. i \in DOMAIN e.fields /\ at = i - Len(Stays(e))
    BY <1>8, <2>1, NamesAre
  <2>3. DOMAIN e.added = 1 .. Len(v.added) + 1 /\ Len(e.added) = Len(v.added) + 1
    BY <1>6, <1>7
  <2> QED BY <1>5, <2>1, <2>2, <2>3
<1>11. UndoAdd(e, c) = d
  BY <1>10 DEF UndoAdd, i
<1> HIDE DEF at
<1>12. RemoveAt(e.added, at) = v.added
  <2>1. /\ RemoveAt(added, at) \in Seq(Names) /\ Len(RemoveAt(added, at)) = Len(added) - 1
    BY <1>6, <1>7, <1>10, Removed
  <2>2. \A k \in 1 .. Len(added) - 1 : RemoveAt(added, at)[k] = IF k < at THEN added[k] ELSE added[k + 1]
    BY <1>6, <1>7, <1>10, RemovedEntries
  <2>3. Len(added) - 1 = Len(v.added) /\ \A k \in 1 .. Len(v.added) : k < at
    BY <1>5, <1>7, <1>10
  <2>4. \A k \in 1 .. Len(v.added) : RemoveAt(added, at)[k] = v.added[k]
    BY <1>7, <2>2, <2>3
  <2> QED BY <1>2, <1>6, <2>1, <2>3, <2>4, SeqEqual
<1>13. /\ r \in Buffers /\ r.added = v.added /\ r.deleted = e.deleted /\ r.renamed = e.renamed
       /\ r.changed = e.changed /\ r.features = e.features /\ r.undefined = e.undefined
  BY <1>2, <1>8, <1>12 DEF Buffers
<1> HIDE DEF r, h, d
<1>14. /\ h \in Buffers /\ h.added = v.added /\ h.deleted = v.deleted
       /\ h.renamed = RenamedDown(e.renamed, i) /\ h.changed = [f \in Fids |-> ShiftedDown(v.changed[f], i)]
       /\ h.undefined <=> \E f \in Fids : e.features[f] # None /\ i > Len(e.features[f])
  BY <1>1, <1>6, <1>8, <1>13, AttributeDeleted DEF h
<1>15. h.renamed = ShiftedDown(e.renamed, i)
  BY <1>1, <1>14 DEF LosesNames, i
<1>16. e.renamed \in [Index -> Name] /\ e.renamed \in [Index -> Name \union Entry]
  BY <1>8 DEF Buffers
<1>17. i \in 1 .. n + 1 /\ n + 1 \in Nat /\ n + 1 - 1 = n
  BY <1>3, <1>4
<1>18. \A k \in Index : k > n => h.renamed[k] = None
  <2>1. PICK l : l = n + 1
    OBVIOUS
  <2>2. l \in Nat /\ i \in 1 .. l /\ \A k \in Index : k > l => e.renamed[k] = None
    BY <1>8, <1>9, <1>17, <2>1
  <2>3. \A k \in Index : k > l - 1 => ShiftedDown(e.renamed, i)[k] = None
    BY <1>16, <2>2, NothingAfter
  <2>4. l - 1 = n
    BY <1>3, <2>1
  <2> QED BY <1>15, <2>3, <2>4
<1>19. \A k \in 1 .. n : h.renamed[k] = e.renamed[k]
  <2>1. \A k \in 1 .. n : k \in Index /\ k < i
    BY <1>3, <1>4, Bounds
  <2> QED BY <1>15, <2>1 DEF ShiftedDown
<1>20. h.changed = v.changed
  <2>1. ASSUME NEW f \in Fids PROVE ShiftedDown(v.changed[f], i) = v.changed[f]
    <3>1. v.changed[f] \in [Index -> Entry] /\ \A k \in Index : k > n => v.changed[f][k] = None
      BY <1>2, <1>3
    <3>2. ASSUME NEW k \in Index PROVE ShiftedDown(v.changed[f], i)[k] = v.changed[f][k]
      <4>1. CASE k < i
        BY <4>1 DEF ShiftedDown
      <4>2. CASE ~(k < i)
        <5>1. k > n /\ k + 1 > n
          BY <1>3, <1>4, <4>2, Bounds
        <5> QED BY <3>1, <4>2, <5>1 DEF ShiftedDown
      <4> QED BY <4>1, <4>2
    <3> QED BY <3>1, <3>2 DEF ShiftedDown
  <2> QED BY <1>2, <1>14, <2>1
<1>21. ~h.undefined /\ \A f \in Fids : e.features[f] # None => ~(i > Len(e.features[f]))
  BY <1>3, <1>4, <1>8, <1>9, <1>14
<1>22. h.features = v.features
  <2>1. h.features = [f \in Fids |-> IF e.features[f] = None \/ i > Len(e.features[f]) THEN e.features[f]
                                     ELSE RemoveAt(e.features[f], i)]
    BY <1>13 DEF h, HandleAttributeDeleted, Buffers
  <2>2. ASSUME NEW f \in Fids PROVE h.features[f] = v.features[f]
    <3>1. e.features[f] = IF v.features[f] = None THEN None ELSE InsertAt(v.features[f], i, Null)
      BY <1>6 DEF features
    <3>2. CASE v.features[f] = None
      BY <2>1, <3>1, <3>2
    <3>3. CASE v.features[f] # None
      <4>1. v.features[f] \in Seq(Value) /\ i \in 1 .. Len(v.features[f]) + 1 /\ Null \in Value
        BY <1>2, <1>3, <1>17, <3>3 DEF Value
      <4>2. InsertAt(v.features[f], i, Null) \in Seq(Value)
        BY <4>1, Inserted
      <4>3. e.features[f] # None
        BY <3>1, <3>3, <4>2, SentinelAssumption
      <4>4. h.features[f] = RemoveAt(InsertAt(v.features[f], i, Null), i)
        BY <1>21, <2>1, <3>1, <3>3, <4>3
      <4> QED BY <4>1, <4>4, RemovedInserted
    <3> QED BY <3>2, <3>3
  <2> QED BY <1>2, <2>1, <2>2
<1>23. Count(h) = n /\ NoneHidden(h) /\ \A k : Base(h, k) = Base(v, k)
  BY <1>3, <1>14, SameCount DEF n
<1>24. Size(h) <= MaxFields
  <2>1. Size(h) = Len(columns) + Len(v.added) /\ Size(e) = Len(columns) + (Len(v.added) + 1)
    BY <1>6, <1>7, <1>14 DEF Size
  <2>2. Len(columns) \in Nat
    OBVIOUS
  <2> QED BY <1>5, <1>8, <2>1, <2>2, Bounds
<1>25. Good(d) /\ Settled(d) /\ NoneHidden(d) /\ Count(d) = n
  BY <1>14, <1>18, <1>21, <1>23, <1>24, UpdatedSettles DEF d
<1>26. /\ d.added = v.added /\ d.deleted = v.deleted /\ d.renamed = h.renamed
       /\ d.changed = v.changed /\ d.features = v.features
  <2>1. /\ d.added = h.added /\ d.deleted = h.deleted /\ d.renamed = h.renamed
        /\ d.changed = h.changed /\ d.features = h.features
    BY <1>14, <1>24, UpdateFieldsType DEF d
  <2> QED BY <1>14, <1>20, <1>22, <2>1
<1>27. Ready(d)
  <2>1. \A f \in Fids, k \in Index : k > Count(d) \/ IsNew(f) => d.changed[f][k] = None
    BY <1>3, <1>25, <1>26
  <2>2. \A f \in Fids : d.features[f] # None => IsNew(f) /\ Len(d.features[f]) = Count(d)
    BY <1>3, <1>25, <1>26
  <2> QED BY <1>25, <2>1, <2>2, ReadyIf
<1>28. /\ FieldNames(d) \in Seq(Names) /\ Len(FieldNames(d)) = n
       /\ \A k \in 1 .. n : FieldNames(d)[k] = IF h.renamed[k] = None THEN Base(d, k) ELSE h.renamed[k]
  BY <1>25, <1>26, <1>27, ReadyFacts
<1>29. FieldNames(d) = v.names
  <2>1. ASSUME NEW k \in 1 .. n PROVE FieldNames(d)[k] = v.names[k]
    <3>1. k \in 1 .. Count(e) /\ FieldNames(e)[k] = v.names[k]
      <4>1. Append(v.names, c.name)[k] = v.names[k]
        BY <1>1, <1>2, <1>3, AppendProperties
      <4> QED BY <1>3, <1>6, <1>9, <4>1
    <3>2. Base(d, k) = Base(e, k)
      <4>1. Stays(d) = Stays(v)
        BY <1>26 DEF Stays
      <4>2. CASE k <= m
        BY <1>9, <4>1, <4>2 DEF Base, m
      <4>3. CASE ~(k <= m)
        <5>1. k - m \in 1 .. Len(v.added)
          BY <1>5, <4>3
        <5>2. Base(d, k) = v.added[k - m] /\ Base(e, k) = added[k - m]
          BY <1>6, <1>9, <1>26, <4>1, <4>3 DEF Base, m
        <5> QED BY <1>7, <5>1, <5>2
      <4> QED BY <4>2, <4>3
    <3> QED BY <1>8, <1>19, <1>28, <3>1, <3>2
  <2> QED BY <1>2, <1>3, <1>28, <2>1, SeqEqual
<1>30. View(d) = v
  BY <1>2, <1>26, <1>29, SameView
<1> QED BY <1>11, <1>27, <1>30

\* One field is not there any more: the others move up.
LEMMA FieldLess ==
    ASSUME NEW v, NEW w, columns \in Seq(Names), v.added \in Seq(Names), NEW i \in 1 .. Count(v),
           i <= Len(Stays(v)) => w.added = v.added /\ w.deleted = v.deleted \union {Stays(v)[i]},
           ~(i <= Len(Stays(v))) => w.added = RemoveAt(v.added, i - Len(Stays(v))) /\ w.deleted = v.deleted
    PROVE  /\ Count(w) = Count(v) - 1
           /\ \A k \in 1 .. Count(v) - 1 : Base(w, k) = IF k < i THEN Base(v, k) ELSE Base(v, k + 1)
<1> DEFINE n == Count(v)
           m == Len(Stays(v))
           a == Len(v.added)
<1>1. m \in Nat /\ a \in Nat /\ n = m + a /\ m = Cardinality(DOMAIN columns \ v.deleted)
  BY StaysList DEF Count
<1> HIDE DEF n, m, a
<1>2. i \in 1 .. n /\ n \in Nat /\ i \in Nat
  BY <1>1 DEF n
<1>3. CASE i <= m
  <2> DEFINE ids == DOMAIN columns \ v.deleted
             p == Stays(v)[i]
             rest == ids \ {p}
  <2>1. w.added = v.added /\ w.deleted = v.deleted \union {p}
    BY <1>3 DEF m
  <2>2. ids \in SUBSET Int /\ IsFiniteSet(ids) /\ Stays(v) = Sorted(ids) /\ i \in 1 .. Cardinality(ids)
    BY <1>1, <1>2, <1>3, StaysList DEF Stays
  <2>3. Stays(w) = Sorted(rest)
    <3>1. DOMAIN columns \ w.deleted = rest
      BY <2>1
    <3> QED BY <3>1 DEF Stays
  <2>4. /\ Cardinality(rest) = m - 1
        /\ \A k \in 1 .. m - 1 : Stays(w)[k] = IF k < i THEN Stays(v)[k] ELSE Stays(v)[k + 1]
    <3>1. Cardinality(ids) = m /\ p = Sorted(ids)[i]
      BY <1>1, <2>2
    <3> HIDE DEF ids, p
    <3>2. rest = ids \ {Sorted(ids)[i]}
      BY <3>1
    <3> HIDE DEF rest
    <3>3. /\ Cardinality(rest) = Cardinality(ids) - 1
          /\ \A k \in 1 .. Cardinality(ids) - 1 :
                Sorted(rest)[k] = IF k < i THEN Sorted(ids)[k] ELSE Sorted(ids)[k + 1]
      BY <2>2, <3>2, SortedWithout
    <3> QED BY <2>2, <2>3, <3>1, <3>3
  <2>5. Len(Stays(w)) = m - 1
    <3>1. Len(Stays(w)) = Cardinality(DOMAIN columns \ w.deleted)
      BY StaysList
    <3>2. DOMAIN columns \ w.deleted = rest
      BY <2>1
    <3> QED BY <2>4, <3>1, <3>2
  <2> HIDE DEF ids, p, rest
  <2>6. Count(w) = n - 1
    BY <1>1, <2>1, <2>5 DEF Count, a
  <2>7. ASSUME NEW k \in 1 .. n - 1
        PROVE  Base(w, k) = IF k < i THEN Base(v, k) ELSE Base(v, k + 1)
    <3>1. k \in Nat
      BY <1>2
    <3>2. CASE k < i
      <4>1. k <= m - 1 /\ k \in 1 .. m - 1 /\ k <= m
        BY <1>1, <1>2, <1>3, <3>2
      <4>2. Stays(w)[k] = Stays(v)[k]
        BY <2>4, <3>2, <4>1
      <4> QED BY <2>5, <3>2, <4>1, <4>2 DEF Base, m
    <3>3. CASE ~(k < i) /\ k <= m - 1
      <4> DEFINE j == k + 1
      <4>1. k \in 1 .. m - 1 /\ j <= m
        BY <1>1, <1>2, <3>1, <3>3
      <4>2. Stays(w)[k] = Stays(v)[j]
        BY <2>4, <3>3, <4>1
      <4> HIDE DEF j
      <4>3. Base(w, k) = Base(v, j)
        BY <2>5, <3>3, <4>1, <4>2 DEF Base, m
      <4> QED BY <3>3, <4>3 DEF j
    <3>4. CASE ~(k < i) /\ ~(k <= m - 1)
      <4> DEFINE j == k + 1
      <4>1. ~(j <= m) /\ j - m = k - (m - 1)
        BY <1>1, <1>2, <3>1, <3>4
      <4> HIDE DEF j
      <4>2. Base(w, k) = v.added[k - (m - 1)]
        BY <2>1, <2>5, <3>4 DEF Base
      <4>3. Base(v, j) = v.added[j - m]
        BY <4>1 DEF Base, m
      <4> QED BY <3>4, <4>1, <4>2, <4>3 DEF j
    <3> QED BY <3>2, <3>3, <3>4
  <2> QED BY <2>6, <2>7 DEF n
<1>4. CASE ~(i <= m)
  <2> DEFINE at == i - m
  <2>1. w.added = RemoveAt(v.added, at) /\ w.deleted = v.deleted
    BY <1>4 DEF m
  <2>2. at \in 1 .. a /\ i = m + at
    BY <1>1, <1>2, <1>4
  <2> HIDE DEF at
  <2>3. /\ Len(w.added) = a - 1
        /\ \A k \in 1 .. a - 1 : w.added[k] = IF k < at THEN v.added[k] ELSE v.added[k + 1]
    <3>1. Len(RemoveAt(v.added, at)) = a - 1
      BY <2>2, Removed DEF a
    <3>2. \A k \in 1 .. a - 1 : RemoveAt(v.added, at)[k] = IF k < at THEN v.added[k] ELSE v.added[k + 1]
      BY <2>2, RemovedEntries DEF a
    <3> QED BY <2>1, <3>1, <3>2
  <2>4. Stays(w) = Stays(v)
    BY <2>1 DEF Stays
  <2>5. Count(w) = n - 1
    <3>1. Count(w) = m + (a - 1)
      BY <2>3, <2>4 DEF Count, m
    <3> QED BY <1>1, <3>1
  <2>6. ASSUME NEW k \in 1 .. n - 1
        PROVE  Base(w, k) = IF k < i THEN Base(v, k) ELSE Base(v, k + 1)
    <3>1. k \in Nat
      BY <1>2
    <3>2. CASE k <= m
      <4>1. k < i
        BY <1>1, <1>2, <1>4, <3>1, <3>2
      <4> QED BY <2>4, <3>2, <4>1 DEF Base, m
    <3>3. CASE ~(k <= m)
      <4> DEFINE l == k - m
                 j == k + 1
      <4>1. l \in 1 .. a - 1 /\ ~(j <= m) /\ (k < i <=> l < at) /\ j - m = l + 1
        <5>1. l \in Nat /\ k = m + l /\ l > 0 /\ at \in Nat /\ at <= a
          <6>1. m \in Nat /\ k > m
            BY <1>1, <3>1, <3>3
          <6>2. l \in Nat /\ k = m + l /\ l > 0
            BY <3>1, <6>1
          <6> QED BY <1>1, <2>2, <6>2
        <5> HIDE DEF l
        <5>2. l \in 1 .. a - 1
          BY <1>1, <5>1
        <5>3. k < i <=> l < at
          <6>1. \A x, y, z \in Nat : x + y < x + z <=> y < z
            OBVIOUS
          <6>2. m + l < m + at <=> l < at
            BY <1>1, <5>1, <6>1
          <6> QED BY <2>2, <5>1, <6>2
        <5>4. ~(j <= m) /\ j - m = l + 1
          <6>1. \A x, y, z \in Nat : z = x + y => ~(z + 1 <= x) /\ (z + 1) - x = y + 1
            OBVIOUS
          <6>2. m \in Nat /\ l \in Nat /\ k \in Nat /\ k = m + l
            BY <1>1, <3>1, <5>1
          <6>3. ~(k + 1 <= m) /\ (k + 1) - m = l + 1
            BY <6>1, <6>2, Zenon
          <6> QED BY <6>3
        <5> QED BY <5>2, <5>3, <5>4
      <4>2. Base(w, k) = w.added[l] /\ Base(v, k) = v.added[l]
        BY <2>4, <3>3 DEF Base, m
      <4>3. Base(v, j) = v.added[j - m]
        <5> HIDE DEF j
        <5> QED BY <4>1 DEF Base, m
      <4> HIDE DEF l
      <4>4. w.added[l] = IF l < at THEN v.added[l] ELSE v.added[l + 1]
        BY <2>3, <4>1
      <4> HIDE DEF j
      <4>5. Base(w, k) = IF k < i THEN Base(v, k) ELSE Base(v, j)
        BY <4>1, <4>2, <4>3, <4>4
      <4> QED BY <4>5 DEF j
    <3> QED BY <3>2, <3>3
  <2> QED BY <2>5, <2>6 DEF n
<1> QED BY <1>3, <1>4

\* Deleting a field.
LEMMA DeleteThere ==
    ASSUME NEW c \in Deletions, NEW e, Ready(e), columns \in Seq(Names), Proper(c, View(e)),
           ~LosesNames(e, c, FALSE), NoneHidden(Redone(View(e), c))
    PROVE  Ready(RedoDelete(e, c)) /\ View(RedoDelete(e, c)) = Redone(View(e), c)
<1> DEFINE n == Count(e)
           m == Len(Stays(e))
           i == c.field
           names == FieldNames(e)
           w == Redone(View(e), c)
           r == IF c.from = "provider" THEN [e EXCEPT !.deleted = @ \union {c.at}]
                ELSE [e EXCEPT !.added = RemoveAt(@, c.at)]
           h == HandleAttributeDeleted(r, i)
           d == UpdateFields(h, columns)
           added == IF c.from = "edit" THEN RemoveAt(e.added, c.at) ELSE e.added
           deleted == IF c.from = "edit" THEN e.deleted ELSE e.deleted \union {c.at}
           changed == [f \in Fids |-> ShiftedDown(e.changed[f], i)]
           features == [f \in Fids |-> IF e.features[f] = None THEN None ELSE RemoveAt(e.features[f], i)]
<1>1. /\ e \in Buffers /\ Size(e) <= MaxFields /\ ~e.undefined /\ NoneHidden(e)
      /\ n \in Nat /\ n <= MaxFields /\ names \in Seq(Names) /\ Len(names) = n
      /\ \A k \in 1 .. n : names[k] = IF e.renamed[k] = None THEN Base(e, k) ELSE e.renamed[k]
      /\ \A k \in Index : k > n => e.renamed[k] = None
      /\ \A f \in Fids, k \in Index : k > n \/ IsNew(f) => e.changed[f][k] = None
      /\ \A f \in Fids : e.features[f] # None => IsNew(f) /\ Len(e.features[f]) = n
  BY ReadyFacts
<1>2. c.op = "delete" /\ i \in Index /\ c.at \in Index /\ c.from \in {"provider", "edit"}
  BY DEF Deletions
<1>3. /\ e.added \in Seq(Names) /\ e.renamed \in [Index -> Name] /\ e.changed \in [Fids -> [Index -> Entry]]
      /\ e.features \in [Fids -> Seq(Value) \union {None}] /\ Len(e.added) \in Nat /\ e.deleted \subseteq Index
      /\ DOMAIN e.added = 1 .. Len(e.added)
  BY <1>1 DEF Buffers
<1>4. m \in Nat /\ n = m + Len(e.added) /\ Len(columns) \in Nat
  BY StaysList DEF Count
<1>5. /\ i \in 1 .. n
      /\ IF i <= m THEN c.from = "provider" /\ c.at = Stays(e)[i]
         ELSE c.from = "edit" /\ c.at = i - m
  <2> DEFINE v == View(e)
  <2>1. v.added = e.added /\ v.deleted = e.deleted
    BY DEF View
  <2> HIDE DEF v
  <2>2. Count(v) = n /\ Stays(v) = Stays(e)
    BY <2>1, SameCount
  <2>3. /\ i \in 1 .. Count(v)
        /\ IF i <= Len(Stays(v)) THEN c.from = "provider" /\ c.at = Stays(v)[i]
           ELSE c.from = "edit" /\ c.at = i - Len(Stays(v))
    BY <1>2 DEF Proper, v
  <2> QED BY <2>2, <2>3
<1>6. w = [added |-> added, deleted |-> deleted, names |-> RemoveAt(names, i), changed |-> changed,
           features |-> features]
  BY <1>2 DEF Redone, View
<1>7. c.from = "edit" => c.at \in 1 .. Len(e.added) /\ c.at \in DOMAIN e.added
  <2>1. ~(i <= m) => i - m \in 1 .. Len(e.added)
    BY <1>3, <1>4, <1>5
  <2> QED BY <1>3, <1>5, <2>1
<1>8. added \in Seq(Names) /\ Len(added) <= Len(e.added) /\ Len(added) \in Nat
  <2>1. CASE c.from = "edit"
    <3>1. RemoveAt(e.added, c.at) \in Seq(Names) /\ Len(RemoveAt(e.added, c.at)) = Len(e.added) - 1
      BY <1>3, <1>7, <2>1, Removed
    <3> QED BY <1>3, <2>1, <3>1
  <2>2. CASE c.from # "edit"
    BY <1>3, <2>2
  <2> QED BY <2>1, <2>2
<1>9. deleted \in SUBSET Index
  BY <1>2, <1>3
<1>10. /\ r \in Buffers /\ r.added = added /\ r.deleted = deleted /\ r.renamed = e.renamed
       /\ r.changed = e.changed /\ r.features = e.features /\ r.undefined = e.undefined
  <2>1. CASE c.from = "edit"
    <3>1. r = [e EXCEPT !.added = added] /\ deleted = e.deleted
      BY <1>1, <2>1 DEF Buffers
    <3> HIDE DEF r, added, deleted
    <3> QED BY <1>1, <1>8, <3>1 DEF Buffers
  <2>2. CASE c.from = "provider"
    <3>1. r = [e EXCEPT !.deleted = deleted] /\ added = e.added
      BY <1>1, <2>2 DEF Buffers
    <3> HIDE DEF r, added, deleted
    <3> QED BY <1>1, <1>9, <3>1 DEF Buffers
  <2> QED BY <1>2, <2>1, <2>2
<1>11. d = RedoDelete(e, c)
  BY <1>2, <1>7 DEF RedoDelete
<1>12. w.added = added /\ w.deleted = deleted
  BY <1>6
<1>13. /\ i <= m => added = e.added /\ deleted = e.deleted \union {Stays(e)[i]}
       /\ ~(i <= m) => added = RemoveAt(e.added, i - m) /\ deleted = e.deleted
  BY <1>5
<1> HIDE DEF added, deleted, r, h, d, n, m, i, names, w, changed, features
<1>14. Count(w) = n - 1 /\ \A k \in 1 .. n - 1 : Base(w, k) = IF k < i THEN Base(e, k) ELSE Base(e, k + 1)
  BY <1>3, <1>5, <1>12, <1>13, FieldLess DEF n, m
<1>15. /\ h \in Buffers /\ h.added = added /\ h.deleted = deleted /\ h.renamed = RenamedDown(e.renamed, i)
       /\ h.changed = changed
       /\ h.undefined <=> \E f \in Fids : e.features[f] # None /\ i > Len(e.features[f])
  BY <1>1, <1>2, <1>10, AttributeDeleted DEF h, changed
<1>16. h.renamed = ShiftedDown(e.renamed, i)
  BY <1>2, <1>15 DEF LosesNames, i
<1>17. Count(h) = n - 1 /\ NoneHidden(h) /\ \A k : Base(h, k) = Base(w, k)
  BY <1>12, <1>14, <1>15, SameCount DEF w
<1>18. ~h.undefined /\ \A f \in Fids : e.features[f] # None => ~(i > Len(e.features[f]))
  BY <1>1, <1>5, <1>15
<1>19. Size(h) <= MaxFields
  <2>1. Size(h) = Len(columns) + Len(added) /\ Size(e) = Len(columns) + Len(e.added)
    BY <1>15 DEF Size
  <2> QED BY <1>1, <1>3, <1>4, <1>8, <2>1, Bounds
<1>20. \A k \in Index : k > n - 1 => h.renamed[k] = None
  <2>1. e.renamed \in [Index -> Name \union Entry]
    BY <1>3
  <2> QED BY <1>1, <1>5, <1>16, <2>1, NothingAfter
<1>21. \A f \in Fids, k \in Index : k > n - 1 \/ IsNew(f) => changed[f][k] = None
  <2>1. ASSUME NEW f \in Fids, NEW k \in Index, k > n - 1 \/ IsNew(f) PROVE changed[f][k] = None
    <3>1. e.changed[f] \in [Index -> Name \union Entry] /\ \A l \in Index : l > n => e.changed[f][l] = None
      BY <1>1, <1>3
    <3>2. changed[f] = ShiftedDown(e.changed[f], i)
      BY DEF changed
    <3>3. CASE k > n - 1
      <4>1. \A l \in Index : l > n - 1 => ShiftedDown(e.changed[f], i)[l] = None
        BY <1>1, <1>5, <3>1, NothingAfter
      <4> QED BY <3>2, <3>3, <4>1
    <3>4. CASE IsNew(f)
      BY <1>1, <3>2, <3>4 DEF ShiftedDown
    <3> QED BY <2>1, <3>3, <3>4
  <2> QED BY <2>1
<1>22. h.features = features
  <2>1. h.features = [f \in Fids |-> IF e.features[f] = None \/ i > Len(e.features[f]) THEN e.features[f]
                                     ELSE RemoveAt(e.features[f], i)]
    BY <1>10 DEF h, HandleAttributeDeleted, Buffers
  <2> QED BY <1>3, <1>18, <2>1 DEF features
<1>23. \A f \in Fids : features[f] # None => IsNew(f) /\ Len(features[f]) = n - 1
  <2>1. ASSUME NEW f \in Fids, features[f] # None PROVE IsNew(f) /\ Len(features[f]) = n - 1
    <3>1. e.features[f] # None /\ features[f] = RemoveAt(e.features[f], i)
      BY <2>1 DEF features
    <3>2. e.features[f] \in Seq(Value) /\ Len(e.features[f]) = n /\ IsNew(f) /\ i \in 1 .. Len(e.features[f])
      BY <1>1, <1>3, <1>5, <3>1
    <3>3. Len(RemoveAt(e.features[f], i)) = n - 1
      BY <3>2, Removed
    <3> QED BY <3>1, <3>2, <3>3
  <2> QED BY <2>1
<1>24. Good(d) /\ Settled(d) /\ NoneHidden(d) /\ Count(d) = n - 1
  BY <1>15, <1>17, <1>18, <1>19, <1>20, UpdatedSettles DEF d
<1>25. /\ d.added = added /\ d.deleted = deleted /\ d.renamed = h.renamed
       /\ d.changed = changed /\ d.features = features
  <2>1. /\ d.added = h.added /\ d.deleted = h.deleted /\ d.renamed = h.renamed
        /\ d.changed = h.changed /\ d.features = h.features
    BY <1>15, <1>19, UpdateFieldsType DEF d
  <2> QED BY <1>15, <1>22, <2>1
<1>26. Ready(d)
  <2>1. \A f \in Fids, k \in Index : k > Count(d) \/ IsNew(f) => d.changed[f][k] = None
    BY <1>21, <1>24, <1>25
  <2>2. \A f \in Fids : d.features[f] # None => IsNew(f) /\ Len(d.features[f]) = Count(d)
    BY <1>23, <1>24, <1>25
  <2> QED BY <1>24, <2>1, <2>2, ReadyIf
<1>27. /\ FieldNames(d) \in Seq(Names) /\ Len(FieldNames(d)) = n - 1
       /\ \A k \in 1 .. n - 1 : FieldNames(d)[k] = IF h.renamed[k] = None THEN Base(d, k) ELSE h.renamed[k]
  BY <1>24, <1>25, <1>26, ReadyFacts
<1>28. FieldNames(d) = RemoveAt(names, i)
  <2>1. RemoveAt(names, i) \in Seq(Names) /\ Len(RemoveAt(names, i)) = n - 1
    BY <1>1, <1>5, Removed
  <2>2. \A k \in 1 .. n - 1 : RemoveAt(names, i)[k] = IF k < i THEN names[k] ELSE names[k + 1]
    BY <1>1, <1>5, RemovedEntries
  <2>3. ASSUME NEW k \in 1 .. n - 1 PROVE FieldNames(d)[k] = RemoveAt(names, i)[k]
    <3> DEFINE j == IF k < i THEN k ELSE k + 1
    <3>1. j \in 1 .. n /\ k \in Index /\ j \in Index /\ (k + 1 \in Index \/ k < i)
      BY <1>1, <1>2, <1>5, Bounds
    <3>2. RemoveAt(names, i)[k] = names[j]
      BY <2>2
    <3>3. h.renamed[k] = e.renamed[j]
      BY <1>16, <3>1 DEF ShiftedDown
    <3>4. Base(d, k) = Base(e, j)
      <4>1. Base(d, k) = Base(w, k)
        BY <1>12, <1>25, SameCount
      <4> QED BY <1>14, <4>1
    <3> HIDE DEF j
    <3> QED BY <1>1, <1>27, <3>1, <3>2, <3>3, <3>4
  <2> QED BY <1>27, <2>1, <2>3, SeqEqual
<1>29. View(d) = w
  BY <1>6, <1>25, <1>28 DEF View
<1> QED BY <1>11, <1>26, <1>29 DEF w

\* A map is shifted down and up again: only the entry at i is lost.
LEMMA ShiftedBack ==
    ASSUME NEW map \in [Index -> Name \union Entry], NEW i \in Index
    PROVE  ShiftedUp(ShiftedDown(map, i), i) = [map EXCEPT ![i] = None]
<1> DEFINE s == ShiftedDown(map, i)
<1>1. MaxFields + MaxCmds \in Nat /\ Index = 1 .. MaxFields + MaxCmds /\ i \in Nat /\ i > 0
  BY Bounds
<1>2. ASSUME NEW k \in Index PROVE ShiftedUp(s, i)[k] = [map EXCEPT ![i] = None][k]
  <2>1. CASE k < i
    <3>1. k # i
      BY <1>1, <2>1
    <3> QED BY <2>1, <3>1 DEF ShiftedUp, ShiftedDown
  <2>2. CASE k = i
    BY <1>1, <2>2 DEF ShiftedUp
  <2>3. CASE ~(k < i) /\ k # i
    <3> DEFINE j == k - 1
    <3>1. j \in Index /\ j + 1 = k /\ ~(j < i)
      BY <1>1, <2>3
    <3>2. ShiftedUp(s, i)[k] = s[j]
      BY <2>3 DEF ShiftedUp
    <3> HIDE DEF j
    <3>3. s[j] = map[j + 1]
      BY <3>1 DEF ShiftedDown
    <3> QED BY <2>3, <3>1, <3>2, <3>3
  <2> QED BY <2>1, <2>2, <2>3
<1> QED BY <1>2 DEF ShiftedUp

\* An entry that is taken out and inserted again.
LEMMA RemovedPutBack ==
    ASSUME NEW S, NEW s \in Seq(S), NEW i \in 1 .. Len(s)
    PROVE  InsertAt(RemoveAt(s, i), i, s[i]) = s
<1>1. PICK x : x = s[i]
  OBVIOUS
<1>2. x \in S
  BY <1>1, ElementOfSeq
<1>3. InsertAt(RemoveAt(s, i), i, x) = [s EXCEPT ![i] = x]
  BY <1>2, InsertedRemoved
<1>4. [s EXCEPT ![i] = x] = s
  BY <1>1
<1> QED BY <1>1, <1>3, <1>4

\* A buffer with the deleted field back in its list, and a view of which a field is as new.
PutBack(e, c) ==
    IF c.from = "provider" THEN [e EXCEPT !.deleted = @ \ {c.at}]
    ELSE [e EXCEPT !.added = InsertAt(@, IF c.at > Len(@) THEN Len(@) + 1 ELSE c.at, c.name)]

Blank(v, i) ==
    [added |-> v.added, deleted |-> v.deleted, names |-> [v.names EXCEPT ![i] = Base(v, i)],
     changed |-> [f \in Fids |-> [v.changed[f] EXCEPT ![i] = None]],
     features |-> [f \in Fids |-> IF v.features[f] = None THEN None ELSE [v.features[f] EXCEPT ![i] = Null]]]

\* Undoing the deletion of a field, up to its values and its name.
LEMMA DeletedAgain ==
    ASSUME NEW c \in Deletions, NEW e, Ready(e), columns \in Seq(Names), Size(e) - Gain(c) <= MaxFields,
           NEW v, Fits(v), Proper(c, v), View(e) = Redone(v, c), ~LosesNames(e, c, TRUE)
    PROVE  /\ Ready(HandleAttributeAdded(UpdateFields(PutBack(e, c), columns), c.field))
           /\ View(HandleAttributeAdded(UpdateFields(PutBack(e, c), columns), c.field)) = Blank(v, c.field)
<1> DEFINE n == Count(v)
           m == Len(Stays(v))
           i == c.field
           back == PutBack(e, c)
           u == UpdateFields(back, columns)
           h == HandleAttributeAdded(u, i)
           added == IF c.from = "edit" THEN RemoveAt(v.added, c.at) ELSE v.added
           deleted == IF c.from = "edit" THEN v.deleted ELSE v.deleted \union {c.at}
           changed == [f \in Fids |-> ShiftedDown(v.changed[f], i)]
           features == [f \in Fids |-> IF v.features[f] = None THEN None ELSE RemoveAt(v.features[f], i)]
<1>1. c.op = "delete" /\ i \in Index /\ c.at \in Index /\ c.from \in {"provider", "edit"}
      /\ (c.from = "edit" => c.name \in Names)
  BY DEF Deletions
<1>2. /\ v \in Views
      /\ v = [added |-> v.added, deleted |-> v.deleted, names |-> v.names,
              changed |-> v.changed, features |-> v.features]
      /\ v.added \in Seq(Names) /\ v.deleted \in SUBSET Index /\ v.names \in Seq(Names)
      /\ v.changed \in [Fids -> [Index -> Entry]] /\ v.features \in [Fids -> Seq(Value) \union {None}]
  BY ViewRecord DEF Fits
<1>3. /\ NoneHidden(v) /\ Len(v.names) = n /\ n <= MaxFields /\ n \in Nat
      /\ \A f \in Fids, k \in Index : k > n \/ IsNew(f) => v.changed[f][k] = None
      /\ \A f \in Fids : v.features[f] # None => IsNew(f) /\ Len(v.features[f]) = n
  BY <1>2 DEF Fits
<1>4. /\ i \in 1 .. n
      /\ IF i <= m THEN c.from = "provider" /\ c.at = Stays(v)[i]
         ELSE c.from = "edit" /\ c.at = i - m /\ c.name = v.added[c.at]
  BY <1>1 DEF Proper
<1>5. /\ m \in Nat /\ n = m + Len(v.added) /\ Len(v.added) \in Nat /\ Len(columns) \in Nat
      /\ \A k \in 1 .. m : Stays(v)[k] \notin v.deleted
  <2>1. v.added \in Seq(Names) /\ Len(v.added) \in Nat
    BY <1>2
  <2>2. /\ Len(Stays(v)) \in Nat /\ Len(columns) \in Nat
        /\ \A k \in 1 .. Len(Stays(v)) : Stays(v)[k] \notin v.deleted
    BY StaysList
  <2> QED BY <2>1, <2>2 DEF Count
<1>6. /\ e.added = added /\ e.deleted = deleted /\ FieldNames(e) = RemoveAt(v.names, i)
      /\ e.changed = changed /\ e.features = features
  <2>1. Redone(v, c) = [added |-> added, deleted |-> deleted, names |-> RemoveAt(v.names, i),
                        changed |-> changed, features |-> features]
    BY <1>1, <1>2 DEF Redone
  <2> HIDE DEF added, deleted, changed, features, i
  <2>2. View(e) = [added |-> added, deleted |-> deleted, names |-> RemoveAt(v.names, i),
                   changed |-> changed, features |-> features]
    BY <2>1
  <2> QED BY <2>2 DEF View
<1>7. /\ e \in Buffers /\ Size(e) <= MaxFields /\ ~e.undefined /\ Count(e) \in Nat
      /\ \A k \in 1 .. Count(e) : FieldNames(e)[k] = IF e.renamed[k] = None THEN Base(e, k) ELSE e.renamed[k]
      /\ \A k \in Index : k > Count(e) => e.renamed[k] = None
  BY ReadyFacts
<1>8. e.renamed \in [Index -> Name] /\ \A k \in Index : k >= i => e.renamed[k] = None
  BY <1>1, <1>7 DEF LosesNames, Buffers
<1>9. /\ i <= m => added = v.added /\ deleted = v.deleted \union {Stays(v)[i]}
      /\ ~(i <= m) => added = RemoveAt(v.added, i - m) /\ deleted = v.deleted
  BY <1>4
<1> HIDE DEF added, deleted, n, m, i, changed, features, back
<1>10. Count(e) = n - 1 /\ \A k \in 1 .. n - 1 : Base(e, k) = IF k < i THEN Base(v, k) ELSE Base(v, k + 1)
  BY <1>2, <1>4, <1>6, <1>9, FieldLess DEF n, m
<1>11. /\ back \in Buffers /\ back.added = v.added /\ back.deleted = v.deleted /\ back.renamed = e.renamed
       /\ back.changed = e.changed /\ back.features = e.features /\ back.undefined = e.undefined
       /\ Size(back) <= MaxFields
  <2>1. CASE i <= m
    <3>1. c.from = "provider" /\ c.at \notin v.deleted /\ e.added = v.added /\ e.deleted \ {c.at} = v.deleted
      BY <1>1, <1>4, <1>5, <1>6, <1>9, <2>1
    <3>2. back = [e EXCEPT !.deleted = v.deleted]
      BY <1>7, <3>1 DEF Buffers, PutBack, back
    <3>3. /\ back \in Buffers /\ back.added = v.added /\ back.deleted = v.deleted /\ back.renamed = e.renamed
          /\ back.changed = e.changed /\ back.features = e.features /\ back.undefined = e.undefined
      BY <1>2, <1>7, <3>1, <3>2 DEF Buffers
    <3>4. Size(back) <= MaxFields
      BY <1>7, <3>1, <3>3 DEF Size
    <3> QED BY <3>3, <3>4
  <2>2. CASE ~(i <= m)
    <3> DEFINE at == c.at
    <3>1. c.from = "edit" /\ at = i - m /\ c.name = v.added[at] /\ e.added = RemoveAt(v.added, at)
          /\ e.deleted = v.deleted
      BY <1>4, <1>6, <1>9, <2>2
    <3> HIDE DEF at
    <3>2. at \in 1 .. Len(v.added)
      BY <1>3, <1>4, <1>5, <2>2, <3>1
    <3>3. e.added \in Seq(Names) /\ Len(e.added) = Len(v.added) - 1
      BY <1>2, <3>1, <3>2, Removed
    <3>4. (IF at > Len(e.added) THEN Len(e.added) + 1 ELSE at) = at
      BY <1>5, <3>2, <3>3
    <3>5. back = [e EXCEPT !.added = InsertAt(e.added, at, c.name)]
      BY <1>7, <3>1, <3>4 DEF Buffers, at, PutBack, back
    <3>6. InsertAt(e.added, at, c.name) = v.added
      <4>1. InsertAt(RemoveAt(v.added, at), at, v.added[at]) = v.added
        BY <1>2, <3>2, RemovedPutBack
      <4> QED BY <3>1, <4>1
    <3>7. /\ back \in Buffers /\ back.added = v.added /\ back.deleted = v.deleted /\ back.renamed = e.renamed
          /\ back.changed = e.changed /\ back.features = e.features /\ back.undefined = e.undefined
      BY <1>2, <1>7, <3>1, <3>5, <3>6 DEF Buffers
    <3>8. Size(back) <= MaxFields
      <4>1. Gain(c) = -1
        BY <1>1, <3>1 DEF Gain
      <4>2. Size(back) = Len(columns) + Len(v.added) /\ Size(e) = Len(columns) + (Len(v.added) - 1)
        BY <3>3, <3>7 DEF Size
      <4> HIDE DEF Size, Gain
      <4>3. Len(columns) + (Len(v.added) - 1) - (-1) <= MaxFields
        BY <4>1, <4>2
      <4> QED BY <1>5, <4>2, <4>3
    <3> QED BY <3>7, <3>8
  <2> QED BY <2>1, <2>2
<1> HIDE DEF u, h
<1>12. Count(back) = n /\ NoneHidden(back) /\ \A k : Base(back, k) = Base(v, k)
  <2>1. back.added = v.added /\ back.deleted = v.deleted
    BY <1>11
  <2>2. Count(back) = Count(v) /\ (NoneHidden(back) <=> NoneHidden(v)) /\ \A k : Base(back, k) = Base(v, k)
    BY <2>1, SameCount
  <2> QED BY <1>3, <2>2 DEF n
<1>13. \A k \in Index : k > Count(back) => back.renamed[k] = None
  <2>1. \A k \in Index : k > n => k > n - 1
    BY <1>3, Bounds
  <2> QED BY <1>7, <1>10, <1>11, <1>12, <2>1
<1>14. Good(u) /\ Settled(u) /\ NoneHidden(u) /\ Count(u) = n
  BY <1>7, <1>11, <1>12, <1>13, UpdatedSettles DEF u
<1>15. /\ u \in Buffers /\ u.added = v.added /\ u.deleted = v.deleted /\ u.renamed = e.renamed
       /\ u.changed = e.changed /\ u.features = e.features /\ ~u.undefined
  <2>1. /\ u \in Buffers /\ u.added = back.added /\ u.deleted = back.deleted /\ u.renamed = back.renamed
        /\ u.changed = back.changed /\ u.features = back.features
    BY <1>11, UpdateFieldsType DEF u
  <2> QED BY <1>11, <1>14, <2>1 DEF Settled
<1>16. /\ h \in Buffers /\ h.added = v.added /\ h.deleted = v.deleted /\ h.fields = u.fields
       /\ h.renamed = RenamedUp(e.renamed, i) /\ h.changed = [f \in Fids |-> ShiftedUp(e.changed[f], i)]
       /\ h.undefined <=> \E f \in Fids : e.features[f] # None /\ i > Len(e.features[f]) + 1
  BY <1>1, <1>15, AttributeAdded DEF h, i
<1>17. h.renamed = e.renamed
  <2>1. ASSUME NEW k \in Index PROVE RenamedUp(e.renamed, i)[k] = e.renamed[k]
    <3>1. CASE k < i
      BY <3>1 DEF RenamedUp
    <3>2. CASE k = i
      <4>1. k >= i /\ ~(k < i)
        BY <3>2, Bounds
      <4> QED BY <1>8, <3>2, <4>1 DEF RenamedUp
    <3>3. CASE ~(k < i) /\ k # i
      <4>1. k - 1 \in Index /\ k - 1 >= i
        BY <1>1, <3>3, Bounds DEF i
      <4> QED BY <1>8, <3>3, <4>1 DEF RenamedUp
    <3> QED BY <3>1, <3>2, <3>3
  <2> QED BY <1>8, <1>16, <2>1 DEF RenamedUp
<1>18. h.changed = [f \in Fids |-> [v.changed[f] EXCEPT ![i] = None]]
  <2>1. ASSUME NEW f \in Fids PROVE ShiftedUp(e.changed[f], i) = [v.changed[f] EXCEPT ![i] = None]
    <3>1. v.changed[f] \in [Index -> Name \union Entry] /\ e.changed[f] = ShiftedDown(v.changed[f], i)
      BY <1>2, <1>6 DEF changed
    <3>2. i \in Index
      BY <1>1 DEF i
    <3> QED BY <3>1, <3>2, ShiftedBack
  <2> QED BY <1>16, <2>1
<1>19. \A f \in Fids : v.features[f] # None =>
          /\ v.features[f] \in Seq(Value) /\ IsNew(f) /\ i \in 1 .. Len(v.features[f]) /\ Len(v.features[f]) = n
          /\ e.features[f] = RemoveAt(v.features[f], i) /\ e.features[f] \in Seq(Value)
          /\ Len(e.features[f]) = n - 1 /\ e.features[f] # None
  <2>1. ASSUME NEW f \in Fids, v.features[f] # None
        PROVE  /\ v.features[f] \in Seq(Value) /\ IsNew(f) /\ i \in 1 .. Len(v.features[f]) /\ Len(v.features[f]) = n
               /\ e.features[f] = RemoveAt(v.features[f], i) /\ e.features[f] \in Seq(Value)
               /\ Len(e.features[f]) = n - 1 /\ e.features[f] # None
    <3>1. v.features[f] \in Seq(Value) /\ IsNew(f) /\ Len(v.features[f]) = n /\ i \in 1 .. Len(v.features[f])
      BY <1>2, <1>3, <1>4, <2>1
    <3>2. e.features[f] = RemoveAt(v.features[f], i)
      BY <1>6, <2>1 DEF features
    <3>3. RemoveAt(v.features[f], i) \in Seq(Value) /\ Len(RemoveAt(v.features[f], i)) = n - 1
      BY <3>1, Removed
    <3>4. \A s \in Seq(Value) : s # None
      BY SentinelAssumption
    <3> QED BY <3>1, <3>2, <3>3, <3>4
  <2> QED BY <2>1
<1>20. \A f \in Fids : v.features[f] = None => e.features[f] = None
  BY <1>6 DEF features
<1>21. ~h.undefined /\ \A f \in Fids : e.features[f] # None => ~(i > Len(e.features[f]) + 1)
  <2>1. ~(i > n - 1 + 1)
    BY <1>3, <1>4
  <2>2. \A f \in Fids : e.features[f] # None => Len(e.features[f]) = n - 1
    BY <1>19, <1>20
  <2> QED BY <1>16, <2>1, <2>2
<1>22. h.features = [f \in Fids |-> IF v.features[f] = None THEN None ELSE [v.features[f] EXCEPT ![i] = Null]]
  <2>1. h.features = [f \in Fids |-> IF e.features[f] = None \/ i > Len(e.features[f]) + 1 THEN e.features[f]
                                     ELSE InsertAt(e.features[f], i, Null)]
    BY <1>15 DEF h, HandleAttributeAdded, Buffers
  <2>2. ASSUME NEW f \in Fids
        PROVE  h.features[f] = IF v.features[f] = None THEN None ELSE [v.features[f] EXCEPT ![i] = Null]
    <3>1. CASE v.features[f] = None
      BY <1>20, <2>1, <3>1
    <3>2. CASE v.features[f] # None
      <4>1. h.features[f] = InsertAt(e.features[f], i, Null)
        BY <1>19, <1>21, <2>1, <3>2
      <4>2. InsertAt(RemoveAt(v.features[f], i), i, Null) = [v.features[f] EXCEPT ![i] = Null]
        <5>1. v.features[f] \in Seq(Value) /\ i \in 1 .. Len(v.features[f]) /\ Null \in Value
          BY <1>19, <3>2 DEF Value
        <5>2. PICK s : s = v.features[f]
          OBVIOUS
        <5>3. s \in Seq(Value) /\ i \in 1 .. Len(s) /\ Null \in Value
          BY <5>1, <5>2
        <5>4. InsertAt(RemoveAt(s, i), i, Null) = [s EXCEPT ![i] = Null]
          BY <5>3, InsertedRemoved
        <5> QED BY <5>2, <5>4
      <4> QED BY <1>19, <3>2, <4>1, <4>2
    <3> QED BY <3>1, <3>2
  <2> QED BY <2>1, <2>2
<1>23. \A f \in Fids : h.features[f] # None => IsNew(f) /\ Len(h.features[f]) = n
  <2>1. ASSUME NEW f \in Fids, h.features[f] # None PROVE IsNew(f) /\ Len(h.features[f]) = n
    <3>1. v.features[f] # None /\ h.features[f] = [v.features[f] EXCEPT ![i] = Null]
      BY <1>22, <2>1
    <3>2. v.features[f] \in Seq(Value) /\ i \in 1 .. Len(v.features[f]) /\ Len(v.features[f]) = n /\ Null \in Value
          /\ IsNew(f)
      BY <1>19, <3>1 DEF Value
    <3>3. Len([v.features[f] EXCEPT ![i] = Null]) = n
      BY <3>2, ExceptSeq
    <3> QED BY <3>1, <3>2, <3>3
  <2> QED BY <2>1
<1>24. \A f \in Fids, k \in Index : k > n \/ IsNew(f) => h.changed[f][k] = None
  <2>1. ASSUME NEW f \in Fids, NEW k \in Index, k > n \/ IsNew(f) PROVE h.changed[f][k] = None
    <3>1. h.changed[f] = [v.changed[f] EXCEPT ![i] = None] /\ v.changed[f] \in [Index -> Entry]
      BY <1>2, <1>18
    <3>2. v.changed[f][k] = None
      BY <1>3, <2>1
    <3> QED BY <3>1, <3>2
  <2> QED BY <2>1
<1>25. Count(h) = n /\ NoneHidden(h) /\ \A k : Base(h, k) = Base(v, k)
  BY <1>3, <1>16, SameCount DEF n
<1>26. Good(h) /\ Settled(h)
  <2>1. Good(h)
    BY <1>14, <1>15, <1>16, <1>17, <1>21, GoodValues
  <2>2. UpdateFields(h, columns).fields = UpdateFields(u, columns).fields
    BY <1>15, <1>16, <1>17, SameFields
  <2>3. Settled(h)
    BY <1>14, <1>15, <1>16, <1>17, <1>21, <2>2 DEF Settled
  <2> QED BY <2>1, <2>3
<1>27. Ready(h)
  <2>1. \A f \in Fids, k \in Index : k > Count(h) \/ IsNew(f) => h.changed[f][k] = None
    BY <1>24, <1>25
  <2>2. \A f \in Fids : h.features[f] # None => IsNew(f) /\ Len(h.features[f]) = Count(h)
    BY <1>23, <1>25
  <2> QED BY <1>25, <1>26, <2>1, <2>2, ReadyIf
<1>28. /\ FieldNames(h) \in Seq(Names) /\ Len(FieldNames(h)) = n
       /\ \A k \in 1 .. n : FieldNames(h)[k] = IF e.renamed[k] = None THEN Base(v, k) ELSE e.renamed[k]
  <2>1. /\ FieldNames(h) \in Seq(Names) /\ Len(FieldNames(h)) = Count(h)
        /\ \A k \in 1 .. Count(h) : FieldNames(h)[k] = IF h.renamed[k] = None THEN Base(h, k) ELSE h.renamed[k]
    BY <1>27, ReadyFacts
  <2> QED BY <1>17, <1>25, <2>1
<1>29. \A k \in 1 .. n - 1 : FieldNames(e)[k] = IF k < i THEN v.names[k] ELSE v.names[k + 1]
  BY <1>2, <1>3, <1>4, <1>6, RemovedEntries
<1>30. \A k \in 1 .. n : k \in Index
  BY <1>3, Bounds
<1>31. FieldNames(h) = [v.names EXCEPT ![i] = Base(v, i)]
  <2>1. FieldNames(h)[i] = Base(v, i)
    <3>1. i \in Index /\ i >= i
      BY <1>3, <1>4, <1>30
    <3> QED BY <1>4, <1>8, <1>28, <3>1
  <2>2. ASSUME NEW k \in 1 .. n, k # i PROVE FieldNames(h)[k] = v.names[k]
    <3>1. CASE k < i
      <4>1. k \in 1 .. n - 1
        BY <1>3, <1>4, <3>1
      <4>2. FieldNames(e)[k] = v.names[k] /\ Base(e, k) = Base(v, k)
        BY <1>10, <1>29, <3>1, <4>1
      <4> QED BY <1>7, <1>10, <1>28, <4>1, <4>2
    <3>2. CASE ~(k < i)
      <4> DEFINE j == k - 1
      <4>1. j \in 1 .. n - 1 /\ j + 1 = k /\ ~(j < i) /\ j >= i /\ k >= i
        BY <1>3, <1>4, <2>2, <3>2
      <4> HIDE DEF j
      <4>2. FieldNames(e)[j] = v.names[k] /\ Base(e, j) = Base(v, k)
        BY <1>10, <1>29, <4>1
      <4>3. j \in 1 .. n
        BY <1>3, <4>1
      <4>4. e.renamed[j] = None /\ e.renamed[k] = None
        BY <1>8, <1>30, <4>1, <4>3
      <4> QED BY <1>7, <1>10, <1>28, <4>1, <4>2, <4>4
    <3> QED BY <3>1, <3>2
  <2>3. Base(v, i) \in Names
    BY <1>4, <1>28, <2>1, ElementOfSeq
  <2>4. [v.names EXCEPT ![i] = Base(v, i)] \in Seq(Names) /\ Len([v.names EXCEPT ![i] = Base(v, i)]) = n
    BY <1>2, <1>3, <1>4, <2>3, ExceptSeq
  <2>5. ASSUME NEW k \in 1 .. n PROVE FieldNames(h)[k] = [v.names EXCEPT ![i] = Base(v, i)][k]
    BY <1>2, <1>3, <2>1, <2>2
  <2> QED BY <1>28, <2>4, <2>5, SeqEqual
<1>32. View(h) = Blank(v, i)
  BY <1>16, <1>18, <1>22, <1>31 DEF View, Blank
<1> QED BY <1>27, <1>32 DEF h, u, i, back

\* Undoing a deletion.
LEMMA DeleteBack ==
    ASSUME NEW c \in Deletions, NEW e, Ready(e), columns \in Seq(Names), Size(e) - Gain(c) <= MaxFields,
           NEW v, Fits(v), Proper(c, v), View(e) = Redone(v, c), ~LosesNames(e, c, TRUE)
    PROVE  Ready(UndoDelete(e, c)) /\ View(UndoDelete(e, c)) = v
<1> DEFINE i == c.field
<1>1. PICK h : h = HandleAttributeAdded(UpdateFields(PutBack(e, c), columns), i)
  OBVIOUS
<1>2. Ready(h) /\ View(h) = Blank(v, i)
  BY <1>1, DeletedAgain
<1>3. /\ h.added = v.added /\ h.deleted = v.deleted
      /\ FieldNames(h) = [v.names EXCEPT ![i] = Base(v, i)]
      /\ h.changed = [f \in Fids |-> [v.changed[f] EXCEPT ![i] = None]]
      /\ h.features = [f \in Fids |-> IF v.features[f] = None THEN None
                                      ELSE [v.features[f] EXCEPT ![i] = Null]]
  BY <1>2 DEF View, Blank
<1>4. PICK g : g = IF c.old = None THEN h ELSE Named(h, i, c.old)
  OBVIOUS
<1>5. UndoDelete(e, c) = Restored(g, c)
  BY <1>1, <1>4 DEF UndoDelete, Named, PutBack
<1>6. c.op = "delete" /\ i \in Index /\ c.old \in Name /\ c.values \in [Fids -> Entry]
  BY DEF Deletions
<1>7. /\ v \in Views
      /\ v = [added |-> v.added, deleted |-> v.deleted, names |-> v.names,
              changed |-> v.changed, features |-> v.features]
      /\ v.names \in Seq(Names) /\ v.changed \in [Fids -> [Index -> Entry]]
      /\ v.features \in [Fids -> Seq(Value) \union {None}]
  BY ViewRecord DEF Fits
<1>8. /\ Len(v.names) = Count(v) /\ Count(v) \in Nat
      /\ \A f \in Fids, k \in Index : IsNew(f) => v.changed[f][k] = None
      /\ \A f \in Fids : v.features[f] # None => IsNew(f) /\ Len(v.features[f]) = Count(v)
  BY <1>7 DEF Fits
<1>9. /\ i \in 1 .. Count(v)
      /\ v.names[i] = IF c.old = None THEN Base(v, i) ELSE c.old
      /\ \A f \in Fids :
            c.values[f] = IF ~IsNew(f) THEN v.changed[f][i]
                          ELSE IF v.features[f] = None THEN None ELSE v.features[f][i]
  BY <1>6 DEF Proper
<1> HIDE DEF i
<1>10. i \in 1 .. Count(h)
  BY <1>3, <1>9, SameCount
<1>11. /\ Ready(g) /\ FieldNames(g) = v.names /\ g.added = h.added /\ g.deleted = h.deleted
       /\ g.changed = h.changed /\ g.features = h.features
  <2>1. DOMAIN v.names = 1 .. Count(v) /\ i \in DOMAIN v.names
    BY <1>7, <1>8, <1>9
  <2>2. PICK s : s = v.names
    OBVIOUS
  <2>3. s \in Seq(Names) /\ i \in DOMAIN s
    BY <1>7, <2>1, <2>2
  <2>6. s = [k \in DOMAIN s |-> s[k]]
    BY <2>3
  <2>4. CASE c.old = None
    <3>1. s[i] = Base(v, i)
      BY <1>9, <2>2, <2>4
    <3>2. [s EXCEPT ![i] = Base(v, i)] = s
      BY <2>3, <2>6, <3>1
    <3> QED BY <1>2, <1>3, <1>4, <2>2, <2>4, <3>2
  <2>5. CASE c.old # None
    <3>1. c.old \in Names /\ s[i] = c.old
      BY <1>6, <1>9, <2>2, <2>5 DEF Name
    <3>2. /\ Ready(Named(h, i, c.old)) /\ FieldNames(Named(h, i, c.old)) = [FieldNames(h) EXCEPT ![i] = c.old]
          /\ Named(h, i, c.old).added = h.added /\ Named(h, i, c.old).deleted = h.deleted
          /\ Named(h, i, c.old).changed = h.changed /\ Named(h, i, c.old).features = h.features
      BY <1>2, <1>10, <3>1, FieldNamed
    <3>3. FieldNames(h) = [s EXCEPT ![i] = Base(v, i)]
      BY <1>3, <2>2
    <3>4. [FieldNames(h) EXCEPT ![i] = c.old] = s
      BY <2>3, <2>6, <3>1, <3>3
    <3> QED BY <1>4, <2>2, <2>5, <3>2, <3>4
  <2> QED BY <2>4, <2>5
<1> DEFINE features == [f \in Fids |->
                  IF g.features[f] = None \/ c.field \notin DOMAIN g.features[f] THEN g.features[f]
                  ELSE [g.features[f] EXCEPT ![c.field] = IF c.values[f] = None THEN Null ELSE c.values[f]]]
           changed == [f \in Fids |->
                  IF IsNew(f) \/ c.values[f] = None THEN g.changed[f]
                  ELSE [g.changed[f] EXCEPT ![c.field] = c.values[f]]]
           d == Restored(g, c)
<1>12. features = v.features
  <2>1. ASSUME NEW f \in Fids PROVE features[f] = v.features[f]
    <3>1. g.features[f] = IF v.features[f] = None THEN None ELSE [v.features[f] EXCEPT ![i] = Null]
      BY <1>3, <1>11
    <3>2. CASE v.features[f] = None
      BY <3>1, <3>2
    <3>3. CASE v.features[f] # None
      <4>1. PICK s : s = v.features[f]
        OBVIOUS
      <4>2. s \in Seq(Value) /\ i \in 1 .. Len(s) /\ i \in DOMAIN s /\ IsNew(f)
        BY <1>7, <1>8, <1>9, <3>3, <4>1
      <4>3. [s EXCEPT ![i] = Null] \in Seq(Value) /\ DOMAIN [s EXCEPT ![i] = Null] = DOMAIN s
        <5>1. Null \in Value
          BY DEF Value
        <5> QED BY <4>2, <5>1, ExceptSeq
      <4>4. c.values[f] = s[i] /\ s[i] \in Value
        BY <1>9, <3>3, <4>1, <4>2, ElementOfSeq
      <4>5. None \notin Value /\ \A t \in Seq(Value) : t # None
        BY SentinelAssumption DEF Value
      <4>6. PICK t : t = [s EXCEPT ![i] = Null]
        OBVIOUS
      <4>7. g.features[f] = t /\ t # None /\ i \in DOMAIN t /\ c.values[f] # None
        BY <3>1, <3>3, <4>1, <4>2, <4>3, <4>4, <4>5, <4>6
      <4>8. features[f] = [t EXCEPT ![i] = s[i]]
        BY <4>4, <4>7 DEF i
      <4>9. [t EXCEPT ![i] = s[i]] = s
        <5>1. s = [k \in DOMAIN s |-> s[k]] /\ i \in DOMAIN s
          BY <4>2
        <5> QED BY <4>6, <5>1
      <4> QED BY <4>1, <4>8, <4>9
    <3> QED BY <3>2, <3>3
  <2> QED BY <1>7, <2>1
<1>13. changed = v.changed
  <2>1. ASSUME NEW f \in Fids PROVE changed[f] = v.changed[f]
    <3>1. g.changed[f] = [v.changed[f] EXCEPT ![i] = None] /\ v.changed[f] \in [Index -> Entry]
      BY <1>3, <1>7, <1>11
    <3>2. i \in Index
      BY <1>6 DEF i
    <3>3. CASE IsNew(f)
      <4>1. v.changed[f][i] = None
        BY <1>8, <3>2, <3>3
      <4> QED BY <3>1, <3>2, <3>3, <4>1
    <3>4. CASE ~IsNew(f)
      <4>1. c.values[f] = v.changed[f][i]
        BY <1>9, <3>4
      <4>2. changed[f] = IF c.values[f] = None THEN g.changed[f] ELSE [g.changed[f] EXCEPT ![i] = c.values[f]]
        BY <3>4 DEF i
      <4> QED BY <3>1, <3>2, <4>1, <4>2
    <3> QED BY <3>3, <3>4
  <2> QED BY <1>7, <2>1
<1>14. d = [g EXCEPT !.features = features, !.changed = changed]
  BY DEF Restored
<1> HIDE DEF features, changed, d
<1>15. /\ g \in Buffers
       /\ \A f \in Fids, k \in Index : k > Count(g) \/ IsNew(f) => v.changed[f][k] = None
       /\ \A f \in Fids : v.features[f] # None => IsNew(f) /\ Len(v.features[f]) = Count(g)
  <2>1. Count(g) = Count(v) /\ g \in Buffers
    BY <1>3, <1>11, SameCount DEF Ready, Good
  <2>2. \A f \in Fids, k \in Index : k > Count(v) => v.changed[f][k] = None
    BY DEF Fits
  <2> QED BY <1>8, <2>1, <2>2
<1>16. /\ d \in Buffers /\ d.added = g.added /\ d.deleted = g.deleted /\ d.renamed = g.renamed
       /\ d.fields = g.fields /\ d.undefined = g.undefined /\ d.changed = v.changed /\ d.features = v.features
  BY <1>7, <1>12, <1>13, <1>14, <1>15 DEF Buffers
<1>17. Ready(d) /\ FieldNames(d) = FieldNames(g)
  <2>1. \A f \in Fids, k \in Index : k > Count(g) \/ IsNew(f) => d.changed[f][k] = None
    BY <1>15, <1>16
  <2>2. \A f \in Fids : d.features[f] # None => IsNew(f) /\ Len(d.features[f]) = Count(g)
    BY <1>15, <1>16
  <2>3. /\ d \in Buffers /\ d.added = g.added /\ d.deleted = g.deleted /\ d.renamed = g.renamed
        /\ d.fields = g.fields /\ d.undefined = g.undefined
    BY <1>16
  <2>4. Ready(g)
    BY <1>11
  <2> QED BY <2>1, <2>2, <2>3, <2>4, ReadyValues
<1>18. View(d) = v
  BY <1>3, <1>7, <1>11, <1>16, <1>17, SameView
<1> QED BY <1>5, <1>17, <1>18 DEF d

\* Fields that are deleted hide no other.
LEMMA DeletingHidesNone ==
    ASSUME NEW v, NEW w, columns \in Seq(Names), v.added \in Seq(Names), NoneHidden(v),
           \/ w.added = v.added /\ \E at : w.deleted = v.deleted \union {at}
           \/ \E at \in 1 .. Len(v.added) : w.added = RemoveAt(v.added, at) /\ w.deleted = v.deleted
    PROVE  NoneHidden(w)
<1>1. \A i \in DOMAIN v.added :
         /\ \A k \in DOMAIN columns \ v.deleted : columns[k] # v.added[i]
         /\ \A k \in 1 .. i - 1 : v.added[k] # v.added[i]
  BY DEF NoneHidden, Appended
<1>2. SUFFICES \A i \in DOMAIN w.added :
                  /\ \A k \in DOMAIN columns \ w.deleted : columns[k] # w.added[i]
                  /\ \A k \in 1 .. i - 1 : w.added[k] # w.added[i]
  BY DEF NoneHidden, Appended
<1>3. CASE w.added = v.added /\ \E at : w.deleted = v.deleted \union {at}
  BY <1>1, <1>3
<1>4. CASE \E at \in 1 .. Len(v.added) : w.added = RemoveAt(v.added, at) /\ w.deleted = v.deleted
  <2>1. PICK at \in 1 .. Len(v.added) : w.added = RemoveAt(v.added, at) /\ w.deleted = v.deleted
    BY <1>4
  <2>2. PICK a : a = v.added
    OBVIOUS
  <2>3. a \in Seq(Names) /\ DOMAIN a = 1 .. Len(a) /\ Len(a) \in Nat /\ at \in 1 .. Len(a)
    BY <2>1, <2>2
  <2>4. w.added \in Seq(Names) /\ Len(w.added) = Len(a) - 1
    BY <2>1, <2>2, <2>3, Removed
  <2>5. \A k \in 1 .. Len(a) - 1 : w.added[k] = IF k < at THEN a[k] ELSE a[k + 1]
    BY <2>1, <2>2, <2>3, RemovedEntries
  <2>6. ASSUME NEW i \in 1 .. Len(a) - 1, NEW k \in 1 .. i - 1 PROVE w.added[k] # w.added[i]
    <3> DEFINE p == IF k < at THEN k ELSE k + 1
               q == IF i < at THEN i ELSE i + 1
    <3>1. p \in 1 .. q - 1 /\ q \in DOMAIN a /\ k \in 1 .. Len(a) - 1
      BY <2>3
    <3>2. w.added[k] = a[p] /\ w.added[i] = a[q]
      BY <2>5, <3>1
    <3> HIDE DEF p, q
    <3> QED BY <1>1, <2>2, <3>1, <3>2
  <2>7. ASSUME NEW i \in 1 .. Len(a) - 1, NEW k \in DOMAIN columns \ w.deleted PROVE columns[k] # w.added[i]
    <3> DEFINE q == IF i < at THEN i ELSE i + 1
    <3>1. q \in DOMAIN a
      BY <2>3
    <3>2. w.added[i] = a[q]
      BY <2>5
    <3> HIDE DEF q
    <3> QED BY <1>1, <2>1, <2>2, <3>1, <3>2
  <2>8. DOMAIN w.added = 1 .. Len(a) - 1
    BY <2>4
  <2> QED BY <2>6, <2>7, <2>8
<1> QED BY <1>3, <1>4

\* A command that hides no field leads to a view in which none is hidden.
LEMMA HidesNone ==
    ASSUME NEW c \in Commands, NEW e, Ready(e), columns \in Seq(Names), Proper(c, View(e)),
           Size(e) + Gain(c) <= MaxFields, ~HidesField(Redo(e, c))
    PROVE  NoneHidden(Redone(View(e), c))
<1> DEFINE v == View(e)
           w == Redone(v, c)
<1>1. /\ e \in Buffers /\ Size(e) <= MaxFields /\ NoneHidden(e) /\ Count(e) \in Nat
  BY ReadyFacts
<1>2. e.added \in Seq(Names) /\ Len(e.added) \in Nat
  BY <1>1 DEF Buffers
<1>3. /\ v = [added |-> e.added, deleted |-> e.deleted, names |-> FieldNames(e), changed |-> e.changed,
              features |-> e.features]
      /\ v.added = e.added /\ v.deleted = e.deleted
  BY DEF View
<1>4. NoneHidden(v) /\ Count(v) = Count(e) /\ Stays(v) = Stays(e)
  BY <1>1, <1>3, SameCount
<1> HIDE DEF v
<1>5. CASE c.op = "feature"
  <2>1. w.added = v.added /\ w.deleted = v.deleted
    BY <1>3, <1>5 DEF Redone
  <2> QED BY <1>4, <2>1, SameCount DEF v
<1>6. CASE c.op = "change"
  <2>1. w.added = v.added /\ w.deleted = v.deleted
    BY <1>3, <1>6 DEF Redone, RedoChange, SetAttribute
  <2> QED BY <1>4, <2>1, SameCount DEF v
<1>7. CASE c.op = "rename"
  <2>1. w.added = v.added /\ w.deleted = v.deleted
    BY <1>3, <1>7 DEF Redone
  <2> QED BY <1>4, <2>1, SameCount DEF v
<1>8. CASE c.op = "delete"
  <2>1. /\ w.added = IF c.from = "edit" THEN RemoveAt(v.added, c.at) ELSE v.added
        /\ w.deleted = IF c.from = "edit" THEN v.deleted ELSE v.deleted \union {c.at}
    BY <1>3, <1>8 DEF Redone
  <2>2. /\ c.field \in 1 .. Count(v)
        /\ IF c.field <= Len(Stays(v)) THEN c.from = "provider" /\ c.at = Stays(v)[c.field]
           ELSE c.from = "edit" /\ c.at = c.field - Len(Stays(v))
    BY <1>8 DEF Proper, v
  <2>3. c.from = "edit" => c.at \in 1 .. Len(v.added)
    <3>1. Len(Stays(v)) \in Nat
      BY StaysList
    <3>2. Count(v) = Len(Stays(v)) + Len(v.added)
      BY DEF Count
    <3> QED BY <1>2, <1>3, <2>2, <3>1, <3>2
  <2>4. \/ w.added = v.added /\ w.deleted = v.deleted \union {c.at}
        \/ c.at \in 1 .. Len(v.added) /\ w.added = RemoveAt(v.added, c.at) /\ w.deleted = v.deleted
    BY <2>1, <2>3
  <2>5. PICK b : b = w
    OBVIOUS
  <2>6. \/ b.added = v.added /\ \E at : b.deleted = v.deleted \union {at}
        \/ \E at \in 1 .. Len(v.added) : b.added = RemoveAt(v.added, at) /\ b.deleted = v.deleted
    BY <2>4, <2>5
  <2>7. NoneHidden(b)
    BY <1>2, <1>3, <1>4, <2>6, DeletingHidesNone
  <2> QED BY <2>5, <2>7 DEF v
<1>9. CASE c.op = "add"
  <2> DEFINE a == [e EXCEPT !.added = Append(@, c.name)]
             u == UpdateFields(a, columns)
             h == HandleAttributeAdded(u, c.field)
  <2>1. c \in Additions
    BY <1>9, CommandKinds
  <2>2. Append(e.added, c.name) \in Seq(Names) /\ Len(Append(e.added, c.name)) = Len(e.added) + 1
        /\ c.field \in Index
    BY <1>2, <2>1, AppendProperties DEF Additions
  <2>3. Redo(e, c) = h
    BY <1>9 DEF Redo, RedoAdd
  <2>4. a \in Buffers /\ a.added = Append(e.added, c.name) /\ a.deleted = e.deleted
    BY <1>1, <2>2 DEF Buffers
  <2> HIDE DEF a, u, h
  <2>5. Size(a) <= MaxFields
    <3>1. Size(a) = Len(columns) + (Len(e.added) + 1) /\ Size(e) = Len(columns) + Len(e.added)
      BY <2>2, <2>4 DEF Size
    <3>2. Gain(c) = 1
      BY <1>9 DEF Gain
    <3>3. Len(columns) \in Nat
      OBVIOUS
    <3> QED BY <1>2, <3>1, <3>2, <3>3
  <2>6. u \in Buffers /\ u.added = a.added /\ u.deleted = a.deleted
    BY <2>4, <2>5, UpdateFieldsType DEF u
  <2>7. h.fields = u.fields /\ h.added = u.added /\ h.deleted = u.deleted
    BY <2>2, <2>6, AttributeAdded DEF h
  <2>8. Len(UpdateFields(a, columns).fields) = Cardinality(DOMAIN columns \ a.deleted) + Len(a.added)
    BY <2>3, <2>6, <2>7 DEF HidesField, u
  <2>9. NoneHidden(a)
    BY <2>4, <2>5, <2>8, CountedNotHidden
  <2>10. w.added = a.added /\ w.deleted = a.deleted
    BY <1>3, <1>9, <2>4 DEF Redone
  <2> QED BY <2>9, <2>10, SameCount DEF v
<1> QED BY <1>5, <1>6, <1>7, <1>8, <1>9, CommandKinds DEF v

\* What every command makes of the view, and what undoing it makes of it.
LEMMA RedoThere ==
    ASSUME NEW c \in Commands, NEW e, Ready(e), columns \in Seq(Names), Proper(c, View(e)),
           Size(e) + Gain(c) <= MaxFields, ~LosesNames(e, c, FALSE), NoneHidden(Redone(View(e), c))
    PROVE  Ready(Redo(e, c)) /\ View(Redo(e, c)) = Redone(View(e), c)
<1>1. CASE c.op = "feature"
  <2>1. c \in Features /\ Redo(e, c) = RedoAddFeature(e, c)
    BY <1>1, CommandKinds DEF Redo
  <2> QED BY <2>1, FeatureThere
<1>2. CASE c.op = "change"
  <2>1. c \in Changes /\ Redo(e, c) = RedoChange(e, c)
    BY <1>2, CommandKinds DEF Redo
  <2> QED BY <2>1, ChangeThere
<1>3. CASE c.op = "add"
  <2>1. c \in Additions /\ Redo(e, c) = RedoAdd(e, c) /\ Gain(c) = 1
    BY <1>3, CommandKinds DEF Redo, Gain
  <2> QED BY <2>1, AddThere
<1>4. CASE c.op = "delete"
  <2>1. c \in Deletions /\ Redo(e, c) = RedoDelete(e, c)
    BY <1>4, CommandKinds DEF Redo
  <2> QED BY <2>1, DeleteThere
<1>5. CASE c.op = "rename"
  <2>1. c \in Renamings /\ Redo(e, c) = RedoRename(e, c)
    BY <1>5, CommandKinds DEF Redo
  <2> QED BY <2>1, RenameThere
<1> QED BY <1>1, <1>2, <1>3, <1>4, <1>5, CommandKinds

\* Undoing the command that led to a view leads back to the view before, unless
\* names are lost.
LEMMA UndoBack ==
    ASSUME NEW c \in Commands, NEW e, Ready(e), columns \in Seq(Names), Size(e) - Gain(c) <= MaxFields,
           NEW v, Fits(v), Proper(c, v), View(e) = Redone(v, c), ~LosesNames(e, c, TRUE)
    PROVE  Ready(Undo(e, c)) /\ View(Undo(e, c)) = v
<1>1. CASE c.op = "feature"
  <2>1. c \in Features /\ Undo(e, c) = UndoAddFeature(e, c)
    BY <1>1, CommandKinds DEF Undo
  <2> QED BY <2>1, FeatureBack
<1>2. CASE c.op = "change"
  <2>1. c \in Changes /\ Undo(e, c) = UndoChange(e, c)
    BY <1>2, CommandKinds DEF Undo
  <2> QED BY <2>1, ChangeBack
<1>3. CASE c.op = "add"
  <2>1. c \in Additions /\ Undo(e, c) = UndoAdd(e, c)
    BY <1>3, CommandKinds DEF Undo
  <2> QED BY <2>1, AddBack
<1>4. CASE c.op = "delete"
  <2>1. c \in Deletions /\ Undo(e, c) = UndoDelete(e, c)
    BY <1>4, CommandKinds DEF Undo
  <2> QED BY <2>1, DeleteBack
<1>5. CASE c.op = "rename"
  <2>1. c \in Renamings /\ Undo(e, c) = UndoRename(e, c)
    BY <1>5, CommandKinds DEF Undo
  <2> QED BY <2>1, RenameBack
<1> QED BY <1>1, <1>2, <1>3, <1>4, <1>5, CommandKinds

-----------------------------------------------------------------------------
(* Undo and redo go where the history says. *)

\* Nothing of this depends on more of the state than what the provider holds.
LEMMA SameStore ==
    ASSUME columns' = columns, rows' = rows
    PROVE  /\ \A v : Fits(v)' <=> Fits(v)
           /\ \A c, v : Proper(c, v)' <=> Proper(c, v)
           /\ \A v, c : Redone(v, c)' = Redone(v, c)
           /\ \A v : TableOf(v)' = TableOf(v)
<1>1. \A v : Stays(v)' = Stays(v)
  BY DEF Stays
<1>2. \A v : Count(v)' = Count(v)
  BY <1>1 DEF Count
<1>3. \A v, i : Base(v, i)' = Base(v, i)
  BY <1>1 DEF Base
<1>4. \A f : IsNew(f)' <=> IsNew(f)
  BY DEF IsNew
<1>5. \A v : NoneHidden(v)' <=> NoneHidden(v)
  BY DEF NoneHidden
<1>6. ASSUME NEW v PROVE Fits(v)' <=> Fits(v)
  BY <1>2, <1>4, <1>5 DEF Fits
<1>7. ASSUME NEW c, NEW v PROVE Proper(c, v)' <=> Proper(c, v)
  BY <1>1, <1>2, <1>3, <1>4 DEF Proper
<1>8. ASSUME NEW v, NEW c PROVE Redone(v, c)' = Redone(v, c)
  <2>1. RedoChange(v, c)' = RedoChange(v, c)
    BY <1>4 DEF RedoChange
  <2> QED BY <2>1 DEF Redone
<1>9. ASSUME NEW v PROVE TableOf(v)' = TableOf(v)
  <2>1. ASSUME NEW f PROVE Shown(v, f)' = Shown(v, f)
    BY <1>4 DEF Shown, UpdatedAttributes
  <2> QED BY <2>1 DEF TableOf
<1> QED BY <1>6, <1>7, <1>8, <1>9

\* The view has everything that is shown.
LEMMA ViewShows ==
    ASSUME NEW e
    PROVE  Table(e) = TableOf(View(e))
<1> DEFINE v == View(e)
<1>1. v.added = e.added /\ v.deleted = e.deleted /\ v.names = FieldNames(e) /\ v.changed = e.changed
      /\ v.features = e.features
  BY DEF View
<1> HIDE DEF v
<1>2. ASSUME NEW f PROVE Shown(v, f) = Shown(e, f)
  BY <1>1 DEF Shown, UpdatedAttributes
<1> QED BY <1>1, <1>2 DEF Table, TableOf, v

\* What is known of a history that was remembered.
LEMMA Recall ==
    ASSUME IInv, Remembered, exact, phase \notin Stages
    PROVE  /\ Ready(ed) /\ ~ed.undefined /\ columns \in Seq(Names)
           /\ \E v : Linked(v)
           /\ Table(ed) = hist[index + 1]
<1>1. Settled(ed) /\ \E v : Linked(v)
  BY DEF Remembered
<1>2. PICK v : Linked(v)
  BY <1>1
<1>3. ~ed.undefined
  BY <1>1 DEF Settled
<1>4. index \in 0 .. Len(cmds) /\ Good(ed) /\ columns \in Seq(Names)
  BY <1>3, Rest
<1>5. v[index] = View(ed) /\ Fits(v[index]) /\ hist[index + 1] = TableOf(v[index])
  BY <1>2, <1>4 DEF Linked
<1>6. Ready(ed)
  BY <1>1, <1>4, <1>5 DEF Ready
<1>7. Table(ed) = hist[index + 1]
  BY <1>5, ViewShows
<1> QED BY <1>1, <1>3, <1>4, <1>6, <1>7

\* What an undo and a redo lead to is what was there at the position they lead to.
LEMMA Moves ==
    ASSUME UNCHANGED <<store, cmds, hist>>, NEW v, Linked(v), NEW j \in 0 .. Len(cmds), index' = j,
           NEW d, ed' = d, Ready(d), View(d) = v[j]
    PROVE  Remembered' /\ Table(ed)' = hist[j + 1]
<1>1. columns' = columns /\ rows' = rows /\ cmds' = cmds /\ hist' = hist
  BY DEF store
<1>2. Settled(ed)'
  BY <1>1 DEF Ready, Settled
<1>3. Linked(v)'
  <2>1. /\ v \in [0 .. Len(cmds) -> Views] /\ v[0] = View(Opened(columns))
        /\ \A k \in 0 .. Len(cmds) : Fits(v[k]) /\ hist[k + 1] = TableOf(v[k])
        /\ \A k \in 1 .. Len(cmds) : Proper(cmds[k], v[k - 1]) /\ v[k] = Redone(v[k - 1], cmds[k])
        /\ \A k \in 0 .. Len(cmds), f \in Fids :
              v[k].features[f] # None => \E i \in 1 .. k : cmds[i].op = "feature" /\ cmds[i].fid = f
    BY DEF Linked
  <2>2. /\ (v \in [0 .. Len(cmds) -> Views])' /\ (v[0] = View(Opened(columns)))'
    BY <1>1, <2>1
  <2>3. (v[index] = View(ed))'
    OBVIOUS
  <2>4. (\A k \in 0 .. Len(cmds) : Fits(v[k]) /\ hist[k + 1] = TableOf(v[k]))'
    BY <1>1, <2>1, SameStore
  <2>5. (\A k \in 1 .. Len(cmds) : Proper(cmds[k], v[k - 1]) /\ v[k] = Redone(v[k - 1], cmds[k]))'
    <3>1. PICK t : t = cmds
      OBVIOUS
    <3>2. cmds' = t /\ \A k \in 1 .. Len(t) : Proper(t[k], v[k - 1]) /\ v[k] = Redone(v[k - 1], t[k])
      BY <1>1, <2>1, <3>1
    <3>3. \A k \in 1 .. Len(t) : Proper(t[k], v[k - 1])' /\ v[k] = Redone(v[k - 1], t[k])'
      BY <1>1, <3>2, SameStore
    <3> QED BY <3>2, <3>3
  <2>6. (\A k \in 0 .. Len(cmds), f \in Fids :
            v[k].features[f] # None => \E i \in 1 .. k : cmds[i].op = "feature" /\ cmds[i].fid = f)'
    BY <1>1, <2>1
  <2> QED BY <2>2, <2>3, <2>4, <2>5, <2>6 DEF Linked
<1>4. Remembered'
  BY <1>2, <1>3 DEF Remembered
<1>5. Table(ed)' = hist[j + 1]
  <2>1. Table(d) = TableOf(v[j]) /\ hist[j + 1] = TableOf(v[j])
    BY ViewShows DEF Linked
  <2>2. ASSUME NEW f PROVE Shown(d, f)' = Shown(d, f)
    BY <1>1 DEF Shown, UpdatedAttributes, IsNew
  <2>3. Table(d)' = Table(d)
    BY <2>2 DEF Table
  <2> QED BY <2>1, <2>3
<1> QED BY <1>4, <1>5

\* An undo.
LEMMA UndoRemembers ==
    ASSUME IInv, Remembered, phase \notin Stages, ~ed.undefined, StepBack
    PROVE  Remembered' /\ (exact' => exact /\ Table(ed)' = hist[index])
<1>1. SUFFICES ASSUME exact' PROVE exact /\ Remembered' /\ Table(ed)' = hist[index]
  BY DEF Remembered
<1> DEFINE c == cmds[index]
           d == Undo(ed, c)
<1>2. /\ index > 0 /\ ed' = d /\ index' = index - 1 /\ exact /\ ~LosesNames(ed, c, TRUE)
      /\ UNCHANGED <<store, cmds, hist>>
  BY <1>1 DEF StepBack
<1>3. PICK v : Linked(v)
  BY <1>2, Recall
<1>4. Ready(ed) /\ columns \in Seq(Names)
  BY <1>2, Recall
<1>5. index \in 1 .. Len(cmds) /\ index \in 0 .. Len(cmds) /\ index - 1 \in 0 .. Len(cmds)
  BY <1>2, Rest
<1>6. c \in Commands /\ Size(ed) - Gain(c) <= MaxFields
  BY <1>5, StepFits
<1>7. View(ed) = v[index] /\ Fits(v[index - 1]) /\ Proper(c, v[index - 1]) /\ v[index] = Redone(v[index - 1], c)
  BY <1>3, <1>5 DEF Linked
<1>8. Ready(d) /\ View(d) = v[index - 1]
  <2> HIDE DEF c, d
  <2> QED BY <1>2, <1>4, <1>6, <1>7, UndoBack DEF d
<1>9. PICK j, b : j = index - 1 /\ b = d
  OBVIOUS
<1>10. Remembered' /\ Table(ed)' = hist[j + 1]
  <2>1. j \in 0 .. Len(cmds) /\ index' = j /\ ed' = b /\ Ready(b) /\ View(b) = v[j]
    BY <1>2, <1>5, <1>8, <1>9
  <2> QED BY <1>2, <1>3, <2>1, Moves
<1> QED BY <1>2, <1>5, <1>9, <1>10

\* A redo.
LEMMA RedoRemembers ==
    ASSUME IInv, Remembered, RedoCommand
    PROVE  Remembered' /\ (exact' => exact /\ index < Len(cmds) /\ Table(ed)' = hist[index + 2])
<1>1. SUFFICES ASSUME exact' PROVE exact /\ index < Len(cmds) /\ Remembered' /\ Table(ed)' = hist[index + 2]
  BY DEF Remembered
<1>2. phase \notin Stages /\ ~ed.undefined
  BY Phases DEF RedoCommand, Editing
<1> DEFINE i == index + 1
           c == cmds[i]
           d == Redo(ed, c)
<1>3. /\ index < Len(cmds) /\ ed' = d /\ index' = i /\ exact /\ ~LosesNames(ed, c, FALSE)
      /\ UNCHANGED <<store, cmds, hist>>
  <2>1. cmds' = cmds /\ index' = i
    BY DEF RedoCommand
  <2> QED BY <1>1, <2>1 DEF RedoCommand
<1>4. PICK v : Linked(v)
  BY <1>2, <1>3, Recall
<1>5. Ready(ed) /\ columns \in Seq(Names)
  BY <1>2, <1>3, Recall
<1>6. i \in 1 .. Len(cmds) /\ i \in 0 .. Len(cmds) /\ index = i - 1 /\ i + 1 = index + 2 /\ index \in 0 .. Len(cmds)
  <2>1. index \in 0 .. Len(cmds) /\ Len(cmds) \in Nat
    BY <1>2, Rest
  <2> QED BY <1>3, <2>1
<1>7. c \in Commands /\ Size(ed) + Gain(c) <= MaxFields
  BY <1>2, <1>6, StepFits
<1>8. View(ed) = v[index] /\ Fits(v[i]) /\ Proper(c, v[index]) /\ v[i] = Redone(v[index], c)
  <2> HIDE DEF i
  <2> QED BY <1>4, <1>6 DEF Linked
<1>9. NoneHidden(Redone(View(ed), c))
  <2> HIDE DEF c, i
  <2> QED BY <1>8 DEF Fits
<1>10. Ready(d) /\ View(d) = v[i]
  <2> HIDE DEF c, d, i
  <2> QED BY <1>3, <1>5, <1>7, <1>8, <1>9, RedoThere DEF d
<1>11. PICK j, b : j = i /\ b = d
  OBVIOUS
<1>12. Remembered' /\ Table(ed)' = hist[j + 1]
  <2>1. j \in 0 .. Len(cmds) /\ index' = j /\ ed' = b /\ Ready(b) /\ View(b) = v[j]
    BY <1>3, <1>6, <1>10, <1>11
  <2> QED BY <1>3, <1>4, <2>1, Moves
<1> QED BY <1>3, <1>6, <1>11, <1>12

\* No command but the one that adds it makes a feature come.
LEMMA FeaturesCome ==
    ASSUME NEW c \in Commands, NEW v \in Views, NEW f \in Fids, Redone(v, c).features[f] # None
    PROVE  v.features[f] # None \/ (c.op = "feature" /\ c.fid = f)
<1>1. /\ v = [added |-> v.added, deleted |-> v.deleted, names |-> v.names,
              changed |-> v.changed, features |-> v.features]
      /\ v.features \in [Fids -> Seq(Value) \union {None}]
  BY ViewRecord
<1>2. CASE c.op = "feature"
  <2>1. c.fid # f => Redone(v, c).features[f] = v.features[f]
    BY <1>1, <1>2 DEF Redone
  <2> QED BY <1>2, <2>1
<1>3. CASE c.op = "change"
  <2>1. Redone(v, c) = RedoChange(v, c)
    BY <1>3 DEF Redone
  <2>2. v.features[f] = None => RedoChange(v, c).features[f] = None
    BY <1>1 DEF RedoChange, SetAttribute
  <2> QED BY <2>1, <2>2
<1>4. CASE c.op = "add"
  <2>1. v.features[f] = None => Redone(v, c).features[f] = None
    BY <1>1, <1>4 DEF Redone
  <2> QED BY <2>1
<1>5. CASE c.op = "delete"
  <2>1. v.features[f] = None => Redone(v, c).features[f] = None
    BY <1>1, <1>5 DEF Redone
  <2> QED BY <2>1
<1>6. CASE c.op = "rename"
  <2>1. Redone(v, c).features = v.features
    BY <1>1, <1>6 DEF Redone
  <2> QED BY <2>1
<1> QED BY <1>2, <1>3, <1>4, <1>5, <1>6, CommandKinds

\* The stacks after a new command.
LEMMA Pushed ==
    ASSUME IInv, phase \notin Stages, ~ed.undefined, NEW c \in Commands, Push(c)
    PROVE  /\ index \in 0 .. Len(cmds) /\ index \in Nat /\ index' = index + 1 /\ Len(cmds') = index + 1
           /\ \A k \in 1 .. index : cmds'[k] = cmds[k]
           /\ cmds'[index + 1] = c
           /\ \A k \in 0 .. index : hist'[k + 1] = hist[k + 1]
           /\ hist'[index + 2] = Table(ed')
<1>1. /\ index \in 0 .. Len(cmds) /\ Len(cmds) \in Nat /\ cmds \in Seq(Commands) /\ Len(hist) = Len(cmds) + 1
      /\ hist \in Seq(Contents(hist))
  BY Rest DEF IInv, Types
<1>2. index' = index + 1 /\ cmds' = Append(SubSeq(cmds, 1, index), c)
  BY DEF Push
<1>3. Len(cmds') = index + 1 /\ (\A k \in 1 .. index : cmds'[k] = cmds[k]) /\ cmds'[index + 1] = c
  <2>1. index \in 0 .. Len(cmds) /\ cmds \in Seq(Commands) /\ c \in Commands
    BY <1>1
  <2> QED BY <1>2, <2>1, CutAndAppended
<1> DEFINE n == index + 1
           x == Table(ed')
           S == Contents(hist) \union {x}
<1>4. (\A k \in 1 .. n : hist'[k] = hist[k]) /\ hist'[n + 1] = x
  <2>1. hist \in Seq(S) /\ x \in S
    BY <1>1, SeqMonotonic
  <2>2. n \in 0 .. Len(hist)
    BY <1>1
  <2>3. hist' = Append(SubSeq(hist, 1, n), x)
    BY DEF Push
  <2> HIDE DEF x, S, n
  <2> QED BY <2>1, <2>2, <2>3, CutAndAppended
<1>5. /\ \A k \in 0 .. index : hist'[k + 1] = hist[k + 1]
      /\ hist'[index + 2] = Table(ed')
  <2>1. \A k \in 0 .. index : k + 1 \in 1 .. n
    BY <1>1
  <2>2. n + 1 = index + 2
    BY <1>1
  <2> QED BY <1>4, <2>1, <2>2
<1> QED BY <1>1, <1>2, <1>3, <1>5

\* A new command is remembered with what it leads to.
LEMMA PushRemembers ==
    ASSUME IInv, Remembered, Editing, NEW c \in Commands, Size(ed) + Gain(c) <= MaxFields, Push(c),
           exact => Proper(c, View(ed))
    PROVE  Remembered'
<1>1. SUFFICES ASSUME exact' PROVE Settled(ed)' /\ \E t : Linked(t)'
  BY DEF Remembered
<1>2. phase \notin Stages /\ ~ed.undefined
  BY Phases DEF Editing
<1>3. /\ columns' = columns /\ rows' = rows /\ ed' = Redo(ed, c) /\ exact
      /\ ~LosesNames(ed, c, FALSE) /\ ~HidesField(ed')
  BY <1>1 DEF Push, store
<1>4. Ready(ed) /\ columns \in Seq(Names)
  BY <1>2, <1>3, Recall
<1>5. PICK v : Linked(v)
  BY <1>2, <1>3, Recall
<1> DEFINE n == index
           old == View(ed)
           w == Redone(old, c)
<1>6. PICK d : d = Redo(ed, c)
  OBVIOUS
<1>7. ~HidesField(Redo(ed, c))
  BY <1>3
<1>8. Proper(c, View(ed)) /\ NoneHidden(Redone(View(ed), c))
  BY <1>3, <1>4, <1>7, HidesNone
<1>9. Ready(d) /\ View(d) = w
  BY <1>3, <1>4, <1>6, <1>8, RedoThere
<1>10. Settled(ed)'
  BY <1>3, <1>6, <1>9 DEF Ready, Settled
<1>11. /\ n \in 0 .. Len(cmds) /\ n \in Nat /\ index' = n + 1 /\ Len(cmds') = n + 1
       /\ \A k \in 1 .. n : cmds'[k] = cmds[k]
       /\ cmds'[n + 1] = c
       /\ \A k \in 0 .. n : hist'[k + 1] = hist[k + 1]
       /\ hist'[n + 2] = Table(ed')
  BY <1>2, Pushed
<1>12. /\ v \in [0 .. Len(cmds) -> Views] /\ v[0] = View(Opened(columns)) /\ v[n] = old
       /\ \A k \in 0 .. Len(cmds) : Fits(v[k]) /\ hist[k + 1] = TableOf(v[k])
       /\ \A k \in 1 .. Len(cmds) : Proper(cmds[k], v[k - 1]) /\ v[k] = Redone(v[k - 1], cmds[k])
       /\ \A k \in 0 .. Len(cmds), f \in Fids :
             v[k].features[f] # None => \E i \in 1 .. k : cmds[i].op = "feature" /\ cmds[i].fid = f
  BY <1>5 DEF Linked
<1>13. Fits(w) /\ w \in Views
  BY <1>9 DEF Ready, Fits
<1>14. Fits(old) /\ old \in Views
  BY <1>4 DEF Ready, Fits
<1>15. Table(ed') = TableOf(w)
  BY <1>3, <1>6, <1>9, ViewShows
<1>16. PICK t : t = [k \in 0 .. n + 1 |-> IF k <= n THEN v[k] ELSE w]
  OBVIOUS
<1> HIDE DEF w, old
<1>17. /\ \A k \in 0 .. n : t[k] = v[k] /\ k \in 0 .. Len(cmds)
       /\ t[n + 1] = w /\ t[n] = old
       /\ \A k \in 0 .. n + 1 : k \in 0 .. n \/ k = n + 1
       /\ \A k \in 1 .. n + 1 : k = n + 1 \/ (k \in 1 .. n /\ k - 1 \in 0 .. n /\ k \in 0 .. n /\ k \in 1 .. Len(cmds))
       /\ 0 \in 0 .. n /\ n + 1 - 1 = n /\ n + 1 + 1 = n + 2 /\ n \in 0 .. n
  BY <1>11, <1>12, <1>16
<1>18. t \in [0 .. n + 1 -> Views]
  <2>1. \A k \in 0 .. n + 1 : t[k] \in Views
    BY <1>12, <1>13, <1>17
  <2> QED BY <1>16, <2>1
<1>19. t[0] = View(Opened(columns))
  BY <1>12, <1>17
<1>20. \A k \in 0 .. n + 1 : Fits(t[k]) /\ hist'[k + 1] = TableOf(t[k])
  BY <1>11, <1>12, <1>13, <1>15, <1>17
<1>21. \A k \in 1 .. n + 1 : Proper(cmds'[k], t[k - 1]) /\ t[k] = Redone(t[k - 1], cmds'[k])
  <2>1. ASSUME NEW k \in 1 .. n
        PROVE  Proper(cmds'[k], t[k - 1]) /\ t[k] = Redone(t[k - 1], cmds'[k])
    <3>1. k - 1 \in 0 .. n /\ k \in 0 .. n /\ k \in 1 .. Len(cmds)
      BY <1>11, <1>17
    <3>2. cmds'[k] = cmds[k] /\ t[k] = v[k] /\ t[k - 1] = v[k - 1]
      BY <1>11, <1>17, <3>1
    <3> QED BY <1>12, <3>1, <3>2
  <2>2. Proper(cmds'[n + 1], t[n + 1 - 1]) /\ t[n + 1] = Redone(t[n + 1 - 1], cmds'[n + 1])
    BY <1>8, <1>11, <1>17 DEF w, old
  <2> QED BY <1>17, <2>1, <2>2
<1>22. \A k \in 0 .. n + 1, f \in Fids :
          t[k].features[f] # None => \E i \in 1 .. k : cmds'[i].op = "feature" /\ cmds'[i].fid = f
  <2>1. ASSUME NEW k \in 0 .. n, NEW f \in Fids, v[k].features[f] # None
        PROVE  \E i \in 1 .. k : cmds'[i].op = "feature" /\ cmds'[i].fid = f
    <3>1. PICK i \in 1 .. k : cmds[i].op = "feature" /\ cmds[i].fid = f
      BY <1>12, <1>17, <2>1
    <3>2. i \in 1 .. n
      BY <1>11
    <3> QED BY <1>11, <3>1, <3>2
  <2>2. ASSUME NEW f \in Fids, w.features[f] # None
        PROVE  \E i \in 1 .. n + 1 : cmds'[i].op = "feature" /\ cmds'[i].fid = f
    <3>1. old.features[f] # None \/ (c.op = "feature" /\ c.fid = f)
      BY <1>14, <2>2, FeaturesCome DEF w
    <3>2. n + 1 \in 1 .. n + 1 /\ \A i \in 1 .. n : i \in 1 .. n + 1
      BY <1>11
    <3>3. old.features[f] # None => \E i \in 1 .. n : cmds'[i].op = "feature" /\ cmds'[i].fid = f
      BY <1>12, <1>17, <2>1
    <3> QED BY <1>11, <3>1, <3>2, <3>3
  <2> QED BY <1>17, <2>1, <2>2
<1>23. Linked(t)'
  <2>1. (t \in [0 .. Len(cmds) -> Views])' /\ (t[0] = View(Opened(columns)))' /\ (t[index] = View(ed))'
    BY <1>3, <1>6, <1>9, <1>11, <1>17, <1>18, <1>19
  <2>2. (\A k \in 0 .. Len(cmds) : Fits(t[k]) /\ hist[k + 1] = TableOf(t[k]))'
    BY <1>3, <1>11, <1>20, SameStore
  <2>3. (\A k \in 1 .. Len(cmds) : Proper(cmds[k], t[k - 1]) /\ t[k] = Redone(t[k - 1], cmds[k]))'
    <3>1. PICK s : s = cmds'
      OBVIOUS
    <3>2. \A k \in 1 .. n + 1 : Proper(s[k], t[k - 1]) /\ t[k] = Redone(t[k - 1], s[k])
      BY <1>21, <3>1
    <3>3. \A k \in 1 .. n + 1 : Proper(s[k], t[k - 1])' /\ t[k] = Redone(t[k - 1], s[k])'
      BY <1>3, <3>2, SameStore
    <3> QED BY <1>11, <3>1, <3>3
  <2>4. (\A k \in 0 .. Len(cmds), f \in Fids :
            t[k].features[f] # None => \E i \in 1 .. k : cmds[i].op = "feature" /\ cmds[i].fid = f)'
    BY <1>11, <1>22
  <2> QED BY <2>1, <2>2, <2>3, <2>4 DEF Linked
<1> QED BY <1>10, <1>23

-----------------------------------------------------------------------------
(* What users do fits, and is remembered. *)

\* What is known of the buffer a user edits, if nothing was lost.
LEMMA Remembering ==
    ASSUME IInv, Editing, Remembered, exact
    PROVE  /\ ed \in Buffers
           /\ Count(View(ed)) = Count(ed) /\ Stays(View(ed)) = Stays(ed)
           /\ \A i : Base(View(ed), i) = Base(ed, i)
           /\ View(ed).added = ed.added /\ View(ed).names = FieldNames(ed)
           /\ View(ed).changed = ed.changed /\ View(ed).features = ed.features
           /\ Count(ed) \in Nat /\ Len(ed.fields) = Count(ed) /\ DOMAIN ed.fields = 1 .. Count(ed)
           /\ \A i \in 1 .. Count(ed) :
                 /\ FieldNames(ed)[i] = ed.fields[i].name
                 /\ FieldNames(ed)[i] = IF ed.renamed[i] = None THEN Base(ed, i) ELSE ed.renamed[i]
                 /\ ed.fields[i].from = IF i <= Len(Stays(ed)) THEN "provider" ELSE "edit"
                 /\ ed.fields[i].at = IF i <= Len(Stays(ed)) THEN Stays(ed)[i] ELSE i - Len(Stays(ed))
           /\ \A f \in Fids : ed.features[f] # None => IsNew(f) /\ DOMAIN ed.features[f] = 1 .. Count(ed)
           /\ \A f \in Fids : ed.features[f] # None =>
                 \E k \in DOMAIN cmds : cmds[k].op = "feature" /\ cmds[k].fid = f
<1>1. phase \notin Stages /\ ~ed.undefined
  BY Phases DEF Editing
<1>2. Ready(ed) /\ columns \in Seq(Names)
  BY <1>1, Recall
<1>3. /\ ed \in Buffers /\ Size(ed) <= MaxFields /\ NoneHidden(ed)
      /\ ed.fields = UpdateFields(ed, columns).fields
      /\ \A f \in Fids : ed.features[f] # None => IsNew(f) /\ Len(ed.features[f]) = Count(ed)
  BY <1>2, ReadyFacts
<1>4. /\ View(ed).added = ed.added /\ View(ed).deleted = ed.deleted /\ View(ed).names = FieldNames(ed)
      /\ View(ed).changed = ed.changed /\ View(ed).features = ed.features
  BY DEF View
<1>5. /\ Count(View(ed)) = Count(ed) /\ Stays(View(ed)) = Stays(ed)
      /\ \A i : Base(View(ed), i) = Base(ed, i)
  BY <1>4, SameCount
<1>6. /\ Count(ed) \in Nat /\ Len(ed.fields) = Count(ed) /\ DOMAIN ed.fields = 1 .. Count(ed)
      /\ \A i \in 1 .. Count(ed) :
            /\ FieldNames(ed)[i] = IF ed.renamed[i] = None THEN Base(ed, i) ELSE ed.renamed[i]
            /\ ed.fields[i].from = IF i <= Len(Stays(ed)) THEN "provider" ELSE "edit"
            /\ ed.fields[i].at = IF i <= Len(Stays(ed)) THEN Stays(ed)[i] ELSE i - Len(Stays(ed))
  BY <1>2, <1>3, NamesAre
<1>7. \A i \in 1 .. Count(ed) : FieldNames(ed)[i] = ed.fields[i].name
  BY <1>6 DEF FieldNames
<1>8. \A f \in Fids : ed.features[f] # None => IsNew(f) /\ DOMAIN ed.features[f] = 1 .. Count(ed)
  <2>1. ed.features \in [Fids -> Seq(Value) \union {None}]
    BY <1>3 DEF Buffers
  <2>2. ASSUME NEW f \in Fids, ed.features[f] # None
        PROVE  IsNew(f) /\ DOMAIN ed.features[f] = 1 .. Count(ed)
    <3>1. ed.features[f] \in Seq(Value)
      BY <2>1, <2>2
    <3> QED BY <1>3, <2>2, <3>1
  <2> QED BY <2>2
<1>9. ASSUME NEW f \in Fids, ed.features[f] # None
      PROVE  \E k \in DOMAIN cmds : cmds[k].op = "feature" /\ cmds[k].fid = f
  <2>1. PICK v : Linked(v)
    BY <1>1, Recall
  <2>2. index \in 0 .. Len(cmds) /\ DOMAIN cmds = 1 .. Len(cmds) /\ Len(cmds) \in Nat
    BY <1>1, Rest
  <2>3. v[index].features[f] # None
    BY <1>4, <1>9, <2>1 DEF Linked
  <2>4. PICK k \in 1 .. index : cmds[k].op = "feature" /\ cmds[k].fid = f
    BY <2>1, <2>2, <2>3 DEF Linked
  <2> QED BY <2>2, <2>4
<1> QED BY <1>3, <1>4, <1>5, <1>6, <1>7, <1>8, <1>9

\* A command that fits, and holds what there is.
Fitting(c) ==
    /\ c \in Commands /\ OldValue(c) /\ Size(ed) + Gain(c) <= MaxFields /\ Push(c)
    /\ Remembered /\ exact => Proper(c, View(ed))

\* A user adds a feature.
LEMMA FeatureFits ==
    ASSUME IInv, AddFeature
    PROVE  \E c : Fitting(c)
<1>1. Editing
  BY DEF AddFeature
<1>2. PICK f \in Fids, t \in Templates :
          /\ IsNew(f) /\ \A k \in DOMAIN cmds : cmds[k].op = "feature" => cmds[k].fid # f
          /\ Push([op |-> "feature", fid |-> f, attrs |-> SubSeq(t, 1, Len(ed.fields))])
  BY DEF AddFeature
<1> DEFINE n == Len(ed.fields)
           attrs == SubSeq(t, 1, n)
           c == [op |-> "feature", fid |-> f, attrs |-> attrs]
<1>3. n \in Nat /\ n <= MaxFields
  BY <1>1, FieldType
<1>4. t \in [Index -> Value]
  BY <1>2, TemplatesAssumption
<1>5. \A k \in 1 .. n : t[k] \in Value
  <2>1. \A k \in 1 .. n : k \in Index
    BY <1>3, Bounds
  <2> QED BY <1>4, <2>1
<1> HIDE DEF n
<1>6. attrs \in Seq(Value) /\ Len(attrs) = n
  <2>1. attrs \in Seq(Value) /\ Len(attrs) = IF 1 <= n THEN n - 1 + 1 ELSE 0
    BY <1>3, <1>5, SubSeqProperties
  <2> HIDE DEF attrs
  <2> QED BY <1>3, <2>1
<1> HIDE DEF attrs
<1>7. c \in Commands /\ OldValue(c) /\ Gain(c) = 0
  BY <1>2, <1>6 DEF Commands, Features, OldValue, Gain
<1>8. Size(ed) + Gain(c) <= MaxFields
  BY <1>1, <1>7, FieldType, Rest DEF Good, Editing
<1>9. Push(c)
  BY <1>2 DEF attrs, n
<1>10. ASSUME Remembered, exact PROVE Proper(c, View(ed))
  <2>1. n = Count(View(ed)) /\ View(ed).features[f] = None
    BY <1>1, <1>2, <1>10, Remembering DEF n
  <2> QED BY <1>2, <1>6, <2>1 DEF Proper
<1> HIDE DEF c
<1> QED BY <1>7, <1>8, <1>9, <1>10 DEF Fitting

\* A user changes a value.
LEMMA ChangeFits ==
    ASSUME IInv, ChangeAttributeValue
    PROVE  \E c : Fitting(c)
<1>1. Editing
  BY DEF ChangeAttributeValue
<1> DEFINE Old(f, i) == IF ~IsNew(f) THEN ed.changed[f][i]
                        ELSE IF i \in DOMAIN Shown(ed, f) THEN Shown(ed, f)[i] ELSE Null
<1>2. PICK f \in Fids, i \in DOMAIN ed.fields, v \in Vals :
          /\ ~IsNew(f) \/ ed.features[f] # None
          /\ Push([op |-> "change", fid |-> f, field |-> i, new |-> v, old |-> Old(f, i)])
  BY DEF ChangeAttributeValue
<1> DEFINE old == Old(f, i)
           c == [op |-> "change", fid |-> f, field |-> i, new |-> v, old |-> old]
<1>3. ed \in Buffers /\ i \in Index
  BY <1>1, <1>2, FieldType
<1>4. old \in Entry /\ (IsNew(f) => old # None)
  <2>1. CASE ~IsNew(f)
    BY <1>3, <2>1 DEF Buffers
  <2>2. CASE IsNew(f)
    <3>1. Shown(ed, f) = ed.features[f]
      BY <2>2 DEF Shown
    <3>2. ed.features[f] \in Seq(Value)
      BY <1>2, <1>3, <2>2 DEF Buffers
    <3>3. i \in DOMAIN Shown(ed, f) => Shown(ed, f)[i] \in Value
      BY <3>1, <3>2, ElementOfSeq
    <3>4. Null \in Value /\ None \notin Value
      BY SentinelAssumption DEF Value
    <3> QED BY <2>2, <3>3, <3>4 DEF Entry
  <2> QED BY <2>1, <2>2
<1>5. Push(c)
  BY <1>2
<1>6. v \in Value
  BY DEF Value
<1>10. ASSUME Remembered, exact PROVE Proper(c, View(ed))
  <2>1. i \in 1 .. Count(View(ed)) /\ View(ed).features = ed.features /\ View(ed).changed = ed.changed
    BY <1>1, <1>2, <1>10, Remembering
  <2>2. IsNew(f) => Shown(ed, f) = ed.features[f] /\ i \in DOMAIN ed.features[f]
    BY <1>1, <1>2, <1>10, Remembering DEF Shown
  <2>3. IF IsNew(f) THEN ed.features[f] # None /\ old = ed.features[f][i] ELSE old = ed.changed[f][i]
    BY <1>2, <2>2
  <2> HIDE DEF old
  <2> QED BY <2>1, <2>3 DEF Proper
<1> HIDE DEF old
<1>7. c \in Commands /\ OldValue(c) /\ Gain(c) = 0
  <2>1. c \in Changes
    BY <1>2, <1>3, <1>4, <1>6 DEF Changes
  <2> QED BY <1>4, <2>1 DEF Commands, OldValue, Gain
<1>8. Size(ed) + Gain(c) <= MaxFields
  BY <1>1, <1>7, FieldType, Rest DEF Good, Editing
<1> HIDE DEF c
<1> QED BY <1>5, <1>7, <1>8, <1>10 DEF Fitting

\* A user adds a field.
LEMMA AdditionFits ==
    ASSUME IInv, AddAttribute
    PROVE  \E c : Fitting(c)
<1>1. Editing /\ Size(ed) < MaxFields
  BY DEF AddAttribute, Size
<1>2. PICK name \in Names : Push([op |-> "add", name |-> name, field |-> Len(ed.fields) + 1])
  BY DEF AddAttribute
<1> DEFINE c == [op |-> "add", name |-> name, field |-> Len(ed.fields) + 1]
<1>3. Len(ed.fields) \in Nat /\ Len(ed.fields) <= MaxFields /\ index < MaxCmds
  BY <1>1, <1>2, FieldType DEF Push
<1>4. MaxCmds >= 1
  BY <1>1, <1>3, FieldType, Rest DEF Editing
<1>5. Len(ed.fields) + 1 \in Index
  BY <1>3, <1>4, Bounds
<1>6. c \in Commands /\ OldValue(c) /\ Gain(c) = 1
  BY <1>5 DEF Commands, Additions, OldValue, Gain
<1>7. Size(ed) + Gain(c) <= MaxFields
  BY <1>1, <1>6, FieldType, Rest DEF Editing
<1>8. Push(c)
  BY <1>2
<1>9. ASSUME Remembered, exact PROVE Proper(c, View(ed))
  <2>1. Len(ed.fields) = Count(View(ed))
    BY <1>1, <1>9, Remembering
  <2> QED BY <2>1 DEF Proper
<1> HIDE DEF c
<1> QED BY <1>6, <1>7, <1>8, <1>9 DEF Fitting

\* A user renames a field.
LEMMA RenamingFits ==
    ASSUME IInv, RenameAttribute
    PROVE  \E c : Fitting(c)
<1>1. Editing
  BY DEF RenameAttribute
<1>2. PICK i \in DOMAIN ed.fields, name \in Names :
          Push([op |-> "rename", field |-> i, name |-> name, old |-> ed.fields[i].name])
  BY DEF RenameAttribute
<1> DEFINE c == [op |-> "rename", field |-> i, name |-> name, old |-> ed.fields[i].name]
<1>3. i \in Index /\ ed.fields[i].name \in Names
  BY <1>1, <1>2, FieldType DEF FieldRecords
<1>4. c \in Commands /\ OldValue(c) /\ Gain(c) = 0
  BY <1>3 DEF Commands, Renamings, OldValue, Gain
<1>5. Size(ed) + Gain(c) <= MaxFields
  BY <1>1, <1>4, FieldType, Rest DEF Good, Editing
<1>6. Push(c)
  BY <1>2
<1>7. ASSUME Remembered, exact PROVE Proper(c, View(ed))
  <2>1. i \in 1 .. Count(View(ed)) /\ ed.fields[i].name = View(ed).names[i]
    BY <1>1, <1>2, <1>7, Remembering
  <2> QED BY <2>1 DEF Proper
<1> HIDE DEF c
<1> QED BY <1>4, <1>5, <1>6, <1>7 DEF Fitting

\* A user deletes a field.
LEMMA DeletionFits ==
    ASSUME IInv, DeleteAttribute
    PROVE  \E c : Fitting(c)
<1>1. Editing
  BY DEF DeleteAttribute
<1> DEFINE Saved(i) == [f \in Fids |-> IF ~IsNew(f) THEN ed.changed[f][i]
                                       ELSE IF ed.features[f] = None THEN None
                                       ELSE IF i \in DOMAIN ed.features[f] THEN ed.features[f][i] ELSE Null]
           Called(i) == IF ed.fields[i].from = "edit" THEN ed.added[ed.fields[i].at] ELSE None
<1>2. PICK i \in DOMAIN ed.fields :
          /\ ed.fields[i].from = "edit" => ed.fields[i].at \in DOMAIN ed.added
          /\ Push([op |-> "delete", field |-> i, from |-> ed.fields[i].from, at |-> ed.fields[i].at,
                   name |-> Called(i), old |-> ed.renamed[i], values |-> Saved(i)])
  BY DEF DeleteAttribute
<1> DEFINE from == ed.fields[i].from
           at == ed.fields[i].at
           name == Called(i)
           old == ed.renamed[i]
           values == Saved(i)
           c == [op |-> "delete", field |-> i, from |-> from, at |-> at, name |-> name, old |-> old,
                 values |-> values]
<1>3. /\ ed \in Buffers /\ i \in Index /\ ed.fields[i] \in FieldRecords
      /\ ed.added \in Seq(Names) /\ ed.changed \in [Fids -> [Index -> Entry]]
      /\ ed.features \in [Fids -> Seq(Value) \union {None}] /\ ed.renamed \in [Index -> Name]
  BY <1>1, <1>2, FieldType DEF Buffers
<1>4. from \in {"provider", "edit"} /\ at \in Index /\ old \in Name
  BY <1>3 DEF FieldRecords
<1>5. name \in Name /\ (from = "edit" => name \in Names)
  <2>1. CASE from = "edit"
    <3>1. at \in DOMAIN ed.added
      BY <1>2, <2>1
    <3>2. at \in 1 .. Len(ed.added)
      BY <1>3, <3>1
    <3>3. ed.added[at] \in Names
      BY <1>3, <3>2, ElementOfSeq
    <3> QED BY <2>1, <3>3 DEF Name
  <2>2. CASE from # "edit"
    BY <2>2 DEF Name
  <2> QED BY <2>1, <2>2
<1>6. values \in [Fids -> Entry]
  <2>1. ASSUME NEW f \in Fids
        PROVE  (IF ~IsNew(f) THEN ed.changed[f][i]
                ELSE IF ed.features[f] = None THEN None
                ELSE IF i \in DOMAIN ed.features[f] THEN ed.features[f][i] ELSE Null) \in Entry
    <3>1. ed.changed[f][i] \in Entry /\ None \in Entry /\ Null \in Entry
      BY <1>3 DEF Entry, Value
    <3>2. ed.features[f] # None /\ i \in DOMAIN ed.features[f] => ed.features[f][i] \in Entry
      <4>1. SUFFICES ASSUME ed.features[f] # None, i \in DOMAIN ed.features[f]
                     PROVE  ed.features[f][i] \in Value
        BY DEF Entry
      <4>2. ed.features[f] \in Seq(Value)
        BY <1>3, <4>1
      <4>3. i \in 1 .. Len(ed.features[f])
        BY <4>1, <4>2
      <4> QED BY <4>2, <4>3, ElementOfSeq
    <3> QED BY <3>1, <3>2
  <2> QED BY <2>1
<1>7. Push(c)
  BY <1>2
<1>8. ASSUME Remembered, exact PROVE Proper(c, View(ed))
  <2>1. /\ i \in 1 .. Count(View(ed)) /\ Stays(View(ed)) = Stays(ed) /\ Base(View(ed), i) = Base(ed, i)
        /\ View(ed).added = ed.added /\ View(ed).changed = ed.changed /\ View(ed).features = ed.features
    BY <1>1, <1>2, <1>8, Remembering
  <2>2. /\ from = IF i <= Len(Stays(ed)) THEN "provider" ELSE "edit"
        /\ at = IF i <= Len(Stays(ed)) THEN Stays(ed)[i] ELSE i - Len(Stays(ed))
        /\ View(ed).names[i] = IF old = None THEN Base(ed, i) ELSE old
    BY <1>1, <1>2, <1>8, Remembering
  <2>3. from = "edit" => name = ed.added[at]
    OBVIOUS
  <2>4. ASSUME NEW f \in Fids
        PROVE  values[f] = IF ~IsNew(f) THEN ed.changed[f][i]
                           ELSE IF ed.features[f] = None THEN None ELSE ed.features[f][i]
    <3>1. ed.features[f] # None => i \in DOMAIN ed.features[f]
      BY <1>1, <1>2, <1>8, Remembering
    <3> QED BY <3>1
  <2> HIDE DEF from, at, name, old, values
  <2>5. IF i <= Len(Stays(View(ed))) THEN from = "provider" /\ at = Stays(View(ed))[i]
        ELSE from = "edit" /\ at = i - Len(Stays(View(ed))) /\ name = View(ed).added[at]
    BY <2>1, <2>2, <2>3
  <2>6. View(ed).names[i] = IF old = None THEN Base(View(ed), i) ELSE old
    BY <2>1, <2>2
  <2>7. \A f \in Fids : values[f] = IF ~IsNew(f) THEN View(ed).changed[f][i]
                                    ELSE IF View(ed).features[f] = None THEN None ELSE View(ed).features[f][i]
    BY <2>1, <2>4
  <2>8. /\ c.op = "delete" /\ c.field = i /\ c.from = from /\ c.at = at /\ c.name = name /\ c.old = old
        /\ c.values = values
    OBVIOUS
  <2> HIDE DEF c
  <2> QED BY <2>1, <2>5, <2>6, <2>7, <2>8 DEF Proper
<1> HIDE DEF from, at, name, old, values
<1>9. c \in Commands
  BY <1>3, <1>4, <1>5, <1>6 DEF Commands, Deletions
<1>10. OldValue(c) /\ Gain(c) \in {0, -1}
  BY DEF OldValue, Gain
<1>11. Size(ed) + Gain(c) <= MaxFields
  <2>1. Size(ed) <= MaxFields /\ Size(ed) \in Int /\ MaxFields \in Int
    BY <1>1, FieldType, Rest DEF Good, Editing
  <2> HIDE DEF c
  <2> QED BY <1>10, <2>1
<1> HIDE DEF c
<1> QED BY <1>7, <1>8, <1>9, <1>10, <1>11 DEF Fitting

\* What users do.
Edits ==
    AddFeature \/ ChangeAttributeValue \/ AddAttribute \/ DeleteAttribute \/ RenameAttribute

\* Each pushes a command that fits.
LEMMA EditsFit ==
    ASSUME IInv, Edits
    PROVE  Editing /\ \E c \in Commands : Push(c) /\ Fitting(c)
<1>1. Editing
  BY DEF Edits, AddFeature, ChangeAttributeValue, AddAttribute, DeleteAttribute, RenameAttribute
<1>2. \E c : Fitting(c)
  BY FeatureFits, ChangeFits, AdditionFits, DeletionFits, RenamingFits DEF Edits
<1> QED BY <1>1, <1>2 DEF Fitting

\* They keep the invariant, and are remembered.
LEMMA EditsKeep ==
    ASSUME IInv, Edits
    PROVE  IInv' /\ (Remembered => Remembered')
<1>1. Editing
  BY EditsFit
<1>2. PICK c : Fitting(c)
  BY EditsFit
<1>3. /\ c \in Commands /\ OldValue(c) /\ Size(ed) + Gain(c) <= MaxFields /\ Push(c)
      /\ Remembered /\ exact => Proper(c, View(ed))
  BY <1>2 DEF Fitting
<1>4. IInv'
  BY <1>1, <1>3, PushKeeps
<1>5. Remembered => Remembered'
  BY <1>1, <1>3, PushRemembers
<1> QED BY <1>4, <1>5

\* The fields are those of the provider when there are no changes.
LEMMA OpenedView ==
    ASSUME columns \in Seq(Names), Len(columns) <= MaxFields
    PROVE  LET e == Opened(columns)
           IN  Settled(e) /\ Fits(View(e)) /\ FieldNames(e) = columns
<1> DEFINE e == Opened(columns)
<1>1. /\ e \in Buffers /\ e.added = <<>> /\ e.deleted = {} /\ NoneRenamed(e) /\ ~e.undefined
      /\ Len(e.fields) = Len(columns)
  BY OpenedType
<1>2. e.changed = NoChanges /\ e.features = NoFeatures
  BY DEF Opened
<1>3. FieldNames(e) = columns
  <2>1. columns = [i \in 1 .. Len(columns) |-> columns[i]] /\ DOMAIN columns = 1 .. Len(columns)
    OBVIOUS
  <2>2. e.fields = [i \in DOMAIN columns |-> [name |-> columns[i], from |-> "provider", at |-> i]]
    BY DEF Opened
  <2>3. FieldNames(e) = [i \in DOMAIN columns |-> columns[i]]
    BY <2>2 DEF FieldNames
  <2> QED BY <2>1, <2>3
<1>4. e.fields = UpdateFields(e, columns).fields
  BY <1>1, NothingPending
<1> HIDE DEF e
<1>5. Settled(e)
  BY <1>1, <1>4 DEF Settled, NoneRenamed
<1>6. NoneHidden(e)
  BY <1>1 DEF NoneHidden, Appended
<1>7. Size(e) <= MaxFields /\ Size(e) = Len(columns)
  BY <1>1 DEF Size
<1>8. Good(e)
  <2>1. Fresh(e)
    BY <1>4 DEF Fresh
  <2> QED BY <1>1, <1>7, <2>1 DEF Good
<1>9. \A f \in Fids, i \in Index : i > Count(e) \/ IsNew(f) => e.changed[f][i] = None
  BY <1>2 DEF NoChanges
<1>10. \A f \in Fids : e.features[f] # None => IsNew(f) /\ Len(e.features[f]) = Count(e)
  BY <1>2 DEF NoFeatures
<1>11. Ready(e)
  BY <1>5, <1>6, <1>8, <1>9, <1>10, ReadyIf
<1> QED BY <1>3, <1>5, <1>11 DEF Ready, e

\* A history that begins is remembered.
LEMMA OpenedRemembers == JustOpened /\ hist = <<Table(ed)>> => Remembered
<1> SUFFICES ASSUME JustOpened, hist = <<Table(ed)>> PROVE Settled(ed) /\ \E v : Linked(v)
  BY DEF Remembered
<1>1. /\ columns \in Seq(Names) /\ Len(columns) <= MaxFields
      /\ ed = Opened(columns) /\ cmds = <<>> /\ index = 0
  BY DEF JustOpened
<1>2. Settled(ed) /\ Fits(View(ed))
  BY <1>1, OpenedView
<1>3. PICK v : v = [k \in 0 .. 0 |-> View(ed)]
  OBVIOUS
<1>4. /\ \A k \in 0 .. 0 : k = 0 /\ v[k] = View(ed) /\ hist[k + 1] = Table(ed)
      /\ Len(cmds) = 0 /\ 0 \in 0 .. 0 /\ \A k \in 1 .. 0 : FALSE
  BY <1>1, <1>3
<1>5. View(ed) \in Views
  BY <1>2 DEF Fits
<1>6. v \in [0 .. Len(cmds) -> Views] /\ v[0] = View(Opened(columns)) /\ v[index] = View(ed)
  BY <1>1, <1>3, <1>4, <1>5
<1>7. \A k \in 0 .. Len(cmds) : Fits(v[k]) /\ hist[k + 1] = TableOf(v[k])
  BY <1>2, <1>4, ViewShows
<1>8. \A k \in 1 .. Len(cmds) : Proper(cmds[k], v[k - 1]) /\ v[k] = Redone(v[k - 1], cmds[k])
  BY <1>4
<1>9. \A f \in Fids : ed.features[f] = None
  BY <1>1 DEF Opened, NoFeatures
<1>10. \A k \in 0 .. Len(cmds), f \in Fids : v[k].features[f] = None
  BY <1>4, <1>9 DEF View
<1>11. Linked(v)
  BY <1>6, <1>7, <1>8, <1>10 DEF Linked
<1> QED BY <1>2, <1>11

-----------------------------------------------------------------------------
(* The invariant and what follows from it. *)

\* Every step keeps the invariant.
LEMMA NextKeeps ==
    ASSUME IInv, [Next]_vars
    PROVE  IInv'
<1>1. CASE StartEditing
  <2>1. phase \notin Stages /\ phase' \notin Stages
    BY <1>1, Phases DEF StartEditing
  <2> QED BY <1>1, <2>1, OnlyPhase DEF StartEditing
<1>2. CASE RollBack
  <2>1. phase \notin Stages /\ phase' \notin Stages
    BY <1>2, Phases DEF RollBack, Editing
  <2> QED BY <1>2, <2>1, OnlyPhase DEF RollBack
<1>3. CASE UndoCommand \/ RollBackStep
  <2>1. phase \notin Stages /\ ~ed.undefined /\ StepBack
    BY <1>3, Phases DEF UndoCommand, RollBackStep, Editing
  <2> QED BY <2>1, UndoKeeps
<1>4. CASE FinishRollBack \/ CommitSucceeds
  <2>1. JustOpened'
    BY <1>4, Ends, Closes
  <2> QED BY <2>1, OpenedKeeps, PTL
<1>5. CASE Edits
  BY <1>5, EditsKeep
<1>6. CASE UNCHANGED vars
  <2>1. /\ columns' = columns /\ rows' = rows /\ ed' = ed /\ cmds' = cmds /\ index' = index /\ phase' = phase
        /\ ok' = ok /\ changes' = changes /\ before' = before /\ hist' = hist /\ exact' = exact
    BY <1>6 DEF vars, store, stack, locals
  <2>2. Types' /\ Sizes' /\ OldValues'
    BY <2>1 DEF IInv, Types, Sizes, OldValues, OldValue, IsNew, Sums, Size
  <2>3. AtRest' /\ Inexact' /\ Snapshot' /\ Pending' /\ Matched'
    BY <2>1 DEF IInv, AtRest, Inexact, Snapshot, Pending, Matched, Fresh, NoneRenamed
  <2> QED BY <2>2, <2>3 DEF IInv
<1> QED BY <1>1, <1>2, <1>3, <1>4, <1>5, <1>6, RedoKeeps, CommitKeeps, FailKeeps,
           CommitDeletesKeeps, CommitAddsKeeps, CommitRenamesKeeps, CheckFieldsKeeps,
           CommitValuesKeeps, CommitFeaturesKeeps DEF Next, Edits

\* The invariant holds in every state.
LEMMA Invariant == Spec => []IInv
<1>1. Init => IInv
  BY FirstKeeps
<1>2. IInv /\ [Next]_vars => IInv'
  BY NextKeeps
<1> QED BY <1>1, <1>2, PTL DEF Spec

\* The variables have their types, whatever users do, undo and redo and whatever
\* stage of a commit fails: every index that the code keeps stays within the bound
\* on the fields of the layer, and a failed commit never claims that nothing was lost.
THEOREM TypeCorrect == Spec => []TypeOK
<1>1. IInv => TypeOK
  <2> SUFFICES ASSUME IInv PROVE TypeOK
    OBVIOUS
  <2>1. Types /\ Inexact
    BY DEF IInv
  <2>2. columns \in Seq(Names) /\ \A f \in Fids : rows[f] # None => rows[f] \in Seq(Value)
    BY <2>1 DEF Types
  <2>3. /\ ed.added \in Seq(Names) /\ ed.deleted \subseteq Index
        /\ ed.renamed \in [Index -> Names \union {None}]
        /\ \A f \in Fids : ed.features[f] # None => ed.features[f] \in Seq(Value)
    BY <2>1 DEF Types, Buffers, Name
  <2>4. ed.changed \in [Fids -> [Index -> Vals \union {Null, None}]]
    <3>1. Entry = Vals \union {Null, None}
      BY DEF Entry, Value
    <3> QED BY <2>1, <3>1 DEF Types, Buffers
  <2>5. index \in 0 .. Len(cmds) /\ Len(hist) = Len(cmds) + 1 /\ (~ok => ~exact)
    BY <2>1 DEF Types, Inexact
  <2> QED BY <2>2, <2>3, <2>4, <2>5 DEF TypeOK
<1> QED BY <1>1, Invariant, PTL

\* Rows and features are stored in the fields that were there when the commit began.
LEMMA StoredAsSeen ==
    ASSUME IInv, phase \in {"values", "features"}, ok, "wrong" \notin changes
    PROVE  columns = [i \in DOMAIN before |-> before[i].name]
BY DEF IInv, Matched

\* A commit in which no stage has failed writes each value into the field of the
\* provider that the user saw it in: of what changes in the provider's features while
\* values are committed, the field has the name it had when the commit began.
THEOREM ValuesArePlaced == Spec => ValuesReachTheirField
<1>1. ASSUME IInv, [Next]_vars, phase = "values", ok
      PROVE  WritesInPlace
  <2>1. SUFFICES ASSUME NEW f \in Fids, NEW i \in DOMAIN columns, rows[f] # None, rows'[f][i] # rows[f][i]
                 PROVE  i \in DOMAIN before /\ columns[i] = before[i].name
    BY DEF WritesInPlace
  <2>2. "wrong" \notin changes
    <3>1. rows' # rows
      BY <2>1
    <3>2. CommitValues
      BY <1>1, <3>1 DEF Next, vars, store, locals, StartEditing, AddFeature, ChangeAttributeValue, AddAttribute,
         DeleteAttribute, RenameAttribute, UndoCommand, RedoCommand, RollBack, RollBackStep, FinishRollBack,
         CommitChanges, CommitDeletes, CommitAdds, CommitRenames, CheckFields, CommitFeatures,
         CommitSucceeds, CommitFails, Stage, Editing
    <3> QED BY <3>1, <3>2 DEF CommitValues, store
  <2>3. columns = [k \in DOMAIN before |-> before[k].name]
    BY <1>1, <2>2, StoredAsSeen
  <2> QED BY <2>1, <2>3
<1>2. IInv /\ [Next]_vars => [phase = "values" /\ ok => WritesInPlace]_vars
  BY <1>1
<1> QED BY <1>2, Invariant, PTL DEF Spec, ValuesReachTheirField

\* New features are stored only in the fields the user saw: not by a commit of which
\* any stage before has failed, and not after fields have turned out as not expected.
THEOREM FeaturesArePlaced == Spec => FeaturesReachTheirFields
<1>1. ASSUME IInv, [Next]_vars, phase = "features", rows' # rows
      PROVE  columns = [i \in DOMAIN before |-> before[i].name]
  <2>1. CommitFeatures
    BY <1>1 DEF Next, vars, store, locals, StartEditing, AddFeature, ChangeAttributeValue, AddAttribute,
       DeleteAttribute, RenameAttribute, UndoCommand, RedoCommand, RollBack, RollBackStep, FinishRollBack,
       CommitChanges, CommitDeletes, CommitAdds, CommitRenames, CheckFields, CommitValues,
       CommitSucceeds, CommitFails, Stage, Editing
  <2>2. ok
    BY <1>1, <2>1 DEF CommitFeatures, Skipped, Refused, store
  <2>3. "wrong" \notin changes
    BY <1>1, <2>2 DEF IInv, Matched
  <2> QED BY <1>1, <2>2, <2>3, StoredAsSeen
<1>2. IInv /\ [Next]_vars =>
        [(phase = "features" /\ rows' # rows) => columns = [i \in DOMAIN before |-> before[i].name]]_vars
  BY <1>1
<1> QED BY <1>2, Invariant, PTL DEF Spec, FeaturesReachTheirFields

-----------------------------------------------------------------------------
(* A commit shows the same after each of its stages. *)

\* What is shown of a row.
Merged(row, deleted, added, map) ==
    LET kept == Sorted(DOMAIN row \ deleted)
    IN  [i \in 1 .. Len(kept) + Len(added) |->
            IF map[i] # None THEN map[i] ELSE IF i <= Len(kept) THEN row[kept[i]] ELSE Null]

\* A stored feature is shown by its row and the buffer.
LEMMA ShownOfRow ==
    \A e, f : Shown(e, f) = IF rows[f] = None THEN e.features[f]
                            ELSE Merged(rows[f], e.deleted, e.added, e.changed[f])
BY DEF Shown, UpdatedAttributes, IsNew, Merged

\* Of a row without changes of the fields everything is shown, changed or not.
Plain(row, map) == [i \in 1 .. Len(row) |-> IF map[i] # None THEN map[i] ELSE row[i]]

\* The plain values are what is shown of it.
LEMMA MergedPlain ==
    ASSUME NEW row \in Seq(Value), NEW map
    PROVE  Merged(row, {}, <<>>, map) = Plain(row, map)
<1>1. DOMAIN row \ {} = 1 .. Len(row) /\ Len(row) \in Nat
  OBVIOUS
<1>2. Sorted(DOMAIN row \ {}) = [k \in 1 .. Len(row) |-> k]
  BY <1>1, SortedAll
<1>3. PICK kept : kept = Sorted(DOMAIN row \ {})
  OBVIOUS
<1>4. Len(kept) = Len(row) /\ \A i \in 1 .. Len(row) : kept[i] = i
  BY <1>1, <1>2, <1>3
<1>5. Len(kept) + Len(<<>>) = Len(row) /\ \A i \in 1 .. Len(row) : i <= Len(kept)
  BY <1>1, <1>4
<1> QED BY <1>3, <1>4, <1>5 DEF Merged, Plain

\* What is shown does not change when the fields that are deleted are dropped ...
Picked(row, kept) == [i \in DOMAIN kept |-> row[kept[i]]]

\* Deleting the fields in the row or in what is shown of it is the same.
LEMMA MergedDropped ==
    ASSUME NEW row \in Seq(Value), NEW deleted, NEW added \in Seq(Names), NEW map,
           NEW kept, kept = Sorted(DOMAIN row \ deleted)
    PROVE  /\ Picked(row, kept) \in Seq(Value)
           /\ Merged(Picked(row, kept), {}, added, map) = Merged(row, deleted, added, map)
<1>1. /\ Len(kept) \in Nat /\ DOMAIN kept = 1 .. Len(kept)
      /\ \A k \in DOMAIN kept : kept[k] \in 1 .. Len(row)
  <2> DEFINE ids == DOMAIN row \ deleted
  <2>1. ids \in SUBSET (1 .. Len(row)) /\ Len(row) \in Nat
    OBVIOUS
  <2> HIDE DEF ids
  <2>2. /\ Len(Sorted(ids)) \in Nat /\ DOMAIN Sorted(ids) = 1 .. Len(Sorted(ids))
        /\ \A k \in DOMAIN Sorted(ids) : Sorted(ids)[k] \in ids
    BY <2>1, SortedSome
  <2> QED BY <2>1, <2>2 DEF ids
<1>2. PICK less : less = [i \in DOMAIN kept |-> row[kept[i]]]
  OBVIOUS
<1>3. \A i \in 1 .. Len(kept) : row[kept[i]] \in Value
  BY <1>1, ElementOfSeq
<1>4. less \in Seq(Value) /\ Len(less) = Len(kept) /\ DOMAIN less = 1 .. Len(kept)
  <2>1. PICK m : m = Len(kept)
    OBVIOUS
  <2>2. less \in [1 .. m -> Value] /\ m \in Nat
    BY <1>1, <1>2, <1>3, <2>1
  <2>3. less \in Seq(Value) /\ Len(less) = m
    BY <2>2
  <2> QED BY <2>1, <2>2, <2>3
<1>5. PICK all : all = Sorted(DOMAIN less \ {})
  OBVIOUS
<1>6. all = [k \in 1 .. Len(kept) |-> k]
  <2>1. DOMAIN less \ {} = 1 .. Len(kept)
    BY <1>4
  <2> QED BY <1>1, <1>5, <2>1, SortedAll
<1>7. Len(all) = Len(kept) /\ \A i \in 1 .. Len(kept) : less[all[i]] = row[kept[i]]
  BY <1>1, <1>2, <1>6
<1>8. Len(added) \in Nat /\ \A i \in 1 .. Len(kept) + Len(added) : i <= Len(kept) => i \in 1 .. Len(kept)
  BY <1>1
<1>9. Merged(less, {}, added, map) =
          [i \in 1 .. Len(kept) + Len(added) |->
              IF map[i] # None THEN map[i] ELSE IF i <= Len(kept) THEN row[kept[i]] ELSE Null]
  BY <1>5, <1>7, <1>8 DEF Merged
<1> QED BY <1>2, <1>4, <1>9 DEF Merged, Picked

\* ... nor when those that are added have their column.
Widened(row, added) == row \o [i \in DOMAIN added |-> Null]

\* Adding the fields to the row or to what is shown of it is the same.
LEMMA MergedAdded ==
    ASSUME NEW row \in Seq(Value), NEW added \in Seq(Names), NEW map
    PROVE  /\ Widened(row, added) \in Seq(Value)
           /\ Merged(Widened(row, added), {}, <<>>, map) = Merged(row, {}, added, map)
<1>0. PICK more : more = row \o [i \in DOMAIN added |-> Null]
  OBVIOUS
<1> DEFINE n == Len(row)
           m == Len(added)
           nulls == [i \in DOMAIN added |-> Null]
<1>1. n \in Nat /\ m \in Nat /\ DOMAIN added = 1 .. m /\ DOMAIN row \ {} = 1 .. n
  OBVIOUS
<1>2. nulls \in Seq(Value) /\ Len(nulls) = m
  <2>1. Null \in Value
    BY DEF Value
  <2>2. nulls \in [1 .. m -> Value]
    BY <1>1, <2>1
  <2> QED BY <1>1, <2>2
<1>3. /\ more \in Seq(Value) /\ Len(more) = n + m
      /\ \A i \in 1 .. n + m : more[i] = IF i <= n THEN row[i] ELSE Null
  <2>1. /\ row \o nulls \in Seq(Value) /\ Len(row \o nulls) = Len(row) + Len(nulls)
        /\ \A i \in 1 .. Len(row) + Len(nulls) :
              (row \o nulls)[i] = IF i <= Len(row) THEN row[i] ELSE nulls[i - Len(row)]
    BY <1>2, ConcatProperties
  <2>2. \A i \in 1 .. n + m : i > n => nulls[i - n] = Null
    BY <1>1
  <2> HIDE DEF nulls
  <2> QED BY <1>0, <1>1, <1>2, <2>1, <2>2 DEF nulls
<1>4. Merged(more, {}, <<>>, map) = [i \in 1 .. n + m |-> IF map[i] # None THEN map[i] ELSE more[i]]
  <2>1. Merged(more, {}, <<>>, map) = Plain(more, map)
    BY <1>3, MergedPlain
  <2> QED BY <1>3, <2>1 DEF Plain
<1>5. PICK kept : kept = Sorted(DOMAIN row \ {})
  OBVIOUS
<1>6. kept = [k \in 1 .. n |-> k]
  BY <1>1, <1>5, SortedAll
<1>7. Len(kept) = n /\ \A i \in 1 .. n : kept[i] = i
  BY <1>1, <1>6
<1>8. Merged(row, {}, added, map) = [i \in 1 .. n + m |->
            IF map[i] # None THEN map[i] ELSE IF i <= n THEN row[kept[i]] ELSE Null]
  BY <1>5, <1>7 DEF Merged
<1>9. \A i \in 1 .. n + m : more[i] = IF i <= n THEN row[kept[i]] ELSE Null
  BY <1>1, <1>3, <1>7
<1>10. more = Widened(row, added)
  BY <1>0 DEF Widened
<1> HIDE DEF n, m
<1> QED BY <1>3, <1>4, <1>8, <1>9, <1>10

\* A row is as long as there are fields.
LEMMA MergedLength ==
    ASSUME NEW row \in Seq(Value), columns \in Seq(Names), Len(row) = Len(columns), NEW e, NEW map,
           e.added \in Seq(Names)
    PROVE  /\ Merged(row, e.deleted, e.added, map) # None => Len(Merged(row, e.deleted, e.added, map)) = Count(e)
<1>1. DOMAIN row = DOMAIN columns
  OBVIOUS
<1>2. Sorted(DOMAIN row \ e.deleted) = Stays(e)
  BY <1>1 DEF Stays
<1>3. Len(Stays(e)) \in Nat /\ Len(e.added) \in Nat
  BY StaysList
<1>4. Merged(row, e.deleted, e.added, map) =
          [i \in 1 .. Count(e) |->
              IF map[i] # None THEN map[i] ELSE IF i <= Len(Stays(e)) THEN row[Stays(e)[i]] ELSE Null]
  BY <1>2 DEF Merged, Count
<1>5. Count(e) \in Nat
  BY <1>3 DEF Count
<1> QED BY <1>4, <1>5

\* A stage of a commit that stores what it takes out of the buffer shows the same.
LEMMA StillShown ==
    ASSUME FieldNames(ed)' = FieldNames(ed),
           \A f \in Fids :
              \/ rows'[f] = None /\ rows[f] = None /\ ed'.features[f] = ed.features[f]
              \/ /\ rows'[f] # None /\ rows[f] # None
                 /\ Merged(rows'[f], ed'.deleted, ed'.added, ed'.changed[f]) =
                        Merged(rows[f], ed.deleted, ed.added, ed.changed[f])
              \/ /\ rows'[f] # None /\ rows[f] = None
                 /\ Merged(rows'[f], ed'.deleted, ed'.added, ed'.changed[f]) = ed.features[f]
    PROVE  (\A f \in Fids : Shown(ed, f)' = Shown(ed, f)) /\ Table(ed)' = Table(ed)
<1>1. \A f : Shown(ed, f) = IF rows[f] = None THEN ed.features[f]
                            ELSE Merged(rows[f], ed.deleted, ed.added, ed.changed[f])
  BY ShownOfRow
<1>2. \A f : Shown(ed, f)' = IF rows'[f] = None THEN ed'.features[f]
                             ELSE Merged(rows'[f], ed'.deleted, ed'.added, ed'.changed[f])
  BY DEF Shown, UpdatedAttributes, IsNew, Merged
<1>3. \A f \in Fids : Shown(ed, f)' = Shown(ed, f)
  BY <1>1, <1>2
<1>4. Table(ed)' = Table(ed)
  BY <1>3 DEF Table
<1> QED BY <1>3, <1>4

\* What is left of Handed, to be shown of a stage.
Handing ==
    /\ phase' \in {"values", "features", "finish"} => FieldNames(ed)' = columns'
    /\ phase' \in {"features", "finish"} => ed'.changed = NoChanges
    /\ phase' = "finish" => ed'.features = NoFeatures

\* A stage that shows the same hands on what the buffer has left.
LEMMA HandedOn ==
    ASSUME Handed, exact, phase \in Stages, phase' \in Stages, before' = before,
           \A f \in Fids : Shown(ed, f)' = Shown(ed, f),
           FieldNames(ed)' = FieldNames(ed), Len(ed'.fields) = Len(ed.fields), ~ed'.undefined,
           ed'.changed = ed.changed \/ ed'.changed = NoChanges,
           \A i \in Index : ed'.renamed[i] = ed.renamed[i] \/ ed'.renamed[i] = None,
           \A f \in Fids : ed'.features[f] # None => rows'[f] = None,
           Handing
    PROVE  Handed'
<1>1. /\ \A f \in Fids, i \in Index : i > Len(ed.fields) => ed.changed[f][i] = None /\ ed.renamed[i] = None
      /\ \A f \in Fids : Shown(ed, f) # None => Len(Shown(ed, f)) = Len(ed.fields)
      /\ FieldNames(ed) = [i \in DOMAIN before |-> before[i].name]
  BY DEF Handed
<1>2. (\A f \in Fids, i \in Index : i > Len(ed.fields) => ed.changed[f][i] = None /\ ed.renamed[i] = None)'
  <2>1. ASSUME NEW f \in Fids, NEW i \in Index, i > Len(ed'.fields)
        PROVE  ed'.changed[f][i] = None /\ ed'.renamed[i] = None
    <3>1. ed.changed[f][i] = None /\ ed.renamed[i] = None
      BY <1>1, <2>1
    <3>2. NoChanges[f][i] = None
      BY DEF NoChanges
    <3> QED BY <3>1, <3>2
  <2> QED BY <2>1
<1>3. (\A f \in Fids : Shown(ed, f) # None => Len(Shown(ed, f)) = Len(ed.fields))'
  BY <1>1
<1>4. (\A f \in Fids : ed.features[f] # None => IsNew(f))'
  BY DEF IsNew
<1>5. (FieldNames(ed) = [i \in DOMAIN before |-> before[i].name])'
  BY <1>1
<1> QED BY <1>2, <1>3, <1>4, <1>5 DEF Handing, Handed

\* A stage that does nothing.
LEMMA SkippedHands ==
    ASSUME Handed, exact, phase \in Stages, phase' \in Stages, before' = before,
           UNCHANGED <<store, ed>>, Handing
    PROVE  Handed' /\ Table(ed)' = Table(ed)
<1>1. columns' = columns /\ rows' = rows /\ ed' = ed
  BY DEF store
<1>2. FieldNames(ed)' = FieldNames(ed)
  BY <1>1 DEF FieldNames
<1>3. (\A f \in Fids : Shown(ed, f)' = Shown(ed, f)) /\ Table(ed)' = Table(ed)
  BY <1>1, <1>2, StillShown
<1>4. ~ed.undefined /\ \A f \in Fids : ed.features[f] # None => rows[f] = None
  BY DEF Handed, IsNew
<1> QED BY <1>1, <1>2, <1>3, <1>4, HandedOn

\* What is known in a stage of a commit that has lost nothing.
LEMMA InCommit ==
    ASSUME IInv, Handed, exact, phase \in Stages
    PROVE  /\ ok /\ "wrong" \notin changes
           /\ ed \in Buffers /\ ed.added \in Seq(Names) /\ ~ed.undefined
           /\ columns \in Seq(Names)
           /\ \A f \in Fids : rows[f] # None => rows[f] \in Seq(Value) /\ DOMAIN rows[f] = DOMAIN columns
           /\ \A f \in Fids : ed.features[f] # None => rows[f] = None /\ ed.features[f] \in Seq(Value)
           /\ \A s \in Seq(Value) : s # None
           /\ phase # "deletes" => ed.deleted = {}
           /\ phase \notin {"deletes", "adds"} => ed.added = <<>>
           /\ phase \notin {"deletes", "adds", "renames"} => NoneRenamed(ed)
<1>1. ok /\ "wrong" \notin changes
  BY DEF IInv, Inexact
<1>2. /\ ed \in Buffers /\ ed.added \in Seq(Names) /\ columns \in Seq(Names) /\ \A s \in Seq(Value) : s # None
      /\ rows \in [Fids -> Seq(Value) \union {None}] /\ DOMAIN columns = 1 .. Len(columns)
      /\ \A f \in Fids : rows[f] # None => Len(rows[f]) = Len(columns)
  BY Underway
<1>3. \A f \in Fids : rows[f] # None => rows[f] \in Seq(Value) /\ DOMAIN rows[f] = DOMAIN columns
  BY <1>2
<1>4. ~ed.undefined /\ \A f \in Fids : ed.features[f] # None => rows[f] = None
  BY DEF Handed, IsNew
<1>5. \A f \in Fids : ed.features[f] # None => ed.features[f] \in Seq(Value)
  BY <1>2 DEF Buffers
<1>6. /\ phase # "deletes" => ed.deleted = {}
      /\ phase \notin {"deletes", "adds"} => ed.added = <<>>
      /\ phase \notin {"deletes", "adds", "renames"} => NoneRenamed(ed)
  BY <1>1 DEF IInv, Pending
<1> QED BY <1>1, <1>2, <1>3, <1>4, <1>5, <1>6

\* Deleted fields are committed.
LEMMA DeletesHand ==
    ASSUME IInv, Handed, CommitDeletes, exact'
    PROVE  exact /\ Handed' /\ Table(ed)' = Table(ed)
<1>1. /\ phase = "deletes" /\ phase' = "adds" /\ before' = before /\ phase \in Stages /\ phase' \in Stages
      /\ Handing
  BY DEF CommitDeletes, Stage, Stages, Handing
<1>2. CASE Skipped
  BY <1>1, <1>2, SkippedHands DEF Skipped, store
<1>3. CASE ~Skipped
  <2> DEFINE kept == Sorted(DOMAIN columns \ ed.deleted)
             Drop(s) == [i \in DOMAIN kept |-> s[kept[i]]]
  <2>1. /\ rows' = [f \in Fids |-> IF rows[f] = None THEN None ELSE Drop(rows[f])]
        /\ ed' = [ed EXCEPT !.deleted = {}] /\ exact' = exact
    BY <1>3 DEF CommitDeletes, Refused, Stored
  <2>2. /\ ed \in Buffers /\ ed.added \in Seq(Names) /\ ~ed.undefined
        /\ \A f \in Fids : rows[f] # None => rows[f] \in Seq(Value) /\ DOMAIN rows[f] = DOMAIN columns
        /\ \A f \in Fids : ed.features[f] # None => rows[f] = None
        /\ \A s \in Seq(Value) : s # None
    BY <1>1, <2>1, InCommit
  <2>3. /\ ed'.deleted = {} /\ ed'.added = ed.added /\ ed'.renamed = ed.renamed /\ ed'.fields = ed.fields
        /\ ed'.changed = ed.changed /\ ed'.features = ed.features /\ ed'.undefined = ed.undefined
    BY <2>1, <2>2 DEF Buffers
  <2>4. FieldNames(ed)' = FieldNames(ed)
    BY <2>3 DEF FieldNames
  <2>5. ASSUME NEW f \in Fids, rows[f] # None
        PROVE  /\ rows'[f] # None
               /\ Merged(rows'[f], ed'.deleted, ed'.added, ed'.changed[f]) =
                      Merged(rows[f], ed.deleted, ed.added, ed.changed[f])
    <3>1. PICK k, row : k = kept /\ row = rows[f]
      OBVIOUS
    <3>2. row \in Seq(Value) /\ k = Sorted(DOMAIN row \ ed.deleted)
      BY <2>2, <2>5, <3>1
    <3>3. rows'[f] = Picked(row, k)
      BY <2>1, <2>5, <3>1 DEF Picked
    <3> HIDE DEF kept
    <3>4. /\ Picked(row, k) \in Seq(Value)
          /\ Merged(Picked(row, k), {}, ed.added, ed.changed[f]) =
                 Merged(row, ed.deleted, ed.added, ed.changed[f])
      BY <2>2, <3>2, MergedDropped
    <3> QED BY <2>2, <2>3, <3>1, <3>3, <3>4
  <2>6. \A f \in Fids : rows[f] = None => rows'[f] = None
    BY <2>1
  <2>7. (\A f \in Fids : Shown(ed, f)' = Shown(ed, f)) /\ Table(ed)' = Table(ed)
    BY <2>3, <2>4, <2>5, <2>6, StillShown
  <2>8. Handed'
    BY <1>1, <2>1, <2>2, <2>3, <2>4, <2>6, <2>7, HandedOn
  <2> QED BY <2>1, <2>7, <2>8
<1> QED BY <1>2, <1>3 DEF Skipped

\* Added fields are committed.
LEMMA AddsHand ==
    ASSUME IInv, Handed, CommitAdds, exact'
    PROVE  exact /\ Handed' /\ Table(ed)' = Table(ed)
<1>1. /\ phase = "adds" /\ phase' = "renames" /\ before' = before /\ phase \in Stages /\ phase' \in Stages
      /\ phase # "deletes" /\ Handing
  BY DEF CommitAdds, Stage, Stages, Handing
<1>2. CASE Skipped
  BY <1>1, <1>2, SkippedHands DEF Skipped, store
<1>3. CASE ~Skipped
  <2>1. /\ rows' = [f \in Fids |-> IF rows[f] = None THEN None
                                   ELSE rows[f] \o [i \in DOMAIN ed.added |-> Null]]
        /\ ed' = [ed EXCEPT !.added = <<>>] /\ exact' = exact
    BY <1>3 DEF CommitAdds, Refused, Stored
  <2>2. /\ ed \in Buffers /\ ed.added \in Seq(Names) /\ ~ed.undefined /\ ed.deleted = {}
        /\ \A f \in Fids : rows[f] # None => rows[f] \in Seq(Value)
        /\ \A f \in Fids : ed.features[f] # None => rows[f] = None
        /\ \A s \in Seq(Value) : s # None
    BY <1>1, <2>1, InCommit
  <2>3. /\ ed'.deleted = {} /\ ed'.added = <<>> /\ ed'.renamed = ed.renamed /\ ed'.fields = ed.fields
        /\ ed'.changed = ed.changed /\ ed'.features = ed.features /\ ed'.undefined = ed.undefined
    BY <2>1, <2>2 DEF Buffers
  <2>4. FieldNames(ed)' = FieldNames(ed)
    BY <2>3 DEF FieldNames
  <2>5. ASSUME NEW f \in Fids, rows[f] # None
        PROVE  /\ rows'[f] # None
               /\ Merged(rows'[f], ed'.deleted, ed'.added, ed'.changed[f]) =
                      Merged(rows[f], ed.deleted, ed.added, ed.changed[f])
    <3>1. rows'[f] = Widened(rows[f], ed.added)
      BY <2>1, <2>5 DEF Widened
    <3>2. /\ Widened(rows[f], ed.added) \in Seq(Value)
          /\ Merged(Widened(rows[f], ed.added), {}, <<>>, ed.changed[f]) =
                 Merged(rows[f], {}, ed.added, ed.changed[f])
      BY <2>2, <2>5, MergedAdded
    <3> QED BY <2>2, <2>3, <3>1, <3>2
  <2>6. \A f \in Fids : rows[f] = None => rows'[f] = None
    BY <2>1
  <2>7. (\A f \in Fids : Shown(ed, f)' = Shown(ed, f)) /\ Table(ed)' = Table(ed)
    BY <2>3, <2>4, <2>5, <2>6, StillShown
  <2>8. Handed'
    BY <1>1, <2>1, <2>2, <2>3, <2>4, <2>6, <2>7, HandedOn
  <2> QED BY <2>1, <2>7, <2>8
<1> QED BY <1>2, <1>3 DEF Skipped

\* Renamed fields are committed.
LEMMA RenamesHand ==
    ASSUME IInv, Handed, CommitRenames, exact'
    PROVE  exact /\ Handed' /\ Table(ed)' = Table(ed)
<1>1. /\ phase = "renames" /\ phase' = "check" /\ before' = before /\ phase \in Stages /\ phase' \in Stages
      /\ Handing
  BY DEF CommitRenames, Stage, Stages, Handing
<1>2. CASE Skipped
  BY <1>1, <1>2, SkippedHands DEF Skipped, store
<1>3. CASE ~Skipped
  <2>1. rows' = rows /\ ed' = [ed EXCEPT !.renamed = [i \in Index |-> None]] /\ exact' = exact
    BY <1>3 DEF CommitRenames, Refused, Stored
  <2>2. /\ ed \in Buffers /\ ~ed.undefined /\ \A f \in Fids : ed.features[f] # None => rows[f] = None
    BY <1>1, <2>1, InCommit
  <2>3. /\ ed'.deleted = ed.deleted /\ ed'.added = ed.added /\ ed'.fields = ed.fields
        /\ ed'.changed = ed.changed /\ ed'.features = ed.features /\ ed'.undefined = ed.undefined
        /\ \A i \in Index : ed'.renamed[i] = None
    BY <2>1, <2>2 DEF Buffers
  <2>4. FieldNames(ed)' = FieldNames(ed)
    BY <2>3 DEF FieldNames
  <2>5. (\A f \in Fids : Shown(ed, f)' = Shown(ed, f)) /\ Table(ed)' = Table(ed)
    BY <2>1, <2>3, <2>4, StillShown
  <2>6. Handed'
    BY <1>1, <2>1, <2>2, <2>3, <2>4, <2>5, HandedOn
  <2> QED BY <2>1, <2>5, <2>6
<1> QED BY <1>2, <1>3 DEF Skipped

\* The fields have turned out as expected.
LEMMA CheckHands ==
    ASSUME IInv, Handed, CheckFields, exact'
    PROVE  exact /\ Handed' /\ Table(ed)' = Table(ed)
<1>1. /\ phase = "check" /\ phase' = "values" /\ before' = before /\ phase \in Stages /\ phase' \in Stages
      /\ phase # "deletes" /\ phase \notin {"deletes", "adds"} /\ phase \notin {"deletes", "adds", "renames"}
  BY DEF CheckFields, Stage, Stages
<1>2. exact
  BY DEF CheckFields, Skipped
<1>3. /\ ok /\ "wrong" \notin changes /\ ed \in Buffers /\ ~ed.undefined /\ columns \in Seq(Names)
      /\ ed.deleted = {} /\ ed.added = <<>> /\ NoneRenamed(ed)
      /\ \A f \in Fids : ed.features[f] # None => rows[f] = None
  BY <1>1, <1>2, InCommit
<1> DEFINE fields == UpdateFields(ed, columns).fields
<1>4. columns = [i \in DOMAIN fields |-> fields[i].name]
  BY <1>1, <1>3, NamesOfProvider
<1>5. FieldNames(ed) = [i \in DOMAIN before |-> before[i].name]
  BY <1>1, <1>2 DEF Handed
<1>6. CASE "changed" \notin changes
  <2>1. before = fields
    BY <1>1, <1>3, <1>6 DEF IInv, Snapshot
  <2>2. UNCHANGED <<store, ed, ok, changes, exact>>
    BY <1>6 DEF CheckFields, Skipped
  <2>3. FieldNames(ed) = columns
    BY <1>4, <1>5, <2>1
  <2>4. Handing
    BY <1>1, <2>2, <2>3 DEF Handing, store, FieldNames
  <2> QED BY <1>1, <1>2, <2>2, <2>4, SkippedHands
<1>7. CASE "changed" \in changes
  <2>1. /\ ed' = UpdateFields(ed, columns) /\ columns' = columns /\ rows' = rows
        /\ FieldNames(ed') = [i \in DOMAIN before |-> before[i].name]
    BY <1>3, <1>7 DEF CheckFields, store
  <2>2. Size(ed) <= MaxFields
    BY <1>1, Underway
  <2>3. /\ ed'.deleted = ed.deleted /\ ed'.added = ed.added /\ ed'.renamed = ed.renamed
        /\ ed'.changed = ed.changed /\ ed'.features = ed.features /\ ~ed'.undefined
        /\ ed' \in Buffers
    BY <1>3, <2>1, <2>2, UpdateFieldsType DEF NoneRenamed
  <2>4. FieldNames(ed)' = FieldNames(ed)
    BY <1>5, <2>1
  <2>5. FieldNames(ed)' = columns'
    <3>1. FieldNames(ed') = [i \in DOMAIN fields |-> fields[i].name]
      BY <2>1 DEF FieldNames
    <3> QED BY <1>4, <2>1, <3>1
  <2>6. Len(ed'.fields) = Len(ed.fields)
    <3>1. ed'.fields \in Seq(FieldRecords) /\ ed.fields \in Seq(FieldRecords)
      BY <1>3, <2>3 DEF Buffers
    <3>2. DOMAIN ed'.fields = DOMAIN ed.fields
      <4>1. DOMAIN FieldNames(ed') = DOMAIN ed'.fields /\ DOMAIN FieldNames(ed) = DOMAIN ed.fields
        BY DEF FieldNames
      <4> QED BY <2>4, <4>1
    <3> QED BY <3>1, <3>2
  <2>7. (\A f \in Fids : Shown(ed, f)' = Shown(ed, f)) /\ Table(ed)' = Table(ed)
    BY <2>1, <2>3, <2>4, StillShown
  <2>8. Handing
    BY <1>1, <2>5 DEF Handing
  <2>9. Handed'
    BY <1>1, <1>2, <1>3, <2>1, <2>3, <2>4, <2>6, <2>7, <2>8, HandedOn
  <2> QED BY <1>2, <2>7, <2>9
<1> QED BY <1>6, <1>7

\* Changed values are committed.
LEMMA ValuesHand ==
    ASSUME IInv, Handed, CommitValues, exact'
    PROVE  exact /\ Handed' /\ Table(ed)' = Table(ed)
<1>1. /\ phase = "values" /\ phase' = "features" /\ before' = before /\ phase \in Stages /\ phase' \in Stages
      /\ phase # "deletes" /\ phase \notin {"deletes", "adds"}
  BY DEF CommitValues, Stage, Stages
<1>2. exact
  BY DEF CommitValues, Skipped, Refused
<1>3. /\ "wrong" \notin changes /\ ed \in Buffers /\ ~ed.undefined /\ ed.deleted = {} /\ ed.added = <<>>
      /\ \A f \in Fids : rows[f] # None => rows[f] \in Seq(Value) /\ DOMAIN rows[f] = DOMAIN columns
      /\ \A f \in Fids : ed.features[f] # None => rows[f] = None
      /\ \A s \in Seq(Value) : s # None
  BY <1>1, <1>2, InCommit
<1>4. FieldNames(ed) = columns
  BY <1>1, <1>2 DEF Handed
<1>5. CASE ed.changed = NoChanges /\ Skipped
  <2>1. UNCHANGED <<store, ed>>
    BY <1>5 DEF Skipped, store
  <2>2. Handing
    BY <1>1, <1>4, <1>5, <2>1 DEF Handing, store, FieldNames
  <2> QED BY <1>1, <1>2, <2>1, <2>2, SkippedHands
<1>6. CASE /\ rows' = [f \in Fids |-> Written(f)]
           /\ ed' = [ed EXCEPT !.changed = NoChanges]
           /\ columns' = columns
  <2>1. /\ ed'.deleted = {} /\ ed'.added = <<>> /\ ed'.renamed = ed.renamed /\ ed'.fields = ed.fields
        /\ ed'.changed = NoChanges /\ ed'.features = ed.features /\ ed'.undefined = ed.undefined
    BY <1>3, <1>6 DEF Buffers
  <2>2. FieldNames(ed)' = FieldNames(ed)
    BY <2>1 DEF FieldNames
  <2>3. \A f \in Fids : rows[f] = None => rows'[f] = None
    BY <1>6 DEF Written
  <2>4. ASSUME NEW f \in Fids, rows[f] # None
        PROVE  /\ rows'[f] # None
               /\ Merged(rows'[f], ed'.deleted, ed'.added, ed'.changed[f]) =
                      Merged(rows[f], ed.deleted, ed.added, ed.changed[f])
    <3>1. PICK row, map, new : row = rows[f] /\ map = ed.changed[f] /\ new = rows'[f]
      OBVIOUS
    <3>2. row \in Seq(Value) /\ DOMAIN row = 1 .. Len(row) /\ Len(row) \in Nat /\ Len(row) = Len(columns)
          /\ Len(columns) <= MaxFields
      <4>1. row \in Seq(Value) /\ DOMAIN row = DOMAIN columns
        BY <1>3, <2>4, <3>1
      <4>2. columns \in Seq(Names) /\ Len(columns) <= MaxFields
        BY <1>1, Underway
      <4> QED BY <4>1, <4>2
    <3>3. new = Plain(row, map)
      <4>1. new = [i \in 1 .. Len(row) |-> IF map[i] = None THEN row[i] ELSE map[i]]
        BY <1>6, <2>4, <3>1, <3>2 DEF Written
      <4>2. \A i \in 1 .. Len(row) : (IF map[i] = None THEN row[i] ELSE map[i]) =
                                     (IF map[i] # None THEN map[i] ELSE row[i])
        OBVIOUS
      <4> QED BY <4>1, <4>2 DEF Plain
    <3>4. \A i \in 1 .. Len(row) : row[i] \in Value /\ i \in Index /\ map[i] \in Entry
      <4>1. \A i \in 1 .. Len(row) : row[i] \in Value
        BY <3>2, ElementOfSeq
      <4>2. \A i \in 1 .. Len(row) : i \in Index
        BY <3>2, Bounds
      <4>3. map \in [Index -> Entry]
        BY <1>3, <3>1 DEF Buffers
      <4> QED BY <4>1, <4>2, <4>3
    <3>5. new \in Seq(Value) /\ Len(new) = Len(row)
      <4>1. PICK m : m = Len(row)
        OBVIOUS
      <4>2. \A i \in 1 .. m : (IF map[i] # None THEN map[i] ELSE row[i]) \in Value
        BY <3>4, <4>1 DEF Entry
      <4>3. new \in [1 .. m -> Value] /\ m \in Nat
        BY <3>2, <3>3, <4>1, <4>2 DEF Plain
      <4>4. new \in Seq(Value) /\ Len(new) = m
        BY <4>3
      <4> QED BY <4>1, <4>4
    <3>6. Merged(row, {}, <<>>, map) = new
      BY <3>2, <3>3, MergedPlain
    <3>7. Merged(new, {}, <<>>, NoChanges[f]) = new
      <4>1. Merged(new, {}, <<>>, NoChanges[f]) = Plain(new, NoChanges[f])
        BY <3>5, MergedPlain
      <4>2. \A i \in 1 .. Len(new) : NoChanges[f][i] = None
        BY <3>4, <3>5 DEF NoChanges
      <4>3. Plain(new, NoChanges[f]) = [i \in 1 .. Len(new) |-> new[i]]
        BY <4>2 DEF Plain
      <4>4. new = [i \in 1 .. Len(new) |-> new[i]]
        BY <3>5
      <4> QED BY <4>1, <4>3, <4>4
    <3> QED BY <1>3, <2>1, <3>1, <3>5, <3>6, <3>7
  <2>5. (\A f \in Fids : Shown(ed, f)' = Shown(ed, f)) /\ Table(ed)' = Table(ed)
    BY <2>1, <2>2, <2>3, <2>4, StillShown
  <2>6. Handing
    BY <1>1, <1>4, <1>6, <2>1, <2>2 DEF Handing
  <2>7. Handed'
    BY <1>1, <1>2, <1>3, <2>1, <2>2, <2>3, <2>5, <2>6, HandedOn
  <2> QED BY <1>2, <2>5, <2>7
<1>7. ~Refused
  BY DEF Refused
<1> QED BY <1>3, <1>5, <1>6, <1>7 DEF CommitValues

\* Added features are committed.
LEMMA FeaturesHand ==
    ASSUME IInv, Handed, CommitFeatures, exact'
    PROVE  exact /\ Handed' /\ Table(ed)' = Table(ed)
<1>1. /\ phase = "features" /\ phase' = "finish" /\ before' = before /\ phase \in Stages /\ phase' \in Stages
      /\ phase # "deletes" /\ phase \notin {"deletes", "adds"}
  BY DEF CommitFeatures, Stage, Stages
<1>2. exact
  BY DEF CommitFeatures, Skipped, Refused
<1>3. /\ ok /\ ed \in Buffers /\ ~ed.undefined /\ ed.deleted = {} /\ ed.added = <<>> /\ columns \in Seq(Names)
      /\ \A f \in Fids : rows[f] # None => rows[f] \in Seq(Value) /\ DOMAIN rows[f] = DOMAIN columns
      /\ \A f \in Fids : ed.features[f] # None => rows[f] = None /\ ed.features[f] \in Seq(Value)
      /\ \A s \in Seq(Value) : s # None
  BY <1>1, <1>2, InCommit
<1>4. /\ FieldNames(ed) = columns /\ ed.changed = NoChanges
      /\ \A f \in Fids : Shown(ed, f) # None => Len(Shown(ed, f)) = Len(ed.fields)
  BY <1>1, <1>2 DEF Handed
<1>5. CASE ed.features = NoFeatures /\ Skipped
  <2>1. UNCHANGED <<store, ed>>
    BY <1>5 DEF Skipped, store
  <2>2. Handing
    BY <1>1, <1>4, <1>5, <2>1 DEF Handing, store, FieldNames
  <2> QED BY <1>1, <1>2, <2>1, <2>2, SkippedHands
<1>6. CASE /\ rows' = [f \in Fids |-> IF ed.features[f] = None THEN rows[f] ELSE Fitted(ed.features[f])]
           /\ ed' = [ed EXCEPT !.features = NoFeatures]
           /\ columns' = columns
  <2>1. /\ ed'.deleted = {} /\ ed'.added = <<>> /\ ed'.renamed = ed.renamed /\ ed'.fields = ed.fields
        /\ ed'.changed = ed.changed /\ ed'.features = NoFeatures /\ ed'.undefined = ed.undefined
    BY <1>3, <1>6 DEF Buffers
  <2>2. FieldNames(ed)' = FieldNames(ed)
    BY <2>1 DEF FieldNames
  <2>3. \A f \in Fids : ed'.features[f] = None
    BY <2>1 DEF NoFeatures
  <2>4. ASSUME NEW f \in Fids, ed.features[f] # None
        PROVE  /\ rows'[f] # None /\ rows[f] = None
               /\ Merged(rows'[f], ed'.deleted, ed'.added, ed'.changed[f]) = ed.features[f]
    <3>1. PICK row : row = ed.features[f]
      OBVIOUS
    <3>2. row \in Seq(Value) /\ rows[f] = None /\ row # None
      BY <1>3, <2>4, <3>1
    <3>3. Shown(ed, f) = row
      BY <3>1, <3>2 DEF Shown, IsNew
    <3>4. Len(row) = Len(columns) /\ DOMAIN row = 1 .. Len(row) /\ DOMAIN columns = 1 .. Len(row)
          /\ Len(columns) <= MaxFields
      <4>1. Len(row) = Len(ed.fields)
        BY <1>4, <3>2, <3>3
      <4>2. ed.fields \in Seq(FieldRecords) /\ DOMAIN ed.fields = DOMAIN columns
        BY <1>3, <1>4 DEF Buffers, FieldNames
      <4>3. Len(columns) <= MaxFields /\ DOMAIN ed.fields = 1 .. Len(ed.fields) /\ Len(ed.fields) = Len(columns)
        BY <1>1, <1>3, <4>2, Underway
      <4> QED BY <1>3, <3>2, <4>1, <4>3
    <3>5. rows'[f] = row
      <4>1. rows'[f] = [i \in 1 .. Len(row) |-> row[i]]
        BY <1>6, <2>4, <3>1, <3>4 DEF Fitted
      <4>2. row = [i \in 1 .. Len(row) |-> row[i]]
        BY <3>2
      <4> QED BY <4>1, <4>2
    <3>6. Merged(row, {}, <<>>, NoChanges[f]) = row
      <4>1. Merged(row, {}, <<>>, NoChanges[f]) = Plain(row, NoChanges[f])
        BY <3>2, MergedPlain
      <4>2. \A i \in 1 .. Len(row) : i \in Index
        BY <3>4, Bounds
      <4>3. \A i \in 1 .. Len(row) : NoChanges[f][i] = None
        BY <4>2 DEF NoChanges
      <4>4. Plain(row, NoChanges[f]) = [i \in 1 .. Len(row) |-> row[i]]
        BY <4>3 DEF Plain
      <4>5. row = [i \in 1 .. Len(row) |-> row[i]]
        BY <3>2
      <4> QED BY <4>1, <4>4, <4>5
    <3> QED BY <1>4, <2>1, <3>1, <3>2, <3>5, <3>6
  <2>5. ASSUME NEW f \in Fids, ed.features[f] = None
        PROVE  /\ rows'[f] = rows[f] /\ ed'.features[f] = ed.features[f]
               /\ Merged(rows'[f], ed'.deleted, ed'.added, ed'.changed[f]) =
                      Merged(rows[f], ed.deleted, ed.added, ed.changed[f])
    BY <1>3, <1>6, <2>1, <2>3, <2>5
  <2>6. (\A f \in Fids : Shown(ed, f)' = Shown(ed, f)) /\ Table(ed)' = Table(ed)
    BY <2>2, <2>4, <2>5, StillShown
  <2>7. Handing
    BY <1>1, <1>4, <1>6, <2>1, <2>2 DEF Handing
  <2>8. Handed'
    BY <1>1, <1>2, <1>3, <2>1, <2>2, <2>3, <2>6, <2>7, HandedOn
  <2> QED BY <1>2, <2>6, <2>8
<1>7. ~Refused
  BY DEF Refused
<1> QED BY <1>3, <1>5, <1>6, <1>7 DEF CommitFeatures

\* What is shown fits the fields.
LEMMA ShownFits ==
    ASSUME Types, Ready(ed), columns \in Seq(Names)
    PROVE  \A f \in Fids : Shown(ed, f) # None => Len(Shown(ed, f)) = Len(ed.fields)
<1>1. /\ Len(ed.fields) = Count(ed) /\ ed \in Buffers
      /\ \A f \in Fids : ed.features[f] # None => Len(ed.features[f]) = Count(ed)
  BY ReadyFacts
<1>2. ed.added \in Seq(Names)
  BY <1>1 DEF Buffers
<1>3. SUFFICES ASSUME NEW f \in Fids, Shown(ed, f) # None
               PROVE  Len(Shown(ed, f)) = Count(ed)
  BY <1>1
<1>4. Shown(ed, f) = IF rows[f] = None THEN ed.features[f]
                     ELSE Merged(rows[f], ed.deleted, ed.added, ed.changed[f])
  BY ShownOfRow
<1>5. rows[f] # None => rows[f] \in Seq(Value) /\ Len(rows[f]) = Len(columns)
  BY DEF Types
<1>6. CASE rows[f] = None
  BY <1>1, <1>3, <1>4, <1>6
<1>7. CASE rows[f] # None
  BY <1>2, <1>3, <1>4, <1>5, <1>7, MergedLength
<1> QED BY <1>6, <1>7

\* A commit begins with what is remembered.
LEMMA CommitHands ==
    ASSUME IInv, Remembered, CommitChanges
    PROVE  Handed'
<1>1. /\ phase \notin Stages /\ phase' = "deletes" /\ before' = ed.fields /\ exact' = exact
      /\ columns' = columns /\ rows' = rows /\ ed' = ed
  BY Phases DEF CommitChanges, Editing, store
<1>2. SUFFICES ASSUME exact PROVE Handed'
  BY <1>1 DEF Handed
<1>3. Ready(ed) /\ columns \in Seq(Names) /\ Types
  BY <1>1, <1>2, Recall DEF IInv
<1>4. /\ ~ed.undefined /\ Len(ed.fields) = Count(ed)
      /\ \A i \in Index : i > Count(ed) => ed.renamed[i] = None
      /\ \A f \in Fids, i \in Index : i > Count(ed) \/ IsNew(f) => ed.changed[f][i] = None
      /\ \A f \in Fids : ed.features[f] # None => IsNew(f)
  BY <1>3, ReadyFacts
<1>5. \A f \in Fids : Shown(ed, f) # None => Len(Shown(ed, f)) = Len(ed.fields)
  BY <1>3, ShownFits
<1>6. \A f \in Fids : Shown(ed, f)' = Shown(ed, f)
  BY <1>1 DEF Shown, UpdatedAttributes, IsNew
<1>7. /\ ~ed'.undefined
      /\ \A f \in Fids, i \in Index : i > Len(ed'.fields) => ed'.changed[f][i] = None /\ ed'.renamed[i] = None
  BY <1>1, <1>4
<1>8. \A f \in Fids : Shown(ed, f)' # None => Len(Shown(ed, f)') = Len(ed'.fields)
  BY <1>1, <1>5, <1>6
<1>9. (\A f \in Fids : ed.features[f] # None => IsNew(f))'
  BY <1>1, <1>4 DEF IsNew
<1>10. FieldNames(ed') = [i \in DOMAIN before' |-> before'[i].name]
  BY <1>1 DEF FieldNames
<1> QED BY <1>1, <1>7, <1>8, <1>9, <1>10 DEF Handed

\* What it shows when nothing is left to store.
LEMMA ShownWhenSaved ==
    ASSUME IInv, Handed, exact, CommitSucceeds
    PROVE  Table(ed)' = Table(ed)
<1>1. phase = "finish" /\ phase \in Stages /\ phase # "deletes" /\ phase \notin {"deletes", "adds"}
      /\ columns' = columns /\ rows' = rows /\ ed' = Opened(columns)
  BY DEF CommitSucceeds, Close, store, Stages
<1>2. /\ ed.deleted = {} /\ ed.added = <<>> /\ columns \in Seq(Names)
  BY <1>1, InCommit
<1>3. FieldNames(ed) = columns /\ ed.changed = NoChanges /\ ed.features = NoFeatures
  BY <1>1 DEF Handed
<1>4. /\ ed'.deleted = {} /\ ed'.added = <<>> /\ ed'.changed = NoChanges /\ ed'.features = NoFeatures
  BY <1>1 DEF Opened
<1>5. FieldNames(ed)' = columns
  <2>1. Len(columns) <= MaxFields
    BY <1>1, Underway
  <2>2. FieldNames(Opened(columns)) = columns
    BY <1>2, <2>1, OpenedView
  <2> QED BY <1>1, <2>2
<1> QED BY <1>1, <1>2, <1>3, <1>4, <1>5, StillShown

\* What it shows when all is undone.
LEMMA ShownWhenUndone ==
    ASSUME IInv, Remembered, exact, FinishRollBack
    PROVE  Table(ed)' = hist[1]
<1>1. phase \notin Stages /\ index = 0 /\ columns' = columns /\ rows' = rows /\ ed' = Opened(columns)
  BY Phases DEF FinishRollBack, Close, store
<1>2. PICK v : Linked(v)
  BY <1>1, Recall
<1>3. v[0] = View(Opened(columns)) /\ v[0] = View(ed)
  BY <1>1, <1>2 DEF Linked
<1>4. Table(ed) = hist[1]
  <2>1. Table(ed) = hist[index + 1]
    BY <1>1, Recall
  <2> QED BY <1>1, <2>1
<1>5. PICK d : d = Opened(columns)
  OBVIOUS
<1>6. Table(d) = Table(ed)
  BY <1>3, <1>5, ViewShows
<1>7. Table(d)' = Table(d)
  BY <1>1 DEF Table, Shown, UpdatedAttributes, IsNew
<1> QED BY <1>1, <1>4, <1>5, <1>6, <1>7

-----------------------------------------------------------------------------
(* The history, in every state. *)

\* With the history: what the invariant of the refinement is.
HInv == IInv /\ Remembered /\ Handed

\* The stages of a commit that has lost nothing.
Storing ==
    CommitDeletes \/ CommitAdds \/ CommitRenames \/ CheckFields \/ CommitValues \/ CommitFeatures

\* Each shows the same after as before.
LEMMA StoringHands ==
    ASSUME IInv, Handed, Storing, exact'
    PROVE  exact /\ Handed' /\ Table(ed)' = Table(ed)
BY DeletesHand, AddsHand, RenamesHand, CheckHands, ValuesHand, FeaturesHand DEF Storing

\* They leave the stack and its history alone.
LEMMA StoringStages ==
    ASSUME Storing
    PROVE  phase \in Stages /\ phase' \in Stages /\ UNCHANGED <<stack, hist>>
BY DEF Storing, CommitDeletes, CommitAdds, CommitRenames, CheckFields, CommitValues, CommitFeatures, Stage, Stages

\* A step that leaves the history alone.
LEMMA NothingMoves ==
    ASSUME HInv, UNCHANGED <<store, ed, stack, before, hist, exact>>,
           (phase \notin Stages /\ phase' \notin Stages) \/ phase' = phase
    PROVE  Remembered' /\ Handed' /\ Table(ed)' = Table(ed)
<1>1. /\ UNCHANGED <<store, cmds, hist>> /\ columns' = columns /\ rows' = rows /\ ed' = ed /\ index' = index
      /\ before' = before /\ exact' = exact
  BY DEF store, stack
<1>2. Table(ed)' = Table(ed)
  BY <1>1 DEF Table, Shown, UpdatedAttributes, IsNew, FieldNames
<1>3. CASE ~exact
  BY <1>1, <1>2, <1>3 DEF Remembered, Handed
<1>4. CASE exact /\ phase \notin Stages
  <2>1. phase' \notin Stages
    BY <1>4
  <2>2. PICK v : Linked(v)
    BY <1>4, Recall DEF HInv
  <2>3. Ready(ed) /\ ~ed.undefined
    BY <1>4, Recall DEF HInv
  <2>4. index \in 0 .. Len(cmds)
    BY <1>4, <2>3, Rest DEF HInv
  <2>5. v[index] = View(ed)
    BY <2>2 DEF Linked
  <2>6. PICK d, j : d = ed /\ j = index
    OBVIOUS
  <2>7. /\ j \in 0 .. Len(cmds) /\ index' = j /\ ed' = d /\ Ready(d) /\ View(d) = v[j]
    BY <1>1, <2>3, <2>4, <2>5, <2>6
  <2>8. Remembered'
    BY <1>1, <2>2, <2>7, Moves
  <2> QED BY <1>2, <2>1, <2>8 DEF Handed
<1>5. CASE exact /\ phase \in Stages
  <2>1. phase' = phase /\ phase' \in Stages
    BY <1>5
  <2>2. Handing
    BY <1>1, <1>5, <2>1 DEF HInv, Handed, Handing, FieldNames
  <2>3. Handed'
    BY <1>1, <1>5, <2>1, <2>2, SkippedHands DEF HInv
  <2> QED BY <1>2, <2>1, <2>3 DEF Remembered
<1> QED BY <1>3, <1>4, <1>5

\* Closing ends the stages.
LEMMA ClosingRemembers ==
    ASSUME IInv, FinishRollBack \/ CommitSucceeds
    PROVE  Remembered' /\ Handed' /\ index' = 0 /\ (hist = <<Table(ed)>>)'
<1>1. Types /\ Close /\ ok' = TRUE /\ changes' = {}
  BY Ends
<1>2. JustOpened' /\ (hist = <<Table(ed)>>)'
  BY <1>1, Closes
<1>3. Remembered'
  BY <1>2, OpenedRemembers, PTL
<1>4. phase' \notin Stages
  BY <1>1, Phases DEF Close
<1>5. Handed'
  BY <1>4 DEF Handed
<1>6. index' = 0
  BY <1>1 DEF Close
<1> QED BY <1>2, <1>3, <1>5, <1>6

\* Every step is remembered.
LEMMA NextRemembers ==
    ASSUME HInv, [Next]_vars
    PROVE  HInv'
<1>1. IInv'
  BY NextKeeps DEF HInv
<1>2. CASE Edits
  <2>1. Remembered'
    BY <1>2, EditsKeep DEF HInv
  <2>2. phase' = phase /\ phase = "editing"
    BY <1>2, EditsFit DEF HInv, Editing, Push
  <2>3. phase' \notin Stages
    BY <2>2, Phases
  <2> QED BY <1>1, <2>1, <2>3 DEF HInv, Handed
<1>3. CASE StartEditing \/ RollBack
  <2>1. phase \notin Stages /\ phase' \notin Stages
    BY <1>3, Phases DEF StartEditing, RollBack, Editing
  <2>2. UNCHANGED <<store, ed, stack, before, hist, exact>>
    BY <1>3 DEF StartEditing, RollBack, locals
  <2> QED BY <1>1, <2>1, <2>2, NothingMoves DEF HInv
<1>4. CASE UndoCommand \/ RollBackStep
  <2>1. phase \notin Stages /\ ~ed.undefined /\ StepBack /\ phase' = phase
    BY <1>4, Phases DEF UndoCommand, RollBackStep, Editing, StepBack
  <2>2. Remembered'
    BY <2>1, UndoRemembers DEF HInv
  <2> QED BY <1>1, <2>1, <2>2 DEF HInv, Handed
<1>5. CASE RedoCommand
  <2>1. Remembered'
    BY <1>5, RedoRemembers DEF HInv
  <2>2. phase' \notin Stages
    BY <1>5, Phases DEF RedoCommand, Editing
  <2> QED BY <1>1, <2>1, <2>2 DEF HInv, Handed
<1>6. CASE FinishRollBack \/ CommitSucceeds
  BY <1>1, <1>6, ClosingRemembers DEF HInv
<1>7. CASE CommitChanges
  <2>1. phase' \in Stages
    BY <1>7 DEF CommitChanges, Stages
  <2> QED BY <1>1, <1>7, <2>1, CommitHands DEF HInv, Remembered
<1>8. CASE Storing
  <2>1. exact' => Handed'
    BY <1>8, StoringHands DEF HInv
  <2>2. phase' \in Stages
    BY <1>8, StoringStages
  <2>3. ~exact' => Handed'
    BY DEF Handed
  <2> QED BY <1>1, <2>1, <2>2, <2>3 DEF HInv, Remembered
<1>9. CASE CommitFails
  <2>1. ~exact
    BY <1>9 DEF CommitFails, HInv, IInv, Inexact
  <2>2. ~exact'
    BY <1>9, <2>1 DEF CommitFails
  <2> QED BY <1>1, <2>2 DEF HInv, Remembered, Handed
<1>10. CASE UNCHANGED vars
  <2>1. UNCHANGED <<store, ed, stack, before, hist, exact>> /\ phase' = phase
    BY <1>10 DEF vars, locals
  <2> QED BY <1>1, <2>1, NothingMoves DEF HInv
<1> QED BY <1>2, <1>3, <1>4, <1>5, <1>6, <1>7, <1>8, <1>9, <1>10 DEF Next, Edits, Storing

\* It begins with an empty history.
LEMMA FirstRemembers ==
    ASSUME Init
    PROVE  HInv
<1>1. IInv
  BY FirstKeeps
<1>2. /\ columns = Columns /\ rows = Rows /\ ed = Opened(columns) /\ cmds = <<>> /\ index = 0
      /\ phase = "closed" /\ hist = <<Table(ed)>>
  BY DEF Init
<1>3. /\ columns \in Seq(Names) /\ Len(columns) <= MaxFields /\ ok = TRUE /\ changes = {} /\ exact \in BOOLEAN
  BY <1>2, ColumnsAssumption, BoundsAssumption DEF Init
<1>4. Types
  BY <1>1 DEF IInv
<1>5. JustOpened
  <2>1. Len(hist) = 1
    <3>1. PICK x : x = Table(ed)
      OBVIOUS
    <3> QED BY <1>2, <3>1
  <2> QED BY <1>2, <1>3, <1>4, <2>1 DEF Types, JustOpened
<1>6. Remembered
  BY <1>2, <1>5, OpenedRemembers
<1>7. Handed
  BY <1>2 DEF Handed, Stages
<1> QED BY <1>1, <1>6, <1>7 DEF HInv

\* HInv holds in every state.
LEMMA HistoryInvariant == Spec => []HInv
<1>1. Init => HInv
  BY FirstRemembers
<1>2. HInv /\ [Next]_vars => HInv'
  BY NextRemembers
<1> QED BY <1>1, <1>2, PTL DEF Spec

\* While nothing is lost, what the buffer keeps by field index fits the fields of the
\* layer, whatever was edited, undone and redone, and in every stage of a commit:
\* updateChangedAttributes() and the forms read within bounds.
THEOREM IndicesAlwaysFit == Spec => []IndicesFit
<1>1. HInv => IndicesFit
  <2> SUFFICES ASSUME HInv, exact
               PROVE  /\ ~ed.undefined
                      /\ \A f \in Fids, i \in Index :
                            i > Len(ed.fields) => ed.changed[f][i] = None /\ ed.renamed[i] = None
                      /\ \A f \in Fids : Shown(ed, f) # None => Len(Shown(ed, f)) = Len(ed.fields)
    BY DEF IndicesFit
  <2>1. CASE phase \notin Stages
    <3>1. Ready(ed) /\ columns \in Seq(Names) /\ Types
      BY <2>1, Recall DEF HInv, IInv
    <3>2. /\ ~ed.undefined /\ Len(ed.fields) = Count(ed)
          /\ \A i \in Index : i > Count(ed) => ed.renamed[i] = None
          /\ \A f \in Fids, i \in Index : i > Count(ed) \/ IsNew(f) => ed.changed[f][i] = None
      BY <3>1, ReadyFacts
    <3>3. \A f \in Fids : Shown(ed, f) # None => Len(Shown(ed, f)) = Len(ed.fields)
      BY <3>1, ShownFits
    <3> QED BY <3>2, <3>3
  <2>2. CASE phase \in Stages
    BY <2>2 DEF HInv, Handed
  <2> QED BY <2>1, <2>2
<1> QED BY <1>1, HistoryInvariant, PTL

\* A command that is pushed is an edit of the history.
LEMMA EditsAreEdits ==
    ASSUME IInv, Edits, exact'
    PROVE  exact /\ index' = index + 1 /\ hist' = Append(SubSeq(hist, 1, index + 1), Table(ed)')
<1>1. PICK c \in Commands : Push(c)
  BY EditsFit
<1>2. /\ exact /\ index' = index + 1 /\ hist' = Append(SubSeq(hist, 1, index + 1), Table(ed'))
      /\ columns' = columns /\ rows' = rows
  BY <1>1 DEF Push, store
<1>3. PICK d : d = ed'
  OBVIOUS
<1>4. Table(d)' = Table(d)
  BY <1>2 DEF Table, Shown, UpdatedAttributes, IsNew
<1> QED BY <1>2, <1>3, <1>4

\* Every step is one of the history, or none.
LEMMA HistoryStep ==
    ASSUME HInv, [Next]_vars
    PROVE  [History!Next]_<<Table(ed), hist, index + 1, ~exact>>
<1> USE DEF History!Next, History!Keep, History!Lose
<1>1. CASE ~exact'
  BY <1>1
<1>2. CASE exact' /\ Edits
  <2>1. exact /\ index' = index + 1 /\ hist' = Append(SubSeq(hist, 1, index + 1), Table(ed)')
    BY <1>2, EditsAreEdits DEF HInv
  <2>2. index' + 1 = index + 1 + 1
    BY <2>1
  <2> QED BY <1>2, <2>1, <2>2 DEF History!Edit
<1>3. CASE exact' /\ (UndoCommand \/ RollBackStep)
  <2>1. phase \notin Stages /\ ~ed.undefined /\ StepBack /\ hist' = hist /\ index' = index - 1 /\ index > 0
    BY <1>3, Phases DEF UndoCommand, RollBackStep, Editing, StepBack
  <2>2. exact /\ Table(ed)' = hist[index]
    BY <1>3, <2>1, UndoRemembers DEF HInv
  <2>3. index \in Nat
    BY <2>1, Rest DEF HInv
  <2>4. index + 1 > 1 /\ index' + 1 = index + 1 - 1 /\ index' + 1 = index
    BY <2>1, <2>3
  <2> QED BY <1>3, <2>1, <2>2, <2>4 DEF History!Undo
<1>4. CASE exact' /\ RedoCommand
  <2>1. exact /\ index < Len(cmds) /\ Table(ed)' = hist[index + 2]
    BY <1>4, RedoRemembers DEF HInv
  <2>2. hist' = hist /\ index' = index + 1 /\ phase \notin Stages /\ ~ed.undefined
    BY <1>4, Phases DEF RedoCommand, Editing
  <2>3. index \in Nat /\ Len(cmds) \in Nat /\ Len(hist) = Len(cmds) + 1
    BY <2>2, Rest DEF HInv
  <2>4. index + 1 < Len(hist) /\ index' + 1 = index + 1 + 1 /\ index' + 1 = index + 2
    BY <2>1, <2>2, <2>3
  <2> QED BY <1>4, <2>1, <2>2, <2>4 DEF History!Redo
<1>5. CASE exact' /\ FinishRollBack
  <2>1. index' = 0 /\ (hist = <<Table(ed)>>)'
    BY <1>5, ClosingRemembers DEF HInv
  <2>2. index' + 1 = 1
    BY <2>1
  <2>3. exact => Table(ed)' = hist[1]
    BY <1>5, ShownWhenUndone DEF HInv
  <2>4. exact => History!Revert
    BY <2>1, <2>2, <2>3 DEF History!Revert
  <2>5. ~exact => History!Restart
    BY <1>5, <2>1, <2>2 DEF History!Restart
  <2> QED BY <1>5, <2>4, <2>5
<1>6. CASE exact' /\ CommitSucceeds
  <2>1. index' = 0 /\ (hist = <<Table(ed)>>)'
    BY <1>6, ClosingRemembers DEF HInv
  <2>2. index' + 1 = 1
    BY <2>1
  <2>3. exact => Table(ed)' = Table(ed)
    BY <1>6, ShownWhenSaved DEF HInv
  <2>4. exact => History!Save
    BY <2>1, <2>2, <2>3 DEF History!Save
  <2>5. ~exact => History!Restart
    BY <1>6, <2>1, <2>2 DEF History!Restart
  <2> QED BY <1>6, <2>4, <2>5
<1>7. CASE exact' /\ (StartEditing \/ RollBack \/ UNCHANGED vars)
  <2>1. (phase \notin Stages /\ phase' \notin Stages) \/ phase' = phase
    BY <1>7, Phases DEF StartEditing, RollBack, Editing, vars
  <2>2. UNCHANGED <<store, ed, stack, before, hist, exact>>
    BY <1>7 DEF StartEditing, RollBack, locals, vars
  <2>3. Table(ed)' = Table(ed)
    BY <2>1, <2>2, NothingMoves
  <2> QED BY <2>2, <2>3 DEF stack
<1>8. CASE exact' /\ CommitChanges
  <2>1. UNCHANGED <<store, ed, stack, hist, exact>>
    BY <1>8 DEF CommitChanges
  <2>2. Table(ed)' = Table(ed)
    BY <2>1 DEF store, Table, Shown, UpdatedAttributes, IsNew, FieldNames
  <2> QED BY <2>1, <2>2 DEF stack
<1>9. CASE exact' /\ Storing
  <2>1. exact /\ Table(ed)' = Table(ed)
    BY <1>9, StoringHands DEF HInv
  <2>2. UNCHANGED <<stack, hist>>
    BY <1>9, StoringStages
  <2> QED BY <1>9, <2>1, <2>2 DEF stack
<1>10. CASE exact' /\ CommitFails
  <2>1. ~exact
    BY <1>10 DEF CommitFails, HInv, IInv, Inexact
  <2> QED BY <1>10, <2>1 DEF CommitFails
<1> QED BY <1>1, <1>2, <1>3, <1>4, <1>5, <1>6, <1>7, <1>8, <1>9, <1>10 DEF Next, Edits, Storing

\* Editing the fields and the values of a layer keeps an undo history of tables: undo
\* and redo show exactly the names and the values that were there, at whatever position
\* of whatever stack; no stage of a commit changes what is shown; and a rollback shows
\* the table of the start.  This holds until something is met that loses the table.
THEOREM ImplementsHistory == Spec => History_Spec
<1>1. Init => \E s \in {Table(ed)} : History!Start(s)
  BY DEF Init, History!Start
<1>2. HInv /\ [Next]_vars => [History!Next]_<<Table(ed), hist, index + 1, ~exact>>
  BY HistoryStep
<1> QED BY <1>1, <1>2, HistoryInvariant, PTL DEF Spec, History_Spec, History!Spec, History!vars
=============================================================================
