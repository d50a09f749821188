------------------------- MODULE OfflineEditingProofs -------------------------
(***************************************************************************)
(* Proofs about OfflineEditing for every number of layers, features,       *)
(* commits, synchronisations and failures.  The invariant (LayerInv) says  *)
(* of each layer where its features are: logged as added, or paired with a *)
(* remote one that has the last value logged (LogFits, Stored); and what a *)
(* synchronize() that is under way has stored already (Pending, Replayed). *)
(* What a failed commit left in a remote layer is still in the log of that *)
(* layer, which nobody touches until it is saved or dropped (BufferInv).   *)
(* The copies are paired by the order of their ids (SortedSetsProofs).     *)
(***************************************************************************)
EXTENDS OfflineEditing, SortedSetsProofs, FiniteSetTheorems, FunctionTheorems, SequenceTheorems, TLAPS

-----------------------------------------------------------------------------
(* The inductive invariant, layer by layer *)

\* Where synchronize() is, of a layer.
At(l, stages) == sync.layer = l /\ sync.stage \in stages

\* The remote ids in log_fids.
Known(l) == {fids[l][i].remote : i \in DOMAIN fids[l]}

Counted == edits \in 0 .. MaxEdits /\ commitNo <= edits

\* The ids logged as added ascend, no remote id is paired twice, and the
\* features of the copy have an identity.
InOrder(l) ==
    /\ "unlogged" \notin lost[l] =>
          \A i, j \in DOMAIN log[l].added : i < j => log[l].added[i] < log[l].added[j]
    /\ \A i, j \in DOMAIN fids[l] : fids[l][i].remote = fids[l][j].remote => i = j
    /\ \A f \in DOMAIN table[l] : IsMine(table[l][f])

\* Between the commit and the lookup the added features are on the server, with
\* consecutive ids that are not in the lookup.
Pending(l) ==
    At(l, {"lookup"}) /\ "unlogged" \notin lost[l] =>
        \E b \in 0 .. nextId[l] :
            /\ \A i \in DOMAIN log[l].added :
                  /\ b + i - 1 \in DOMAIN remote[l] \ Known(l)
                  /\ remote[l][b + i - 1] = table[l][log[l].added[i]]
            /\ lost[l] = {} =>
                  \A r \in DOMAIN remote[l] :
                      IsMine(remote[l][r]) => r \in Known(l) \/ \E i \in DOMAIN log[l].added : r = b + i - 1

\* The pairs of log_fids are of the same feature, and of none of others.
PairsSound(l) ==
    /\ lost[l] \intersect {"unlogged", "reused"} = {} =>
          \A i \in DOMAIN fids[l] :
              fids[l][i].offline \in DOMAIN table[l] /\ fids[l][i].remote \in DOMAIN remote[l] =>
                  remote[l][fids[l][i].remote].who = table[l][fids[l][i].offline].who
    /\ "unlogged" \notin lost[l] =>
          \A i \in DOMAIN fids[l] :
              fids[l][i].remote \in DOMAIN remote[l] => IsMine(remote[l][fids[l][i].remote])

\* Nothing worse has happened than that features were added twice.
Mild(l) == lost[l] \subseteq {"repeated"}

Updated(l, f) == \E i \in DOMAIN log[l].updates : log[l].updates[i].fid = f

\* Every row of the copy is logged as added or paired, every removed or updated one
\* is paired, and updates are logged in the order of their commits.
LogFits(l) ==
    Mild(l) =>
        /\ log[l].removed \subseteq Mapped(l) \ DOMAIN table[l]
        /\ DOMAIN table[l] \subseteq Contents(log[l].added) \union Mapped(l)
        /\ \A f \in 1 .. MaxFid : Updated(l, f) => f \in Mapped(l) \ Contents(log[l].added)
        /\ \A i \in DOMAIN log[l].updates : log[l].updates[i].commit < commitNo
        /\ \A i, j \in DOMAIN log[l].updates :
              i < j => log[l].updates[i].commit <= log[l].updates[j].commit
        /\ At(l, {"added"}) => Contents(log[l].added) \subseteq Mapped(l)

\* A row that is paired is on the server, and its value is the last one logged or,
\* if none is, the one that it has on the server.
LastLogged(l, f) ==
    \E i \in DOMAIN log[l].updates :
        /\ log[l].updates[i].fid = f /\ log[l].updates[i].val = table[l][f].val
        /\ \A j \in DOMAIN log[l].updates : log[l].updates[j].fid = f => j <= i
OnServer(l, f) ==
    \E i \in DOMAIN fids[l] :
        /\ fids[l][i].offline = f
        /\ fids[l][i].remote \in DOMAIN remote[l] /\ remote[l][fids[l][i].remote] = table[l][f]
Stored(l) ==
    Mild(l) =>
        \A f \in DOMAIN table[l] :
            /\ f \in Mapped(l) => RemoteFid(l, f) \in DOMAIN remote[l]
            /\ f \notin Contents(log[l].added) \/ At(l, {"added"}) =>
                  IF Updated(l, f) THEN LastLogged(l, f) ELSE OnServer(l, f)

\* After the commit the updates and removals that are still logged are on the server.
Replayed(l) ==
    Mild(l) =>
        /\ At(l, {"lookup", "added", "removed", "updates"}) =>
              \A f \in DOMAIN table[l] :
                  Updated(l, f) => remote[l][RemoteFid(l, f)].val = table[l][f].val
        /\ At(l, {"lookup", "added", "removed"}) =>
              \A f \in log[l].removed : RemoteFid(l, f) \notin DOMAIN remote[l]

\* If nothing has happened, each copied feature of the server is paired once, with a
\* row that is there or logged as removed.
PairedOnce(l) ==
    lost[l] = {} =>
        /\ ~At(l, {"added"}) => Contents(log[l].added) \intersect Mapped(l) = {}
        /\ \A i, j \in DOMAIN fids[l] : fids[l][i].offline = fids[l][j].offline => i = j
        /\ ~At(l, {"lookup"}) =>
              \A r \in DOMAIN remote[l] : IsMine(remote[l][r]) => r \in Known(l)
        /\ \A i \in DOMAIN fids[l] :
              fids[l][i].remote \in DOMAIN remote[l] =>
                  fids[l][i].offline \in DOMAIN table[l] \union log[l].removed

LayerInv(l) ==
    /\ InOrder(l) /\ Pending(l) /\ PairsSound(l) /\ LogFits(l)
    /\ Stored(l) /\ Replayed(l) /\ PairedOnce(l)

Busy == {"lookup", "added", "removed", "updates"}

\* A layer with a buffer is out of the reach of commits and of synchronize(), and its
\* log has whatever the buffer changes or removes.
BufferInv(l) ==
    /\ BufferTypeOK(l)
    /\ buffer[l] # NoBuffer => l \notin project.layers \union sync.todo /\ ~At(l, Busy)
    /\ \A r \in DOMAIN buffer[l].values :
          \E i \in DOMAIN log[l].updates : RemoteFid(l, log[l].updates[i].fid) = r
    /\ \A r \in buffer[l].removed : \E f \in log[l].removed : RemoteFid(l, f) = r

-----------------------------------------------------------------------------
(* Ids that are new *)

LEMMA MaxProperties ==
    ASSUME NEW ids \in SUBSET Int, IsFiniteSet(ids), ids # {}
    PROVE  Max(ids) \in ids /\ \A i \in ids : Max(ids) >= i
<1>1. \E i \in ids : \A j \in ids : i >= j
  BY LeastAndGreatest
<1> QED BY <1>1 DEF Max

-----------------------------------------------------------------------------
(* The lookup *)

Offlines(rows) == {rows[i].offline : i \in DOMAIN rows}

FirstFid(rows, f) ==
    IF f \in Offlines(rows)
    THEN rows[CHOOSE i \in DOMAIN rows :
                  rows[i].offline = f /\ \A j \in 1 .. i - 1 : rows[j].offline # f].remote
    ELSE Unknown

LEMMA LookupByRows ==
    ASSUME NEW l \in Layers
    PROVE  /\ Mapped(l) = Offlines(fids[l]) /\ Mapped(l)' = Offlines(fids'[l])
           /\ \A f : RemoteFid(l, f) = FirstFid(fids[l], f)
           /\ \A f : RemoteFid(l, f)' = FirstFid(fids'[l], f)
  BY DEF Mapped, RemoteFid, Offlines, FirstFid

\* The row that the lookup finds is the first one of the feature.
LEMMA FirstRow ==
    ASSUME NEW rows \in Seq(Rows), NEW f \in Offlines(rows)
    PROVE  \E i \in DOMAIN rows :
              /\ rows[i].offline = f /\ \A j \in 1 .. i - 1 : rows[j].offline # f
              /\ FirstFid(rows, f) = rows[i].remote
<1> DEFINE ids == {i \in DOMAIN rows : rows[i].offline = f}
<1>1. Len(rows) \in Nat /\ DOMAIN rows = 1 .. Len(rows)
  OBVIOUS
<1>2. ids \in SUBSET Int /\ IsFiniteSet(ids) /\ ids # {}
  <2>1. IsFiniteSet(1 .. Len(rows))
    BY <1>1, FS_Interval
  <2>2. IsFiniteSet(ids)
    BY <1>1, <2>1, FS_Subset
  <2> QED BY <1>1, <2>2 DEF Offlines
<1>3. PICK i \in ids : \A j \in ids : i <= j
  BY <1>2, LeastAndGreatest
<1>4. i \in DOMAIN rows /\ rows[i].offline = f /\ \A j \in 1 .. i - 1 : rows[j].offline # f
  <2>1. SUFFICES ASSUME NEW j \in 1 .. i - 1, rows[j].offline = f PROVE FALSE
    OBVIOUS
  <2>2. i \in Int /\ j \in DOMAIN rows /\ j < i
    BY <1>1, <1>3
  <2>3. j \in ids
    BY <2>1, <2>2
  <2>4. i <= j
    BY <1>3, <2>3
  <2> QED BY <2>2, <2>4
<1> DEFINE Choice == CHOOSE k \in DOMAIN rows :
                        rows[k].offline = f /\ \A j \in 1 .. k - 1 : rows[j].offline # f
<1>5. /\ Choice \in DOMAIN rows
      /\ rows[Choice].offline = f /\ \A j \in 1 .. Choice - 1 : rows[j].offline # f
  BY <1>4
<1>6. FirstFid(rows, f) = rows[Choice].remote
  BY DEF FirstFid
<1> QED BY <1>5, <1>6

LEMMA FidType ==
    ASSUME NEW rows \in Seq(Rows), NEW f
    PROVE  /\ f \in Offlines(rows) => FirstFid(rows, f) \in Nat
           /\ f \notin Offlines(rows) => FirstFid(rows, f) = Unknown
           /\ \A r \in Nat : FirstFid(rows, f) = r =>
                 f \in Offlines(rows) /\ \E i \in DOMAIN rows : rows[i].offline = f /\ rows[i].remote = r
<1>1. ASSUME f \in Offlines(rows)
      PROVE  \E i \in DOMAIN rows : rows[i].offline = f /\ FirstFid(rows, f) = rows[i].remote
  BY <1>1, FirstRow
<1>2. \A i \in DOMAIN rows : rows[i].remote \in Nat
  <2>1. \A i \in DOMAIN rows : rows[i] \in Rows
    OBVIOUS
  <2> QED BY <2>1 DEF Rows
<1>3. f \notin Offlines(rows) => FirstFid(rows, f) = Unknown /\ Unknown \notin Nat
  BY ConstantsAssumption DEF FirstFid
<1> QED BY <1>1, <1>2, <1>3

\* Where remote ids are paired once, each is found for one feature only.
LEMMA FidOnce ==
    ASSUME NEW rows \in Seq(Rows), \A i, j \in DOMAIN rows : rows[i].remote = rows[j].remote => i = j,
           NEW f \in Offlines(rows)
    PROVE  /\ \A i \in DOMAIN rows : rows[i].remote = FirstFid(rows, f) => rows[i].offline = f
           /\ \A g \in Offlines(rows) : FirstFid(rows, g) = FirstFid(rows, f) => g = f
<1>1. \A g \in Offlines(rows) :
          \E i \in DOMAIN rows : rows[i].offline = g /\ FirstFid(rows, g) = rows[i].remote
  BY FirstRow
<1>2. PICK k \in DOMAIN rows : rows[k].offline = f /\ FirstFid(rows, f) = rows[k].remote
  BY <1>1
<1> QED BY <1>1, <1>2

\* New rows at the end change nothing for the features that are paired already.
LEMMA FidAppended ==
    ASSUME NEW rows \in Seq(Rows), NEW new \in Seq(Rows)
    PROVE  /\ Offlines(rows \o new) = Offlines(rows) \union Offlines(new)
           /\ \A f \in Offlines(rows) : FirstFid(rows \o new, f) = FirstFid(rows, f)
<1> DEFINE all == rows \o new
<1>1. /\ all \in Seq(Rows) /\ DOMAIN rows = 1 .. Len(rows) /\ DOMAIN new = 1 .. Len(new)
      /\ DOMAIN all = 1 .. Len(rows) + Len(new) /\ Len(rows) \in Nat /\ Len(new) \in Nat
      /\ \A i \in 1 .. Len(rows) : all[i] = rows[i]
      /\ \A i \in 1 .. Len(new) : all[Len(rows) + i] = new[i]
  <2>1. all \in Seq(Rows) /\ Len(all) = Len(rows) + Len(new)
    BY ConcatProperties
  <2> QED BY <2>1, ConcatProperties
<1> HIDE DEF all
<1>2. Offlines(all) = Offlines(rows) \union Offlines(new)
  <2>1. ASSUME NEW f \in Offlines(all)
        PROVE  f \in Offlines(rows) \union Offlines(new)
    <3>1. PICK i \in 1 .. Len(rows) + Len(new) : all[i].offline = f
      BY <1>1, <2>1 DEF Offlines
    <3>2. CASE i \in 1 .. Len(rows)
      BY <1>1, <3>1, <3>2 DEF Offlines
    <3>3. CASE i \notin 1 .. Len(rows)
      <4> DEFINE j == i - Len(rows)
      <4>1. j \in 1 .. Len(new) /\ i = Len(rows) + j
        BY <1>1, <3>3
      <4>2. new[j].offline = f
        BY <1>1, <3>1, <4>1
      <4> QED BY <1>1, <4>1, <4>2 DEF Offlines
    <3> QED BY <3>2, <3>3
  <2>2. ASSUME NEW f \in Offlines(rows)
        PROVE  f \in Offlines(all)
    <3>1. PICK i \in 1 .. Len(rows) : rows[i].offline = f
      BY <1>1, <2>2 DEF Offlines
    <3>2. i \in DOMAIN all /\ all[i].offline = f
      BY <1>1, <3>1
    <3> QED BY <3>2 DEF Offlines
  <2>3. ASSUME NEW f \in Offlines(new)
        PROVE  f \in Offlines(all)
    <3>1. PICK i \in 1 .. Len(new) : new[i].offline = f
      BY <1>1, <2>3 DEF Offlines
    <3>2. Len(rows) + i \in DOMAIN all /\ all[Len(rows) + i].offline = f
      BY <1>1, <3>1
    <3> QED BY <3>2 DEF Offlines
  <2> QED BY <2>1, <2>2, <2>3
<1>3. ASSUME NEW f \in Offlines(rows)
      PROVE  FirstFid(all, f) = FirstFid(rows, f)
  <2>1. PICK i \in DOMAIN rows : /\ rows[i].offline = f /\ \A j \in 1 .. i - 1 : rows[j].offline # f
                                 /\ FirstFid(rows, f) = rows[i].remote
    BY <1>3, FirstRow
  <2>2. PICK k \in DOMAIN all : /\ all[k].offline = f /\ \A j \in 1 .. k - 1 : all[j].offline # f
                                /\ FirstFid(all, f) = all[k].remote
    <3>1. f \in Offlines(all)
      BY <1>2, <1>3
    <3> QED BY <1>1, <3>1, FirstRow
  <2>3. i \in Int /\ k \in Int
    BY <1>1
  <2>4. ~(i < k)
    BY <1>1, <2>1, <2>2, <2>3
  <2>5. ~(k < i)
    <3>1. SUFFICES ASSUME k < i PROVE FALSE
      OBVIOUS
    <3>2. k \in 1 .. Len(rows) /\ k \in 1 .. i - 1
      BY <1>1, <2>3, <3>1
    <3> QED BY <1>1, <2>1, <2>2, <3>2
  <2>6. i = k
    BY <2>3, <2>4, <2>5
  <2> QED BY <1>1, <2>1, <2>2, <2>6
<1> QED BY <1>2, <1>3 DEF all

-----------------------------------------------------------------------------
(* What the replay of a log does *)

LEMMA LayerTypes ==
    ASSUME NEW l \in Layers, LayerTypeOK(l)
    PROVE  /\ log[l].added \in Seq(1 .. MaxFid) /\ log[l].removed \subseteq 1 .. MaxFid
           /\ log[l].updates \in Seq(Updates)
           /\ Len(log[l].updates) \in Nat /\ DOMAIN log[l].updates = 1 .. Len(log[l].updates)
           /\ \A i \in DOMAIN log[l].updates :
                 /\ log[l].updates[i].fid \in 1 .. MaxFid /\ log[l].updates[i].val \in Values
                 /\ log[l].updates[i].commit \in Nat
           /\ fids[l] \in Seq(Rows) /\ DOMAIN fids[l] = 1 .. Len(fids[l]) /\ Len(fids[l]) \in Nat
           /\ \A i \in DOMAIN fids[l] :
                 /\ fids[l][i].offline \in 1 .. MaxFid /\ fids[l][i].remote \in Nat
                 /\ fids[l][i].remote < nextId[l]
           /\ nextId[l] \in Nat
           /\ \A r \in DOMAIN remote[l] :
                 /\ r \in Nat /\ r < nextId[l] /\ remote[l][r] \in Features
                 /\ remote[l][r].who \in Nat /\ remote[l][r].val \in Values
           /\ \A f \in DOMAIN table[l] :
                 f \in 1 .. MaxFid /\ table[l][f] \in Features /\ table[l][f].val \in Values
<1>1. /\ log[l].added \in Seq(1 .. MaxFid) /\ log[l].removed \subseteq 1 .. MaxFid
      /\ log[l].updates \in Seq(Updates) /\ fids[l] \in Seq(Rows)
      /\ \A i \in DOMAIN fids[l] : fids[l][i].remote < nextId[l]
      /\ nextId[l] \in Nat /\ DOMAIN remote[l] \subseteq 0 .. nextId[l] - 1
      /\ \A r \in DOMAIN remote[l] : remote[l][r] \in Features
      /\ \A f \in DOMAIN table[l] : f \in 1 .. MaxFid /\ table[l][f] \in Features
  BY DEF LayerTypeOK
<1>2. ASSUME NEW i \in DOMAIN log[l].updates
      PROVE  /\ log[l].updates[i].fid \in 1 .. MaxFid /\ log[l].updates[i].val \in Values
             /\ log[l].updates[i].commit \in Nat
  <2>1. log[l].updates[i] \in Updates
    BY <1>1
  <2> QED BY <2>1 DEF Updates
<1>3. ASSUME NEW i \in DOMAIN fids[l]
      PROVE  fids[l][i].offline \in 1 .. MaxFid /\ fids[l][i].remote \in Nat
  <2>1. fids[l][i] \in Rows
    BY <1>1
  <2> QED BY <2>1 DEF Rows
<1>4. \A r \in DOMAIN remote[l] : r \in Nat /\ r < nextId[l]
  BY <1>1
<1> QED BY <1>1, <1>2, <1>3, <1>4 DEF Features

\* There is a last update to replay wherever there is one.
LEMMA LastExists ==
    ASSUME NEW l \in Layers, LayerTypeOK(l), NEW r, UpdatesOf(l, r) # {}
    PROVE  /\ LastUpdate(l, r) \in UpdatesOf(l, r)
           /\ \A j \in UpdatesOf(l, r) :
                 \/ log[l].updates[j].commit < log[l].updates[LastUpdate(l, r)].commit
                 \/ /\ log[l].updates[j].commit = log[l].updates[LastUpdate(l, r)].commit
                    /\ j <= LastUpdate(l, r)
<1> DEFINE U == UpdatesOf(l, r)
           C(i) == log[l].updates[i].commit
           Commits == {c \in 0 .. MaxEdits : \E i \in U : C(i) = c}
<1>1. /\ \A i \in U : i \in DOMAIN log[l].updates
      /\ DOMAIN log[l].updates = 1 .. Len(log[l].updates) /\ Len(log[l].updates) \in Nat
  BY LayerTypes DEF UpdatesOf
<1>2. \A i \in U : C(i) \in 0 .. MaxEdits
  <2>1. \A i \in U : log[l].updates[i] \in Updates
    BY <1>1, LayerTypes
  <2> QED BY <2>1 DEF Updates
<1>3. IsFiniteSet(Commits) /\ Commits \in SUBSET Int /\ Commits # {}
  <2>1. MaxEdits \in Nat /\ 0 \in Int
    BY ConstantsAssumption
  <2>2. IsFiniteSet(0 .. MaxEdits)
    BY <2>1, FS_Interval
  <2>3. IsFiniteSet(Commits)
    BY <2>2, FS_Subset
  <2> QED BY <1>2, <2>1, <2>3
<1>4. PICK c \in Commits : \A d \in Commits : c >= d
  BY <1>3, LeastAndGreatest
<1> DEFINE Top == {i \in U : C(i) = c}
<1>5. IsFiniteSet(Top) /\ Top \in SUBSET Int /\ Top # {}
  <2>1. IsFiniteSet(1 .. Len(log[l].updates))
    <3> DEFINE n == Len(log[l].updates)
    <3>1. n \in Int /\ 1 \in Int
      BY <1>1
    <3> HIDE DEF n
    <3>2. IsFiniteSet(1 .. n)
      BY <3>1, FS_Interval
    <3> QED BY <3>2 DEF n
  <2>2. Top \in SUBSET (1 .. Len(log[l].updates))
    BY <1>1
  <2>3. IsFiniteSet(Top)
    BY <2>1, <2>2, FS_Subset
  <2> QED BY <1>4, <2>2, <2>3
<1>6. PICK i \in Top : \A j \in Top : i >= j
  BY <1>5, LeastAndGreatest
<1>7. i \in U /\ \A j \in U : C(j) < C(i) \/ (C(j) = C(i) /\ j <= i)
  <2>1. SUFFICES ASSUME NEW j \in U PROVE C(j) < C(i) \/ (C(j) = C(i) /\ j <= i)
    BY <1>6
  <2>2. C(j) \in Commits /\ C(j) \in Int /\ C(i) = c /\ c \in Int
    BY <1>2, <1>3, <1>6
  <2>3. C(j) <= c
    BY <1>4, <2>2
  <2>4. CASE C(j) = c
    <3>1. i >= j /\ i \in Int /\ j \in Int
      BY <1>5, <1>6, <2>4
    <3> QED BY <2>2, <2>4, <3>1
  <2> QED BY <2>2, <2>3, <2>4
<1>8. \E k \in U : \A j \in U : C(j) < C(k) \/ (C(j) = C(k) /\ j <= k)
  BY <1>7
<1> HIDE DEF U
<1>9. LastUpdate(l, r) = CHOOSE k \in U : \A j \in U : C(j) < C(k) \/ (C(j) = C(k) /\ j <= k)
  BY DEF LastUpdate, U
<1>10. LastUpdate(l, r) \in U /\ \A j \in U : \/ C(j) < C(LastUpdate(l, r))
                                              \/ C(j) = C(LastUpdate(l, r)) /\ j <= LastUpdate(l, r)
  BY <1>8, <1>9
<1> QED BY <1>10 DEF U

\* Replaying never changes the identity of a feature, nor anything of one that is
\* not in the lookup.
LEMMA ReplayTypes ==
    ASSUME NEW l \in Layers, LayerTypeOK(l)
    PROVE  /\ DOMAIN WithValues(l) = DOMAIN remote[l]
           /\ WithValues(l) \in [DOMAIN remote[l] -> Features]
           /\ \A r \in DOMAIN remote[l] :
                 /\ WithValues(l)[r].who = remote[l][r].who
                 /\ r \notin Known(l) => WithValues(l)[r] = remote[l][r]
           /\ DOMAIN WithoutRemoved(l) = DOMAIN remote[l] \ {RemoteFid(l, f) : f \in log[l].removed}
           /\ \A r \in DOMAIN WithoutRemoved(l) : WithoutRemoved(l)[r] = WithValues(l)[r]
           /\ \A r \in DOMAIN remote[l] : r \notin Known(l) => r \in DOMAIN WithoutRemoved(l)
<1>1. ASSUME NEW r \in DOMAIN remote[l], NEW f, RemoteFid(l, f) = r
      PROVE  r \in Known(l)
  <2>1. r \in Nat /\ FirstFid(fids[l], f) = r /\ fids[l] \in Seq(Rows)
    BY <1>1, LayerTypes, LookupByRows
  <2> QED BY <2>1, FidType DEF Known
<1>2. ASSUME NEW r \in DOMAIN remote[l], UpdatesOf(l, r) # {}
      PROVE  /\ r \in Known(l)
             /\ log[l].updates[LastUpdate(l, r)].val \in Values
  <2>1. LastUpdate(l, r) \in UpdatesOf(l, r)
    BY <1>2, LastExists
  <2>2. /\ LastUpdate(l, r) \in DOMAIN log[l].updates
        /\ RemoteFid(l, log[l].updates[LastUpdate(l, r)].fid) = r
    BY <2>1 DEF UpdatesOf
  <2> QED BY <1>1, <2>2, LayerTypes
<1>3. /\ DOMAIN WithValues(l) = DOMAIN remote[l]
      /\ WithValues(l) \in [DOMAIN remote[l] -> Features]
      /\ \A r \in DOMAIN remote[l] :
            /\ WithValues(l)[r].who = remote[l][r].who
            /\ r \notin Known(l) => WithValues(l)[r] = remote[l][r]
  <2>1. CASE log[l].updates = <<>>
    <3>1. WithValues(l) = remote[l]
      BY <2>1 DEF WithValues
    <3> QED BY <3>1 DEF LayerTypeOK
  <2>2. CASE log[l].updates # <<>>
    <3>1. WithValues(l) = [r \in DOMAIN remote[l] |->
             IF UpdatesOf(l, r) = {} THEN remote[l][r]
             ELSE [remote[l][r] EXCEPT !.val = log[l].updates[LastUpdate(l, r)].val]]
      BY <2>2 DEF WithValues
    <3>2. ASSUME NEW r \in DOMAIN remote[l]
          PROVE  /\ WithValues(l)[r] \in Features /\ WithValues(l)[r].who = remote[l][r].who
                 /\ r \notin Known(l) => WithValues(l)[r] = remote[l][r]
      <4>1. remote[l][r] \in Features
        BY LayerTypes
      <4>2. CASE UpdatesOf(l, r) = {}
        BY <3>1, <4>1, <4>2
      <4>3. CASE UpdatesOf(l, r) # {}
        <5>1. WithValues(l)[r] = [remote[l][r] EXCEPT !.val = log[l].updates[LastUpdate(l, r)].val]
          BY <3>1, <4>3
        <5> QED BY <1>2, <4>1, <4>3, <5>1 DEF Features
      <4> QED BY <4>2, <4>3
    <3> QED BY <3>1, <3>2
  <2> QED BY <2>1, <2>2
<1>4. /\ DOMAIN WithoutRemoved(l) = DOMAIN remote[l] \ {RemoteFid(l, f) : f \in log[l].removed}
      /\ \A r \in DOMAIN WithoutRemoved(l) : WithoutRemoved(l)[r] = WithValues(l)[r]
  BY DEF WithoutRemoved, Restrict
<1>5. \A r \in DOMAIN remote[l] : r \notin Known(l) => r \in DOMAIN WithoutRemoved(l)
  BY <1>1, <1>4
<1> QED BY <1>3, <1>4, <1>5

LEMMA SameFeature ==
    ASSUME NEW a \in Features, NEW b \in Features, a.who = b.who, a.val = b.val
    PROVE  a = b
  BY DEF Features

\* Where nothing worse has happened than that features were added twice, the replay
\* is possible, and gives each feature that is paired the value it has offline.
LEMMA ReplayFits ==
    ASSUME NEW l \in Layers, LayerTypeOK(l), LayerInv(l), Mild(l), commitNo \in Nat
    PROVE  /\ ~SyncError(l)
           /\ \A f \in DOMAIN table[l] : Updated(l, f) =>
                 /\ f \in Mapped(l) /\ RemoteFid(l, f) \in DOMAIN remote[l]
                 /\ WithValues(l)[RemoteFid(l, f)] = table[l][f]
           /\ \A i \in DOMAIN fids[l] :
                 fids[l][i].offline \in DOMAIN table[l] /\ fids[l][i].remote \in DOMAIN remote[l] =>
                    /\ fids[l][i].remote \in DOMAIN WithoutRemoved(l)
                    /\ ~Updated(l, fids[l][i].offline) =>
                          WithValues(l)[fids[l][i].remote] = remote[l][fids[l][i].remote]
<1>1. /\ log[l].removed \subseteq Mapped(l) \ DOMAIN table[l]
      /\ \A f \in 1 .. MaxFid : Updated(l, f) => f \in Mapped(l) \ Contents(log[l].added)
      /\ \A i \in DOMAIN log[l].updates : log[l].updates[i].commit < commitNo
      /\ \A i, j \in DOMAIN log[l].updates :
            i < j => log[l].updates[i].commit <= log[l].updates[j].commit
  BY DEF LayerInv, LogFits
<1>2. /\ Mapped(l) = Offlines(fids[l]) /\ fids[l] \in Seq(Rows)
      /\ \A f : RemoteFid(l, f) = FirstFid(fids[l], f)
      /\ \A i, j \in DOMAIN fids[l] : fids[l][i].remote = fids[l][j].remote => i = j
  BY LookupByRows, LayerTypes DEF LayerInv, InOrder
<1>3. \A f \in Mapped(l) : RemoteFid(l, f) \in Nat /\ RemoteFid(l, f) # Unknown
  BY <1>2, FidType, ConstantsAssumption
<1>4. \A i \in DOMAIN log[l].updates :
          /\ log[l].updates[i].fid \in Mapped(l) /\ log[l].updates[i].fid \in 1 .. MaxFid
          /\ Updated(l, log[l].updates[i].fid)
  BY <1>1, LayerTypes DEF Updated
<1>5. ~SyncError(l)
  BY <1>1, <1>3, <1>4 DEF SyncError, UpdatesOf
<1>6. \A f, g \in Mapped(l) : RemoteFid(l, f) = RemoteFid(l, g) => f = g
  BY <1>2, FidOnce
<1>7. ASSUME NEW f \in DOMAIN table[l], Updated(l, f)
      PROVE  /\ f \in Mapped(l) /\ RemoteFid(l, f) \in DOMAIN remote[l]
             /\ WithValues(l)[RemoteFid(l, f)] = table[l][f]
  <2> DEFINE r == RemoteFid(l, f)
  <2>1. f \in Mapped(l) /\ f \notin Contents(log[l].added)
    BY <1>1, <1>7, LayerTypes
  <2>2. r \in DOMAIN remote[l] /\ LastLogged(l, f)
    BY <1>7, <2>1 DEF LayerInv, Stored
  <2>3. PICK i \in DOMAIN log[l].updates :
           /\ log[l].updates[i].fid = f /\ log[l].updates[i].val = table[l][f].val
           /\ \A j \in DOMAIN log[l].updates : log[l].updates[j].fid = f => j <= i
    BY <2>2 DEF LastLogged
  <2>4. UpdatesOf(l, r) = {j \in DOMAIN log[l].updates : log[l].updates[j].fid = f}
    BY <1>1, <1>4, <1>6, <2>1 DEF UpdatesOf
  <2> DEFINE k == LastUpdate(l, r)
  <2>5. /\ k \in DOMAIN log[l].updates /\ log[l].updates[k].fid = f
        /\ \/ log[l].updates[i].commit < log[l].updates[k].commit
           \/ log[l].updates[i].commit = log[l].updates[k].commit /\ i <= k
    BY <2>3, <2>4, LastExists
  <2> HIDE DEF r, k
  <2>6. k = i
    <3>1. k \in Int /\ i \in Int /\ k <= i
      BY <2>3, <2>5, LayerTypes
    <3>2. k < i => log[l].updates[k].commit <= log[l].updates[i].commit
      BY <1>1, <2>5
    <3>3. log[l].updates[k].commit \in Nat /\ log[l].updates[i].commit \in Nat
      BY <2>5, LayerTypes
    <3> QED BY <2>5, <3>1, <3>2, <3>3
  <2>7. WithValues(l)[r] = [remote[l][r] EXCEPT !.val = table[l][f].val]
    <3>1. log[l].updates # <<>> /\ UpdatesOf(l, r) # {}
      BY <2>3, <2>4
    <3> QED BY <2>2, <2>3, <2>6, <3>1 DEF WithValues, r, k
  <2>8. remote[l][r] \in Features /\ table[l][f] \in Features
    BY <2>2, LayerTypes DEF r
  <2>9. remote[l][r].who = table[l][f].who
    <3>1. PICK m \in DOMAIN fids[l] : fids[l][m].offline = f /\ r = fids[l][m].remote
      BY <1>2, <2>1, FirstRow DEF r
    <3> QED BY <2>2, <3>1 DEF LayerInv, PairsSound, Mild, r
  <2>10. WithValues(l)[r] \in Features /\ WithValues(l)[r].val = table[l][f].val
         /\ WithValues(l)[r].who = table[l][f].who
    BY <2>7, <2>8, <2>9 DEF Features
  <2> QED BY <2>1, <2>2, <2>8, <2>10, SameFeature DEF r
<1>8. ASSUME NEW i \in DOMAIN fids[l], fids[l][i].offline \in DOMAIN table[l],
             fids[l][i].remote \in DOMAIN remote[l]
      PROVE  /\ fids[l][i].remote \in DOMAIN WithoutRemoved(l)
             /\ ~Updated(l, fids[l][i].offline) =>
                   WithValues(l)[fids[l][i].remote] = remote[l][fids[l][i].remote]
  <2>1. \A g \in Mapped(l) : RemoteFid(l, g) = fids[l][i].remote => g = fids[l][i].offline
    BY <1>2, FidOnce
  <2>2. fids[l][i].remote \in DOMAIN WithoutRemoved(l)
    <3>1. DOMAIN WithoutRemoved(l) = DOMAIN remote[l] \ {RemoteFid(l, f) : f \in log[l].removed}
      BY ReplayTypes
    <3>2. SUFFICES ASSUME NEW g \in log[l].removed, RemoteFid(l, g) = fids[l][i].remote PROVE FALSE
      BY <1>8, <3>1
    <3>3. g \in Mapped(l) /\ g \notin DOMAIN table[l]
      BY <1>1
    <3> QED BY <1>8, <2>1, <3>2, <3>3
  <2>3. ASSUME ~Updated(l, fids[l][i].offline)
        PROVE  WithValues(l)[fids[l][i].remote] = remote[l][fids[l][i].remote]
    <3>1. UpdatesOf(l, fids[l][i].remote) = {}
      BY <1>4, <2>1, <2>3 DEF UpdatesOf
    <3> QED BY <1>8, <3>1 DEF WithValues
  <2> QED BY <2>2, <2>3
<1> QED BY <1>5, <1>7, <1>8

-----------------------------------------------------------------------------
(* Steps that leave a layer alone *)

\* A step may leave the stored state of a layer alone ...
Same(l) ==
    /\ table'[l] = table[l] /\ remote'[l] = remote[l] /\ nextId'[l] = nextId[l]
    /\ fids'[l] = fids[l] /\ log'[l] = log[l]

\* ... and its synchronisation where it is, or stop it before features were added
\* or after their ids were looked up.
StopsWell(l) ==
    \/ sync' = sync
    \/ /\ ~At(l, {"lookup", "added", "removed", "updates"})'
       /\ At(l, {"lookup", "added"}) => log[l].added = <<>> \/ lost'[l] # {}

LEMMA LayerUntouched ==
    ASSUME NEW l \in Layers, LayerTypeOK(l), LayerInv(l), Same(l), StopsWell(l),
           lost[l] \subseteq lost'[l], lost'[l] \subseteq Harms, commitNo \in Nat, commitNo' \in Nat,
           commitNo' >= commitNo \/ log[l].updates = <<>> \/ ~Mild(l)'
    PROVE  LayerTypeOK(l)' /\ LayerInv(l)'
<1>1. LayerTypeOK(l)'
  BY DEF LayerTypeOK, Same
<1>2. /\ Mapped(l)' = Mapped(l) /\ Known(l)' = Known(l)
      /\ \A f : RemoteFid(l, f)' = RemoteFid(l, f)
  BY DEF Mapped, Known, RemoteFid, Same
<1>3. \A f : /\ Updated(l, f)' <=> Updated(l, f)
             /\ LastLogged(l, f)' <=> LastLogged(l, f)
             /\ OnServer(l, f)' <=> OnServer(l, f)
  BY DEF Updated, LastLogged, OnServer, Same
<1>4. /\ Mild(l)' => Mild(l)
      /\ lost'[l] = {} => lost[l] = {}
  BY DEF Mild
<1>5. /\ At(l, {"lookup"})' => At(l, {"lookup"})
      /\ At(l, {"added"})' => At(l, {"added"})
      /\ At(l, {"lookup", "added", "removed"})' => At(l, {"lookup", "added", "removed"})
      /\ At(l, {"lookup", "added", "removed", "updates"})' => At(l, {"lookup", "added", "removed", "updates"})
  BY DEF StopsWell, At
<1>6. ASSUME lost'[l] = {}
      PROVE  /\ ~At(l, {"added"})' => ~At(l, {"added"}) \/ log[l].added = <<>>
             /\ ~At(l, {"lookup"})' => ~At(l, {"lookup"}) \/ log[l].added = <<>>
  BY <1>6 DEF StopsWell, At
<1>7. InOrder(l)'
  BY DEF LayerInv, InOrder, Same
<1>8. Pending(l)'
  <2>1. SUFFICES ASSUME At(l, {"lookup"})', "unlogged" \notin lost'[l] PROVE Pending(l)'
    BY DEF Pending
  <2>2. At(l, {"lookup"}) /\ "unlogged" \notin lost[l]
    BY <1>5, <2>1
  <2> QED BY <1>2, <1>4, <2>2 DEF LayerInv, Pending, Same
<1>9. PairsSound(l)'
  BY DEF LayerInv, PairsSound, Same
<1>10. LogFits(l)'
  <2>1. SUFFICES ASSUME Mild(l)' PROVE LogFits(l)'
    BY DEF LogFits
  <2>2. ASSUME NEW i \in DOMAIN log[l].updates
        PROVE  log[l].updates[i].commit < commitNo'
    <3>1. log[l].updates # <<>> /\ log[l].updates[i].commit < commitNo
      BY <1>4, <2>1 DEF LayerInv, LogFits
    <3>2. log[l].updates[i].commit \in Nat
      BY LayerTypes
    <3> QED BY <2>1, <3>1, <3>2
  <2> QED BY <1>2, <1>3, <1>4, <1>5, <2>1, <2>2 DEF LayerInv, LogFits, Same
<1>11. Stored(l)'
  BY <1>2, <1>3, <1>4, <1>5 DEF LayerInv, Stored, Same
<1>12. Replayed(l)'
  BY <1>2, <1>3, <1>4, <1>5 DEF LayerInv, Replayed, Same
<1>13. PairedOnce(l)'
  <2>1. SUFFICES ASSUME lost'[l] = {} PROVE PairedOnce(l)'
    BY DEF PairedOnce
  <2>2. lost[l] = {} /\ PairedOnce(l) /\ Pending(l)
    BY <1>4, <2>1 DEF LayerInv
  <2>3. ~At(l, {"added"})' => Contents(log[l].added) \intersect Mapped(l) = {}
    BY <1>6, <2>1, <2>2 DEF PairedOnce, Contents
  <2>4. ASSUME ~At(l, {"lookup"})', NEW r \in DOMAIN remote[l], IsMine(remote[l][r])
        PROVE  r \in Known(l)
    <3>1. CASE ~At(l, {"lookup"})
      BY <2>2, <2>4, <3>1 DEF PairedOnce
    <3>2. CASE At(l, {"lookup"}) /\ log[l].added = <<>>
      BY <2>2, <2>4, <3>2 DEF Pending
    <3> QED BY <1>6, <2>1, <2>4, <3>1, <3>2
  <2> QED BY <1>2, <2>2, <2>3, <2>4 DEF PairedOnce, Same
<1> QED BY <1>1, <1>7, <1>8, <1>9, <1>10, <1>11, <1>12, <1>13 DEF LayerInv

\* Once an edit was not logged, little is left to say of a layer.
LEMMA Unlogged ==
    ASSUME NEW l \in Layers, LayerInv(l), fids'[l] = fids[l], "unlogged" \in lost'[l],
           \A f \in DOMAIN table'[l] : IsMine(table'[l][f])
    PROVE  LayerInv(l)'
<1>1. ~Mild(l)' /\ lost'[l] # {} /\ lost'[l] \intersect {"unlogged", "reused"} # {}
  BY DEF Mild
<1> QED BY <1>1 DEF LayerInv, InOrder, Pending, PairsSound, LogFits, Stored, Replayed, PairedOnce

\* What the slots make of a log.
LEMMA LogProperties ==
    ASSUME NEW l \in Layers, DOMAIN log = Layers, DOMAIN lost = Layers, NEW logged, NEW harm, Log(l, logged, harm)
    PROVE  /\ lost'[l] = lost[l] \union (IF project.entry THEN harm ELSE harm \union {"unlogged"})
           /\ log'[l] = IF project.entry THEN logged ELSE log[l]
           /\ \A k \in Layers \ {l} : log'[k] = log[k] /\ lost'[k] = lost[k]
           /\ DOMAIN log' = Layers /\ DOMAIN lost' = Layers
<1>1. CASE project.entry
  BY <1>1 DEF Log
<1>2. CASE ~project.entry
  BY <1>2 DEF Log
<1> QED BY <1>1, <1>2

-----------------------------------------------------------------------------
(* The user commits edits *)

Maps ==
    /\ DOMAIN table = Layers /\ DOMAIN remote = Layers /\ DOMAIN nextId = Layers
    /\ DOMAIN fids = Layers /\ DOMAIN log = Layers /\ DOMAIN lost = Layers
    /\ DOMAIN buffer = Layers

LEMMA ImageFinite ==
    ASSUME NEW f, IsFiniteSet(DOMAIN f), f = [x \in DOMAIN f |-> f[x]]
    PROVE  IsFiniteSet({f[x] : x \in DOMAIN f})
<1> DEFINE T == {f[x] : x \in DOMAIN f}
<1>1. f \in Surjection(DOMAIN f, T)
  BY DEF Surjection
<1> QED BY <1>1, FS_Surjection

LEMMA ValuesExist == Default \in Values
<1>1. Values # {}
  BY ConstantsAssumption, FS_EmptySet
<1> QED BY <1>1 DEF Default

\* New rows have ids above those in use, and features identities of their own.
LEMMA NewRows ==
    ASSUME NEW l \in Layers, LayerTypeOK(l)
    PROVE  /\ NextRow(l) \in Nat \ {0} /\ \A f \in DOMAIN table[l] : f < NextRow(l)
           /\ \A k \in Nat \ {0} : NewIdentity(l, k) \in Nat \ {0}
<1>1. /\ IsFiniteSet(DOMAIN table[l]) /\ DOMAIN table[l] \subseteq Nat
      /\ IsFiniteSet(DOMAIN remote[l]) /\ DOMAIN remote[l] \subseteq Nat
  <2>1. MaxFid \in Nat /\ nextId[l] \in Nat /\ nextId[l] - 1 \in Int /\ 0 \in Int /\ 1 \in Int
    BY ConstantsAssumption DEF LayerTypeOK
  <2>2. IsFiniteSet(1 .. MaxFid)
    BY <2>1, FS_Interval
  <2>3. IsFiniteSet(0 .. nextId[l] - 1)
    <3> DEFINE n == nextId[l] - 1
    <3>1. n \in Int
      BY <2>1
    <3> HIDE DEF n
    <3>2. IsFiniteSet(0 .. n)
      BY <2>1, <3>1, FS_Interval
    <3> QED BY <3>2 DEF n
  <2>4. DOMAIN table[l] \subseteq 1 .. MaxFid /\ DOMAIN remote[l] \subseteq 0 .. nextId[l] - 1
    BY DEF LayerTypeOK
  <2> QED BY <2>1, <2>2, <2>3, <2>4, FS_Subset
<1>2. /\ NextRow(l) \in Nat \ {0} /\ \A f \in DOMAIN table[l] : f < NextRow(l)
  <2> DEFINE ids == DOMAIN table[l] \union {0}
  <2>1. IsFiniteSet(ids) /\ ids \in SUBSET Int /\ ids # {} /\ ids \subseteq Nat
    <3>1. IsFiniteSet({0})
      BY FS_Singleton
    <3>2. IsFiniteSet(ids)
      BY <1>1, <3>1, FS_Union
    <3> QED BY <1>1, <3>2
  <2> HIDE DEF ids
  <2>2. Max(ids) \in ids /\ \A i \in ids : Max(ids) >= i
    BY <2>1, MaxProperties
  <2>3. NextRow(l) = Max(ids) + 1 /\ \A f \in DOMAIN table[l] : f \in ids
    BY DEF NextRow, ids
  <2>4. Max(ids) \in Nat /\ \A f \in DOMAIN table[l] : f \in Nat /\ Max(ids) >= f
    BY <2>1, <2>2, <2>3
  <2> HIDE DEF Max
  <2> QED BY <2>3, <2>4
<1>3. ASSUME NEW k \in Nat \ {0}
      PROVE  NewIdentity(l, k) \in Nat \ {0}
  <2> DEFINE offline == {table[l][f].who : f \in DOMAIN table[l]}
             online == {remote[l][r].who : r \in DOMAIN remote[l]}
             ids == (offline \union online) \union {Theirs}
  <2>1. IsFiniteSet(offline) /\ offline \subseteq Nat
    <3> DEFINE who == [f \in DOMAIN table[l] |-> table[l][f].who]
    <3>1. IsFiniteSet(offline)
      <4>1. IsFiniteSet({who[f] : f \in DOMAIN who})
        BY <1>1, ImageFinite
      <4> QED BY <4>1
    <3> QED BY <3>1, LayerTypes DEF Features
  <2>2. IsFiniteSet(online) /\ online \subseteq Nat
    <3> DEFINE who == [r \in DOMAIN remote[l] |-> remote[l][r].who]
    <3>1. IsFiniteSet(online)
      <4>1. IsFiniteSet({who[r] : r \in DOMAIN who})
        BY <1>1, ImageFinite
      <4> QED BY <4>1
    <3> QED BY <3>1, LayerTypes
  <2>3. Identities(l) = ids
    BY DEF Identities
  <2> HIDE DEF offline, online
  <2>4. IsFiniteSet(ids) /\ ids \in SUBSET Int /\ ids # {} /\ ids \subseteq Nat
    <3>1. IsFiniteSet({Theirs})
      BY FS_Singleton
    <3>2. IsFiniteSet(offline \union online)
      BY <2>1, <2>2, FS_Union
    <3>3. IsFiniteSet(ids)
      BY <3>1, <3>2, FS_Union
    <3> QED BY <2>1, <2>2, <3>3 DEF Theirs
  <2> HIDE DEF ids
  <2>5. Max(ids) \in Nat
    BY <2>4, MaxProperties
  <2> QED BY <2>3, <2>5 DEF NewIdentity
<1> QED BY <1>2, <1>3

\* Features added: they are logged, and no row of log_fids is of their ids unless
\* an id was reused.
LEMMA AddedOwn ==
    ASSUME NEW l \in Layers, NEW n \in 1 .. MaxFid, Maps, LayerTypeOK(l), LayerInv(l), commitNo \in Nat,
           CommittedFeaturesAdded(l, n)
    PROVE  LayerTypeOK(l)' /\ LayerInv(l)'
<1> DEFINE a == NextRow(l)
           new == [i \in 1 .. n |-> a + i - 1]
           made == [f \in Contents(new) |-> [who |-> NewIdentity(l, f - a + 1), val |-> Default]]
           harm == IF Contents(new) \intersect Mapped(l) = {} THEN {} ELSE {"reused"}
           logged == [log[l] EXCEPT !.added = @ \o new]
<1>1. a \in Nat \ {0} /\ n \in Nat \ {0} /\ MaxFid \in Nat /\ \A f \in DOMAIN table[l] : f < a
  BY NewRows, ConstantsAssumption
<1>2. /\ sync = Idle /\ sync' = sync /\ a + n - 1 <= MaxFid /\ Log(l, logged, harm)
      /\ table' = [table EXCEPT ![l] = Inserted(@, made)]
      /\ remote' = remote /\ nextId' = nextId /\ fids' = fids /\ commitNo' = commitNo
  BY <1>1 DEF CommittedFeaturesAdded, CanCommit
<1> HIDE DEF a
<1>3. new \in Seq(1 .. MaxFid) /\ Len(new) = n /\ DOMAIN new = 1 .. n /\ Contents(new) = a .. a + n - 1
  <2>1. \A i \in 1 .. n : a + i - 1 \in 1 .. MaxFid
    BY <1>1, <1>2
  <2>2. new \in [1 .. n -> 1 .. MaxFid]
    BY <2>1
  <2>3. \A f \in a .. a + n - 1 : f - a + 1 \in 1 .. n /\ f = a + (f - a + 1) - 1
    BY <1>1
  <2>4. a .. a + n - 1 \subseteq Contents(new)
    <3>1. \A f \in a .. a + n - 1 : f = new[f - a + 1] /\ f - a + 1 \in DOMAIN new
      BY <2>3
    <3> HIDE DEF new
    <3> QED BY <3>1 DEF Contents
  <2>5. Contents(new) \subseteq a .. a + n - 1
    <3>1. \A i \in 1 .. n : new[i] \in a .. a + n - 1 /\ DOMAIN new = 1 .. n
      BY <1>1
    <3>2. DOMAIN new = 1 .. n
      OBVIOUS
    <3> HIDE DEF new
    <3> QED BY <3>1, <3>2 DEF Contents
  <2>6. DOMAIN new = 1 .. n
    OBVIOUS
  <2> HIDE DEF new
  <2>7. new \in Seq(1 .. MaxFid) /\ Len(new) = n
    BY <1>1, <2>2, <2>6
  <2> QED BY <2>4, <2>5, <2>6, <2>7
<1>4. \A f \in Contents(new) : made[f] \in Features /\ IsMine(made[f])
  <2>1. SUFFICES ASSUME NEW f \in a .. a + n - 1
                 PROVE  made[f] \in Features /\ IsMine(made[f])
    BY <1>3
  <2>2. f - a + 1 \in Nat \ {0}
    BY <1>1
  <2>3. NewIdentity(l, f - a + 1) \in Nat \ {0}
    BY <2>2, NewRows
  <2>4. made[f] = [who |-> NewIdentity(l, f - a + 1), val |-> Default]
    BY <1>3
  <2> QED BY <2>3, <2>4, ValuesExist DEF Features, IsMine, Theirs
<1> HIDE DEF made
<1>5. /\ DOMAIN table'[l] = Contents(new) \union DOMAIN table[l]
      /\ \A f \in DOMAIN table'[l] : table'[l][f] = IF f \in Contents(new) THEN made[f] ELSE table[l][f]
      /\ \A f \in DOMAIN table[l] : f \notin Contents(new)
      /\ Contents(new) \subseteq 1 .. MaxFid
  <2>1. table'[l] = Inserted(table[l], made) /\ DOMAIN made = Contents(new)
    BY <1>2 DEF Maps, made
  <2>2. \A f \in DOMAIN table[l] : f \notin Contents(new)
    <3>1. \A f \in DOMAIN table[l] : f \in Nat /\ f < a
      BY <1>1 DEF LayerTypeOK
    <3> QED BY <1>1, <1>3, <3>1
  <2>3. Contents(new) \subseteq 1 .. MaxFid
    <3> HIDE DEF new
    <3> QED BY <1>1, <1>2, <1>3
  <2> HIDE DEF new
  <2>4. table'[l] = [f \in DOMAIN table[l] \union Contents(new) |->
                       IF f \in Contents(new) THEN made[f] ELSE table[l][f]]
    BY <2>1 DEF Inserted
  <2> QED BY <2>2, <2>3, <2>4
<1>6. table'[l] = [f \in DOMAIN table'[l] |-> table'[l][f]]
  <2>1. table'[l] = Inserted(table[l], made)
    BY <1>2 DEF Maps
  <2> QED BY <2>1 DEF Inserted
<1>7. /\ lost'[l] = lost[l] \union (IF project.entry THEN harm ELSE harm \union {"unlogged"})
      /\ log'[l] = IF project.entry THEN logged ELSE log[l]
  <2> HIDE DEF logged, harm
  <2> QED BY <1>2, LogProperties DEF Maps
<1> DEFINE added == log[l].added \o new
<1>8. /\ log[l].added \in Seq(1 .. MaxFid) /\ added \in Seq(1 .. MaxFid)
      /\ Contents(added) = Contents(log[l].added) \union Contents(new)
      /\ DOMAIN added = 1 .. Len(log[l].added) + n /\ Len(log[l].added) \in Nat
      /\ DOMAIN log[l].added = 1 .. Len(log[l].added)
      /\ \A i \in 1 .. Len(log[l].added) : added[i] = log[l].added[i]
      /\ \A i \in 1 .. n : added[Len(log[l].added) + i] = a + i - 1
  <2>1. log[l].added \in Seq(1 .. MaxFid)
    BY LayerTypes
  <2> DEFINE s == log[l].added
  <2> HIDE DEF s
  <2>2. s \in Seq(1 .. MaxFid) /\ Len(s) \in Nat /\ DOMAIN s = 1 .. Len(s)
    BY <2>1 DEF s
  <2>3. /\ s \o new \in Seq(1 .. MaxFid) /\ DOMAIN (s \o new) = 1 .. Len(s) + n
        /\ \A i \in 1 .. Len(s) : (s \o new)[i] = s[i]
        /\ \A i \in 1 .. n : (s \o new)[Len(s) + i] = new[i]
    <3> HIDE DEF new
    <3>1. new \in Seq(1 .. MaxFid) /\ Len(new) = n
      BY <1>3
    <3>2. /\ s \o new \in Seq(1 .. MaxFid) /\ Len(s \o new) = Len(s) + n
          /\ \A i \in 1 .. Len(s) + n :
                (s \o new)[i] = IF i <= Len(s) THEN s[i] ELSE new[i - Len(s)]
      BY <2>2, <3>1, ConcatProperties
    <3>3. \A i \in 1 .. Len(s) : i \in 1 .. Len(s) + n /\ i <= Len(s)
      BY <1>1, <2>2
    <3>4. \A i \in 1 .. n : /\ Len(s) + i \in 1 .. Len(s) + n /\ ~(Len(s) + i <= Len(s))
                            /\ Len(s) + i - Len(s) = i
      BY <1>1, <2>2
    <3>5. DOMAIN (s \o new) = 1 .. Len(s) + n
      BY <3>2
    <3>6. \A i \in 1 .. n : (s \o new)[Len(s) + i] = new[i]
      BY <3>2, <3>4
    <3> QED BY <3>2, <3>3, <3>5, <3>6
  <2>4. Contents(s \o new) = Contents(s) \union Contents(new)
    <3> DEFINE t == s \o new
    <3> HIDE DEF new, t
    <3>1. ASSUME NEW i \in 1 .. Len(s) + n
          PROVE  t[i] \in Contents(s) \union Contents(new)
      <4>1. CASE i \in 1 .. Len(s)
        BY <2>2, <2>3, <4>1 DEF Contents, t
      <4>2. CASE i \notin 1 .. Len(s)
        <5>1. i - Len(s) \in 1 .. n /\ i = Len(s) + (i - Len(s))
          BY <1>1, <2>2, <4>2
        <5>2. t[i] = new[i - Len(s)]
          BY <2>3, <5>1 DEF t
        <5> QED BY <1>3, <5>1, <5>2 DEF Contents
      <4> QED BY <4>1, <4>2
    <3>2. \A i \in 1 .. Len(s) : i \in 1 .. Len(s) + n
      BY <1>1, <2>2
    <3>3. \A i \in 1 .. n : Len(s) + i \in 1 .. Len(s) + n
      BY <1>1, <2>2
    <3>4. Contents(s) \subseteq Contents(t)
      BY <2>2, <2>3, <3>2 DEF Contents, t
    <3>5. Contents(new) \subseteq Contents(t)
      BY <1>3, <2>3, <3>3 DEF Contents, t
    <3>6. Contents(t) \subseteq Contents(s) \union Contents(new)
      BY <2>3, <3>1 DEF Contents, t
    <3> QED BY <3>4, <3>5, <3>6 DEF t
  <2> QED BY <2>1, <2>2, <2>3, <2>4 DEF s
<1>9. /\ logged.added = added /\ logged.removed = log[l].removed /\ logged.updates = log[l].updates
      /\ logged \in [added : Seq(1 .. MaxFid), removed : SUBSET (1 .. MaxFid), updates : Seq(Updates)]
  <2>1. log[l] \in [added : Seq(1 .. MaxFid), removed : SUBSET (1 .. MaxFid), updates : Seq(Updates)]
    BY DEF LayerTypeOK
  <2> HIDE DEF new
  <2> QED BY <1>8, <2>1
<1> HIDE DEF logged, added
<1>10. \A f \in DOMAIN table'[l] : table'[l][f] \in Features /\ IsMine(table'[l][f])
  BY <1>4, <1>5, LayerTypes DEF LayerInv, InOrder
<1>11. harm \subseteq {"reused"} /\ (harm = {} => Contents(new) \intersect Mapped(l) = {})
  OBVIOUS
<1> HIDE DEF harm
<1>12. LayerTypeOK(l)'
  <2>1. /\ table'[l] \in [DOMAIN table'[l] -> Features] /\ DOMAIN table'[l] \subseteq 1 .. MaxFid
    BY <1>5, <1>6, <1>10, LayerTypes
  <2>2. log'[l] \in [added : Seq(1 .. MaxFid), removed : SUBSET (1 .. MaxFid), updates : Seq(Updates)]
    BY <1>7, <1>9 DEF LayerTypeOK
  <2>3. lost'[l] \subseteq Harms
    BY <1>7, <1>11 DEF LayerTypeOK, Harms
  <2>4. "unlogged" \in lost'[l] \/ Contents(log'[l].added) \subseteq DOMAIN table'[l]
    BY <1>5, <1>7, <1>8, <1>9 DEF LayerTypeOK
  <2> QED BY <1>2, <2>1, <2>2, <2>3, <2>4 DEF LayerTypeOK
<1>13. CASE ~project.entry
  <2>1. "unlogged" \in lost'[l] /\ fids'[l] = fids[l] /\ \A f \in DOMAIN table'[l] : IsMine(table'[l][f])
    BY <1>2, <1>7, <1>10, <1>13
  <2> QED BY <1>12, <2>1, Unlogged
<1>14. CASE project.entry
  <2>1. /\ log'[l].added = added /\ log'[l].removed = log[l].removed /\ log'[l].updates = log[l].updates
        /\ lost'[l] = lost[l] \union harm
        /\ Mapped(l)' = Mapped(l) /\ Known(l)' = Known(l)
        /\ \A f : RemoteFid(l, f)' = RemoteFid(l, f)
    BY <1>2, <1>7, <1>9, <1>14 DEF Mapped, Known, RemoteFid
  <2>2. \A S : "idle" \notin S => ~At(l, S) /\ ~At(l, S)'
    BY <1>2 DEF At, Idle
  <2>3. /\ Mild(l)' => Mild(l) /\ Contents(new) \intersect Mapped(l) = {}
        /\ lost'[l] = {} => lost[l] = {} /\ Mild(l)'
    BY <1>11, <2>1 DEF Mild
  <2>4. ASSUME NEW f \in DOMAIN table[l]
        PROVE  /\ LastLogged(l, f) => LastLogged(l, f)'
               /\ OnServer(l, f) => OnServer(l, f)'
               /\ table'[l][f] = table[l][f] /\ f \in DOMAIN table'[l] /\ f \notin Contents(new)
    <3>1. table'[l][f] = table[l][f] /\ f \in DOMAIN table'[l] /\ f \notin Contents(new)
      BY <1>5
    <3> QED BY <1>2, <2>1, <3>1 DEF LastLogged, OnServer
  <2>5. \A f : Updated(l, f)' <=> Updated(l, f)
    BY <2>1 DEF Updated
  <2>6. InOrder(l)'
    <3>1. ASSUME "unlogged" \notin lost[l],
                 NEW i \in DOMAIN added, NEW j \in DOMAIN added, i < j
          PROVE  added[i] < added[j]
      <4> DEFINE m == Len(log[l].added)
      <4>1. \A k \in 1 .. m : added[k] \in DOMAIN table[l]
        BY <1>8, <3>1 DEF LayerTypeOK, Contents
      <4>2. \A k, p \in 1 .. m : k < p => added[k] < added[p]
        BY <1>8, <3>1 DEF LayerInv, InOrder
      <4>3. \A k \in 1 .. m : added[k] \in Nat /\ added[k] < a
        BY <1>1, <4>1, LayerTypes
      <4>4. m \in Nat /\ i \in 1 .. m + n /\ j \in 1 .. m + n
        BY <1>8
      <4>5. \A k \in 1 .. m + n : k \notin 1 .. m => added[k] = a + (k - m) - 1
        <5>1. SUFFICES ASSUME NEW k \in 1 .. m + n, k \notin 1 .. m PROVE added[k] = a + (k - m) - 1
          OBVIOUS
        <5>2. k - m \in 1 .. n /\ k = m + (k - m)
          BY <1>1, <4>4, <5>1
        <5> QED BY <1>8, <5>2
      <4> HIDE DEF m
      <4>6. CASE j \in 1 .. m
        BY <3>1, <4>2, <4>4, <4>6
      <4>7. CASE i \in 1 .. m /\ j \notin 1 .. m
        <5>1. j - m >= 1
          BY <1>1, <4>4, <4>7
        <5> QED BY <1>1, <4>3, <4>4, <4>5, <4>7, <5>1
      <4>8. CASE i \notin 1 .. m /\ j \notin 1 .. m
        BY <1>1, <3>1, <4>4, <4>5, <4>8
      <4> QED BY <3>1, <4>4, <4>6, <4>7, <4>8
    <3> QED BY <1>2, <1>10, <2>1, <3>1 DEF LayerInv, InOrder
  <2>7. Pending(l)'
    BY <2>2 DEF Pending
  <2>8. PairsSound(l)'
    <3>1. ASSUME lost'[l] \intersect {"unlogged", "reused"} = {}, NEW i \in DOMAIN fids[l],
                 fids[l][i].offline \in DOMAIN table'[l], fids[l][i].remote \in DOMAIN remote[l]
          PROVE  remote[l][fids[l][i].remote].who = table'[l][fids[l][i].offline].who
      <4>1. harm = {} /\ lost[l] \intersect {"unlogged", "reused"} = {}
        BY <1>11, <2>1, <3>1
      <4>2. fids[l][i].offline \notin Contents(new)
        BY <1>11, <4>1 DEF Mapped
      <4>3. fids[l][i].offline \in DOMAIN table[l] /\ table'[l][fids[l][i].offline] = table[l][fids[l][i].offline]
        BY <1>5, <3>1, <4>2
      <4> QED BY <3>1, <4>1, <4>3 DEF LayerInv, PairsSound
    <3> QED BY <1>2, <2>1, <3>1 DEF LayerInv, PairsSound
  <2>9. LogFits(l)'
    <3>1. SUFFICES ASSUME Mild(l)' PROVE LogFits(l)'
      BY DEF LogFits
    <3>2. /\ log[l].removed \subseteq Mapped(l) \ DOMAIN table[l]
          /\ DOMAIN table[l] \subseteq Contents(log[l].added) \union Mapped(l)
          /\ \A f \in 1 .. MaxFid : Updated(l, f) => f \in Mapped(l) \ Contents(log[l].added)
      BY <2>3, <3>1 DEF LayerInv, LogFits
    <3>3. log[l].removed \subseteq Mapped(l) \ DOMAIN table'[l]
      BY <1>5, <2>3, <3>1, <3>2
    <3>4. DOMAIN table'[l] \subseteq Contents(added) \union Mapped(l)
      BY <1>5, <1>8, <3>2
    <3>5. \A f \in 1 .. MaxFid : Updated(l, f) => f \in Mapped(l) \ Contents(added)
      BY <1>8, <2>3, <3>1, <3>2
    <3> QED BY <1>2, <2>1, <2>2, <2>3, <2>5, <3>1, <3>3, <3>4, <3>5 DEF LayerInv, LogFits
  <2>10. Stored(l)'
    <3>1. SUFFICES ASSUME Mild(l)', NEW f \in DOMAIN table'[l]
          PROVE  /\ f \in Mapped(l) => RemoteFid(l, f) \in DOMAIN remote[l]
                 /\ f \notin Contents(added) =>
                       IF Updated(l, f) THEN LastLogged(l, f)' ELSE OnServer(l, f)'
      BY <1>2, <2>1, <2>2, <2>5 DEF Stored
    <3>2. CASE f \in Contents(new)
      BY <1>8, <2>3, <3>1, <3>2
    <3>3. CASE f \notin Contents(new)
      <4>1. f \in DOMAIN table[l] /\ (f \in Contents(added) <=> f \in Contents(log[l].added))
        BY <1>5, <1>8, <3>1, <3>3
      <4>2. /\ f \in Mapped(l) => RemoteFid(l, f) \in DOMAIN remote[l]
            /\ f \notin Contents(log[l].added) =>
                  IF Updated(l, f) THEN LastLogged(l, f) ELSE OnServer(l, f)
        BY <2>3, <3>1, <4>1 DEF LayerInv, Stored
      <4> QED BY <2>4, <4>1, <4>2
    <3> QED BY <3>2, <3>3
  <2>11. Replayed(l)'
    BY <2>2 DEF Replayed
  <2>12. PairedOnce(l)'
    <3>1. SUFFICES ASSUME lost'[l] = {} PROVE PairedOnce(l)'
      BY DEF PairedOnce
    <3>2. PairedOnce(l) /\ lost[l] = {} /\ Contents(new) \intersect Mapped(l) = {}
      BY <2>3, <3>1 DEF LayerInv
    <3>3. Contents(added) \intersect Mapped(l) = {}
      BY <1>8, <2>2, <3>2 DEF PairedOnce
    <3> QED BY <1>2, <1>5, <2>1, <2>2, <3>2, <3>3 DEF PairedOnce
  <2> QED BY <2>6, <2>7, <2>8, <2>9, <2>10, <2>11, <2>12, <1>12 DEF LayerInv
<1> QED BY <1>12, <1>13, <1>14

\* Features removed: what was logged as added is so no more, the others are paired
\* and are logged as removed.
LEMMA RemovedOwn ==
    ASSUME NEW l \in Layers, NEW deleted, Maps, LayerTypeOK(l), LayerInv(l), commitNo \in Nat,
           CommittedFeaturesRemoved(l, deleted)
    PROVE  LayerTypeOK(l)' /\ LayerInv(l)'
<1> DEFINE logged == WithoutFeatures(l, deleted)
           added == Kept(log[l].added, Contents(log[l].added) \ deleted)
           removed == log[l].removed \union {f \in deleted : ~IsAddedFeature(l, f)}
<1>1. /\ sync = Idle /\ sync' = sync /\ Log(l, logged, {}) /\ deleted \subseteq DOMAIN table[l]
      /\ table' = [table EXCEPT ![l] = Restrict(@, DOMAIN @ \ deleted)]
      /\ remote' = remote /\ nextId' = nextId /\ fids' = fids /\ commitNo' = commitNo
  BY DEF CommittedFeaturesRemoved, CanCommit
<1>2. /\ DOMAIN table'[l] = DOMAIN table[l] \ deleted
      /\ \A f \in DOMAIN table'[l] : table'[l][f] = table[l][f]
      /\ table'[l] = [f \in DOMAIN table'[l] |-> table'[l][f]]
  <2>1. table'[l] = [f \in DOMAIN table[l] \ deleted |-> table[l][f]]
    BY <1>1 DEF Maps, Restrict
  <2> QED BY <2>1
<1>3. /\ added \in Seq(1 .. MaxFid)
      /\ Contents(added) = Contents(log[l].added) \ deleted
      /\ (\A i, j \in DOMAIN log[l].added : i < j => log[l].added[i] < log[l].added[j]) =>
            \A i, j \in DOMAIN added : i < j => added[i] < added[j]
  <2>1. log[l].added \in Seq(1 .. MaxFid) /\ 1 .. MaxFid \subseteq Int
    BY LayerTypes
  <2> DEFINE s == log[l].added
             set == Contents(s) \ deleted
  <2> HIDE DEF s, set
  <2>2. /\ Kept(s, set) \in Seq(1 .. MaxFid)
        /\ Contents(Kept(s, set)) = Contents(s) \intersect set
        /\ (\A i, j \in DOMAIN s : i < j => s[i] < s[j]) =>
              \A i, j \in DOMAIN Kept(s, set) : i < j => Kept(s, set)[i] < Kept(s, set)[j]
    BY <2>1, KeptProperties DEF s
  <2>3. Contents(s) \intersect set = Contents(s) \ deleted
    BY DEF set
  <2> QED BY <2>2, <2>3 DEF s, set
<1> HIDE DEF added
<1>4. /\ log[l] \in [added : Seq(1 .. MaxFid), removed : SUBSET (1 .. MaxFid), updates : Seq(Updates)]
      /\ logged = [log[l] EXCEPT !.added = added, !.removed = removed]
  BY DEF LayerTypeOK, WithoutFeatures, added
<1>5. removed \subseteq 1 .. MaxFid
  BY <1>1, LayerTypes
<1> HIDE DEF removed
<1>6. /\ logged.added = added /\ logged.removed = removed /\ logged.updates = log[l].updates
      /\ logged \in [added : Seq(1 .. MaxFid), removed : SUBSET (1 .. MaxFid), updates : Seq(Updates)]
  BY <1>3, <1>4, <1>5
<1> HIDE DEF logged
<1>7. /\ lost'[l] = lost[l] \union (IF project.entry THEN {} ELSE {"unlogged"})
      /\ log'[l] = IF project.entry THEN logged ELSE log[l]
  <2>1. lost'[l] = lost[l] \union (IF project.entry THEN {} ELSE {} \union {"unlogged"})
        /\ log'[l] = IF project.entry THEN logged ELSE log[l]
    BY <1>1, LogProperties DEF Maps
  <2> QED BY <2>1
<1>8. LayerTypeOK(l)'
  <2>1. table'[l] \in [DOMAIN table'[l] -> Features] /\ DOMAIN table'[l] \subseteq 1 .. MaxFid
    BY <1>2, LayerTypes
  <2>2. log'[l] \in [added : Seq(1 .. MaxFid), removed : SUBSET (1 .. MaxFid), updates : Seq(Updates)]
    BY <1>4, <1>6, <1>7
  <2>3. lost'[l] \subseteq Harms
    BY <1>7 DEF LayerTypeOK, Harms
  <2>4. "unlogged" \in lost'[l] \/ Contents(log'[l].added) \subseteq DOMAIN table'[l]
    BY <1>2, <1>3, <1>6, <1>7 DEF LayerTypeOK
  <2> QED BY <1>1, <2>1, <2>2, <2>3, <2>4 DEF LayerTypeOK
<1>9. \A f \in DOMAIN table'[l] : IsMine(table'[l][f])
  BY <1>2 DEF LayerInv, InOrder
<1>10. CASE ~project.entry
  <2>1. "unlogged" \in lost'[l] /\ fids'[l] = fids[l]
    BY <1>1, <1>7, <1>10
  <2> QED BY <1>8, <1>9, <2>1, Unlogged
<1>11. CASE project.entry
  <2>1. /\ log'[l].added = added /\ log'[l].removed = removed /\ log'[l].updates = log[l].updates
        /\ lost'[l] = lost[l] /\ (Mild(l)' <=> Mild(l))
        /\ Mapped(l)' = Mapped(l) /\ Known(l)' = Known(l)
        /\ \A f : RemoteFid(l, f)' = RemoteFid(l, f)
    BY <1>1, <1>6, <1>7, <1>11 DEF Mapped, Known, RemoteFid, Mild
  <2>2. \A S : "idle" \notin S => ~At(l, S) /\ ~At(l, S)'
    BY <1>1 DEF At, Idle
  <2>3. ASSUME NEW f \in DOMAIN table'[l]
        PROVE  /\ LastLogged(l, f) => LastLogged(l, f)'
               /\ OnServer(l, f) => OnServer(l, f)'
               /\ f \in DOMAIN table[l] /\ (f \in Contents(added) <=> f \in Contents(log[l].added))
    <3>1. table'[l][f] = table[l][f] /\ f \in DOMAIN table[l] /\ f \notin deleted
      BY <1>2
    <3> QED BY <1>1, <1>3, <2>1, <3>1 DEF LastLogged, OnServer
  <2>4. \A f : Updated(l, f)' <=> Updated(l, f)
    BY <2>1 DEF Updated
  <2>5. InOrder(l)'
    BY <1>1, <1>3, <1>9, <2>1 DEF LayerInv, InOrder
  <2>6. Pending(l)'
    BY <2>2 DEF Pending
  <2>7. PairsSound(l)'
    <3>1. \A i \in DOMAIN fids[l] :
             fids[l][i].offline \in DOMAIN table'[l] =>
                fids[l][i].offline \in DOMAIN table[l]
                /\ table'[l][fids[l][i].offline] = table[l][fids[l][i].offline]
      BY <1>2
    <3> QED BY <1>1, <2>1, <3>1 DEF LayerInv, PairsSound
  <2>8. LogFits(l)'
    <3>1. SUFFICES ASSUME Mild(l) PROVE LogFits(l)'
      BY <2>1 DEF LogFits
    <3>2. /\ log[l].removed \subseteq Mapped(l) \ DOMAIN table[l]
          /\ DOMAIN table[l] \subseteq Contents(log[l].added) \union Mapped(l)
          /\ \A f \in 1 .. MaxFid : Updated(l, f) => f \in Mapped(l) \ Contents(log[l].added)
      BY <3>1 DEF LayerInv, LogFits
    <3>3. removed \subseteq Mapped(l) \ DOMAIN table'[l]
      BY <1>1, <1>2, <3>2 DEF removed, IsAddedFeature
    <3>4. DOMAIN table'[l] \subseteq Contents(added) \union Mapped(l)
      BY <1>2, <1>3, <3>2
    <3>5. \A f \in 1 .. MaxFid : Updated(l, f) => f \in Mapped(l) \ Contents(added)
      BY <1>3, <3>2
    <3> QED BY <1>1, <2>1, <2>2, <2>4, <3>1, <3>3, <3>4, <3>5 DEF LayerInv, LogFits
  <2>9. Stored(l)'
    <3>1. SUFFICES ASSUME Mild(l), NEW f \in DOMAIN table'[l]
          PROVE  /\ f \in Mapped(l) => RemoteFid(l, f) \in DOMAIN remote[l]
                 /\ f \notin Contents(added) =>
                       IF Updated(l, f) THEN LastLogged(l, f)' ELSE OnServer(l, f)'
      BY <1>1, <2>1, <2>2, <2>4 DEF Stored
    <3>2. f \in DOMAIN table[l] /\ (f \in Contents(added) <=> f \in Contents(log[l].added))
      BY <2>3
    <3>3. /\ f \in Mapped(l) => RemoteFid(l, f) \in DOMAIN remote[l]
          /\ f \notin Contents(log[l].added) =>
                IF Updated(l, f) THEN LastLogged(l, f) ELSE OnServer(l, f)
      BY <3>1, <3>2 DEF LayerInv, Stored
    <3> QED BY <2>3, <3>2, <3>3
  <2>10. Replayed(l)'
    BY <2>2 DEF Replayed
  <2>11. PairedOnce(l)'
    <3>1. SUFFICES ASSUME lost[l] = {} PROVE PairedOnce(l)'
      BY <2>1 DEF PairedOnce
    <3>2. PairedOnce(l) /\ Contents(log[l].added) \intersect Mapped(l) = {}
      BY <2>2, <3>1 DEF LayerInv, PairedOnce
    <3>3. Contents(added) \intersect Mapped(l) = {}
      BY <1>3, <3>2
    <3>4. ASSUME NEW i \in DOMAIN fids[l], fids[l][i].remote \in DOMAIN remote[l]
          PROVE  fids[l][i].offline \in DOMAIN table'[l] \union removed
      <4>1. fids[l][i].offline \in DOMAIN table[l] \union log[l].removed
        BY <3>1, <3>2, <3>4 DEF PairedOnce
      <4>2. fids[l][i].offline \in deleted => ~IsAddedFeature(l, fids[l][i].offline)
        BY <3>2 DEF IsAddedFeature, Mapped
      <4> QED BY <1>2, <4>1, <4>2 DEF removed
    <3> QED BY <1>1, <2>1, <2>2, <3>1, <3>2, <3>3, <3>4 DEF PairedOnce
  <2> QED BY <1>8, <2>5, <2>6, <2>7, <2>8, <2>9, <2>10, <2>11 DEF LayerInv
<1> QED BY <1>8, <1>10, <1>11

\* A feature changed: unless it is logged as added, the update is the last one logged.
LEMMA ChangedOwn ==
    ASSUME NEW l \in Layers, NEW f \in 1 .. MaxFid, NEW v \in Values, Maps, LayerTypeOK(l), LayerInv(l),
           commitNo \in 0 .. MaxEdits, CommittedChanges(l, f, v)
    PROVE  LayerTypeOK(l)' /\ LayerInv(l)'
<1> DEFINE update == [commit |-> commitNo, fid |-> f, val |-> v]
           logged == IF IsAddedFeature(l, f) THEN log[l]
                     ELSE [log[l] EXCEPT !.updates = Append(@, update)]
<1>1. /\ sync = Idle /\ sync' = sync /\ Log(l, logged, {}) /\ f \in DOMAIN table[l]
      /\ table' = [table EXCEPT ![l][f].val = v]
      /\ remote' = remote /\ nextId' = nextId /\ fids' = fids /\ IncreaseCommitNo
  BY DEF CommittedChanges, CanCommit
<1>2. /\ DOMAIN table'[l] = DOMAIN table[l]
      /\ \A g \in DOMAIN table[l] : g # f => table'[l][g] = table[l][g]
      /\ table'[l] = [g \in DOMAIN table'[l] |-> table'[l][g]]
      /\ table'[l][f] = [table[l][f] EXCEPT !.val = v]
  <2>1. table'[l] = [table[l] EXCEPT ![f].val = v]
    BY <1>1 DEF Maps
  <2>2. table[l] = [g \in DOMAIN table[l] |-> table[l][g]]
    BY DEF LayerTypeOK
  <2> QED BY <1>1, <2>1, <2>2
<1>3. /\ table'[l][f] \in Features /\ table'[l][f].who = table[l][f].who /\ table'[l][f].val = v
  <2>1. table[l][f] \in Features
    BY <1>1, LayerTypes
  <2> QED BY <1>2, <2>1 DEF Features
<1>4. \A g \in DOMAIN table[l] :
         table'[l][g] \in Features /\ table'[l][g].who = table[l][g].who /\ IsMine(table'[l][g])
  <2>1. \A g \in DOMAIN table[l] : table[l][g] \in Features /\ IsMine(table[l][g])
    BY LayerTypes DEF LayerInv, InOrder
  <2> QED BY <1>1, <1>2, <1>3, <2>1 DEF IsMine
<1> DEFINE updates == log[l].updates
           n == Len(updates)
<1>5. updates \in Seq(Updates) /\ n \in Nat /\ DOMAIN updates = 1 .. n /\ update \in Updates
      /\ log[l] \in [added : Seq(1 .. MaxFid), removed : SUBSET (1 .. MaxFid), updates : Seq(Updates)]
  BY LayerTypes DEF LayerTypeOK, Updates
<1>6. /\ Append(updates, update) \in Seq(Updates) /\ DOMAIN Append(updates, update) = 1 .. n + 1
      /\ \A i \in 1 .. n : Append(updates, update)[i] = updates[i]
      /\ Append(updates, update)[n + 1] = update
  <2> HIDE DEF updates, update
  <2> QED BY <1>5
<1> HIDE DEF n
<1>7. /\ logged \in [added : Seq(1 .. MaxFid), removed : SUBSET (1 .. MaxFid), updates : Seq(Updates)]
      /\ logged.added = log[l].added /\ logged.removed = log[l].removed
      /\ logged.updates = IF IsAddedFeature(l, f) THEN updates ELSE Append(updates, update)
  <2> HIDE DEF update
  <2> QED BY <1>5, <1>6
<1> HIDE DEF logged
<1>8. /\ lost'[l] = lost[l] \union (IF project.entry THEN {} ELSE {"unlogged"})
      /\ log'[l] = IF project.entry THEN logged ELSE log[l]
  <2>1. lost'[l] = lost[l] \union (IF project.entry THEN {} ELSE {} \union {"unlogged"})
        /\ log'[l] = IF project.entry THEN logged ELSE log[l]
    BY <1>1, LogProperties DEF Maps
  <2> QED BY <2>1
<1>9. LayerTypeOK(l)'
  <2>1. table'[l] \in [DOMAIN table'[l] -> Features] /\ DOMAIN table'[l] \subseteq 1 .. MaxFid
    BY <1>2, <1>4, LayerTypes
  <2>2. log'[l] \in [added : Seq(1 .. MaxFid), removed : SUBSET (1 .. MaxFid), updates : Seq(Updates)]
    BY <1>5, <1>7, <1>8
  <2>3. lost'[l] \subseteq Harms
    BY <1>8 DEF LayerTypeOK, Harms
  <2>4. "unlogged" \in lost'[l] \/ Contents(log'[l].added) \subseteq DOMAIN table'[l]
    BY <1>2, <1>7, <1>8 DEF LayerTypeOK
  <2> QED BY <1>1, <2>1, <2>2, <2>3, <2>4 DEF LayerTypeOK
<1>10. CASE ~project.entry
  <2>1. /\ "unlogged" \in lost'[l] /\ fids'[l] = fids[l]
        /\ \A g \in DOMAIN table'[l] : IsMine(table'[l][g])
    BY <1>1, <1>2, <1>4, <1>8, <1>10
  <2> QED BY <1>9, <2>1, Unlogged
<1>11. CASE project.entry
  <2>1. /\ log'[l].added = log[l].added /\ log'[l].removed = log[l].removed
        /\ log'[l].updates = IF IsAddedFeature(l, f) THEN updates ELSE Append(updates, update)
        /\ lost'[l] = lost[l] /\ (Mild(l)' <=> Mild(l)) /\ commitNo' = commitNo + 1
        /\ Mapped(l)' = Mapped(l) /\ Known(l)' = Known(l)
        /\ \A g : RemoteFid(l, g)' = RemoteFid(l, g)
    BY <1>1, <1>7, <1>8, <1>11 DEF Mapped, Known, RemoteFid, Mild, IncreaseCommitNo
  <2>2. \A S : "idle" \notin S => ~At(l, S) /\ ~At(l, S)'
    BY <1>1 DEF At, Idle
  <2>3. InOrder(l)'
    BY <1>1, <1>2, <1>4, <2>1 DEF LayerInv, InOrder
  <2>4. Pending(l)'
    BY <2>2 DEF Pending
  <2>5. PairsSound(l)'
    <3>1. PairsSound(l)
      BY DEF LayerInv
    <3>2. ASSUME NEW r, NEW g \in DOMAIN table[l], remote[l][r].who = table[l][g].who
          PROVE  remote'[l][r].who = table'[l][g].who
      BY <1>1, <1>4, <3>2
    <3>3. remote' = remote /\ fids' = fids /\ lost'[l] = lost[l] /\ DOMAIN table'[l] = DOMAIN table[l]
      BY <1>1, <1>2, <2>1
    <3>4. ASSUME lost[l] \intersect {"unlogged", "reused"} = {}, NEW i \in DOMAIN fids[l],
                 fids[l][i].offline \in DOMAIN table[l], fids[l][i].remote \in DOMAIN remote[l]
          PROVE  remote'[l][fids[l][i].remote].who = table'[l][fids[l][i].offline].who
      <4>1. remote[l][fids[l][i].remote].who = table[l][fids[l][i].offline].who
        BY <3>1, <3>4 DEF PairsSound
      <4> QED BY <3>2, <3>4, <4>1
    <3>5. ASSUME "unlogged" \notin lost[l], NEW i \in DOMAIN fids[l], fids[l][i].remote \in DOMAIN remote[l]
          PROVE  IsMine(remote'[l][fids[l][i].remote])
      BY <3>1, <3>3, <3>5 DEF PairsSound
    <3> QED BY <3>3, <3>4, <3>5 DEF PairsSound
  <2>6. Replayed(l)'
    BY <2>2 DEF Replayed
  <2>7. PairedOnce(l)'
    BY <1>1, <1>2, <2>1, <2>2 DEF LayerInv, PairedOnce
  <2>8. \A g : g # f \/ IsAddedFeature(l, f) => (Updated(l, g)' <=> Updated(l, g))
    <3>1. CASE IsAddedFeature(l, f)
      BY <2>1, <3>1 DEF Updated
    <3>2. CASE ~IsAddedFeature(l, f)
      <4>1. log'[l].updates = Append(updates, update)
        BY <2>1, <3>2
      <4>2. SUFFICES ASSUME NEW g, g # f PROVE Updated(l, g)' <=> Updated(l, g)
        BY <3>2
      <4>3. Updated(l, g)' <=> \E i \in 1 .. n + 1 : Append(updates, update)[i].fid = g
        BY <1>6, <4>1 DEF Updated
      <4>4. Updated(l, g) <=> \E i \in 1 .. n : updates[i].fid = g
        BY <1>5 DEF Updated
      <4>5. \A i \in 1 .. n + 1 : i \in 1 .. n \/ i = n + 1
        BY <1>5
      <4>6. \A i \in 1 .. n : i \in 1 .. n + 1
        BY <1>5
      <4>7. Append(updates, update)[n + 1].fid # g
        <5>1. update.fid = f
          OBVIOUS
        <5> HIDE DEF update, updates
        <5> QED BY <1>6, <4>2, <5>1
      <4> HIDE DEF updates, update
      <4> QED BY <1>6, <4>3, <4>4, <4>5, <4>6, <4>7
    <3> QED BY <3>1, <3>2
  <2>9. ~IsAddedFeature(l, f) => Updated(l, f)' /\ LastLogged(l, f)'
    <3>1. SUFFICES ASSUME ~IsAddedFeature(l, f) PROVE Updated(l, f)' /\ LastLogged(l, f)'
      OBVIOUS
    <3>2. log'[l].updates = Append(updates, update)
      BY <2>1, <3>1
    <3>3. /\ n + 1 \in DOMAIN log'[l].updates
          /\ log'[l].updates[n + 1].fid = f /\ log'[l].updates[n + 1].val = table'[l][f].val
      BY <1>3, <1>5, <1>6, <3>2
    <3>4. \A j \in DOMAIN log'[l].updates : j <= n + 1
      <4> HIDE DEF updates, update
      <4> QED BY <1>5, <1>6, <3>2
    <3> QED BY <3>3, <3>4 DEF Updated, LastLogged
  <2>10. LogFits(l)'
    <3>1. SUFFICES ASSUME Mild(l) PROVE LogFits(l)'
      BY <2>1 DEF LogFits
    <3>2. /\ log[l].removed \subseteq Mapped(l) \ DOMAIN table[l]
          /\ DOMAIN table[l] \subseteq Contents(log[l].added) \union Mapped(l)
          /\ \A g \in 1 .. MaxFid : Updated(l, g) => g \in Mapped(l) \ Contents(log[l].added)
          /\ \A i \in DOMAIN updates : updates[i].commit < commitNo
          /\ \A i, j \in DOMAIN updates : i < j => updates[i].commit <= updates[j].commit
      BY <3>1 DEF LayerInv, LogFits
    <3>3. \A g \in 1 .. MaxFid : Updated(l, g)' => g \in Mapped(l) \ Contents(log[l].added)
      <4>1. ~IsAddedFeature(l, f) => f \in Mapped(l) \ Contents(log[l].added)
        BY <1>1, <3>2 DEF IsAddedFeature
      <4> QED BY <2>8, <3>2, <4>1
    <3>4. \A i \in DOMAIN updates : updates[i].commit \in Nat
      BY LayerTypes
    <3>5. commitNo \in Nat
      BY ConstantsAssumption
    <3>6. /\ \A i \in DOMAIN log'[l].updates : log'[l].updates[i].commit < commitNo + 1
          /\ \A i, j \in DOMAIN log'[l].updates :
                i < j => log'[l].updates[i].commit <= log'[l].updates[j].commit
      <4>1. CASE IsAddedFeature(l, f)
        <5>1. log'[l].updates = updates
          BY <2>1, <4>1
        <5> HIDE DEF updates
        <5> QED BY <3>2, <3>4, <3>5, <5>1
      <4>2. CASE ~IsAddedFeature(l, f)
        <5>1. log'[l].updates = Append(updates, update) /\ update.commit = commitNo
          BY <2>1, <4>2
        <5> DEFINE all == Append(updates, update)
        <5>2. /\ DOMAIN all = 1 .. n + 1 /\ \A i \in 1 .. n : all[i] = updates[i]
              /\ all[n + 1].commit = commitNo
          BY <1>6, <5>1
        <5>3. \A i \in 1 .. n + 1 : i \in 1 .. n \/ i = n + 1
          BY <1>5
        <5> HIDE DEF updates, update, all
        <5>4. \A i \in 1 .. n : all[i].commit < commitNo /\ all[i].commit \in Nat
          BY <1>5, <3>2, <3>4, <5>2
        <5>5. \A i \in 1 .. n + 1 : all[i].commit < commitNo + 1
          BY <3>5, <5>2, <5>3, <5>4
        <5>6. ASSUME NEW i \in 1 .. n + 1, NEW j \in 1 .. n + 1, i < j
              PROVE  all[i].commit <= all[j].commit
          <6>1. i \in 1 .. n
            BY <1>5, <5>6
          <6>2. CASE j \in 1 .. n
            BY <1>5, <3>2, <5>2, <5>6, <6>1, <6>2
          <6>3. CASE j = n + 1
            BY <3>5, <5>2, <5>4, <6>1, <6>3
          <6> QED BY <5>3, <6>2, <6>3
        <5> QED BY <5>1, <5>2, <5>5, <5>6 DEF all
      <4> QED BY <4>1, <4>2
    <3> QED BY <1>1, <1>2, <2>1, <2>2, <3>1, <3>2, <3>3, <3>6 DEF LogFits
  <2>11. Stored(l)'
    <3>1. SUFFICES ASSUME Mild(l), NEW g \in DOMAIN table[l]
          PROVE  /\ g \in Mapped(l) => RemoteFid(l, g) \in DOMAIN remote[l]
                 /\ g \notin Contents(log[l].added) =>
                       IF Updated(l, g)' THEN LastLogged(l, g)' ELSE OnServer(l, g)'
      BY <1>1, <1>2, <2>1, <2>2 DEF Stored
    <3>2. /\ g \in Mapped(l) => RemoteFid(l, g) \in DOMAIN remote[l]
          /\ g \notin Contents(log[l].added) =>
                IF Updated(l, g) THEN LastLogged(l, g) ELSE OnServer(l, g)
      BY <3>1 DEF LayerInv, Stored
    <3>3. CASE g = f
      BY <2>9, <3>2, <3>3 DEF IsAddedFeature
    <3>4. CASE g # f
      <4>1. table'[l][g] = table[l][g] /\ (Updated(l, g)' <=> Updated(l, g))
        BY <1>2, <2>8, <3>4
      <4>2. OnServer(l, g) => OnServer(l, g)'
        BY <1>1, <2>1, <4>1 DEF OnServer
      <4>3. LastLogged(l, g) => LastLogged(l, g)'
        <5>1. CASE IsAddedFeature(l, f)
          BY <2>1, <4>1, <5>1 DEF LastLogged
        <5>2. CASE ~IsAddedFeature(l, f)
          <6> DEFINE all == Append(updates, update)
          <6>1. log'[l].updates = all /\ DOMAIN all = 1 .. n + 1 /\ all[n + 1].fid # g
            <7>1. update.fid = f
              OBVIOUS
            <7> HIDE DEF update, updates
            <7> QED BY <1>6, <2>1, <3>4, <5>2, <7>1
          <6>2. SUFFICES ASSUME NEW i \in 1 .. n, updates[i].fid = g, updates[i].val = table[l][g].val,
                                \A j \in 1 .. n : updates[j].fid = g => j <= i
                         PROVE  LastLogged(l, g)'
            BY <1>5 DEF LastLogged
          <6>3. i \in 1 .. n + 1 /\ all[i] = updates[i] /\ \A j \in 1 .. n + 1 : j \in 1 .. n \/ j = n + 1
            BY <1>5, <1>6
          <6>4. \A j \in 1 .. n : all[j] = updates[j]
            BY <1>6
          <6> HIDE DEF updates, update, all
          <6>5. \A j \in 1 .. n + 1 : all[j].fid = g => j <= i
            BY <6>1, <6>2, <6>3, <6>4
          <6> QED BY <4>1, <6>1, <6>2, <6>3, <6>5 DEF LastLogged
        <5> QED BY <5>1, <5>2
      <4> QED BY <3>2, <4>1, <4>2, <4>3
    <3> QED BY <3>3, <3>4
  <2> QED BY <1>9, <2>3, <2>4, <2>5, <2>6, <2>7, <2>10, <2>11 DEF LayerInv
<1> QED BY <1>9, <1>10, <1>11

-----------------------------------------------------------------------------
(* synchronize(), and the other users *)

LEMMA RowOf ==
    ASSUME NEW l \in Layers, LayerTypeOK(l), NEW f \in Mapped(l)
    PROVE  \E i \in DOMAIN fids[l] : fids[l][i].offline = f /\ RemoteFid(l, f) = fids[l][i].remote
<1>1. f \in Offlines(fids[l]) /\ RemoteFid(l, f) = FirstFid(fids[l], f)
  BY LookupByRows
<1>2. fids[l] \in Seq(Rows)
  BY LayerTypes
<1>3. \E i \in DOMAIN fids[l] : fids[l][i].offline = f /\ FirstFid(fids[l], f) = fids[l][i].remote
  BY <1>1, <1>2, FirstRow
<1> QED BY <1>1, <1>3

\* The added features are read while they are all in the copy.
LEMMA AllCopied ==
    ASSUME NEW l \in Layers, LayerTypeOK(l)
    PROVE  /\ Copies(l) \in Seq(1 .. MaxFid) /\ Contents(Copies(l)) \subseteq DOMAIN table[l]
           /\ Contents(Copies(l)) \subseteq Contents(log[l].added)
           /\ "unlogged" \notin lost[l] => Copies(l) = log[l].added
<1> DEFINE s == log[l].added
           set == DOMAIN table[l]
<1>1. s \in Seq(1 .. MaxFid)
  BY LayerTypes
<1> HIDE DEF s, set
<1>2. /\ Kept(s, set) \in Seq(1 .. MaxFid) /\ Contents(Kept(s, set)) = Contents(s) \intersect set
      /\ Contents(s) \subseteq set => Kept(s, set) = s
  BY <1>1, KeptProperties
<1>3. Contents(Kept(s, set)) \subseteq set /\ Contents(Kept(s, set)) \subseteq Contents(s)
  BY <1>2
<1>4. Copies(l) = Kept(s, set)
  BY DEF Copies, s, set
<1>5. "unlogged" \notin lost[l] => Contents(s) \subseteq set
  BY DEF LayerTypeOK, s, set
<1> QED BY <1>2, <1>3, <1>4, <1>5 DEF s, set

\* What the remote layer is after the commit of a replay.
LEMMA ReplayedLayer ==
    ASSUME NEW l \in Layers, LayerTypeOK(l)
    PROVE  /\ Len(Copies(l)) \in Nat
           /\ WithAdded(l) \in [DOMAIN WithAdded(l) -> Features]
           /\ DOMAIN WithAdded(l) =
                 DOMAIN WithoutRemoved(l) \union (nextId[l] .. nextId[l] + Len(Copies(l)) - 1)
           /\ \A r \in DOMAIN WithoutRemoved(l) :
                 /\ r \in DOMAIN remote[l] /\ WithAdded(l)[r] = WithValues(l)[r]
                 /\ WithAdded(l)[r].who = remote[l][r].who
                 /\ r \in Nat /\ r < nextId[l]
           /\ \A i \in 1 .. Len(Copies(l)) :
                 /\ nextId[l] + i - 1 \in DOMAIN WithAdded(l)
                 /\ WithAdded(l)[nextId[l] + i - 1] = table[l][Copies(l)[i]]
<1> DEFINE c == Copies(l)
           n == Len(c)
           b == nextId[l]
           old == WithoutRemoved(l)
           new == [r \in b .. b + n - 1 |-> table[l][c[r - b + 1]]]
<1>1. c \in Seq(1 .. MaxFid) /\ n \in Nat /\ DOMAIN c = 1 .. n /\ b \in Nat
  BY AllCopied, LayerTypes
<1>2. \A i \in 1 .. n : table[l][c[i]] \in Features
  <2>1. \A f \in DOMAIN table[l] : table[l][f] \in Features
    BY LayerTypes
  <2>2. Contents(c) \subseteq DOMAIN table[l]
    BY AllCopied
  <2> HIDE DEF c
  <2>3. \A i \in 1 .. n : c[i] \in Contents(c)
    BY <1>1 DEF Contents
  <2> QED BY <2>1, <2>2, <2>3
<1>3. WithAdded(l) = Inserted(old, new)
  BY DEF WithAdded
<1> HIDE DEF c, n, b
<1>4. /\ \A r \in b .. b + n - 1 : new[r] \in Features
      /\ \A i \in 1 .. n : b + i - 1 \in b .. b + n - 1 /\ new[b + i - 1] = table[l][c[i]]
  <2>1. \A r \in b .. b + n - 1 : r - b + 1 \in 1 .. n
    BY <1>1
  <2>2. \A i \in 1 .. n : b + i - 1 \in b .. b + n - 1 /\ b + i - 1 - b + 1 = i
    BY <1>1
  <2>3. \A r \in b .. b + n - 1 : new[r] = table[l][c[r - b + 1]]
    OBVIOUS
  <2> HIDE DEF new
  <2>4. ASSUME NEW i \in 1 .. n
        PROVE  new[b + i - 1] = table[l][c[i]]
    <3> DEFINE r == b + i - 1
    <3>1. r \in b .. b + n - 1 /\ r - b + 1 = i
      BY <1>1
    <3> HIDE DEF r
    <3>2. new[r] = table[l][c[r - b + 1]]
      BY <2>3, <3>1
    <3> QED BY <3>1, <3>2 DEF r
  <2> QED BY <1>2, <2>1, <2>2, <2>3, <2>4
<1>5. DOMAIN new = b .. b + n - 1
  OBVIOUS
<1> HIDE DEF old, new
<1>6. WithAdded(l) = [r \in DOMAIN old \union (b .. b + n - 1) |->
                        IF r \in b .. b + n - 1 THEN new[r] ELSE old[r]]
  BY <1>3, <1>5 DEF Inserted
<1>7. ASSUME NEW r \in DOMAIN old
      PROVE  /\ r \in DOMAIN remote[l] /\ r \notin b .. b + n - 1 /\ r \in Nat /\ r < b
             /\ old[r] = WithValues(l)[r] /\ old[r] \in Features /\ old[r].who = remote[l][r].who
  <2>1. r \in DOMAIN remote[l] /\ old[r] = WithValues(l)[r]
    BY ReplayTypes DEF old
  <2>2. r \in Nat /\ r < b
    BY <2>1, LayerTypes DEF b
  <2>3. WithValues(l)[r] \in Features /\ WithValues(l)[r].who = remote[l][r].who
    BY <2>1, ReplayTypes
  <2> QED BY <1>1, <2>1, <2>2, <2>3
<1>8. \A r \in DOMAIN old : WithAdded(l)[r] = old[r]
  BY <1>6, <1>7
<1>9. \A r \in b .. b + n - 1 : WithAdded(l)[r] = new[r]
  BY <1>6
<1>10. WithAdded(l) \in [DOMAIN WithAdded(l) -> Features]
  BY <1>4, <1>6, <1>7
<1>11. DOMAIN WithAdded(l) = DOMAIN old \union (b .. b + n - 1)
  BY <1>6
<1>12. \A i \in 1 .. n : b + i - 1 \in DOMAIN WithAdded(l) /\ WithAdded(l)[b + i - 1] = table[l][c[i]]
  BY <1>4, <1>9, <1>11
<1> QED BY <1>1, <1>7, <1>8, <1>10, <1>11, <1>12 DEF b, n, c, old

LEMMA CommitOwn ==
    ASSUME NEW l \in Layers, Maps, LayerTypeOK(l), LayerInv(l), commitNo \in Nat, Commit(l)
    PROVE  LayerTypeOK(l)' /\ LayerInv(l)'
<1> DEFINE n == Len(Copies(l))
           b == nextId[l]
<1>1. /\ Turn(l) /\ remote'[l] = WithAdded(l) /\ nextId'[l] = b + n
      /\ table' = table /\ fids' = fids /\ log' = log /\ commitNo' = commitNo /\ lost' = lost
      /\ sync'.stage = "lookup" /\ sync'.layer = l
  <2>1. sync' = [sync EXCEPT !.stage = "lookup", !.layer = l]
    BY DEF Commit
  <2> QED BY <2>1 DEF Commit, Maps, database
<1> HIDE DEF n, b
<1>2. /\ \A S : "next" \notin S => ~At(l, S)
      /\ \A S : At(l, S)' <=> "lookup" \in S
  BY <1>1 DEF At, Turn
<1>3. /\ n \in Nat /\ b \in Nat /\ remote'[l] \in [DOMAIN remote'[l] -> Features]
      /\ DOMAIN remote'[l] = DOMAIN WithoutRemoved(l) \union (b .. b + n - 1)
      /\ \A r \in DOMAIN WithoutRemoved(l) :
            /\ r \in DOMAIN remote[l] /\ remote'[l][r] = WithValues(l)[r]
            /\ remote'[l][r].who = remote[l][r].who
            /\ r \in Nat /\ r < b
      /\ \A i \in 1 .. n : b + i - 1 \in DOMAIN remote'[l] /\ remote'[l][b + i - 1] = table[l][Copies(l)[i]]
  <2> DEFINE replayed == WithAdded(l)
  <2>1. /\ n \in Nat /\ replayed \in [DOMAIN replayed -> Features]
        /\ DOMAIN replayed = DOMAIN WithoutRemoved(l) \union (b .. b + n - 1)
        /\ \A r \in DOMAIN WithoutRemoved(l) :
              /\ r \in DOMAIN remote[l] /\ replayed[r] = WithValues(l)[r]
              /\ replayed[r].who = remote[l][r].who
              /\ r \in Nat /\ r < b
        /\ \A i \in 1 .. n : b + i - 1 \in DOMAIN replayed /\ replayed[b + i - 1] = table[l][Copies(l)[i]]
    BY ReplayedLayer DEF n, b
  <2>2. b \in Nat
    BY LayerTypes DEF b
  <2>3. remote'[l] = replayed
    BY <1>1
  <2> HIDE DEF replayed
  <2> QED BY <2>1, <2>2, <2>3
<1>4. \A r \in DOMAIN remote'[l] : r \in Nat /\ r < b + n /\ (r < b => r \in DOMAIN WithoutRemoved(l))
  BY <1>3
<1>5. LayerTypeOK(l)'
  <2>1. \A i \in DOMAIN fids[l] : fids[l][i].remote < b + n
    <3>1. \A i \in DOMAIN fids[l] : fids[l][i].remote \in Nat /\ fids[l][i].remote < b
      BY LayerTypes DEF b
    <3> QED BY <1>3, <3>1
  <2>2. DOMAIN remote'[l] \subseteq 0 .. nextId'[l] - 1 /\ nextId'[l] \in Nat
    BY <1>1, <1>3, <1>4
  <2> QED BY <1>1, <1>3, <2>1, <2>2 DEF LayerTypeOK
<1>6. /\ Mapped(l)' = Mapped(l) /\ Known(l)' = Known(l)
      /\ \A f : RemoteFid(l, f)' = RemoteFid(l, f)
      /\ \A f : (Updated(l, f)' <=> Updated(l, f)) /\ (LastLogged(l, f)' <=> LastLogged(l, f))
      /\ (Mild(l)' <=> Mild(l))
  BY <1>1 DEF Mapped, Known, RemoteFid, Updated, LastLogged, Mild
<1>7. ASSUME NEW i \in DOMAIN fids[l], fids[l][i].remote \in DOMAIN remote'[l]
      PROVE  fids[l][i].remote \in DOMAIN WithoutRemoved(l) /\ fids[l][i].remote \in DOMAIN remote[l]
  <2>1. fids[l][i].remote < b
    BY LayerTypes DEF b
  <2> QED BY <1>3, <1>4, <1>7, <2>1
<1>8. InOrder(l)'
  BY <1>1 DEF LayerInv, InOrder
<1>9. Pending(l)'
  <2>1. SUFFICES ASSUME "unlogged" \notin lost[l]
                 PROVE  /\ \A i \in DOMAIN log[l].added :
                              /\ b + i - 1 \in DOMAIN remote'[l] \ Known(l)
                              /\ remote'[l][b + i - 1] = table[l][log[l].added[i]]
                        /\ lost[l] = {} =>
                              \A r \in DOMAIN remote'[l] :
                                  IsMine(remote'[l][r]) =>
                                      r \in Known(l) \/ \E i \in DOMAIN log[l].added : r = b + i - 1
    <3>1. b \in 0 .. nextId'[l]
      BY <1>1, <1>3
    <3> QED BY <1>1, <1>6, <3>1 DEF Pending
  <2>2. Copies(l) = log[l].added /\ DOMAIN log[l].added = 1 .. n
    <3>1. Copies(l) = log[l].added /\ log[l].added \in Seq(1 .. MaxFid)
      BY <2>1, AllCopied, LayerTypes
    <3> QED BY <3>1 DEF n
  <2>3. ASSUME NEW i \in 1 .. n
        PROVE  b + i - 1 \notin Known(l)
    <3>1. \A r \in Known(l) : r \in Nat /\ r < b
      BY LayerTypes DEF Known, b
    <3> QED BY <1>3, <3>1
  <2>4. ASSUME lost[l] = {}, NEW r \in DOMAIN remote'[l], IsMine(remote'[l][r]), r \notin Known(l)
        PROVE  \E i \in 1 .. n : r = b + i - 1
    <3>1. CASE r \in DOMAIN WithoutRemoved(l)
      <4>1. r \in DOMAIN remote[l] /\ IsMine(remote[l][r])
        BY <1>3, <2>4, <3>1 DEF IsMine
      <4> QED BY <1>2, <2>4, <4>1 DEF LayerInv, PairedOnce
    <3>2. CASE r \in b .. b + n - 1
      <4>1. r - b + 1 \in 1 .. n /\ r = b + (r - b + 1) - 1
        BY <1>3, <3>2
      <4> QED BY <4>1
    <3> QED BY <1>3, <2>4, <3>1, <3>2
  <2> QED BY <1>3, <2>2, <2>3, <2>4
<1>10. PairsSound(l)'
  <2>1. \A i \in DOMAIN fids[l] : fids[l][i].remote \in DOMAIN remote'[l] =>
           /\ fids[l][i].remote \in DOMAIN remote[l]
           /\ remote'[l][fids[l][i].remote].who = remote[l][fids[l][i].remote].who
    BY <1>3, <1>7
  <2> QED BY <1>1, <2>1 DEF LayerInv, PairsSound, IsMine
<1>11. LogFits(l)'
  BY <1>1, <1>2, <1>6 DEF LayerInv, LogFits
<1>12. Stored(l)'
  <2>1. SUFFICES ASSUME Mild(l), NEW f \in DOMAIN table[l]
                 PROVE  /\ f \in Mapped(l) => RemoteFid(l, f) \in DOMAIN remote'[l]
                        /\ f \notin Contents(log[l].added) =>
                              IF Updated(l, f) THEN LastLogged(l, f) ELSE OnServer(l, f)'
    BY <1>1, <1>2, <1>6 DEF Stored
  <2>2. /\ f \in Mapped(l) => RemoteFid(l, f) \in DOMAIN remote[l]
        /\ f \notin Contents(log[l].added) =>
              IF Updated(l, f) THEN LastLogged(l, f) ELSE OnServer(l, f)
    BY <2>1 DEF LayerInv, Stored
  <2>3. \A i \in DOMAIN fids[l] :
           fids[l][i].offline \in DOMAIN table[l] /\ fids[l][i].remote \in DOMAIN remote[l] =>
              /\ fids[l][i].remote \in DOMAIN remote'[l]
              /\ ~Updated(l, fids[l][i].offline) =>
                    remote'[l][fids[l][i].remote] = remote[l][fids[l][i].remote]
    BY <1>3, <2>1, ReplayFits
  <2>4. f \in Mapped(l) => RemoteFid(l, f) \in DOMAIN remote'[l]
    <3>1. SUFFICES ASSUME f \in Mapped(l) PROVE RemoteFid(l, f) \in DOMAIN remote'[l]
      OBVIOUS
    <3>2. PICK i \in DOMAIN fids[l] : fids[l][i].offline = f /\ RemoteFid(l, f) = fids[l][i].remote
      BY <3>1, RowOf
    <3> QED BY <2>2, <2>3, <3>1, <3>2
  <2>5. ~Updated(l, f) /\ OnServer(l, f) => OnServer(l, f)'
    BY <1>1, <2>3 DEF OnServer
  <2> QED BY <2>2, <2>4, <2>5
<1>13. Replayed(l)'
  <2>1. SUFFICES ASSUME Mild(l)
                 PROVE  /\ \A f \in DOMAIN table[l] :
                              Updated(l, f) => remote'[l][RemoteFid(l, f)].val = table[l][f].val
                        /\ \A f \in log[l].removed : RemoteFid(l, f) \notin DOMAIN remote'[l]
    BY <1>1, <1>6 DEF Replayed
  <2>2. ASSUME NEW f \in DOMAIN table[l], Updated(l, f)
        PROVE  remote'[l][RemoteFid(l, f)].val = table[l][f].val
    <3>1. f \in Mapped(l) /\ RemoteFid(l, f) \in DOMAIN remote[l]
          /\ WithValues(l)[RemoteFid(l, f)] = table[l][f]
      BY <2>1, <2>2, ReplayFits
    <3>2. PICK i \in DOMAIN fids[l] : fids[l][i].offline = f /\ RemoteFid(l, f) = fids[l][i].remote
      BY <3>1, RowOf
    <3>3. RemoteFid(l, f) \in DOMAIN WithoutRemoved(l)
      BY <2>1, <3>1, <3>2, ReplayFits
    <3> QED BY <1>3, <3>1, <3>3
  <2>3. ASSUME NEW f \in log[l].removed
        PROVE  RemoteFid(l, f) \notin DOMAIN remote'[l]
    <3>1. f \in Mapped(l)
      BY <2>1 DEF LayerInv, LogFits
    <3>2. PICK i \in DOMAIN fids[l] : fids[l][i].offline = f /\ RemoteFid(l, f) = fids[l][i].remote
      BY <3>1, RowOf
    <3>3. RemoteFid(l, f) \notin DOMAIN WithoutRemoved(l)
      <4>1. DOMAIN WithoutRemoved(l) = DOMAIN remote[l] \ {RemoteFid(l, g) : g \in log[l].removed}
        BY ReplayTypes
      <4> QED BY <4>1
    <3> QED BY <1>7, <3>2, <3>3
  <2> QED BY <2>2, <2>3
<1>14. PairedOnce(l)'
  <2>1. SUFFICES ASSUME lost[l] = {} PROVE PairedOnce(l)'
    BY <1>1 DEF PairedOnce
  <2> QED BY <1>1, <1>2, <1>6, <1>7, <2>1 DEF LayerInv, PairedOnce
<1> QED BY <1>5, <1>8, <1>9, <1>10, <1>11, <1>12, <1>13, <1>14 DEF LayerInv

\* One of three states of the remote layer.
LEMMA PartStored ==
    ASSUME NEW l \in Layers, CommitFails(l)
    PROVE  \E stored \in {remote[l], WithValues(l), WithoutRemoved(l)} : remote' = [remote EXCEPT ![l] = stored]
<1>1. PICK n \in 0 .. 2 :
         remote' = [remote EXCEPT ![l] = <<remote[l], WithValues(l), WithoutRemoved(l)>>[n + 1]]
  BY DEF CommitFails
<1>2. n = 0 \/ n = 1 \/ n = 2
  OBVIOUS
<1>3. CASE n = 0
  BY <1>1, <1>3
<1>4. CASE n = 1
  BY <1>1, <1>4
<1>5. CASE n = 2
  BY <1>1, <1>5
<1> QED BY <1>2, <1>3, <1>4, <1>5

\* A failed commit has stored a part of the replay: features keep their identities, and
\* those that are in the copy are there, with their values if no update is logged.
LEMMA FailedOwn ==
    ASSUME NEW l \in Layers, Maps, LayerTypeOK(l), LayerInv(l), commitNo \in Nat, CommitFails(l)
    PROVE  LayerTypeOK(l)' /\ LayerInv(l)'
<1>1. PICK stored \in {remote[l], WithValues(l), WithoutRemoved(l)} : remote' = [remote EXCEPT ![l] = stored]
  BY PartStored
<1>2. /\ Turn(l) /\ remote'[l] = stored
      /\ table' = table /\ fids' = fids /\ log' = log /\ commitNo' = commitNo /\ lost' = lost
      /\ nextId' = nextId /\ sync'.stage = "next"
  <2>1. sync' = AfterLayer(l)
    BY DEF CommitFails, LeaveOffline
  <2>2. sync'.stage = "next"
    <3>1. sync.stage = "next" /\ sync' = [sync EXCEPT !.stage = "next", !.todo = @ \ {l}, !.layer = Unknown]
      BY <2>1 DEF CommitFails, Turn, AfterLayer
    <3> QED BY <3>1
  <2> QED BY <1>1, <2>2 DEF CommitFails, Maps, database
<1>3. \A S : "next" \notin S => ~At(l, S) /\ ~At(l, S)'
  BY <1>2 DEF At, Turn
<1>4. \A r \in DOMAIN remote[l] : remote[l][r] \in Features
  BY LayerTypes
<1>5. /\ remote'[l] \in [DOMAIN remote'[l] -> Features]
      /\ \A r \in DOMAIN remote'[l] : r \in DOMAIN remote[l] /\ remote'[l][r].who = remote[l][r].who
  <2>1. CASE stored = remote[l]
    BY <1>2, <2>1 DEF LayerTypeOK
  <2>2. CASE stored = WithValues(l)
    <3>1. /\ WithValues(l) \in [DOMAIN remote[l] -> Features] /\ DOMAIN WithValues(l) = DOMAIN remote[l]
          /\ \A r \in DOMAIN remote[l] : WithValues(l)[r].who = remote[l][r].who
      BY ReplayTypes
    <3> QED BY <1>2, <2>2, <3>1
  <2>3. CASE stored = WithoutRemoved(l)
    <3>1. /\ \A r \in DOMAIN WithoutRemoved(l) :
                r \in DOMAIN remote[l] /\ WithoutRemoved(l)[r] = WithValues(l)[r]
          /\ \A r \in DOMAIN remote[l] :
                WithValues(l)[r] \in Features /\ WithValues(l)[r].who = remote[l][r].who
      BY ReplayTypes
    <3>2. WithoutRemoved(l) = [r \in DOMAIN WithoutRemoved(l) |-> WithoutRemoved(l)[r]]
      BY DEF WithoutRemoved, Restrict
    <3> QED BY <1>2, <2>3, <3>1, <3>2
  <2> QED BY <2>1, <2>2, <2>3
<1>6. ASSUME Mild(l), NEW i \in DOMAIN fids[l], fids[l][i].offline \in DOMAIN table[l],
             fids[l][i].remote \in DOMAIN remote[l]
      PROVE  /\ fids[l][i].remote \in DOMAIN remote'[l]
             /\ ~Updated(l, fids[l][i].offline) =>
                   remote'[l][fids[l][i].remote] = remote[l][fids[l][i].remote]
  <2> DEFINE r == fids[l][i].remote
  <2>1. /\ r \in DOMAIN WithoutRemoved(l)
        /\ ~Updated(l, fids[l][i].offline) => WithValues(l)[r] = remote[l][r]
    BY <1>6, ReplayFits
  <2>2. /\ DOMAIN WithValues(l) = DOMAIN remote[l]
        /\ \A k \in DOMAIN WithoutRemoved(l) : WithoutRemoved(l)[k] = WithValues(l)[k]
    BY ReplayTypes
  <2> HIDE DEF r
  <2>3. r \in DOMAIN remote[l]
    BY <1>6 DEF r
  <2>4. r \in DOMAIN stored /\ (~Updated(l, fids[l][i].offline) => stored[r] = remote[l][r])
    BY <2>1, <2>2, <2>3
  <2> QED BY <1>2, <2>4 DEF r
<1>7. LayerTypeOK(l)'
  BY <1>2, <1>5 DEF LayerTypeOK
<1>8. /\ Mapped(l)' = Mapped(l) /\ Known(l)' = Known(l)
      /\ \A f : RemoteFid(l, f)' = RemoteFid(l, f)
      /\ \A f : (Updated(l, f)' <=> Updated(l, f)) /\ (LastLogged(l, f)' <=> LastLogged(l, f))
      /\ (Mild(l)' <=> Mild(l))
  BY <1>2 DEF Mapped, Known, RemoteFid, Updated, LastLogged, Mild
<1>9. InOrder(l)'
  BY <1>2 DEF LayerInv, InOrder
<1>10. Pending(l)'
  BY <1>3 DEF Pending
<1>11. PairsSound(l)'
  BY <1>2, <1>5 DEF LayerInv, PairsSound, IsMine
<1>12. LogFits(l)'
  BY <1>2, <1>3, <1>8 DEF LayerInv, LogFits
<1>13. Stored(l)'
  <2>1. SUFFICES ASSUME Mild(l), NEW f \in DOMAIN table[l]
                 PROVE  /\ f \in Mapped(l) => RemoteFid(l, f) \in DOMAIN remote'[l]
                        /\ f \notin Contents(log[l].added) =>
                              IF Updated(l, f) THEN LastLogged(l, f) ELSE OnServer(l, f)'
    BY <1>2, <1>3, <1>8 DEF Stored
  <2>2. /\ f \in Mapped(l) => RemoteFid(l, f) \in DOMAIN remote[l]
        /\ f \notin Contents(log[l].added) =>
              IF Updated(l, f) THEN LastLogged(l, f) ELSE OnServer(l, f)
    BY <2>1 DEF LayerInv, Stored
  <2>3. f \in Mapped(l) => RemoteFid(l, f) \in DOMAIN remote'[l]
    <3>1. SUFFICES ASSUME f \in Mapped(l) PROVE RemoteFid(l, f) \in DOMAIN remote'[l]
      OBVIOUS
    <3>2. PICK i \in DOMAIN fids[l] : fids[l][i].offline = f /\ RemoteFid(l, f) = fids[l][i].remote
      BY <3>1, RowOf
    <3> QED BY <1>6, <2>1, <2>2, <3>1, <3>2
  <2>4. ~Updated(l, f) /\ OnServer(l, f) => OnServer(l, f)'
    BY <1>2, <1>6, <2>1 DEF OnServer
  <2> QED BY <2>2, <2>3, <2>4
<1>14. Replayed(l)'
  BY <1>3 DEF Replayed
<1>15. PairedOnce(l)'
  <2>1. SUFFICES ASSUME lost[l] = {} PROVE PairedOnce(l)'
    BY <1>2 DEF PairedOnce
  <2> QED BY <1>2, <1>3, <1>5, <1>8, <2>1 DEF LayerInv, PairedOnce, IsMine
<1> QED BY <1>7, <1>9, <1>10, <1>11, <1>12, <1>13, <1>14, <1>15 DEF LayerInv

\* The ids that are not in the lookup are those given to the added features.
LEMMA NewIds ==
    ASSUME NEW l \in Layers, LayerTypeOK(l), LayerInv(l), At(l, {"lookup"}), "unlogged" \notin lost[l],
           Len(Sorted(DOMAIN remote[l] \ Known(l))) = Len(log[l].added)
    PROVE  \A i \in DOMAIN log[l].added :
              /\ Sorted(DOMAIN remote[l] \ Known(l))[i] \in DOMAIN remote[l]
              /\ remote[l][Sorted(DOMAIN remote[l] \ Known(l))[i]] = table[l][log[l].added[i]]
              /\ log[l].added[i] \in DOMAIN table[l]
<1> DEFINE new == DOMAIN remote[l] \ Known(l)
           n == Len(log[l].added)
<1>1. log[l].added \in Seq(1 .. MaxFid) /\ n \in Nat /\ DOMAIN log[l].added = 1 .. n
  BY LayerTypes
<1>2. PICK b \in 0 .. nextId[l] : \A i \in 1 .. n :
          b + i - 1 \in new /\ remote[l][b + i - 1] = table[l][log[l].added[i]]
  BY <1>1 DEF LayerInv, Pending
<1>3. IsFiniteSet(new) /\ new \in SUBSET Int /\ nextId[l] \in Nat
  <2>1. nextId[l] \in Nat /\ DOMAIN remote[l] \subseteq 0 .. nextId[l] - 1
    BY DEF LayerTypeOK
  <2>2. IsFiniteSet(0 .. nextId[l] - 1)
    <3> DEFINE m == nextId[l] - 1
    <3>1. m \in Int /\ 0 \in Int
      BY <2>1
    <3> HIDE DEF m
    <3>2. IsFiniteSet(0 .. m)
      BY <3>1, FS_Interval
    <3> QED BY <3>2 DEF m
  <2>3. new \subseteq 0 .. nextId[l] - 1
    BY <2>1
  <2> HIDE DEF new
  <2>4. IsFiniteSet(new)
    BY <2>2, <2>3, FS_Subset
  <2> QED BY <2>1, <2>3, <2>4
<1> HIDE DEF n
<1>4. b \in Nat
  BY <1>3
<1>5. Cardinality(new) = n
  <2>1. Len(Sorted(new)) = Cardinality(new)
    BY <1>3, SortedProperties
  <2> QED BY <2>1 DEF n
<1>6. b .. b + n - 1 \subseteq new
  <2>1. SUFFICES ASSUME NEW r \in b .. b + n - 1 PROVE r \in new
    OBVIOUS
  <2>2. r - b + 1 \in 1 .. n /\ r = b + (r - b + 1) - 1
    BY <1>1, <1>4
  <2> HIDE DEF new
  <2> QED BY <1>2, <2>2
<1>7. Cardinality(b .. b + n - 1) = n
  <2> DEFINE e == b + n - 1
  <2>1. e \in Int /\ b \in Int
    BY <1>1, <1>4
  <2> HIDE DEF e
  <2>2. Cardinality(b .. e) = IF b > e THEN 0 ELSE e - b + 1
    BY <2>1, FS_Interval
  <2> QED BY <1>1, <1>4, <2>2 DEF e
<1>8. new = b .. b + n - 1
  <2> HIDE DEF new
  <2> DEFINE ids == b .. b + n - 1
  <2>1. ids \in SUBSET new /\ Cardinality(ids) = Cardinality(new)
    BY <1>5, <1>6, <1>7
  <2> HIDE DEF ids
  <2>2. ids = new
    BY <1>3, <2>1, FS_Subset
  <2> QED BY <2>2 DEF ids
<1>9. Sorted(new) = [k \in 1 .. n |-> b + k - 1]
  <2> HIDE DEF new
  <2> QED BY <1>1, <1>4, <1>8, SortedInterval
<1>10. \A i \in 1 .. n : log[l].added[i] \in DOMAIN table[l]
  BY <1>1 DEF LayerTypeOK, Contents
<1> SUFFICES ASSUME NEW i \in 1 .. n
             PROVE  /\ Sorted(new)[i] \in DOMAIN remote[l]
                    /\ remote[l][Sorted(new)[i]] = table[l][log[l].added[i]]
                    /\ log[l].added[i] \in DOMAIN table[l]
  BY <1>1
<1>11. b + i - 1 \in DOMAIN remote[l] /\ remote[l][b + i - 1] = table[l][log[l].added[i]]
  BY <1>2
<1> HIDE DEF new
<1>12. Sorted(new)[i] = b + i - 1
  BY <1>9
<1> QED BY <1>10, <1>11, <1>12

\* The lookup: the ids are paired in the order of both, if there are as many.
LEMMA LookupOwn ==
    ASSUME NEW l \in Layers, Maps, LayerTypeOK(l), LayerInv(l), commitNo \in Nat, UpdateFidLookup(l)
    PROVE  LayerTypeOK(l)' /\ LayerInv(l)'
<1> DEFINE known == {fids[l][i].remote : i \in DOMAIN fids[l]}
           newRemote == Sorted(DOMAIN remote[l] \ known)
           added == log[l].added
           new == [i \in DOMAIN added |-> [offline |-> added[i], remote |-> newRemote[i]]]
<1>1. /\ \A S : At(l, S) <=> "lookup" \in S
      /\ \A S : At(l, S)' <=> "added" \in S
      /\ table' = table /\ remote' = remote /\ nextId' = nextId /\ log' = log /\ commitNo' = commitNo
  <2>1. sync' = [sync EXCEPT !.stage = "added"] /\ sync.stage = "lookup" /\ sync.layer = l
    BY DEF UpdateFidLookup
  <2>2. table' = table /\ remote' = remote /\ nextId' = nextId /\ log' = log /\ commitNo' = commitNo
    BY DEF UpdateFidLookup
  <2>3. \A S : At(l, S) <=> "lookup" \in S
    BY <2>1 DEF At
  <2>4. \A S : At(l, S)' <=> "added" \in S
    <3>1. sync'.stage = "added" /\ sync'.layer = l
      BY <2>1
    <3> QED BY <3>1 DEF At
  <2> QED BY <2>2, <2>3, <2>4
<1>2. \A f : /\ Updated(l, f)' <=> Updated(l, f)
             /\ LastLogged(l, f)' <=> LastLogged(l, f)
  BY <1>1 DEF Updated, LastLogged
<1>3. CASE ~Pairable(newRemote, added)
  <2>1. fids'[l] = fids[l] /\ lost'[l] = IF added = <<>> THEN lost[l] ELSE lost[l] \union {"unmapped"}
    BY <1>3 DEF UpdateFidLookup, Maps
  <2>2. /\ Mapped(l)' = Mapped(l) /\ Known(l)' = Known(l)
        /\ \A f : RemoteFid(l, f)' = RemoteFid(l, f)
        /\ \A f : OnServer(l, f)' <=> OnServer(l, f)
    BY <1>1, <2>1 DEF Mapped, Known, RemoteFid, OnServer
  <2>3. LayerTypeOK(l)'
    <3>1. lost'[l] \subseteq Harms /\ ("unlogged" \in lost[l] => "unlogged" \in lost'[l])
      BY <2>1 DEF LayerTypeOK, Harms
    <3> QED BY <1>1, <2>1, <3>1 DEF LayerTypeOK
  <2>4. /\ Mild(l)' => Mild(l) /\ added = <<>>
        /\ lost'[l] = {} => lost[l] = {} /\ added = <<>>
        /\ lost[l] \subseteq lost'[l]
    <3> HIDE DEF added
    <3>1. CASE added = <<>>
      BY <2>1, <3>1 DEF Mild
    <3>2. CASE added # <<>>
      <4>1. lost'[l] = lost[l] \union {"unmapped"} /\ "unmapped" \in lost'[l]
        BY <2>1, <3>2
      <4>2. ~Mild(l)' /\ lost'[l] # {}
        BY <4>1 DEF Mild
      <4> QED BY <4>1, <4>2
    <3> QED BY <3>1, <3>2
  <2>5. added = <<>> => Contents(added) = {} /\ DOMAIN added = {}
    BY DEF Contents
  <2>6. InOrder(l)'
    BY <1>1, <2>1, <2>4 DEF LayerInv, InOrder
  <2>7. Pending(l)'
    BY <1>1 DEF Pending
  <2>8. PairsSound(l)'
    BY <1>1, <2>1, <2>4 DEF LayerInv, PairsSound
  <2>9. LogFits(l)'
    BY <1>1, <1>2, <2>2, <2>4, <2>5 DEF LayerInv, LogFits
  <2>10. Stored(l)'
    <3>1. SUFFICES ASSUME Mild(l)', NEW f \in DOMAIN table[l]
                   PROVE  /\ f \in Mapped(l) => RemoteFid(l, f) \in DOMAIN remote[l]
                          /\ IF Updated(l, f) THEN LastLogged(l, f) ELSE OnServer(l, f)
      BY <1>1, <1>2, <2>2 DEF Stored
    <3> QED BY <2>4, <2>5, <3>1 DEF LayerInv, Stored
  <2>11. Replayed(l)'
    <3>1. /\ At(l, {"lookup", "added", "removed", "updates"}) /\ At(l, {"lookup", "added", "removed"})
          /\ table' = table /\ remote' = remote /\ log' = log
      BY <1>1
    <3> QED BY <1>2, <2>2, <2>4, <3>1 DEF LayerInv, Replayed
  <2>12. PairedOnce(l)'
    <3>1. SUFFICES ASSUME lost'[l] = {} PROVE PairedOnce(l)'
      BY DEF PairedOnce
    <3>2. lost[l] = {} /\ DOMAIN added = {}
      BY <2>4, <2>5, <3>1
    <3>3. \A r \in DOMAIN remote[l] : IsMine(remote[l][r]) => r \in Known(l)
      BY <1>1, <3>2 DEF LayerInv, Pending
    <3> QED BY <1>1, <2>1, <2>2, <3>2, <3>3 DEF LayerInv, PairedOnce
  <2> QED BY <2>3, <2>6, <2>7, <2>8, <2>9, <2>10, <2>11, <2>12 DEF LayerInv
<1>4. CASE Pairable(newRemote, added)
  <2>1. fids'[l] = fids[l] \o new /\ lost'[l] = lost[l]
    BY <1>4 DEF UpdateFidLookup, Maps
  <2>2. known = Known(l) /\ Len(newRemote) = Len(added)
    BY <1>4 DEF Known, Pairable
  <2>3. /\ added \in Seq(1 .. MaxFid) /\ Len(added) \in Nat /\ DOMAIN added = 1 .. Len(added)
        /\ fids[l] \in Seq(Rows) /\ Len(fids[l]) \in Nat /\ DOMAIN fids[l] = 1 .. Len(fids[l])
        /\ nextId[l] \in Nat
        /\ \A r \in DOMAIN remote[l] : r \in Nat /\ r < nextId[l]
    BY LayerTypes
  <2> DEFINE n == Len(added)
             m == Len(fids[l])
             ids == DOMAIN remote[l] \ known
  <2>4. IsFiniteSet(ids) /\ ids \in SUBSET Int
    <3>1. IsFiniteSet(0 .. nextId[l] - 1)
      <4> DEFINE e == nextId[l] - 1
      <4>1. e \in Int /\ 0 \in Int
        BY <2>3
      <4> HIDE DEF e
      <4>2. IsFiniteSet(0 .. e)
        BY <4>1, FS_Interval
      <4> QED BY <4>2 DEF e
    <3>2. ids \subseteq 0 .. nextId[l] - 1
      BY <2>3
    <3> HIDE DEF ids
    <3>3. IsFiniteSet(ids)
      BY <3>1, <3>2, FS_Subset
    <3> QED BY <3>2, <3>3
  <2>5. /\ DOMAIN newRemote = 1 .. n /\ \A i \in 1 .. n : newRemote[i] \in ids
        /\ \A i, j \in 1 .. n : i < j => newRemote[i] < newRemote[j]
    <3>1. /\ Len(Sorted(ids)) = Cardinality(ids) /\ DOMAIN Sorted(ids) = 1 .. Cardinality(ids)
          /\ \A k \in 1 .. Cardinality(ids) : Sorted(ids)[k] \in ids
          /\ \A j, k \in 1 .. Cardinality(ids) : j < k => Sorted(ids)[j] < Sorted(ids)[k]
      BY <2>4, SortedProperties
    <3> QED BY <2>2, <3>1
  <2>6. \A i \in 1 .. n : newRemote[i] \in DOMAIN remote[l] /\ newRemote[i] \notin Known(l)
    BY <2>2, <2>5
  <2>7. "unlogged" \notin lost[l] =>
           \A i \in 1 .. n : remote[l][newRemote[i]] = table[l][added[i]] /\ added[i] \in DOMAIN table[l]
    BY <1>1, <2>2, <2>3, NewIds
  <2> HIDE DEF known, newRemote, ids, added
  <2>8. /\ new \in Seq(Rows) /\ Len(new) = n /\ DOMAIN new = 1 .. n
        /\ \A i \in 1 .. n : new[i].offline = added[i] /\ new[i].remote = newRemote[i]
    <3>1. ASSUME NEW i \in 1 .. n
          PROVE  [offline |-> added[i], remote |-> newRemote[i]] \in Rows
      <4>1. newRemote[i] \in Nat
        BY <2>3, <2>6
      <4>2. added[i] \in 1 .. MaxFid
        BY <2>3, ElementOfSeq
      <4> HIDE DEF n
      <4> QED BY <4>1, <4>2 DEF Rows
    <3>2. new \in [1 .. n -> Rows]
      BY <2>3, <3>1
    <3>3. \A i \in 1 .. n : new[i] = [offline |-> added[i], remote |-> newRemote[i]]
      BY <2>3
    <3> QED BY <2>3, <3>2, <3>3
  <2> HIDE DEF new, n, m
  <2> DEFINE all == fids[l] \o new
  <2>9. /\ all \in Seq(Rows) /\ DOMAIN all = 1 .. m + n
        /\ \A i \in 1 .. m : all[i] = fids[l][i]
        /\ \A i \in 1 .. n : all[m + i].offline = added[i] /\ all[m + i].remote = newRemote[i]
        /\ n \in Nat /\ m \in Nat /\ DOMAIN added = 1 .. n /\ DOMAIN fids[l] = 1 .. m
    <3>1. n \in Nat /\ m \in Nat /\ DOMAIN added = 1 .. n /\ DOMAIN fids[l] = 1 .. m
      BY <2>3 DEF n, m
    <3>2. /\ all \in Seq(Rows) /\ Len(all) = m + n
          /\ \A i \in 1 .. m + n : all[i] = IF i <= m THEN fids[l][i] ELSE new[i - m]
      <4>1. fids[l] \in Seq(Rows) /\ Len(fids[l]) = m /\ new \in Seq(Rows) /\ Len(new) = n
        BY <2>3, <2>8 DEF m
      <4>2. /\ fids[l] \o new \in Seq(Rows) /\ Len(fids[l] \o new) = Len(fids[l]) + Len(new)
            /\ \A i \in 1 .. Len(fids[l]) + Len(new) :
                  (fids[l] \o new)[i] = IF i <= Len(fids[l]) THEN fids[l][i] ELSE new[i - Len(fids[l])]
        BY <4>1, ConcatProperties
      <4> QED BY <4>1, <4>2
    <3> HIDE DEF all
    <3>3. \A i \in 1 .. m : i \in 1 .. m + n /\ i <= m
      BY <3>1
    <3>4. \A i \in 1 .. n : m + i \in 1 .. m + n /\ ~(m + i <= m) /\ m + i - m = i
      BY <3>1
    <3>5. ASSUME NEW i \in 1 .. n
          PROVE  all[m + i] = new[i]
      <4> DEFINE k == m + i
      <4>1. k \in 1 .. m + n /\ ~(k <= m) /\ k - m = i
        BY <3>1
      <4> HIDE DEF k
      <4>2. all[k] = new[k - m]
        BY <3>2, <4>1
      <4> QED BY <4>1, <4>2 DEF k
    <3>6. DOMAIN all = 1 .. m + n
      BY <3>1, <3>2
    <3> QED BY <2>8, <3>1, <3>2, <3>3, <3>5, <3>6
  <2>10. fids'[l] = all
    BY <2>1
  <2>11. \A i \in 1 .. m + n : i \in 1 .. m \/ \E k \in 1 .. n : i = m + k
    <3>1. \A i \in 1 .. m + n : i \in 1 .. m \/ (i - m \in 1 .. n /\ i = m + (i - m))
      BY <2>9
    <3> QED BY <3>1
  <2>12. \A i \in 1 .. m : i \in DOMAIN all
    BY <2>9
  <2>13. \A k \in 1 .. n : m + k \in DOMAIN all
    BY <2>9
  <2>14. /\ Mapped(l)' = Mapped(l) \union Contents(added)
         /\ \A f \in Mapped(l) : RemoteFid(l, f)' = RemoteFid(l, f)
         /\ Mapped(l) = Offlines(fids[l]) /\ Mapped(l)' = Offlines(all)
    <3>1. /\ Offlines(all) = Offlines(fids[l]) \union Offlines(new)
          /\ \A f \in Offlines(fids[l]) : FirstFid(all, f) = FirstFid(fids[l], f)
      BY <2>3, <2>8, FidAppended
    <3>2. Offlines(new) = Contents(added)
      BY <2>8, <2>9 DEF Offlines, Contents
    <3>3. /\ Mapped(l) = Offlines(fids[l]) /\ Mapped(l)' = Offlines(fids'[l])
          /\ \A f : RemoteFid(l, f) = FirstFid(fids[l], f)
          /\ \A f : RemoteFid(l, f)' = FirstFid(fids'[l], f)
      BY LookupByRows
    <3> HIDE DEF all
    <3> QED BY <2>10, <3>1, <3>2, <3>3
  <2>15. Known(l)' = Known(l) \union {newRemote[i] : i \in 1 .. n}
    <3>1. Known(l)' = {all[i].remote : i \in 1 .. m + n}
      BY <2>9, <2>10 DEF Known
    <3>2. Known(l) = {fids[l][i].remote : i \in 1 .. m}
      BY <2>9 DEF Known
    <3> HIDE DEF all
    <3>3. ASSUME NEW i \in 1 .. m + n
          PROVE  all[i].remote \in Known(l) \union {newRemote[k] : k \in 1 .. n}
      <4>1. CASE i \in 1 .. m
        BY <2>9, <3>2, <4>1
      <4>2. CASE \E k \in 1 .. n : i = m + k
        BY <2>9, <4>2
      <4> QED BY <2>11, <4>1, <4>2
    <3>4. \A i \in 1 .. m : fids[l][i].remote \in Known(l)'
      <4>1. \A i \in 1 .. m : i \in 1 .. m + n /\ all[i].remote = fids[l][i].remote
        BY <2>9
      <4> QED BY <3>1, <4>1
    <3>5. \A k \in 1 .. n : newRemote[k] \in Known(l)'
      <4>1. \A k \in 1 .. n : m + k \in 1 .. m + n /\ all[m + k].remote = newRemote[k]
        BY <2>9
      <4> QED BY <3>1, <4>1
    <3> QED BY <3>1, <3>2, <3>3, <3>4, <3>5
  <2> HIDE DEF all
  <2>16. LayerTypeOK(l)'
    <3>1. \A i \in 1 .. m : fids[l][i].remote < nextId[l]
      BY <2>9, LayerTypes
    <3>2. \A i \in 1 .. n : newRemote[i] < nextId[l]
      BY <2>3, <2>6
    <3>3. \A i \in DOMAIN all : all[i].remote < nextId[l]
      <4>1. \A i \in 1 .. m : all[i].remote < nextId[l]
        BY <2>9, <3>1
      <4>2. \A k \in 1 .. n : all[m + k].remote < nextId[l]
        BY <2>9, <3>2
      <4>3. ASSUME NEW i \in 1 .. m + n
            PROVE  all[i].remote < nextId[l]
        <5>1. i \in 1 .. m \/ \E k \in 1 .. n : i = m + k
          BY <2>11
        <5> QED BY <4>1, <4>2, <5>1
      <4>4. DOMAIN all = 1 .. m + n
        BY <2>9
      <4> QED BY <4>3, <4>4
    <3> QED BY <1>1, <2>1, <2>9, <2>10, <3>3 DEF LayerTypeOK
  <2>17. log[l].added = added /\ (Mild(l)' <=> Mild(l))
    BY <2>1 DEF added, Mild
  <2>18. InOrder(l)'
    <3>1. ASSUME NEW i \in 1 .. m + n, NEW j \in 1 .. m + n, all[i].remote = all[j].remote
          PROVE  i = j
      <4>1. \A k \in 1 .. m : all[k].remote \in Known(l)
        BY <2>9 DEF Known
      <4>2. \A k \in 1 .. n : all[m + k].remote = newRemote[k] /\ newRemote[k] \notin Known(l) /\ newRemote[k] \in Int
        <5>1. \A r \in DOMAIN remote[l] : r \in Int
          BY <2>3
        <5>2. \A k \in 1 .. n : newRemote[k] \in DOMAIN remote[l] /\ newRemote[k] \notin Known(l)
          BY <2>6
        <5> QED BY <2>9, <5>1, <5>2
      <4>3. CASE i \in 1 .. m /\ j \in 1 .. m
        BY <2>9, <3>1, <4>3 DEF LayerInv, InOrder
      <4>4. ASSUME NEW k \in 1 .. n, NEW p \in 1 .. n, i = m + k, j = m + p
            PROVE  i = j
        <5>1. newRemote[k] = newRemote[p] /\ newRemote[k] \in Int /\ newRemote[p] \in Int
          BY <3>1, <4>2, <4>4
        <5>2. ~(k < p) /\ ~(p < k)
          BY <2>5, <5>1
        <5> QED BY <4>4, <5>2
      <4> QED BY <2>11, <3>1, <4>1, <4>2, <4>3, <4>4
    <3> QED BY <1>1, <2>1, <2>9, <2>10, <3>1 DEF LayerInv, InOrder
  <2>19. Pending(l)'
    BY <1>1 DEF Pending
  <2>20. PairsSound(l)'
    <3>1. ASSUME "unlogged" \notin lost[l], NEW k \in 1 .. n
          PROVE  /\ remote[l][all[m + k].remote] = table[l][all[m + k].offline]
                 /\ IsMine(remote[l][all[m + k].remote])
      BY <2>7, <2>9, <3>1 DEF LayerInv, InOrder
    <3>2. ASSUME lost[l] \intersect {"unlogged", "reused"} = {}, NEW i \in 1 .. m + n,
                 all[i].offline \in DOMAIN table[l], all[i].remote \in DOMAIN remote[l]
          PROVE  remote[l][all[i].remote].who = table[l][all[i].offline].who
      <4>1. CASE i \in 1 .. m
        BY <2>9, <3>2, <4>1 DEF LayerInv, PairsSound
      <4>2. CASE \E k \in 1 .. n : i = m + k
        BY <3>1, <3>2, <4>2
      <4> QED BY <2>11, <4>1, <4>2
    <3>3. ASSUME "unlogged" \notin lost[l], NEW i \in 1 .. m + n, all[i].remote \in DOMAIN remote[l]
          PROVE  IsMine(remote[l][all[i].remote])
      <4>1. CASE i \in 1 .. m
        BY <2>9, <3>3, <4>1 DEF LayerInv, PairsSound
      <4>2. CASE \E k \in 1 .. n : i = m + k
        BY <3>1, <3>3, <4>2
      <4> QED BY <2>11, <4>1, <4>2
    <3> QED BY <1>1, <2>1, <2>9, <2>10, <3>2, <3>3 DEF PairsSound
  <2>21. LogFits(l)'
    <3>1. SUFFICES ASSUME Mild(l) PROVE LogFits(l)'
      BY <2>17 DEF LogFits
    <3>2. /\ log[l].removed \subseteq Mapped(l) \ DOMAIN table[l]
          /\ DOMAIN table[l] \subseteq Contents(added) \union Mapped(l)
          /\ \A f \in 1 .. MaxFid : Updated(l, f) => f \in Mapped(l) \ Contents(added)
      BY <2>17, <3>1 DEF LayerInv, LogFits
    <3>3. /\ log[l].removed \subseteq Mapped(l)' \ DOMAIN table[l]
          /\ DOMAIN table[l] \subseteq Contents(added) \union Mapped(l)'
          /\ \A f \in 1 .. MaxFid : Updated(l, f) => f \in Mapped(l)' \ Contents(added)
          /\ Contents(added) \subseteq Mapped(l)'
      BY <2>14, <3>2
    <3> QED BY <1>1, <1>2, <2>1, <2>17, <3>1, <3>3 DEF LayerInv, LogFits
  <2>22. Stored(l)'
    <3>1. SUFFICES ASSUME Mild(l), NEW f \in DOMAIN table[l]
                   PROVE  /\ f \in Mapped(l)' => RemoteFid(l, f)' \in DOMAIN remote[l]
                          /\ IF Updated(l, f) THEN LastLogged(l, f) ELSE OnServer(l, f)'
      BY <1>1, <1>2, <2>17 DEF Stored
    <3>2. /\ f \in Mapped(l) => RemoteFid(l, f) \in DOMAIN remote[l]
          /\ f \notin Contents(added) =>
                IF Updated(l, f) THEN LastLogged(l, f) ELSE OnServer(l, f)
      BY <2>17, <3>1 DEF LayerInv, Stored
    <3>3. Updated(l, f) => f \notin Contents(added)
      BY <2>17, <3>1, LayerTypes DEF LayerInv, LogFits
    <3>4. f \in Mapped(l)' => RemoteFid(l, f)' \in DOMAIN remote[l]
      <4>1. CASE f \in Mapped(l)
        BY <2>14, <3>2, <4>1
      <4>2. CASE f \notin Mapped(l) /\ f \in Mapped(l)'
        <5>1. f \in Offlines(all) /\ RemoteFid(l, f)' = FirstFid(all, f)
          BY <2>10, <2>14, <4>2, LookupByRows
        <5>2. PICK i \in 1 .. m + n : all[i].offline = f /\ FirstFid(all, f) = all[i].remote
          BY <2>9, <5>1, FirstRow
        <5>3. i \notin 1 .. m
          BY <2>9, <4>2, <5>2 DEF Mapped
        <5>4. PICK k \in 1 .. n : i = m + k
          BY <2>11, <5>3
        <5> QED BY <2>6, <2>9, <5>1, <5>2, <5>4
      <4> QED BY <4>1, <4>2
    <3>5. OnServer(l, f) => OnServer(l, f)'
      BY <1>1, <2>9, <2>10, <2>12 DEF OnServer
    <3>6. f \in Contents(added) => OnServer(l, f)'
      <4>1. SUFFICES ASSUME NEW k \in 1 .. n, added[k] = f PROVE OnServer(l, f)'
        BY <2>9 DEF Contents
      <4>2. /\ m + k \in DOMAIN all /\ all[m + k].offline = f
            /\ all[m + k].remote \in DOMAIN remote[l] /\ remote[l][all[m + k].remote] = table[l][f]
        <5>1. "unlogged" \notin lost[l]
          BY <3>1 DEF Mild
        <5> QED BY <2>6, <2>7, <2>9, <2>13, <4>1, <5>1
      <4> QED BY <1>1, <2>10, <4>2 DEF OnServer
    <3> QED BY <3>2, <3>3, <3>4, <3>5, <3>6
  <2>23. Replayed(l)'
    <3>1. SUFFICES ASSUME Mild(l)
                   PROVE  /\ \A f \in DOMAIN table[l] :
                                Updated(l, f) => remote[l][RemoteFid(l, f)'].val = table[l][f].val
                          /\ \A f \in log[l].removed : RemoteFid(l, f)' \notin DOMAIN remote[l]
      BY <1>1, <1>2, <2>17 DEF Replayed
    <3>2. /\ \A f \in DOMAIN table[l] :
                Updated(l, f) => remote[l][RemoteFid(l, f)].val = table[l][f].val
          /\ \A f \in log[l].removed : RemoteFid(l, f) \notin DOMAIN remote[l]
      <4>1. At(l, {"lookup", "added", "removed", "updates"}) /\ At(l, {"lookup", "added", "removed"})
        BY <1>1 DEF At
      <4> QED BY <3>1, <4>1 DEF LayerInv, Replayed
    <3>3. /\ \A f \in DOMAIN table[l] : Updated(l, f) => f \in Mapped(l)
          /\ \A f \in log[l].removed : f \in Mapped(l)
      BY <3>1, LayerTypes DEF LayerInv, LogFits
    <3> QED BY <2>14, <3>2, <3>3
  <2>24. PairedOnce(l)'
    <3>1. SUFFICES ASSUME lost[l] = {} PROVE PairedOnce(l)'
      BY <2>1 DEF PairedOnce
    <3>2. /\ Contents(added) \intersect Mapped(l) = {}
          /\ \A i, j \in DOMAIN fids[l] : fids[l][i].offline = fids[l][j].offline => i = j
          /\ \A i \in DOMAIN fids[l] :
                fids[l][i].remote \in DOMAIN remote[l] =>
                    fids[l][i].offline \in DOMAIN table[l] \union log[l].removed
      <4>1. ~At(l, {"added"})
        BY <1>1
      <4> QED BY <2>17, <3>1, <4>1 DEF LayerInv, PairedOnce
    <3>3. ASSUME NEW i \in 1 .. m + n, NEW j \in 1 .. m + n, all[i].offline = all[j].offline
          PROVE  i = j
      <4>1. \A k \in 1 .. m : all[k].offline \in Mapped(l)
        BY <2>9 DEF Mapped
      <4>2. \A k \in 1 .. n : all[m + k].offline = added[k] /\ added[k] \notin Mapped(l) /\ added[k] \in Int
        <5>1. \A k \in 1 .. n : added[k] \in Contents(added)
          BY <2>9 DEF Contents
        <5>2. \A k \in 1 .. n : added[k] \in Int
          <6>1. \A k \in 1 .. n : added[k] \in 1 .. MaxFid
            BY <2>3, ElementOfSeq DEF n
          <6> QED BY <6>1
        <5> QED BY <2>9, <3>2, <5>1, <5>2
      <4>3. CASE i \in 1 .. m /\ j \in 1 .. m
        BY <2>9, <3>2, <3>3, <4>3
      <4>4. ASSUME NEW k \in 1 .. n, NEW p \in 1 .. n, i = m + k, j = m + p
            PROVE  i = j
        <5>1. added[k] = added[p] /\ added[k] \in Int /\ added[p] \in Int
          BY <3>3, <4>2, <4>4
        <5>2. \A q, s \in 1 .. n : q < s => added[q] < added[s]
          BY <2>9, <2>17, <3>1 DEF LayerInv, InOrder
        <5>3. ~(k < p) /\ ~(p < k)
          BY <5>1, <5>2
        <5> QED BY <4>4, <5>3
      <4> QED BY <2>11, <3>3, <4>1, <4>2, <4>3, <4>4
    <3>4. ASSUME NEW i \in 1 .. m + n, all[i].remote \in DOMAIN remote[l]
          PROVE  all[i].offline \in DOMAIN table[l] \union log[l].removed
      <4>1. CASE i \in 1 .. m
        BY <2>9, <3>2, <3>4, <4>1
      <4>2. CASE \E k \in 1 .. n : i = m + k
        <5>1. PICK k \in 1 .. n : i = m + k
          BY <4>2
        <5>2. all[m + k].offline = added[k]
          BY <2>9
        <5>3. added[k] \in DOMAIN table[l]
          BY <2>7, <3>1
        <5> QED BY <5>1, <5>2, <5>3
      <4> QED BY <2>11, <4>1, <4>2
    <3>5. ASSUME NEW r \in DOMAIN remote[l], IsMine(remote[l][r])
          PROVE  r \in Known(l)'
      <4>1. CASE r \in Known(l)
        BY <2>15, <4>1
      <4>2. CASE r \notin Known(l)
        <5>1. Sorted(ids) = newRemote /\ ids = DOMAIN remote[l] \ Known(l)
          BY <2>2 DEF newRemote, ids
        <5>2. r \in ids
          BY <3>5, <4>2, <5>1
        <5>3. \E i \in 1 .. Cardinality(ids) : newRemote[i] = r
          BY <2>4, <5>1, <5>2, SortedProperties
        <5>4. Cardinality(ids) = n
          BY <2>2, <2>4, <5>1, SortedProperties DEF n
        <5> QED BY <2>15, <5>3, <5>4
      <4> QED BY <4>1, <4>2
    <3> QED BY <1>1, <2>1, <2>9, <2>10, <3>3, <3>4, <3>5 DEF PairedOnce
  <2> QED BY <2>16, <2>18, <2>19, <2>20, <2>21, <2>22, <2>23, <2>24 DEF LayerInv
<1> QED BY <1>3, <1>4

\* The log is deleted table by table.
LEMMA ClearAddedOwn ==
    ASSUME NEW l \in Layers, Maps, LayerTypeOK(l), LayerInv(l), commitNo \in Nat, ClearAdded(l)
    PROVE  LayerTypeOK(l)' /\ LayerInv(l)'
<1>1. /\ \A S : At(l, S) <=> "added" \in S
      /\ \A S : At(l, S)' <=> "removed" \in S
      /\ table' = table /\ remote' = remote /\ nextId' = nextId /\ fids' = fids
      /\ lost' = lost /\ commitNo' = commitNo
  <2>1. sync' = [sync EXCEPT !.stage = "removed"] /\ sync.stage = "added" /\ sync.layer = l
    BY DEF ClearAdded
  <2>2. sync'.stage = "removed" /\ sync'.layer = l
    BY <2>1
  <2> QED BY <2>1, <2>2 DEF ClearAdded, At
<1>2. /\ log'[l].added = <<>> /\ log'[l].removed = log[l].removed /\ log'[l].updates = log[l].updates
      /\ log'[l] \in [added : Seq(1 .. MaxFid), removed : SUBSET (1 .. MaxFid), updates : Seq(Updates)]
  <2>0. <<>> \in Seq(1 .. MaxFid)
    OBVIOUS
  <2>1. log'[l] = [log[l] EXCEPT !.added = <<>>]
    BY DEF ClearAdded, Maps
  <2>2. log[l] \in [added : Seq(1 .. MaxFid), removed : SUBSET (1 .. MaxFid), updates : Seq(Updates)]
    BY DEF LayerTypeOK
  <2> QED BY <2>0, <2>1, <2>2
<1>3. /\ Mapped(l)' = Mapped(l) /\ Known(l)' = Known(l) /\ (Mild(l)' <=> Mild(l))
      /\ \A f : RemoteFid(l, f)' = RemoteFid(l, f)
      /\ \A f : /\ Updated(l, f)' <=> Updated(l, f)
                /\ LastLogged(l, f)' <=> LastLogged(l, f)
                /\ OnServer(l, f)' <=> OnServer(l, f)
  BY <1>1, <1>2 DEF Mapped, Known, RemoteFid, Mild, Updated, LastLogged, OnServer
<1>4. DOMAIN log'[l].added = {} /\ Contents(log'[l].added) = {}
  BY <1>2 DEF Contents
<1>5. LayerTypeOK(l)'
  BY <1>1, <1>2, <1>4 DEF LayerTypeOK
<1>6. InOrder(l)'
  BY <1>1, <1>4 DEF LayerInv, InOrder
<1>7. Pending(l)'
  BY <1>1 DEF Pending
<1>8. PairsSound(l)'
  BY <1>1 DEF LayerInv, PairsSound
<1>9. LogFits(l)'
  BY <1>1, <1>2, <1>3, <1>4 DEF LayerInv, LogFits
<1>10. Stored(l)'
  BY <1>1, <1>2, <1>3, <1>4 DEF LayerInv, Stored
<1>11. Replayed(l)'
  <2>1. At(l, {"lookup", "added", "removed", "updates"}) /\ At(l, {"lookup", "added", "removed"})
    BY <1>1
  <2> QED BY <1>1, <1>2, <1>3, <2>1 DEF LayerInv, Replayed
<1>12. PairedOnce(l)'
  BY <1>1, <1>2, <1>3, <1>4 DEF LayerInv, PairedOnce
<1> QED BY <1>5, <1>6, <1>7, <1>8, <1>9, <1>10, <1>11, <1>12 DEF LayerInv

LEMMA ClearRemovedOwn ==
    ASSUME NEW l \in Layers, Maps, LayerTypeOK(l), LayerInv(l), commitNo \in Nat, ClearRemoved(l)
    PROVE  LayerTypeOK(l)' /\ LayerInv(l)'
<1>1. /\ \A S : At(l, S) <=> "removed" \in S
      /\ \A S : At(l, S)' <=> "updates" \in S
      /\ table' = table /\ remote' = remote /\ nextId' = nextId /\ fids' = fids
      /\ lost' = lost /\ commitNo' = commitNo
  <2>1. sync' = [sync EXCEPT !.stage = "updates"] /\ sync.stage = "removed" /\ sync.layer = l
    BY DEF ClearRemoved
  <2>2. sync'.stage = "updates" /\ sync'.layer = l
    BY <2>1
  <2> QED BY <2>1, <2>2 DEF ClearRemoved, At
<1>2. /\ log'[l].added = log[l].added /\ log'[l].removed = {} /\ log'[l].updates = log[l].updates
      /\ log'[l] \in [added : Seq(1 .. MaxFid), removed : SUBSET (1 .. MaxFid), updates : Seq(Updates)]
  <2>1. log'[l] = [log[l] EXCEPT !.removed = {}]
    BY DEF ClearRemoved, Maps
  <2>2. log[l] \in [added : Seq(1 .. MaxFid), removed : SUBSET (1 .. MaxFid), updates : Seq(Updates)]
    BY DEF LayerTypeOK
  <2> QED BY <2>1, <2>2
<1>3. /\ Mapped(l)' = Mapped(l) /\ Known(l)' = Known(l) /\ (Mild(l)' <=> Mild(l))
      /\ \A f : RemoteFid(l, f)' = RemoteFid(l, f)
      /\ \A f : /\ Updated(l, f)' <=> Updated(l, f)
                /\ LastLogged(l, f)' <=> LastLogged(l, f)
                /\ OnServer(l, f)' <=> OnServer(l, f)
  BY <1>1, <1>2 DEF Mapped, Known, RemoteFid, Mild, Updated, LastLogged, OnServer
<1>4. LayerTypeOK(l)'
  BY <1>1, <1>2 DEF LayerTypeOK
<1>5. InOrder(l)'
  BY <1>1, <1>2 DEF LayerInv, InOrder
<1>6. Pending(l)'
  BY <1>1 DEF Pending
<1>7. PairsSound(l)'
  BY <1>1 DEF LayerInv, PairsSound
<1>8. LogFits(l)'
  BY <1>1, <1>2, <1>3 DEF LayerInv, LogFits
<1>9. Stored(l)'
  BY <1>1, <1>2, <1>3 DEF LayerInv, Stored
<1>10. Replayed(l)'
  <2>1. At(l, {"lookup", "added", "removed", "updates"}) /\ ~At(l, {"lookup", "added", "removed"})'
    BY <1>1
  <2> QED BY <1>1, <1>2, <1>3, <2>1 DEF LayerInv, Replayed
<1>11. PairedOnce(l)'
  <2>1. SUFFICES ASSUME lost[l] = {} PROVE PairedOnce(l)'
    BY <1>1 DEF PairedOnce
  <2>2. ASSUME NEW i \in DOMAIN fids[l], fids[l][i].remote \in DOMAIN remote[l]
        PROVE  fids[l][i].offline \in DOMAIN table[l]
    <3> DEFINE f == fids[l][i].offline
    <3>1. /\ f \in DOMAIN table[l] \union log[l].removed
          /\ \A j \in DOMAIN fids[l] : fids[l][j].offline = f => j = i
      BY <2>1, <2>2 DEF LayerInv, PairedOnce
    <3>2. f \in Mapped(l)
      BY DEF Mapped
    <3> HIDE DEF f
    <3>3. PICK j \in DOMAIN fids[l] : fids[l][j].offline = f /\ RemoteFid(l, f) = fids[l][j].remote
      BY <3>2, RowOf
    <3>4. RemoteFid(l, f) \in DOMAIN remote[l]
      BY <2>2, <3>1, <3>3
    <3>5. f \notin log[l].removed
      <4>1. At(l, {"lookup", "added", "removed"}) /\ Mild(l)
        BY <1>1, <2>1 DEF Mild
      <4> QED BY <3>4, <4>1 DEF LayerInv, Replayed
    <3> QED BY <3>1, <3>5 DEF f
  <2> QED BY <1>1, <1>2, <1>3, <2>1, <2>2 DEF LayerInv, PairedOnce
<1> QED BY <1>4, <1>5, <1>6, <1>7, <1>8, <1>9, <1>10, <1>11 DEF LayerInv

LEMMA ClearUpdatesOwn ==
    ASSUME NEW l \in Layers, Maps, LayerTypeOK(l), LayerInv(l), commitNo \in Nat, ClearUpdates(l)
    PROVE  LayerTypeOK(l)' /\ LayerInv(l)'
<1>1. /\ \A S : At(l, S) <=> "updates" \in S
      /\ \A S : "next" \notin S => ~At(l, S)'
      /\ table' = table /\ remote' = remote /\ nextId' = nextId /\ fids' = fids
      /\ lost' = lost /\ commitNo' = commitNo
  <2>1. /\ sync' = [sync EXCEPT !.stage = "next", !.todo = @ \ {l}, !.layer = Unknown]
        /\ sync.stage = "updates" /\ sync.layer = l
    BY DEF ClearUpdates, LeaveOffline, AfterLayer
  <2>2. sync'.stage = "next"
    BY <2>1
  <2> QED BY <2>1, <2>2 DEF ClearUpdates, At
<1>2. /\ log'[l].added = log[l].added /\ log'[l].removed = log[l].removed /\ log'[l].updates = <<>>
      /\ log'[l] \in [added : Seq(1 .. MaxFid), removed : SUBSET (1 .. MaxFid), updates : Seq(Updates)]
  <2>0. <<>> \in Seq(Updates)
    OBVIOUS
  <2>1. log'[l] = [log[l] EXCEPT !.updates = <<>>]
    BY DEF ClearUpdates, Maps
  <2>2. log[l] \in [added : Seq(1 .. MaxFid), removed : SUBSET (1 .. MaxFid), updates : Seq(Updates)]
    BY DEF LayerTypeOK
  <2> QED BY <2>0, <2>1, <2>2
<1>3. /\ Mapped(l)' = Mapped(l) /\ Known(l)' = Known(l) /\ (Mild(l)' <=> Mild(l))
      /\ \A f : RemoteFid(l, f)' = RemoteFid(l, f)
      /\ \A f : OnServer(l, f)' <=> OnServer(l, f)
  BY <1>1, <1>2 DEF Mapped, Known, RemoteFid, Mild, OnServer
<1>4. \A f : ~Updated(l, f)'
  BY <1>2 DEF Updated
<1>5. LayerTypeOK(l)'
  BY <1>1, <1>2 DEF LayerTypeOK
<1>6. InOrder(l)'
  BY <1>1, <1>2 DEF LayerInv, InOrder
<1>7. Pending(l)'
  BY <1>1 DEF Pending
<1>8. PairsSound(l)'
  BY <1>1 DEF LayerInv, PairsSound
<1>9. LogFits(l)'
  <2>1. DOMAIN log'[l].updates = {}
    BY <1>2
  <2> QED BY <1>1, <1>2, <1>3, <1>4, <2>1 DEF LayerInv, LogFits
<1>10. Stored(l)'
  <2>1. SUFFICES ASSUME Mild(l), NEW f \in DOMAIN table[l]
                 PROVE  /\ f \in Mapped(l) => RemoteFid(l, f) \in DOMAIN remote[l]
                        /\ f \notin Contents(log[l].added) => OnServer(l, f)
    BY <1>1, <1>2, <1>3, <1>4 DEF Stored
  <2>2. /\ f \in Mapped(l) => RemoteFid(l, f) \in DOMAIN remote[l]
        /\ f \notin Contents(log[l].added) =>
              IF Updated(l, f) THEN LastLogged(l, f) ELSE OnServer(l, f)
    BY <1>1, <2>1 DEF LayerInv, Stored
  <2>3. ASSUME Updated(l, f)
        PROVE  OnServer(l, f)
    <3>1. f \in Mapped(l)
      BY <2>1, <2>3, LayerTypes DEF LayerInv, LogFits
    <3>2. PICK i \in DOMAIN fids[l] : fids[l][i].offline = f /\ RemoteFid(l, f) = fids[l][i].remote
      BY <3>1, RowOf
    <3>3. RemoteFid(l, f) \in DOMAIN remote[l]
      BY <2>2, <3>1
    <3>4. remote[l][RemoteFid(l, f)].val = table[l][f].val
      <4>1. At(l, {"lookup", "added", "removed", "updates"})
        BY <1>1
      <4> QED BY <2>1, <2>3, <4>1 DEF LayerInv, Replayed
    <3>5. remote[l][RemoteFid(l, f)].who = table[l][f].who
      BY <2>1, <3>2, <3>3 DEF LayerInv, PairsSound, Mild
    <3>6. remote[l][RemoteFid(l, f)] = table[l][f]
      BY <2>1, <3>3, <3>4, <3>5, LayerTypes, SameFeature
    <3> QED BY <3>2, <3>3, <3>6 DEF OnServer
  <2> QED BY <2>2, <2>3
<1>11. Replayed(l)'
  BY <1>1 DEF Replayed
<1>12. PairedOnce(l)'
  BY <1>1, <1>2, <1>3 DEF LayerInv, PairedOnce
<1> QED BY <1>5, <1>6, <1>7, <1>8, <1>9, <1>10, <1>11, <1>12 DEF LayerInv

\* What is not in the lookup is found for no feature.
LEMMA NotFound ==
    ASSUME NEW l \in Layers, LayerTypeOK(l), NEW r \in DOMAIN remote[l], r \notin Known(l), NEW f
    PROVE  RemoteFid(l, f) # r
<1>1. SUFFICES ASSUME RemoteFid(l, f) = r PROVE FALSE
  OBVIOUS
<1>2. r \in Nat /\ FirstFid(fids[l], f) = r /\ fids[l] \in Seq(Rows)
  BY <1>1, LayerTypes, LookupByRows
<1> QED BY <1>2, FidType DEF Known

Additions(l, n) == IF n = 3 THEN Len(buffer[l].added) ELSE 0

\* What the remote layer is when n stages of its buffer are saved.
LEMMA SavedLayer ==
    ASSUME NEW l \in Layers, LayerTypeOK(l), BufferInv(l), NEW n \in 0 .. 3
    PROVE  /\ Additions(l, n) \in Nat
           /\ Saved(l, buffer[l], n) \in [DOMAIN Saved(l, buffer[l], n) -> Features]
           /\ \A r \in DOMAIN Saved(l, buffer[l], n) :
                 /\ r \in Nat /\ r < nextId[l] + Additions(l, n)
                 /\ r < nextId[l] =>
                       /\ r \in DOMAIN remote[l]
                       /\ Saved(l, buffer[l], n)[r].who = remote[l][r].who
           /\ \A r \in DOMAIN remote[l] :
                 (\A f \in log[l].removed : RemoteFid(l, f) # r) =>
                    /\ r \in DOMAIN Saved(l, buffer[l], n)
                    /\ (\A i \in DOMAIN log[l].updates : RemoteFid(l, log[l].updates[i].fid) # r) =>
                          Saved(l, buffer[l], n)[r] = remote[l][r]
<1> DEFINE removed == IF n >= 2 THEN buffer[l].removed ELSE {}
           added == IF n >= 3 THEN buffer[l].added ELSE <<>>
           b == nextId[l]
           k == Len(added)
           new == [r \in b .. b + k - 1 |-> added[r - b + 1]]
           old == [r \in DOMAIN remote[l] \ removed |->
                      IF n >= 1 /\ r \in DOMAIN buffer[l].values
                      THEN [remote[l][r] EXCEPT !.val = buffer[l].values[r]] ELSE remote[l][r]]
           saved_ == Saved(l, buffer[l], n)
<1>1. saved_ = Inserted(old, new)
  BY DEF Saved
<1>2. /\ added \in Seq(Features) /\ k \in Nat /\ k = Additions(l, n) /\ b \in Nat
      /\ DOMAIN added = 1 .. k
  <2>1. b \in Nat /\ buffer[l].added \in Seq(Features)
    BY LayerTypes DEF BufferInv, BufferTypeOK
  <2>2. n = 3 <=> n >= 3
    OBVIOUS
  <2>3. CASE n = 3
    BY <2>1, <2>3 DEF Additions
  <2>4. CASE n # 3
    BY <2>1, <2>2, <2>4 DEF Additions
  <2> QED BY <2>3, <2>4
<1>3. \A r \in b .. b + k - 1 : new[r] \in Features
  <2>1. \A r \in b .. b + k - 1 : r - b + 1 \in 1 .. k
    BY <1>2
  <2>2. \A i \in 1 .. k : added[i] \in Features
    BY <1>2
  <2> HIDE DEF added, k, b
  <2> QED BY <2>1, <2>2
<1>4. ASSUME NEW r \in DOMAIN old
      PROVE  old[r] \in Features /\ old[r].who = remote[l][r].who /\ r \in DOMAIN remote[l]
  <2>1. remote[l][r] \in Features /\ r \in DOMAIN remote[l]
    BY <1>4, LayerTypes
  <2>2. r \in DOMAIN buffer[l].values => buffer[l].values[r] \in Values
    BY DEF BufferInv, BufferTypeOK
  <2>3. CASE n >= 1 /\ r \in DOMAIN buffer[l].values
    <3>1. old[r] = [remote[l][r] EXCEPT !.val = buffer[l].values[r]]
      BY <1>4, <2>3
    <3> QED BY <2>1, <2>2, <2>3, <3>1 DEF Features
  <2>4. CASE ~(n >= 1 /\ r \in DOMAIN buffer[l].values)
    <3>1. old[r] = remote[l][r]
      BY <1>4, <2>4
    <3> QED BY <2>1, <3>1
  <2> QED BY <2>3, <2>4
<1>5. DOMAIN new = b .. b + k - 1 /\ DOMAIN old = DOMAIN remote[l] \ removed
  OBVIOUS
<1>6. \A r \in DOMAIN remote[l] : r \in Nat /\ r < b
  BY LayerTypes
<1>7. ASSUME NEW r \in DOMAIN remote[l], \A f \in log[l].removed : RemoteFid(l, f) # r
      PROVE  /\ r \in DOMAIN old
             /\ (\A i \in DOMAIN log[l].updates : RemoteFid(l, log[l].updates[i].fid) # r) =>
                   old[r] = remote[l][r]
  <2>1. r \notin removed
    BY <1>7 DEF BufferInv
  <2>2. (\A i \in DOMAIN log[l].updates : RemoteFid(l, log[l].updates[i].fid) # r) =>
           r \notin DOMAIN buffer[l].values
    BY DEF BufferInv
  <2> HIDE DEF removed
  <2> QED BY <1>5, <1>7, <2>1, <2>2
<1> HIDE DEF new, old, removed, added, k, b, saved_
<1>8. saved_ = [r \in DOMAIN old \union (b .. b + k - 1) |->
                 IF r \in b .. b + k - 1 THEN new[r] ELSE old[r]]
  BY <1>1, <1>5 DEF Inserted
<1>9. \A r \in DOMAIN old : r \notin b .. b + k - 1 /\ saved_[r] = old[r] /\ r \in DOMAIN saved_
  BY <1>2, <1>4, <1>6, <1>8
<1>10. saved_ \in [DOMAIN saved_ -> Features]
  BY <1>3, <1>4, <1>8
<1>11. ASSUME NEW r \in DOMAIN saved_
       PROVE  /\ r \in Nat /\ r < b + k
              /\ r < b => r \in DOMAIN remote[l] /\ saved_[r].who = remote[l][r].who
  <2>1. r \in DOMAIN old \/ r \in b .. b + k - 1
    BY <1>8, <1>11
  <2>2. CASE r \in DOMAIN old
    <3>1. r \in Nat /\ r < b
      BY <1>4, <1>6, <2>2
    <3> QED BY <1>2, <1>4, <1>9, <2>2, <3>1
  <2>3. CASE r \in b .. b + k - 1
    BY <1>2, <2>3
  <2> QED BY <2>1, <2>2, <2>3
<1>12. \A r \in DOMAIN remote[l] :
          (\A f \in log[l].removed : RemoteFid(l, f) # r) =>
             /\ r \in DOMAIN saved_
             /\ (\A i \in DOMAIN log[l].updates : RemoteFid(l, log[l].updates[i].fid) # r) =>
                   saved_[r] = remote[l][r]
  BY <1>7, <1>9
<1> QED BY <1>2, <1>10, <1>11, <1>12 DEF saved_, b

\* The rest of a buffer is saved late: what it changes or removes is still logged, and
\* what it adds will be added again.
LEMMA SaveOwn ==
    ASSUME NEW l \in Layers, Maps, LayerTypeOK(l), LayerInv(l), BufferInv(l), commitNo \in Nat, SaveRemote(l)
    PROVE  LayerTypeOK(l)' /\ LayerInv(l)'
<1>1. PICK n \in 0 .. 3 :
         /\ remote' = [remote EXCEPT ![l] = Saved(l, buffer[l], n)]
         /\ nextId' = [nextId EXCEPT ![l] = @ + Additions(l, n)]
         /\ lost' = [lost EXCEPT ![l] = IF Additions(l, n) = 0 THEN @ ELSE @ \union {"repeated"}]
  BY DEF SaveRemote, Additions
<1> DEFINE b == nextId[l]
           k == Additions(l, n)
<1>2. /\ remote'[l] = Saved(l, buffer[l], n) /\ nextId'[l] = b + k
      /\ lost'[l] = (IF k = 0 THEN lost[l] ELSE lost[l] \union {"repeated"})
      /\ table' = table /\ fids' = fids /\ log' = log /\ commitNo' = commitNo
      /\ sync' = sync /\ sync.stage = "idle"
  <2>1. remote'[l] = Saved(l, buffer[l], n) /\ nextId'[l] = b + k
    BY <1>1 DEF Maps
  <2>2. lost'[l] = (IF k = 0 THEN lost[l] ELSE lost[l] \union {"repeated"})
    BY <1>1 DEF Maps
  <2> QED BY <2>1, <2>2 DEF SaveRemote, database, Idle
<1>3. \A S : "idle" \notin S => ~At(l, S) /\ ~At(l, S)'
  BY <1>2 DEF At
<1>4. /\ k \in Nat /\ b \in Nat /\ remote'[l] \in [DOMAIN remote'[l] -> Features]
      /\ \A r \in DOMAIN remote'[l] :
            /\ r \in Nat /\ r < b + k
            /\ r < b => r \in DOMAIN remote[l] /\ remote'[l][r].who = remote[l][r].who
      /\ \A r \in DOMAIN remote[l] :
            (\A f \in log[l].removed : RemoteFid(l, f) # r) =>
               /\ r \in DOMAIN remote'[l]
               /\ (\A i \in DOMAIN log[l].updates : RemoteFid(l, log[l].updates[i].fid) # r) =>
                     remote'[l][r] = remote[l][r]
  <2> DEFINE now == Saved(l, buffer[l], n)
  <2>1. /\ k \in Nat /\ now \in [DOMAIN now -> Features]
        /\ \A r \in DOMAIN now :
              /\ r \in Nat /\ r < b + k
              /\ r < b => r \in DOMAIN remote[l] /\ now[r].who = remote[l][r].who
        /\ \A r \in DOMAIN remote[l] :
              (\A f \in log[l].removed : RemoteFid(l, f) # r) =>
                 /\ r \in DOMAIN now
                 /\ (\A i \in DOMAIN log[l].updates : RemoteFid(l, log[l].updates[i].fid) # r) =>
                       now[r] = remote[l][r]
    BY SavedLayer
  <2>2. b \in Nat /\ remote'[l] = now
    BY <1>2, LayerTypes
  <2> HIDE DEF now, b, k
  <2> QED BY <2>1, <2>2
<1> HIDE DEF b, k
<1>5. \A i \in DOMAIN fids[l] : fids[l][i].remote \in Nat /\ fids[l][i].remote < b
  BY LayerTypes DEF b
<1>6. ASSUME Mild(l), NEW i \in DOMAIN fids[l], fids[l][i].offline \in DOMAIN table[l],
             fids[l][i].remote \in DOMAIN remote[l]
      PROVE  /\ fids[l][i].remote \in DOMAIN remote'[l]
             /\ ~Updated(l, fids[l][i].offline) =>
                   remote'[l][fids[l][i].remote] = remote[l][fids[l][i].remote]
  <2> DEFINE r == fids[l][i].remote
  <2>1. r \in DOMAIN WithoutRemoved(l)
    BY <1>6, ReplayFits
  <2>2. \A f \in log[l].removed : RemoteFid(l, f) # r
    <3>1. DOMAIN WithoutRemoved(l) = DOMAIN remote[l] \ {RemoteFid(l, f) : f \in log[l].removed}
      BY ReplayTypes
    <3> HIDE DEF r
    <3> QED BY <2>1, <3>1
  <2>3. ASSUME ~Updated(l, fids[l][i].offline), NEW j \in DOMAIN log[l].updates
        PROVE  RemoteFid(l, log[l].updates[j].fid) # r
    <3>1. /\ Mapped(l) = Offlines(fids[l]) /\ fids[l] \in Seq(Rows)
          /\ \A f : RemoteFid(l, f) = FirstFid(fids[l], f)
          /\ \A m, o \in DOMAIN fids[l] : fids[l][m].remote = fids[l][o].remote => m = o
      BY LookupByRows, LayerTypes DEF LayerInv, InOrder
    <3>2. log[l].updates[j].fid \in Mapped(l) /\ Updated(l, log[l].updates[j].fid)
      BY <1>6, LayerTypes DEF Updated, LayerInv, LogFits
    <3>3. r = RemoteFid(l, log[l].updates[j].fid) => fids[l][i].offline = log[l].updates[j].fid
      BY <3>1, <3>2, FidOnce
    <3> QED BY <2>3, <3>2, <3>3
  <2> QED BY <1>4, <1>6, <2>2, <2>3
<1>7. LayerTypeOK(l)'
  <2>1. DOMAIN remote'[l] \subseteq 0 .. nextId'[l] - 1 /\ nextId'[l] \in Nat
    BY <1>2, <1>4
  <2>2. \A i \in DOMAIN fids'[l] : fids'[l][i].remote < nextId'[l]
    BY <1>2, <1>4, <1>5
  <2>3. lost'[l] \subseteq Harms
    BY <1>2 DEF LayerTypeOK, Harms
  <2>4. "unlogged" \in lost'[l] <=> "unlogged" \in lost[l]
    BY <1>2
  <2> QED BY <1>2, <1>4, <2>1, <2>2, <2>3, <2>4 DEF LayerTypeOK
<1>8. /\ Mapped(l)' = Mapped(l) /\ Known(l)' = Known(l)
      /\ \A f : RemoteFid(l, f)' = RemoteFid(l, f)
      /\ \A f : (Updated(l, f)' <=> Updated(l, f)) /\ (LastLogged(l, f)' <=> LastLogged(l, f))
  BY <1>2 DEF Mapped, Known, RemoteFid, Updated, LastLogged
<1>9. /\ Mild(l)' => Mild(l)
      /\ lost'[l] = {} => lost[l] = {} /\ k = 0
      /\ "unlogged" \notin lost'[l] => "unlogged" \notin lost[l]
      /\ lost'[l] \intersect {"unlogged", "reused"} = {} => lost[l] \intersect {"unlogged", "reused"} = {}
  BY <1>2 DEF Mild
<1>10. InOrder(l)'
  BY <1>2, <1>9 DEF LayerInv, InOrder
<1>11. Pending(l)'
  BY <1>3 DEF Pending
<1>12. PairsSound(l)'
  <2>1. \A i \in DOMAIN fids[l] : fids[l][i].remote \in DOMAIN remote'[l] =>
           /\ fids[l][i].remote \in DOMAIN remote[l]
           /\ remote'[l][fids[l][i].remote].who = remote[l][fids[l][i].remote].who
    BY <1>4, <1>5
  <2> QED BY <1>2, <1>9, <2>1 DEF LayerInv, PairsSound, IsMine
<1>13. LogFits(l)'
  BY <1>2, <1>3, <1>8, <1>9 DEF LayerInv, LogFits
<1>14. Stored(l)'
  <2>1. SUFFICES ASSUME Mild(l), NEW f \in DOMAIN table[l]
                 PROVE  /\ f \in Mapped(l) => RemoteFid(l, f) \in DOMAIN remote'[l]
                        /\ f \notin Contents(log[l].added) =>
                              IF Updated(l, f) THEN LastLogged(l, f) ELSE OnServer(l, f)'
    BY <1>2, <1>3, <1>8, <1>9 DEF Stored
  <2>2. /\ f \in Mapped(l) => RemoteFid(l, f) \in DOMAIN remote[l]
        /\ f \notin Contents(log[l].added) =>
              IF Updated(l, f) THEN LastLogged(l, f) ELSE OnServer(l, f)
    BY <2>1 DEF LayerInv, Stored
  <2>3. f \in Mapped(l) => RemoteFid(l, f) \in DOMAIN remote'[l]
    <3>1. SUFFICES ASSUME f \in Mapped(l) PROVE RemoteFid(l, f) \in DOMAIN remote'[l]
      OBVIOUS
    <3>2. PICK i \in DOMAIN fids[l] : fids[l][i].offline = f /\ RemoteFid(l, f) = fids[l][i].remote
      BY <3>1, RowOf
    <3> QED BY <1>6, <2>1, <2>2, <3>1, <3>2
  <2>4. ~Updated(l, f) /\ OnServer(l, f) => OnServer(l, f)'
    BY <1>2, <1>6, <2>1 DEF OnServer
  <2> QED BY <2>2, <2>3, <2>4
<1>15. Replayed(l)'
  BY <1>3 DEF Replayed
<1>16. PairedOnce(l)'
  <2>1. SUFFICES ASSUME lost'[l] = {} PROVE PairedOnce(l)'
    BY DEF PairedOnce
  <2>2. lost[l] = {} /\ k = 0
    BY <1>9, <2>1
  <2>3. \A r \in DOMAIN remote'[l] : r \in DOMAIN remote[l] /\ remote'[l][r].who = remote[l][r].who
    BY <1>4, <2>2
  <2> QED BY <1>2, <1>3, <1>8, <2>2, <2>3 DEF LayerInv, PairedOnce, IsMine
<1> QED BY <1>7, <1>10, <1>11, <1>12, <1>13, <1>14, <1>15, <1>16 DEF LayerInv

\* Another user adds a feature: its id is beyond those in the lookup.
LEMMA OthersOwn ==
    ASSUME NEW l \in Layers, Maps, LayerTypeOK(l), LayerInv(l), commitNo \in Nat, OthersAddFeature(l)
    PROVE  LayerTypeOK(l)' /\ LayerInv(l)'
<1> DEFINE b == nextId[l]
           theirs == [who |-> Theirs, val |-> Default]
<1>1. /\ remote' = [remote EXCEPT ![l] = Inserted(@, [r \in {b} |-> theirs])]
      /\ nextId'[l] = b + 1 /\ b \in Nat
      /\ table' = table /\ fids' = fids /\ log' = log /\ commitNo' = commitNo /\ lost' = lost /\ sync' = sync
  BY LayerTypes DEF OthersAddFeature, Maps, database
<1> HIDE DEF b
<1>2. /\ remote'[l] = [r \in DOMAIN remote[l] \union {b} |-> IF r \in {b} THEN theirs ELSE remote[l][r]]
  BY <1>1 DEF Maps, Inserted
<1>3. \A r \in DOMAIN remote[l] : r \in Nat /\ r < b /\ r # b
  BY <1>1, LayerTypes DEF b
<1>4. /\ DOMAIN remote'[l] = DOMAIN remote[l] \union {b}
      /\ \A r \in DOMAIN remote[l] : remote'[l][r] = remote[l][r]
      /\ remote'[l][b] = theirs /\ ~IsMine(remote'[l][b])
  BY <1>2, <1>3 DEF IsMine
<1>5. \A i \in DOMAIN fids[l] : fids[l][i].remote # b /\ fids[l][i].remote < b + 1
  <2>1. \A i \in DOMAIN fids[l] : fids[l][i].remote \in Nat /\ fids[l][i].remote < b
    BY LayerTypes DEF b
  <2> QED BY <1>1, <2>1
<1>6. \A i \in DOMAIN fids[l] : fids[l][i].remote \in DOMAIN remote'[l] =>
         fids[l][i].remote \in DOMAIN remote[l] /\ remote'[l][fids[l][i].remote] = remote[l][fids[l][i].remote]
  BY <1>4, <1>5
<1>7. /\ Mapped(l)' = Mapped(l) /\ Known(l)' = Known(l) /\ (Mild(l)' <=> Mild(l))
      /\ \A f : RemoteFid(l, f)' = RemoteFid(l, f)
      /\ \A f : (Updated(l, f)' <=> Updated(l, f)) /\ (LastLogged(l, f)' <=> LastLogged(l, f))
      /\ \A S : At(l, S)' <=> At(l, S)
  BY <1>1 DEF Mapped, Known, RemoteFid, Updated, LastLogged, Mild, At
<1>8. \A f : OnServer(l, f) => OnServer(l, f)'
  BY <1>1, <1>4 DEF OnServer
<1>9. LayerTypeOK(l)'
  <2>1. remote'[l] \in [DOMAIN remote'[l] -> Features]
    <3>1. theirs \in Features
      BY ValuesExist DEF Features, Theirs
    <3>2. \A r \in DOMAIN remote[l] : remote[l][r] \in Features
      BY LayerTypes
    <3> QED BY <1>2, <3>1, <3>2
  <2>2. DOMAIN remote'[l] \subseteq 0 .. nextId'[l] - 1 /\ nextId'[l] \in Nat
    BY <1>1, <1>3, <1>4
  <2> QED BY <1>1, <1>5, <2>1, <2>2 DEF LayerTypeOK
<1>10. InOrder(l)'
  BY <1>1 DEF LayerInv, InOrder
<1>11. Pending(l)'
  <2>1. SUFFICES ASSUME At(l, {"lookup"}), "unlogged" \notin lost[l] PROVE Pending(l)'
    BY <1>1, <1>7 DEF Pending
  <2>2. PICK a \in 0 .. b :
            /\ \A i \in DOMAIN log[l].added :
                  /\ a + i - 1 \in DOMAIN remote[l] \ Known(l)
                  /\ remote[l][a + i - 1] = table[l][log[l].added[i]]
            /\ lost[l] = {} =>
                  \A r \in DOMAIN remote[l] :
                      IsMine(remote[l][r]) => r \in Known(l) \/ \E i \in DOMAIN log[l].added : r = a + i - 1
    BY <2>1 DEF LayerInv, Pending, b
  <2>3. /\ a \in 0 .. b + 1
        /\ \A i \in DOMAIN log[l].added :
              /\ a + i - 1 \in DOMAIN remote'[l] \ Known(l)
              /\ remote'[l][a + i - 1] = table[l][log[l].added[i]]
        /\ lost[l] = {} =>
              \A r \in DOMAIN remote'[l] :
                  IsMine(remote'[l][r]) => r \in Known(l) \/ \E i \in DOMAIN log[l].added : r = a + i - 1
    <3>1. a \in 0 .. b + 1
      BY <1>1
    <3> QED BY <1>4, <2>2, <3>1
  <2> QED BY <1>1, <1>7, <2>3 DEF Pending
<1>12. PairsSound(l)'
  BY <1>1, <1>6 DEF LayerInv, PairsSound
<1>13. LogFits(l)'
  BY <1>1, <1>7 DEF LayerInv, LogFits
<1>14. Stored(l)'
  <2>1. SUFFICES ASSUME Mild(l), NEW f \in DOMAIN table[l]
                 PROVE  /\ f \in Mapped(l) => RemoteFid(l, f) \in DOMAIN remote'[l]
                        /\ f \notin Contents(log[l].added) \/ At(l, {"added"}) =>
                              IF Updated(l, f) THEN LastLogged(l, f) ELSE OnServer(l, f)'
    BY <1>1, <1>7 DEF Stored
  <2> QED BY <1>4, <1>8, <2>1 DEF LayerInv, Stored
<1>15. Replayed(l)'
  <2>1. SUFFICES ASSUME Mild(l) PROVE Replayed(l)'
    BY <1>7 DEF Replayed
  <2>2. ASSUME NEW f \in log[l].removed, At(l, {"lookup", "added", "removed"})
        PROVE  RemoteFid(l, f) \notin DOMAIN remote'[l]
    <3>1. f \in Mapped(l) /\ RemoteFid(l, f) \notin DOMAIN remote[l]
      BY <2>1, <2>2 DEF LayerInv, LogFits, Replayed
    <3>2. PICK i \in DOMAIN fids[l] : fids[l][i].offline = f /\ RemoteFid(l, f) = fids[l][i].remote
      BY <3>1, RowOf
    <3> QED BY <1>6, <3>1, <3>2
  <2>3. ASSUME NEW f \in DOMAIN table[l], Updated(l, f), At(l, {"lookup", "added", "removed", "updates"})
        PROVE  remote'[l][RemoteFid(l, f)].val = table[l][f].val
    <3>1. f \in Mapped(l)
      BY <2>1, <2>3, LayerTypes DEF LayerInv, LogFits
    <3>2. RemoteFid(l, f) \in DOMAIN remote[l] /\ remote[l][RemoteFid(l, f)].val = table[l][f].val
      BY <2>1, <2>3, <3>1 DEF LayerInv, Stored, Replayed
    <3> QED BY <1>4, <3>2
  <2> QED BY <1>1, <1>7, <2>2, <2>3 DEF Replayed
<1>16. PairedOnce(l)'
  <2>1. SUFFICES ASSUME lost[l] = {} PROVE PairedOnce(l)'
    BY <1>1 DEF PairedOnce
  <2> QED BY <1>1, <1>4, <1>6, <1>7, <2>1 DEF LayerInv, PairedOnce
<1> QED BY <1>9, <1>10, <1>11, <1>12, <1>13, <1>14, <1>15, <1>16 DEF LayerInv

-----------------------------------------------------------------------------
(* The invariant holds *)

RestTypeOK ==
    /\ commitNo \in 0 .. MaxEdits
    /\ {project, saved} \subseteq [entry : BOOLEAN, layers : SUBSET Layers]
    /\ sync \in [stage : {"idle", "next", "lookup", "added", "removed", "updates"},
                 todo : SUBSET Layers, layer : Layers \union {Unknown}]

OInv ==
    /\ Maps /\ RestTypeOK /\ Counted
    /\ \A l \in Layers : LayerTypeOK(l) /\ LayerInv(l) /\ BufferInv(l)

\* A layer just copied.
NewFeatures(n) == [r \in 1 .. n |-> [who |-> r, val |-> Default]]
Copied(l, n, selected) ==
    /\ table[l] = CopyVectorLayer(NewFeatures(n), selected).table
    /\ remote[l] = CopyVectorLayer(NewFeatures(n), selected).remote
    /\ fids[l] = CopyVectorLayer(NewFeatures(n), selected).fids
    /\ nextId[l] = MaxRemote + 1 /\ log[l] = EmptyLog /\ lost[l] = {} /\ sync = Idle

LEMMA CopyInv ==
    ASSUME NEW l \in Layers, NEW n \in 1 .. MaxRemote, NEW selected \in SUBSET (1 .. n), Copied(l, n, selected)
    PROVE  LayerTypeOK(l) /\ LayerInv(l)
<1> DEFINE ids == Sorted(selected)
           c == Cardinality(selected)
           features == NewFeatures(n)
<1>1. MaxRemote \in Nat /\ MaxFid \in Nat /\ MaxRemote <= MaxFid /\ n \in Nat
  BY ConstantsAssumption
<1>2. IsFiniteSet(1 .. n) /\ Cardinality(1 .. n) = n
  BY <1>1, FS_Interval
<1>3. IsFiniteSet(selected) /\ c <= n /\ c \in Nat /\ selected \in SUBSET Int
  <2> DEFINE all == 1 .. n
  <2>1. IsFiniteSet(all) /\ Cardinality(all) = n /\ selected \in SUBSET all
    BY <1>2
  <2>2. selected \in SUBSET Int
    BY <1>1
  <2> HIDE DEF all
  <2>3. IsFiniteSet(selected) /\ c <= Cardinality(all)
    BY <2>1, FS_Subset
  <2>4. c \in Nat
    BY <2>3, FS_CardinalityType
  <2> QED BY <2>1, <2>2, <2>3, <2>4
<1>4. /\ ids \in Seq(selected) /\ Len(ids) = c /\ DOMAIN ids = 1 .. c
      /\ \A k \in 1 .. c : ids[k] \in selected
      /\ \A k, m \in 1 .. c : k < m => ids[k] < ids[m]
      /\ \A i \in selected : \E k \in 1 .. c : ids[k] = i
  BY <1>3, SortedProperties
<1>5. /\ table[l] = [f \in 1 .. c |-> features[ids[f]]]
      /\ remote[l] = [r \in 1 .. n |->
                        IF r \in selected THEN features[r] ELSE [features[r] EXCEPT !.who = Theirs]]
      /\ fids[l] = [f \in 1 .. c |-> [offline |-> f, remote |-> ids[f]]]
      /\ nextId[l] = MaxRemote + 1 /\ log[l] = EmptyLog /\ lost[l] = {} /\ sync = Idle
  <2>1. DOMAIN features = 1 .. n
    BY DEF NewFeatures
  <2> QED BY <1>4, <2>1 DEF CopyVectorLayer, Copied
<1> HIDE DEF ids, c, features
<1>6. \A r \in 1 .. n : features[r] \in Features /\ features[r].who = r /\ IsMine(features[r])
  <2>1. SUFFICES ASSUME NEW r \in 1 .. n
                 PROVE  features[r] \in Features /\ features[r].who = r /\ IsMine(features[r])
    OBVIOUS
  <2>2. features[r] = [who |-> r, val |-> Default] /\ r \in Nat /\ r # 0
    BY <1>1 DEF features, NewFeatures
  <2> QED BY <2>2, ValuesExist DEF Features, IsMine, Theirs
<1>7. \A r \in 1 .. n : ~IsMine([features[r] EXCEPT !.who = Theirs])
                        /\ [features[r] EXCEPT !.who = Theirs] \in Features
  <2>1. SUFFICES ASSUME NEW r \in 1 .. n
                 PROVE  ~IsMine([features[r] EXCEPT !.who = Theirs])
                        /\ [features[r] EXCEPT !.who = Theirs] \in Features
    OBVIOUS
  <2>2. features[r] \in Features
    BY <1>6
  <2> QED BY <2>2 DEF Features, IsMine, Theirs
<1>8. /\ DOMAIN table[l] = 1 .. c /\ \A f \in 1 .. c : table[l][f] = features[ids[f]] /\ ids[f] \in 1 .. n
      /\ \A f \in 1 .. c : table[l][f] \in Features /\ IsMine(table[l][f])
  BY <1>4, <1>5, <1>6
<1>9. /\ DOMAIN remote[l] = 1 .. n
      /\ \A r \in 1 .. n : remote[l][r] \in Features /\ (IsMine(remote[l][r]) <=> r \in selected)
      /\ \A r \in selected : remote[l][r] = features[r]
  BY <1>5, <1>6, <1>7
<1>10. /\ DOMAIN fids[l] = 1 .. c /\ \A i \in 1 .. c : fids[l][i].offline = i /\ fids[l][i].remote = ids[i]
       /\ \A i \in 1 .. c : ids[i] \in selected /\ ids[i] \in Nat
       /\ fids[l] \in Seq(Rows)
  <2>1. \A i \in 1 .. c : fids[l][i] = [offline |-> i, remote |-> ids[i]]
    BY <1>5
  <2>2. \A i \in 1 .. c : ids[i] \in selected /\ ids[i] \in Nat
    <3>1. \A k \in selected : k \in Nat
      BY <1>1
    <3> QED BY <1>4, <3>1
  <2>3. \A i \in 1 .. c : i \in 1 .. MaxFid
    BY <1>1, <1>3
  <2>4. \A i \in 1 .. c : [offline |-> i, remote |-> ids[i]] \in Rows
    BY <2>2, <2>3 DEF Rows
  <2>5. fids[l] \in [1 .. c -> Rows]
    BY <1>5, <2>4
  <2>6. fids[l] \in Seq(Rows)
    BY <1>3, <2>5
  <2> QED BY <1>5, <2>1, <2>2, <2>6
<1>11. Mapped(l) = 1 .. c /\ Known(l) = selected
  <2>1. Mapped(l) = 1 .. c
    BY <1>10 DEF Mapped
  <2>2. Known(l) = selected
    <3>1. \A i \in DOMAIN fids[l] : fids[l][i].remote \in selected
      BY <1>10
    <3>2. ASSUME NEW k \in selected
          PROVE  \E i \in DOMAIN fids[l] : fids[l][i].remote = k
      <4>1. PICK i \in 1 .. c : ids[i] = k
        BY <1>4
      <4>2. i \in DOMAIN fids[l] /\ fids[l][i].remote = k
        BY <1>10, <4>1
      <4> QED BY <4>2
    <3> QED BY <3>1, <3>2 DEF Known
  <2> QED BY <2>1, <2>2
<1>12. /\ log[l].added = <<>> /\ log[l].removed = {} /\ log[l].updates = <<>>
       /\ Contents(log[l].added) = {} /\ DOMAIN log[l].updates = {} /\ DOMAIN log[l].added = {}
  BY <1>5 DEF EmptyLog, Contents
<1>13. \A S : "idle" \notin S => ~At(l, S)
  BY <1>5 DEF At, Idle
<1>14. \A f : ~Updated(l, f)
  BY <1>12 DEF Updated
<1>15. LayerTypeOK(l)
  <2>1. table[l] \in [DOMAIN table[l] -> Features] /\ DOMAIN table[l] \subseteq 1 .. MaxFid
    BY <1>1, <1>3, <1>5, <1>8
  <2>2. remote[l] \in [DOMAIN remote[l] -> Features] /\ DOMAIN remote[l] \subseteq 0 .. nextId[l] - 1
        /\ nextId[l] \in Nat
    BY <1>1, <1>5, <1>9
  <2>3. \A i \in 1 .. c : ids[i] < MaxRemote + 1
    BY <1>1, <1>8
  <2>4. log[l] \in [added : Seq(1 .. MaxFid), removed : SUBSET (1 .. MaxFid), updates : Seq(Updates)]
    <3>1. <<>> \in Seq(1 .. MaxFid) /\ <<>> \in Seq(Updates)
      OBVIOUS
    <3> QED BY <1>5, <3>1 DEF EmptyLog
  <2> QED BY <1>5, <1>10, <1>12, <2>1, <2>2, <2>3, <2>4 DEF LayerTypeOK, Harms
<1>16. \A i, j \in 1 .. c : ids[i] = ids[j] => i = j
  <2>1. SUFFICES ASSUME NEW i \in 1 .. c, NEW j \in 1 .. c, ids[i] = ids[j] PROVE i = j
    OBVIOUS
  <2>2. ~(i < j) /\ ~(j < i)
    <3>1. ids[i] \in Int /\ ids[j] \in Int
      BY <1>10
    <3> QED BY <1>4, <2>1, <3>1
  <2> QED BY <1>3, <2>2
<1>17. InOrder(l)
  BY <1>8, <1>10, <1>12, <1>16 DEF InOrder
<1>18. Pending(l)
  BY <1>13 DEF Pending
<1>19. PairsSound(l)
  <2>1. ASSUME NEW i \in DOMAIN fids[l]
        PROVE  /\ IsMine(remote[l][fids[l][i].remote])
               /\ remote[l][fids[l][i].remote].who = table[l][fids[l][i].offline].who
    <3>1. /\ i \in 1 .. c /\ fids[l][i].offline = i /\ fids[l][i].remote = ids[i] /\ ids[i] \in selected
          /\ ids[i] \in 1 .. n /\ table[l][i] = features[ids[i]]
      BY <1>8, <1>10
    <3>2. remote[l][ids[i]] = features[ids[i]] /\ IsMine(remote[l][ids[i]])
      BY <1>9, <3>1
    <3> QED BY <3>1, <3>2
  <2> QED BY <2>1 DEF PairsSound
<1>20. LogFits(l)
  BY <1>8, <1>11, <1>12, <1>13, <1>14 DEF LogFits
<1>21. Stored(l)
  <2>1. SUFFICES ASSUME NEW f \in 1 .. c
                 PROVE  RemoteFid(l, f) \in DOMAIN remote[l] /\ OnServer(l, f)
    BY <1>8, <1>14 DEF Stored
  <2>2. RemoteFid(l, f) = ids[f]
    <3>1. f \in Mapped(l)
      BY <1>11
    <3>2. PICK i \in DOMAIN fids[l] : fids[l][i].offline = f /\ RemoteFid(l, f) = fids[l][i].remote
      BY <1>15, <3>1, RowOf
    <3> QED BY <1>10, <3>2
  <2>3. ids[f] \in DOMAIN remote[l] /\ remote[l][ids[f]] = table[l][f]
    BY <1>8, <1>9, <1>10
  <2>4. f \in DOMAIN fids[l] /\ fids[l][f].offline = f /\ fids[l][f].remote = ids[f]
    BY <1>10
  <2> QED BY <2>2, <2>3, <2>4 DEF OnServer
<1>22. Replayed(l)
  BY <1>13 DEF Replayed
<1>23. PairedOnce(l)
  BY <1>8, <1>9, <1>10, <1>11, <1>12 DEF PairedOnce
<1> QED BY <1>15, <1>17, <1>18, <1>19, <1>20, <1>21, <1>22, <1>23 DEF LayerInv

\* A layer that is not being edited.
LEMMA EmptyBuffer ==
    ASSUME NEW l \in Layers
    PROVE  buffer[l] = NoBuffer => BufferInv(l)
<1>1. SUFFICES ASSUME buffer[l] = NoBuffer PROVE BufferInv(l)
  OBVIOUS
<1>2. buffer[l].values = <<>> /\ buffer[l].removed = {} /\ buffer[l].added = <<>>
  BY <1>1 DEF NoBuffer
<1>3. DOMAIN buffer[l].values = {} /\ <<>> \in Seq(Features) /\ <<>> \in [{} -> Values]
  BY <1>2
<1> QED BY <1>1, <1>2, <1>3 DEF BufferInv, BufferTypeOK

LEMMA NoBufferLater ==
    ASSUME NEW l \in Layers, buffer'[l] = NoBuffer
    PROVE  BufferInv(l)'
<1>1. buffer'[l].values = <<>> /\ buffer'[l].removed = {} /\ buffer'[l].added = <<>>
  BY DEF NoBuffer
<1>2. DOMAIN buffer'[l].values = {} /\ <<>> \in Seq(Features) /\ <<>> \in [{} -> Values]
  BY <1>1
<1> QED BY <1>1, <1>2 DEF BufferInv, BufferTypeOK

LEMMA InitInv ==
    Init => OInv
<1> SUFFICES ASSUME Init PROVE OInv
  OBVIOUS
<1>1. Maps
  BY DEF Init, Maps
<1>2. RestTypeOK /\ Counted
  <2>1. MaxEdits \in Nat
    BY ConstantsAssumption
  <2>2. commitNo = 0 /\ edits = 0 /\ project = Offline /\ saved = Offline /\ sync = Idle
    BY DEF Init
  <2> QED BY <2>1, <2>2 DEF RestTypeOK, Counted, Offline, Idle
<1>3. ASSUME NEW l \in Layers
      PROVE  BufferInv(l)
  <2>1. buffer[l] = NoBuffer
    BY DEF Init
  <2> QED BY <2>1, EmptyBuffer
<1>4. ASSUME NEW l \in Layers
      PROVE  LayerTypeOK(l) /\ LayerInv(l)
  <2> DEFINE PerLayer == UNION {{CopyVectorLayer(
                            [r \in 1 .. n |-> [who |-> r, val |-> Default]], selected) :
                                selected \in (SUBSET (1 .. n)) \ {{}}} : n \in 1 .. MaxRemote}
  <2>1. \E copy \in [Layers -> PerLayer] :
            /\ table = [k \in Layers |-> copy[k].table]
            /\ remote = [k \in Layers |-> copy[k].remote]
            /\ fids = [k \in Layers |-> copy[k].fids]
    BY DEF Init
  <2> HIDE DEF PerLayer
  <2>2. PICK c \in PerLayer : table[l] = c.table /\ remote[l] = c.remote /\ fids[l] = c.fids
    BY <2>1
  <2>3. PICK n \in 1 .. MaxRemote : \E selected \in SUBSET (1 .. n) :
            c = CopyVectorLayer([r \in 1 .. n |-> [who |-> r, val |-> Default]], selected)
    BY <2>2 DEF PerLayer
  <2>4. PICK selected \in SUBSET (1 .. n) :
            c = CopyVectorLayer([r \in 1 .. n |-> [who |-> r, val |-> Default]], selected)
    BY <2>3
  <2>5. nextId[l] = MaxRemote + 1 /\ log[l] = EmptyLog /\ lost[l] = {} /\ sync = Idle
    BY DEF Init
  <2>6. Copied(l, n, selected)
    BY <2>2, <2>4, <2>5 DEF Copied, NewFeatures
  <2> QED BY <2>6, CopyInv
<1> QED BY <1>1, <1>2, <1>3, <1>4 DEF OInv

\* A step of one layer leaves the others alone.
LEMMA OneLayer ==
    ASSUME NEW l \in Layers, OInv, commitNo' \in Nat, commitNo' >= commitNo,
           LayerTypeOK(l)' /\ LayerInv(l)',
           \A k \in Layers \ {l} : Same(k) /\ lost'[k] = lost[k] /\ StopsWell(k)
    PROVE  \A k \in Layers : LayerTypeOK(k)' /\ LayerInv(k)'
<1> SUFFICES ASSUME NEW k \in Layers \ {l} PROVE LayerTypeOK(k)' /\ LayerInv(k)'
  OBVIOUS
<1>1. LayerTypeOK(k) /\ LayerInv(k) /\ Same(k) /\ StopsWell(k) /\ lost'[k] = lost[k] /\ commitNo \in Nat
  BY ConstantsAssumption DEF OInv, RestTypeOK
<1>2. lost[k] \subseteq lost'[k] /\ lost'[k] \subseteq Harms
  BY <1>1 DEF LayerTypeOK
<1> QED BY <1>1, <1>2, LayerUntouched

LEMMA OtherLayers ==
    ASSUME NEW l \in Layers, NEW k \in Layers \ {l}, OInv, NEW t, NEW r, NEW n, NEW f, NEW g,
           table' = [table EXCEPT ![l] = t] \/ table' = table,
           remote' = [remote EXCEPT ![l] = r] \/ remote' = remote,
           nextId' = [nextId EXCEPT ![l] = n] \/ nextId' = nextId,
           fids' = [fids EXCEPT ![l] = f] \/ fids' = fids,
           log' = [log EXCEPT ![l] = g] \/ log' = log
    PROVE  Same(k)
  BY DEF OInv, Maps, Same

LEMMA MapsNext ==
    OInv /\ [Next]_vars => Maps'
<1> SUFFICES ASSUME OInv, [Next]_vars PROVE Maps'
  OBVIOUS
<1>1. Maps
  BY DEF OInv
<1>2. ASSUME NEW l \in Layers, NEW n \in 1 .. MaxFid, CommittedFeaturesAdded(l, n)
      PROVE  Maps'
  BY <1>1, <1>2 DEF CommittedFeaturesAdded, Log, Maps
<1>3. ASSUME NEW l \in Layers, NEW deleted, CommittedFeaturesRemoved(l, deleted)
      PROVE  Maps'
  BY <1>1, <1>3 DEF CommittedFeaturesRemoved, Log, Maps
<1>4. ASSUME NEW l \in Layers, NEW f, NEW v, CommittedChanges(l, f, v)
      PROVE  Maps'
  BY <1>1, <1>4 DEF CommittedChanges, Log, Maps
<1>5. ASSUME NEW l \in Layers,
             \/ SkipLayer(l) \/ RollBack(l) \/ Commit(l) \/ CommitFails(l)
             \/ UpdateFidLookup(l) \/ ClearAdded(l) \/ ClearRemoved(l) \/ ClearUpdates(l)
             \/ SaveRemote(l) \/ DiscardRemote(l) \/ OthersAddFeature(l)
      PROVE  Maps'
  <2>1. CASE SkipLayer(l)
    BY <1>1, <2>1 DEF SkipLayer, Maps, database
  <2>2. CASE RollBack(l)
    BY <1>1, <2>2 DEF RollBack, Maps, database
  <2>3. CASE Commit(l)
    BY <1>1, <2>3 DEF Commit, Maps, database
  <2>4. CASE CommitFails(l)
    BY <1>1, <2>4 DEF CommitFails, Maps, database
  <2>5. CASE UpdateFidLookup(l)
    BY <1>1, <2>5 DEF UpdateFidLookup, Maps
  <2>6. CASE ClearAdded(l)
    BY <1>1, <2>6 DEF ClearAdded, Maps
  <2>7. CASE ClearRemoved(l)
    BY <1>1, <2>7 DEF ClearRemoved, Maps
  <2>8. CASE ClearUpdates(l)
    BY <1>1, <2>8 DEF ClearUpdates, Maps
  <2>9. CASE OthersAddFeature(l)
    BY <1>1, <2>9 DEF OthersAddFeature, Maps, database
  <2>10. CASE SaveRemote(l)
    BY <1>1, <2>10 DEF SaveRemote, Maps, database
  <2>11. CASE DiscardRemote(l)
    BY <1>1, <2>11 DEF DiscardRemote, Maps, database
  <2> QED BY <1>5, <2>1, <2>2, <2>3, <2>4, <2>5, <2>6, <2>7, <2>8, <2>9, <2>10, <2>11
<1>6. CASE Synchronize \/ SaveProject \/ OpenProject \/ UNCHANGED vars
  BY <1>1, <1>6 DEF Synchronize, SaveProject, OpenProject, Maps, database, vars
<1>7. CASE ResetCommitNo
  BY <1>1, <1>7 DEF ResetCommitNo, Maps
<1>8. CASE Crash
  BY <1>1, <1>8 DEF Crash, Maps, database
<1> QED BY <1>2, <1>3, <1>4, <1>5, <1>6, <1>7, <1>8 DEF Next

LEMMA RestNext ==
    OInv /\ [Next]_vars => RestTypeOK' /\ Counted'
<1> SUFFICES ASSUME OInv, [Next]_vars PROVE RestTypeOK' /\ Counted'
  OBVIOUS
<1> USE DEF RestTypeOK, Counted
<1>1. /\ MaxEdits \in Nat /\ commitNo \in 0 .. MaxEdits /\ edits \in 0 .. MaxEdits /\ commitNo <= edits
      /\ project \in [entry : BOOLEAN, layers : SUBSET Layers]
      /\ saved \in [entry : BOOLEAN, layers : SUBSET Layers]
      /\ sync \in [stage : {"idle", "next", "lookup", "added", "removed", "updates"},
                   todo : SUBSET Layers, layer : Layers \union {Unknown}]
  BY ConstantsAssumption DEF OInv
<1>2. ASSUME NEW l \in Layers, NEW n \in 1 .. MaxFid, CommittedFeaturesAdded(l, n)
      PROVE  RestTypeOK' /\ Counted'
  <2>1. /\ commitNo' = commitNo /\ project' = project /\ saved' = saved /\ sync' = sync
        /\ edits' = edits + 1 /\ edits < MaxEdits
    BY <1>2 DEF CommittedFeaturesAdded, CanCommit
  <2> QED BY <1>1, <2>1
<1>3. ASSUME NEW l \in Layers, NEW deleted, CommittedFeaturesRemoved(l, deleted)
      PROVE  RestTypeOK' /\ Counted'
  <2>1. /\ commitNo' = commitNo /\ project' = project /\ saved' = saved /\ sync' = sync
        /\ edits' = edits + 1 /\ edits < MaxEdits
    BY <1>3 DEF CommittedFeaturesRemoved, CanCommit
  <2> QED BY <1>1, <2>1
<1>4. ASSUME NEW l \in Layers, NEW f, NEW v, CommittedChanges(l, f, v)
      PROVE  RestTypeOK' /\ Counted'
  <2>1. /\ commitNo' = commitNo \/ commitNo' = commitNo + 1
        /\ project' = project /\ saved' = saved /\ sync' = sync
        /\ edits' = edits + 1 /\ edits < MaxEdits
    BY <1>4 DEF CommittedChanges, CanCommit, IncreaseCommitNo
  <2> QED BY <1>1, <2>1
<1>5. ASSUME NEW l \in Layers
      PROVE  AfterLayer(l) \in [stage : {"idle", "next", "lookup", "added", "removed", "updates"},
                                todo : SUBSET Layers, layer : Layers \union {Unknown}]
  BY <1>1 DEF AfterLayer
<1>6. ASSUME NEW l \in Layers, LeaveOffline(l), commitNo' = commitNo, saved' = saved, edits' = edits
      PROVE  RestTypeOK' /\ Counted'
  <2>1. project' \in [entry : BOOLEAN, layers : SUBSET Layers]
    BY <1>1, <1>6 DEF LeaveOffline
  <2>2. sync' \in [stage : {"idle", "next", "lookup", "added", "removed", "updates"},
                   todo : SUBSET Layers, layer : Layers \union {Unknown}]
    BY <1>5, <1>6 DEF LeaveOffline
  <2> QED BY <1>1, <1>6, <2>1, <2>2
<1>7. ASSUME NEW l \in Layers, SkipLayer(l)
      PROVE  RestTypeOK' /\ Counted'
  <2>1. /\ commitNo' = commitNo /\ project' = project /\ saved' = saved /\ edits' = edits
        /\ sync' = AfterLayer(l)
    BY <1>7 DEF SkipLayer, database
  <2> QED BY <1>1, <1>5, <2>1
<1>8. ASSUME NEW l \in Layers, RollBack(l)
      PROVE  RestTypeOK' /\ Counted'
  BY <1>6, <1>8 DEF RollBack, database, counters
<1>9. ASSUME NEW l \in Layers, CommitFails(l)
      PROVE  RestTypeOK' /\ Counted'
  BY <1>6, <1>9 DEF CommitFails, database
<1>10. ASSUME NEW l \in Layers, ClearUpdates(l)
       PROVE  RestTypeOK' /\ Counted'
  BY <1>6, <1>10 DEF ClearUpdates, counters
<1>11. ASSUME NEW l \in Layers, NEW stage \in {"lookup", "added", "removed", "updates"},
              sync' = [sync EXCEPT !.stage = stage] \/ sync' = [sync EXCEPT !.stage = stage, !.layer = l],
              commitNo' = commitNo, project' = project, saved' = saved, edits' = edits
       PROVE  RestTypeOK' /\ Counted'
  <2>1. sync' \in [stage : {"idle", "next", "lookup", "added", "removed", "updates"},
                   todo : SUBSET Layers, layer : Layers \union {Unknown}]
    BY <1>1, <1>11
  <2> QED BY <1>1, <1>11, <2>1
<1>12. ASSUME NEW l \in Layers, Commit(l)
       PROVE  RestTypeOK' /\ Counted'
  BY <1>11, <1>12 DEF Commit, database, counters
<1>13. ASSUME NEW l \in Layers, UpdateFidLookup(l)
       PROVE  RestTypeOK' /\ Counted'
  BY <1>11, <1>13 DEF UpdateFidLookup, counters
<1>14. ASSUME NEW l \in Layers, ClearAdded(l)
       PROVE  RestTypeOK' /\ Counted'
  BY <1>11, <1>14 DEF ClearAdded, counters
<1>15. ASSUME NEW l \in Layers, ClearRemoved(l)
       PROVE  RestTypeOK' /\ Counted'
  BY <1>11, <1>15 DEF ClearRemoved, counters
<1>16. ASSUME NEW l \in Layers, OthersAddFeature(l) \/ SaveRemote(l) \/ DiscardRemote(l)
       PROVE  RestTypeOK' /\ Counted'
  <2>1. commitNo' = commitNo /\ project' = project /\ saved' = saved /\ sync' = sync /\ edits' = edits
    BY <1>16 DEF OthersAddFeature, SaveRemote, DiscardRemote, database, counters
  <2> QED BY <1>1, <2>1
<1>17. CASE Synchronize
  BY <1>1, <1>17 DEF Synchronize, database, Idle
<1>18. CASE ResetCommitNo
  BY <1>1, <1>18 DEF ResetCommitNo, counters, Idle
<1>19. CASE SaveProject \/ OpenProject
  BY <1>1, <1>19 DEF SaveProject, OpenProject, database, counters
<1>20. CASE Crash
  BY <1>1, <1>20 DEF Crash, database, Idle
<1>21. CASE UNCHANGED vars
  BY <1>1, <1>21 DEF vars, counters
<1> QED BY <1>2, <1>3, <1>4, <1>7, <1>8, <1>9, <1>10, <1>12, <1>13, <1>14, <1>15, <1>16,
           <1>17, <1>18, <1>19, <1>20, <1>21 DEF Next

LEMMA LayersNext ==
    OInv /\ [Next]_vars => \A k \in Layers : LayerTypeOK(k)' /\ LayerInv(k)'
<1> SUFFICES ASSUME OInv, [Next]_vars PROVE \A k \in Layers : LayerTypeOK(k)' /\ LayerInv(k)'
  OBVIOUS
<1>1. /\ Maps /\ commitNo \in Nat /\ commitNo' \in Nat /\ commitNo \in 0 .. MaxEdits
      /\ \A k \in Layers : LayerTypeOK(k) /\ LayerInv(k) /\ BufferInv(k)
  BY RestNext, ConstantsAssumption DEF OInv, RestTypeOK
<1>2. \A k \in Layers : lost[k] \subseteq Harms
  BY <1>1 DEF LayerTypeOK
<1>3. ASSUME NEW l \in Layers, NEW n \in 1 .. MaxFid, CommittedFeaturesAdded(l, n)
      PROVE  \A k \in Layers : LayerTypeOK(k)' /\ LayerInv(k)'
  <2>1. \A k \in Layers \ {l} : Same(k) /\ lost'[k] = lost[k] /\ StopsWell(k)
    BY <1>1, <1>3 DEF CommittedFeaturesAdded, Log, Maps, Same, StopsWell
  <2>2. commitNo' = commitNo
    BY <1>3 DEF CommittedFeaturesAdded
  <2> QED BY <1>1, <1>3, <2>1, <2>2, AddedOwn, OneLayer
<1>4. ASSUME NEW l \in Layers, NEW deleted, CommittedFeaturesRemoved(l, deleted)
      PROVE  \A k \in Layers : LayerTypeOK(k)' /\ LayerInv(k)'
  <2>1. \A k \in Layers \ {l} : Same(k) /\ lost'[k] = lost[k] /\ StopsWell(k)
    BY <1>1, <1>4 DEF CommittedFeaturesRemoved, Log, Maps, Same, StopsWell
  <2>2. commitNo' = commitNo
    BY <1>4 DEF CommittedFeaturesRemoved
  <2> QED BY <1>1, <1>4, <2>1, <2>2, RemovedOwn, OneLayer
<1>5. ASSUME NEW l \in Layers, NEW f \in 1 .. MaxFid, NEW v \in Values, CommittedChanges(l, f, v)
      PROVE  \A k \in Layers : LayerTypeOK(k)' /\ LayerInv(k)'
  <2>1. \A k \in Layers \ {l} : Same(k) /\ lost'[k] = lost[k] /\ StopsWell(k)
    BY <1>1, <1>5 DEF CommittedChanges, Log, Maps, Same, StopsWell
  <2>2. commitNo' >= commitNo
    BY <1>1, <1>5 DEF CommittedChanges, IncreaseCommitNo
  <2> QED BY <1>1, <1>5, <2>1, <2>2, ChangedOwn, OneLayer
<1>6. ASSUME NEW l \in Layers, Turn(l) \/ sync.layer = l,
             ~At(l, {"lookup", "added"}) \/ sync'.layer = l,
             sync'.stage \in {"idle", "next"} \/ sync'.layer = l,
             NEW k \in Layers \ {l}
      PROVE  StopsWell(k)
  <2>1. ~At(k, {"lookup", "added"})
    BY <1>6 DEF At, Turn
  <2>2. ~At(k, {"lookup", "added", "removed", "updates"})'
    BY <1>6 DEF At
  <2> QED BY <2>1, <2>2 DEF StopsWell
<1>7. ASSUME NEW l \in Layers, sync' = AfterLayer(l)
      PROVE  sync'.stage = "next"
  <2>1. sync \in [stage : {"idle", "next", "lookup", "added", "removed", "updates"},
                  todo : SUBSET Layers, layer : Layers \union {Unknown}]
    BY DEF OInv, RestTypeOK
  <2> QED BY <1>7, <2>1 DEF AfterLayer
<1>8. ASSUME NEW l \in Layers, SkipLayer(l) \/ RollBack(l)
      PROVE  \A k \in Layers : LayerTypeOK(k)' /\ LayerInv(k)'
  <2>1. /\ sync' = AfterLayer(l) /\ Turn(l)
        /\ table' = table /\ remote' = remote /\ nextId' = nextId /\ fids' = fids /\ log' = log
        /\ commitNo' = commitNo /\ lost' = lost
    BY <1>8 DEF SkipLayer, RollBack, LeaveOffline, database
  <2>2. ASSUME NEW k \in Layers
        PROVE  LayerTypeOK(k)' /\ LayerInv(k)'
    <3>1. StopsWell(k)
      BY <1>7, <2>1 DEF StopsWell, At, Turn
    <3>2. Same(k) /\ lost[k] \subseteq lost'[k] /\ lost'[k] \subseteq Harms /\ commitNo' >= commitNo
      BY <1>1, <1>2, <2>1 DEF Same
    <3> QED BY <1>1, <3>1, <3>2, LayerUntouched
  <2> QED BY <2>2
<1>9. ASSUME NEW l \in Layers, Commit(l)
      PROVE  \A k \in Layers : LayerTypeOK(k)' /\ LayerInv(k)'
  <2>1. sync' = [sync EXCEPT !.stage = "lookup", !.layer = l] /\ Turn(l) /\ commitNo' = commitNo
    BY <1>9 DEF Commit, database
  <2>2. sync'.layer = l
    BY <2>1 DEF OInv, RestTypeOK
  <2>3. \A k \in Layers \ {l} : Same(k) /\ lost'[k] = lost[k]
    BY <1>1, <1>9 DEF Commit, database, Maps, Same
  <2> QED BY <1>1, <1>6, <1>9, <2>1, <2>2, <2>3, CommitOwn, OneLayer
<1>10. ASSUME NEW l \in Layers, CommitFails(l)
       PROVE  \A k \in Layers : LayerTypeOK(k)' /\ LayerInv(k)'
  <2>1. sync' = AfterLayer(l) /\ Turn(l) /\ commitNo' = commitNo
    BY <1>10 DEF CommitFails, LeaveOffline, database
  <2>2. sync'.stage = "next" /\ ~At(l, {"lookup", "added"})
    BY <1>7, <2>1 DEF At, Turn
  <2>3. \A k \in Layers \ {l} : Same(k) /\ lost'[k] = lost[k]
    BY <1>1, <1>10 DEF CommitFails, database, Maps, Same
  <2> QED BY <1>1, <1>6, <1>10, <2>1, <2>2, <2>3, FailedOwn, OneLayer
<1>11. ASSUME NEW l \in Layers, UpdateFidLookup(l)
       PROVE  \A k \in Layers : LayerTypeOK(k)' /\ LayerInv(k)'
  <2>1. sync' = [sync EXCEPT !.stage = "added"] /\ sync.layer = l /\ commitNo' = commitNo
    BY <1>11 DEF UpdateFidLookup
  <2>2. sync'.layer = l
    BY <2>1 DEF OInv, RestTypeOK
  <2>3. \A k \in Layers \ {l} : Same(k) /\ lost'[k] = lost[k]
    BY <1>1, <1>11 DEF UpdateFidLookup, Maps, Same
  <2> QED BY <1>1, <1>6, <1>11, <2>1, <2>2, <2>3, LookupOwn, OneLayer
<1>12. ASSUME NEW l \in Layers, ClearAdded(l)
       PROVE  \A k \in Layers : LayerTypeOK(k)' /\ LayerInv(k)'
  <2>1. sync' = [sync EXCEPT !.stage = "removed"] /\ sync.layer = l /\ commitNo' = commitNo
    BY <1>12 DEF ClearAdded
  <2>2. sync'.layer = l
    BY <2>1 DEF OInv, RestTypeOK
  <2>3. \A k \in Layers \ {l} : Same(k) /\ lost'[k] = lost[k]
    BY <1>1, <1>12 DEF ClearAdded, Maps, Same
  <2> QED BY <1>1, <1>6, <1>12, <2>1, <2>2, <2>3, ClearAddedOwn, OneLayer
<1>13. ASSUME NEW l \in Layers, ClearRemoved(l)
       PROVE  \A k \in Layers : LayerTypeOK(k)' /\ LayerInv(k)'
  <2>1. sync' = [sync EXCEPT !.stage = "updates"] /\ sync.layer = l /\ commitNo' = commitNo
    BY <1>13 DEF ClearRemoved
  <2>2. sync'.layer = l
    BY <2>1 DEF OInv, RestTypeOK
  <2>3. \A k \in Layers \ {l} : Same(k) /\ lost'[k] = lost[k]
    BY <1>1, <1>13 DEF ClearRemoved, Maps, Same
  <2> QED BY <1>1, <1>6, <1>13, <2>1, <2>2, <2>3, ClearRemovedOwn, OneLayer
<1>14. ASSUME NEW l \in Layers, ClearUpdates(l)
       PROVE  \A k \in Layers : LayerTypeOK(k)' /\ LayerInv(k)'
  <2>1. sync' = AfterLayer(l) /\ sync.layer = l /\ sync.stage = "updates" /\ commitNo' = commitNo
    BY <1>14 DEF ClearUpdates, LeaveOffline
  <2>2. sync'.stage = "next" /\ ~At(l, {"lookup", "added"})
    BY <1>7, <2>1 DEF At
  <2>3. \A k \in Layers \ {l} : Same(k) /\ lost'[k] = lost[k]
    BY <1>1, <1>14 DEF ClearUpdates, Maps, Same
  <2> QED BY <1>1, <1>6, <1>14, <2>1, <2>2, <2>3, ClearUpdatesOwn, OneLayer
<1>15. ASSUME NEW l \in Layers, OthersAddFeature(l)
       PROVE  \A k \in Layers : LayerTypeOK(k)' /\ LayerInv(k)'
  <2>1. \A k \in Layers \ {l} : Same(k) /\ lost'[k] = lost[k] /\ StopsWell(k)
    BY <1>1, <1>15 DEF OthersAddFeature, database, Maps, Same, StopsWell
  <2>2. commitNo' = commitNo
    BY <1>15 DEF OthersAddFeature, database
  <2> QED BY <1>1, <1>15, <2>1, <2>2, OthersOwn, OneLayer
<1>16. CASE Synchronize \/ SaveProject \/ OpenProject \/ UNCHANGED vars \/ \E l \in Layers : DiscardRemote(l)
  <2>1. /\ table' = table /\ remote' = remote /\ nextId' = nextId /\ fids' = fids /\ log' = log
        /\ commitNo' = commitNo /\ lost' = lost
        /\ sync' = sync \/ (sync = Idle /\ sync' = [Idle EXCEPT !.stage = "next", !.todo = project.layers])
    <3>1. CASE Synchronize
      BY <3>1 DEF Synchronize, database
    <3>2. CASE SaveProject \/ OpenProject
      BY <3>2 DEF SaveProject, OpenProject, database
    <3>3. CASE UNCHANGED vars
      BY <3>3 DEF vars
    <3>4. CASE \E l \in Layers : DiscardRemote(l)
      BY <3>4 DEF DiscardRemote, database
    <3> QED BY <1>16, <3>1, <3>2, <3>3, <3>4
  <2>2. ASSUME NEW k \in Layers
        PROVE  LayerTypeOK(k)' /\ LayerInv(k)'
    <3>1. StopsWell(k)
      <4>1. CASE sync' = sync
        BY <4>1 DEF StopsWell
      <4>2. CASE sync = Idle /\ sync' = [Idle EXCEPT !.stage = "next", !.todo = project.layers]
        <5>1. sync.stage = "idle" /\ sync'.stage = "next"
          BY <4>2 DEF Idle
        <5> QED BY <5>1 DEF StopsWell, At
      <4> QED BY <2>1, <4>1, <4>2
    <3>2. Same(k) /\ lost[k] \subseteq lost'[k] /\ lost'[k] \subseteq Harms /\ commitNo' >= commitNo
      BY <1>1, <1>2, <2>1 DEF Same
    <3> QED BY <1>1, <3>1, <3>2, LayerUntouched
  <2> QED BY <2>2
<1>17. CASE ResetCommitNo
  <2>1. /\ table' = table /\ remote' = remote /\ nextId' = nextId /\ fids' = fids /\ log' = log
        /\ lost' = [k \in Layers |-> IF log[k].updates = <<>> THEN lost[k] ELSE lost[k] \union {"reset"}]
        /\ sync.stage = "next" /\ sync' = Idle
    BY <1>17 DEF ResetCommitNo
  <2>2. ASSUME NEW k \in Layers
        PROVE  LayerTypeOK(k)' /\ LayerInv(k)'
    <3>1. StopsWell(k)
      BY <2>1 DEF StopsWell, At, Idle
    <3>2. Same(k) /\ lost[k] \subseteq lost'[k] /\ lost'[k] \subseteq Harms
      BY <1>1, <1>2, <2>1 DEF Same, Harms
    <3>3. log[k].updates = <<>> \/ ~Mild(k)'
      BY <2>1 DEF Mild
    <3> QED BY <1>1, <3>1, <3>2, <3>3, LayerUntouched
  <2> QED BY <2>2
<1>18. CASE Crash
  <2>1. /\ table' = table /\ remote' = remote /\ nextId' = nextId /\ fids' = fids /\ log' = log
        /\ commitNo' = commitNo /\ sync' = Idle
        /\ lost' = [k \in Layers |->
                      IF sync.layer = k /\ sync.stage \in {"lookup", "added"} /\ log[k].added # <<>>
                      THEN lost[k] \union {"repeated"} ELSE lost[k]]
    BY <1>18 DEF Crash, database
  <2>2. ASSUME NEW k \in Layers
        PROVE  LayerTypeOK(k)' /\ LayerInv(k)'
    <3>1. StopsWell(k)
      BY <2>1 DEF StopsWell, At, Idle
    <3>2. Same(k) /\ lost[k] \subseteq lost'[k] /\ lost'[k] \subseteq Harms /\ commitNo' >= commitNo
      BY <1>1, <1>2, <2>1 DEF Same, Harms
    <3> QED BY <1>1, <3>1, <3>2, LayerUntouched
  <2> QED BY <2>2
<1>19. ASSUME NEW l \in Layers, SaveRemote(l)
       PROVE  \A k \in Layers : LayerTypeOK(k)' /\ LayerInv(k)'
  <2>1. \A k \in Layers \ {l} : Same(k) /\ lost'[k] = lost[k] /\ StopsWell(k)
    BY <1>1, <1>19 DEF SaveRemote, database, Maps, Same, StopsWell
  <2>2. commitNo' = commitNo
    BY <1>19 DEF SaveRemote, database
  <2> QED BY <1>1, <1>19, <2>1, <2>2, SaveOwn, OneLayer
<1> QED BY <1>3, <1>4, <1>5, <1>8, <1>9, <1>10, <1>11, <1>12, <1>13, <1>14, <1>15, <1>16, <1>17, <1>18, <1>19
        DEF Next

\* Nothing happens to the buffer of a layer, nor to what it was made from.
LEMMA BufferKept ==
    ASSUME NEW k \in Layers, BufferInv(k), buffer'[k] = buffer[k],
           \/ buffer[k] = NoBuffer
           \/ /\ log'[k] = log[k] /\ fids'[k] = fids[k]
              /\ k \notin project'.layers \union sync'.todo /\ ~At(k, Busy)'
    PROVE  BufferInv(k)'
<1>1. CASE buffer[k] = NoBuffer
  <2>1. buffer'[k] = NoBuffer
    BY <1>1
  <2> QED BY <2>1, NoBufferLater
<1>2. CASE /\ log'[k] = log[k] /\ fids'[k] = fids[k]
           /\ k \notin project'.layers \union sync'.todo /\ ~At(k, Busy)'
  <2>1. \A f : RemoteFid(k, f)' = RemoteFid(k, f)
    BY <1>2 DEF RemoteFid, Mapped
  <2> QED BY <1>2, <2>1 DEF BufferInv, BufferTypeOK
<1> QED BY <1>1, <1>2

\* What a failed commit leaves.
LEMMA FailedBuffer ==
    ASSUME NEW l \in Layers, OInv, CommitFails(l)
    PROVE  BufferInv(l)'
<1>1. /\ Maps /\ LayerTypeOK(l) /\ Turn(l) /\ ~SyncError(l)
      /\ log' = log /\ fids' = fids
      /\ project' = [entry |-> FALSE, layers |-> project.layers \ {l}] /\ sync' = AfterLayer(l)
  BY DEF OInv, CommitFails, LeaveOffline, database
<1>2. l \notin project'.layers \union sync'.todo /\ ~At(l, Busy)'
  <2>1. sync' = [sync EXCEPT !.stage = "next", !.todo = @ \ {l}, !.layer = Unknown]
    BY <1>1 DEF AfterLayer
  <2>2. sync'.todo = sync.todo \ {l} /\ sync'.stage = "next"
    BY <2>1 DEF OInv, RestTypeOK
  <2> QED BY <1>1, <2>2 DEF At, Busy
<1>3. PICK n \in 0 .. 2 : buffer' = [buffer EXCEPT ![l] = Rest(Replay(l), n)]
  BY DEF CommitFails
<1>4. buffer'[l] = Rest(Replay(l), n)
  BY <1>1, <1>3 DEF Maps
<1> DEFINE R == {r \in DOMAIN remote[l] : UpdatesOf(l, r) # {}}
           values == [r \in R |-> log[l].updates[LastUpdate(l, r)].val]
           removed == {RemoteFid(l, f) : f \in log[l].removed}
           added == [i \in DOMAIN Copies(l) |-> table[l][Copies(l)[i]]]
<1>5. /\ buffer'[l].values = (IF n < 1 THEN values ELSE <<>>)
      /\ buffer'[l].removed = (IF n < 2 THEN removed ELSE {})
      /\ buffer'[l].added = added
  BY <1>4 DEF Rest, Replay
<1>6. /\ \A r \in R : /\ log[l].updates[LastUpdate(l, r)].val \in Values
                     /\ \E i \in DOMAIN log[l].updates : RemoteFid(l, log[l].updates[i].fid) = r
  <2>1. SUFFICES ASSUME NEW r \in R
                 PROVE  /\ log[l].updates[LastUpdate(l, r)].val \in Values
                        /\ \E i \in DOMAIN log[l].updates : RemoteFid(l, log[l].updates[i].fid) = r
    OBVIOUS
  <2>2. LastUpdate(l, r) \in UpdatesOf(l, r)
    BY <1>1, <2>1, LastExists
  <2>3. /\ LastUpdate(l, r) \in DOMAIN log[l].updates
        /\ RemoteFid(l, log[l].updates[LastUpdate(l, r)].fid) = r
    BY <2>2 DEF UpdatesOf
  <2> QED BY <1>1, <2>3, LayerTypes
<1>7. removed \subseteq Nat
  <2>1. SUFFICES ASSUME NEW f \in log[l].removed PROVE RemoteFid(l, f) \in Nat
    OBVIOUS
  <2>2. RemoteFid(l, f) # Unknown
    BY <1>1 DEF SyncError
  <2>3. fids[l] \in Seq(Rows) /\ RemoteFid(l, f) = FirstFid(fids[l], f)
    BY <1>1, LayerTypes, LookupByRows
  <2> QED BY <2>2, <2>3, FidType
<1>8. added \in Seq(Features)
  <2> DEFINE c == Copies(l)
  <2>1. c \in Seq(1 .. MaxFid) /\ Contents(c) \subseteq DOMAIN table[l]
    BY <1>1, AllCopied
  <2>2. \A f \in DOMAIN table[l] : table[l][f] \in Features
    BY <1>1, LayerTypes
  <2> HIDE DEF c
  <2>3. Len(c) \in Nat /\ DOMAIN c = 1 .. Len(c)
    BY <2>1
  <2>4. \A i \in 1 .. Len(c) : table[l][c[i]] \in Features
    BY <2>1, <2>2, <2>3 DEF Contents
  <2>5. added = [i \in 1 .. Len(c) |-> table[l][c[i]]]
    BY <2>3 DEF c
  <2> HIDE DEF added
  <2> QED BY <2>3, <2>4, <2>5
<1>9. /\ DOMAIN values = R /\ values \in [R -> Values]
      /\ DOMAIN <<>> = {} /\ <<>> \in [{} -> Values]
  BY <1>6
<1>10. \A f : RemoteFid(l, f)' = RemoteFid(l, f)
  BY <1>1 DEF RemoteFid, Mapped
<1> HIDE DEF values, removed, added, R
<1>11. BufferTypeOK(l)'
  BY <1>5, <1>7, <1>8, <1>9 DEF BufferTypeOK
<1>12. \A r \in DOMAIN buffer'[l].values : r \in R
  BY <1>5, <1>9
<1>13. \A r \in buffer'[l].removed : \E f \in log[l].removed : RemoteFid(l, f) = r
  BY <1>5 DEF removed
<1> QED BY <1>1, <1>2, <1>6, <1>10, <1>11, <1>12, <1>13 DEF BufferInv

\* What a save leaves, if it fails as well.
LEMMA SavedBuffer ==
    ASSUME NEW l \in Layers, OInv, SaveRemote(l)
    PROVE  BufferInv(l)'
<1>1. /\ Maps /\ BufferInv(l) /\ buffer[l] # NoBuffer
      /\ log' = log /\ fids' = fids /\ project' = project /\ sync' = sync
  BY DEF OInv, SaveRemote, database
<1>2. PICK n \in 0 .. 3 : buffer' = [buffer EXCEPT ![l] = Rest(buffer[l], n)]
  BY DEF SaveRemote
<1>3. buffer'[l] = Rest(buffer[l], n)
  BY <1>1, <1>2 DEF Maps
<1>4. /\ buffer'[l].values = (IF n < 1 THEN buffer[l].values ELSE <<>>)
      /\ buffer'[l].removed = (IF n < 2 THEN buffer[l].removed ELSE {})
      /\ buffer'[l].added = (IF n < 3 THEN buffer[l].added ELSE <<>>)
  BY <1>3 DEF Rest
<1>5. DOMAIN <<>> = {} /\ <<>> \in [{} -> Values] /\ <<>> \in Seq(Features)
  OBVIOUS
<1>6. BufferTypeOK(l)'
  BY <1>1, <1>4, <1>5 DEF BufferInv, BufferTypeOK
<1>7. (\A f : RemoteFid(l, f)' = RemoteFid(l, f)) /\ (At(l, Busy)' <=> At(l, Busy))
  BY <1>1 DEF RemoteFid, Mapped, At
<1>8. /\ \A r \in DOMAIN buffer'[l].values : r \in DOMAIN buffer[l].values
      /\ \A r \in buffer'[l].removed : r \in buffer[l].removed
  BY <1>4, <1>5
<1> QED BY <1>1, <1>6, <1>7, <1>8 DEF BufferInv

LEMMA BuffersNext ==
    OInv /\ [Next]_vars => \A k \in Layers : BufferInv(k)'
<1> SUFFICES ASSUME OInv, [Next]_vars, NEW k \in Layers PROVE BufferInv(k)'
  OBVIOUS
<1>1. /\ Maps /\ BufferInv(k) /\ sync.todo \subseteq Layers
      /\ sync \in [stage : {"idle", "next", "lookup", "added", "removed", "updates"},
                   todo : SUBSET Layers, layer : Layers \union {Unknown}]
  BY DEF OInv, RestTypeOK
<1>2. buffer[k] # NoBuffer => k \notin project.layers \union sync.todo /\ ~At(k, Busy)
  BY <1>1 DEF BufferInv
<1>4. ASSUME NEW l \in Layers,
             \/ \E n \in 1 .. MaxFid : CommittedFeaturesAdded(l, n)
             \/ \E deleted \in SUBSET (1 .. MaxFid) : CommittedFeaturesRemoved(l, deleted)
             \/ \E f \in 1 .. MaxFid, v \in Values : CommittedChanges(l, f, v)
      PROVE  BufferInv(k)'
  <2>1. /\ CanCommit(l) /\ buffer' = buffer /\ fids' = fids /\ project' = project
        /\ sync' = sync /\ (At(k, Busy)' <=> At(k, Busy))
        /\ \E logged : log' = [log EXCEPT ![l] = logged] \/ log' = log
    BY <1>4 DEF CommittedFeaturesAdded, CommittedFeaturesRemoved, CommittedChanges, Log, At
  <2>2. l \in project.layers
    BY <2>1 DEF CanCommit
  <2>3. buffer[k] # NoBuffer => log'[k] = log[k]
    BY <1>1, <1>2, <2>1, <2>2 DEF Maps
  <2> QED BY <1>1, <1>2, <2>1, <2>3, BufferKept
<1>5. ASSUME NEW l \in Layers, sync' = AfterLayer(l)
      PROVE  sync'.todo = sync.todo \ {l} /\ ~At(k, Busy)'
  <2>1. sync' = [sync EXCEPT !.stage = "next", !.todo = @ \ {l}, !.layer = Unknown]
    BY <1>5 DEF AfterLayer
  <2>2. sync'.todo = sync.todo \ {l} /\ sync'.stage = "next"
    BY <1>1, <2>1
  <2> QED BY <2>2 DEF At, Busy
<1>6. ASSUME NEW l \in Layers, SkipLayer(l) \/ RollBack(l)
      PROVE  BufferInv(k)'
  <2>1. /\ buffer' = buffer /\ log' = log /\ fids' = fids /\ sync' = AfterLayer(l)
        /\ project'.layers \subseteq project.layers
    BY <1>6 DEF SkipLayer, RollBack, LeaveOffline, database
  <2> QED BY <1>1, <1>2, <1>5, <2>1, BufferKept
<1>7. ASSUME NEW l \in Layers, Commit(l)
      PROVE  BufferInv(k)'
  <2>1. /\ buffer' = buffer /\ log' = log /\ fids' = fids /\ project' = project
        /\ sync' = [sync EXCEPT !.stage = "lookup", !.layer = l] /\ l \in sync.todo
    BY <1>7 DEF Commit, Turn, database
  <2>2. sync'.todo = sync.todo /\ sync'.layer = l
    BY <1>1, <2>1
  <2>3. buffer[k] # NoBuffer => ~At(k, Busy)'
    BY <1>2, <2>1, <2>2 DEF At
  <2> QED BY <1>1, <1>2, <2>1, <2>2, <2>3, BufferKept
<1>8. ASSUME NEW l \in Layers, CommitFails(l)
      PROVE  BufferInv(k)'
  <2>1. CASE k = l
    BY <1>8, <2>1, FailedBuffer
  <2>2. CASE k # l
    <3>1. /\ log' = log /\ fids' = fids /\ sync' = AfterLayer(l)
          /\ project'.layers \subseteq project.layers
      BY <1>8 DEF CommitFails, LeaveOffline, database
    <3>2. buffer'[k] = buffer[k]
      BY <1>1, <1>8, <2>2 DEF CommitFails, Maps
    <3> QED BY <1>1, <1>2, <1>5, <3>1, <3>2, BufferKept
  <2> QED BY <2>1, <2>2
<1>9. ASSUME NEW l \in Layers, UpdateFidLookup(l) \/ ClearAdded(l) \/ ClearRemoved(l)
      PROVE  BufferInv(k)'
  <2>1. /\ buffer' = buffer /\ project' = project /\ At(l, Busy)
        /\ \E stage : sync' = [sync EXCEPT !.stage = stage]
    BY <1>9 DEF UpdateFidLookup, ClearAdded, ClearRemoved, At, Busy
  <2>2. sync'.todo = sync.todo /\ sync'.layer = sync.layer /\ (At(k, Busy)' => k = l)
    BY <1>1, <2>1 DEF At
  <2>3. k # l => log'[k] = log[k] /\ fids'[k] = fids[k]
    <3>1. CASE UpdateFidLookup(l)
      BY <1>1, <3>1 DEF UpdateFidLookup, Maps
    <3>2. CASE ClearAdded(l) \/ ClearRemoved(l)
      BY <1>1, <3>2 DEF ClearAdded, ClearRemoved, Maps
    <3> QED BY <1>9, <3>1, <3>2
  <2>4. k = l => buffer[k] = NoBuffer
    BY <1>2, <2>1
  <2> QED BY <1>1, <1>2, <2>1, <2>2, <2>3, <2>4, BufferKept
<1>10. ASSUME NEW l \in Layers, ClearUpdates(l)
       PROVE  BufferInv(k)'
  <2>1. /\ buffer' = buffer /\ fids' = fids /\ At(l, Busy) /\ sync' = AfterLayer(l)
        /\ project'.layers \subseteq project.layers
        /\ k # l => log'[k] = log[k]
    BY <1>1, <1>10 DEF ClearUpdates, LeaveOffline, Maps, At, Busy
  <2>2. k = l => buffer[k] = NoBuffer
    BY <1>2, <2>1
  <2> QED BY <1>1, <1>2, <1>5, <2>1, <2>2, BufferKept
<1>11. ASSUME NEW l \in Layers, SaveRemote(l) \/ DiscardRemote(l)
       PROVE  BufferInv(k)'
  <2>1. /\ log' = log /\ fids' = fids /\ project' = project
        /\ sync' = sync /\ (At(k, Busy)' <=> At(k, Busy))
    BY <1>11 DEF SaveRemote, DiscardRemote, database, At
  <2>2. CASE k # l
    <3>1. buffer'[k] = buffer[k]
      BY <1>1, <1>11, <2>2 DEF SaveRemote, DiscardRemote, Maps
    <3> QED BY <1>1, <1>2, <2>1, <3>1, BufferKept
  <2>3. CASE k = l /\ SaveRemote(l)
    BY <2>3, SavedBuffer
  <2>4. CASE k = l /\ DiscardRemote(l)
    <3>1. buffer'[k] = NoBuffer
      BY <1>1, <2>4 DEF DiscardRemote, Maps
    <3> QED BY <3>1, NoBufferLater
  <2> QED BY <1>11, <2>2, <2>3, <2>4
<1>12. CASE \/ \E l \in Layers : OthersAddFeature(l)
            \/ SaveProject \/ UNCHANGED vars
  <2>1. /\ buffer' = buffer /\ log' = log /\ fids' = fids /\ project' = project
        /\ sync' = sync /\ (At(k, Busy)' <=> At(k, Busy))
    BY <1>12 DEF OthersAddFeature, SaveProject, vars, database, At
  <2> QED BY <1>1, <1>2, <2>1, BufferKept
<1>13. CASE Synchronize
  <2>1. /\ buffer' = buffer /\ log' = log /\ fids' = fids /\ project' = project
        /\ sync' = [Idle EXCEPT !.stage = "next", !.todo = project.layers]
    BY <1>13 DEF Synchronize, database
  <2>2. sync'.todo = project.layers /\ ~At(k, Busy)'
    BY <2>1 DEF Idle, At, Busy
  <2> QED BY <1>1, <1>2, <2>1, <2>2, BufferKept
<1>14. CASE ResetCommitNo
  <2>1. buffer' = buffer /\ log' = log /\ fids' = fids /\ project' = project /\ sync' = Idle
    BY <1>14 DEF ResetCommitNo
  <2>2. sync'.todo = {} /\ ~At(k, Busy)'
    BY <2>1 DEF Idle, At, Busy
  <2> QED BY <1>1, <1>2, <2>1, <2>2, BufferKept
<1>15. CASE OpenProject \/ Crash
  <2>1. buffer'[k] = NoBuffer
    BY <1>15 DEF OpenProject, Crash
  <2> QED BY <2>1, NoBufferLater
<1> QED BY <1>4, <1>6, <1>7, <1>8, <1>9, <1>10, <1>11, <1>12, <1>13, <1>14, <1>15 DEF Next

LEMMA NextInv ==
    OInv /\ [Next]_vars => OInv'
  BY MapsNext, RestNext, LayersNext, BuffersNext DEF OInv

\* What is true of the log, the lookup and the server in every state.
THEOREM Invariance == Spec => []OInv
<1> QED BY InitInv, NextInv, PTL DEF Spec

-----------------------------------------------------------------------------
(* Where the features of the copy are after a replay *)

\* Each of them is on the server: a copy of an added one, or the feature it is
\* paired with.
LEMMA ReplayedOnce ==
    ASSUME NEW l \in Layers, LayerTypeOK(l), LayerInv(l), Mild(l), commitNo \in Nat, NEW f \in DOMAIN table[l]
    PROVE  \E r \in DOMAIN WithAdded(l) : WithAdded(l)[r] = table[l][f]
<1>1. Copies(l) = log[l].added /\ log[l].added \in Seq(1 .. MaxFid)
  BY AllCopied, LayerTypes DEF Mild
<1>2. CASE f \in Contents(log[l].added)
  <2>1. PICK i \in 1 .. Len(Copies(l)) : Copies(l)[i] = f
    BY <1>1, <1>2 DEF Contents
  <2> QED BY <2>1, ReplayedLayer
<1>3. CASE f \notin Contents(log[l].added)
  <2>1. f \in Mapped(l) /\ RemoteFid(l, f) \in DOMAIN remote[l]
        /\ (IF Updated(l, f) THEN LastLogged(l, f) ELSE OnServer(l, f))
    BY <1>3 DEF LayerInv, LogFits, Stored
  <2>2. ASSUME NEW i \in DOMAIN fids[l], fids[l][i].offline = f, fids[l][i].remote \in DOMAIN remote[l]
        PROVE  /\ fids[l][i].remote \in DOMAIN WithAdded(l)
               /\ WithAdded(l)[fids[l][i].remote] = WithValues(l)[fids[l][i].remote]
               /\ ~Updated(l, f) => WithValues(l)[fids[l][i].remote] = remote[l][fids[l][i].remote]
    <3>1. /\ fids[l][i].remote \in DOMAIN WithoutRemoved(l)
          /\ ~Updated(l, f) => WithValues(l)[fids[l][i].remote] = remote[l][fids[l][i].remote]
      BY <2>2, ReplayFits
    <3>2. \A r \in DOMAIN WithoutRemoved(l) : r \in DOMAIN WithAdded(l) /\ WithAdded(l)[r] = WithValues(l)[r]
      BY ReplayedLayer
    <3> QED BY <3>1, <3>2
  <2>3. CASE Updated(l, f)
    <3>1. WithValues(l)[RemoteFid(l, f)] = table[l][f]
      BY <2>3, ReplayFits
    <3>2. PICK i \in DOMAIN fids[l] : fids[l][i].offline = f /\ RemoteFid(l, f) = fids[l][i].remote
      BY <2>1, RowOf
    <3> QED BY <2>1, <2>2, <3>1, <3>2
  <2>4. CASE ~Updated(l, f)
    <3>1. PICK i \in DOMAIN fids[l] :
             /\ fids[l][i].offline = f
             /\ fids[l][i].remote \in DOMAIN remote[l] /\ remote[l][fids[l][i].remote] = table[l][f]
      BY <2>1, <2>4 DEF OnServer
    <3> QED BY <2>2, <2>4, <3>1
  <2> QED BY <2>3, <2>4
<1> QED BY <1>2, <1>3

-----------------------------------------------------------------------------
(* What it implies *)

\* Every variable keeps its type; the log names rows that exist, and the server has
\* given every id that its features and the lookup have.
THEOREM TypeCorrect == Spec => []TypeOK
<1>1. OInv => TypeOK
  BY DEF OInv, RestTypeOK, TypeOK, BufferInv
<1> QED BY <1>1, Invariance, PTL

\* Two ids paired in log_fids are of the same feature, whoever else adds features and
\* wherever synchronize() was stopped (QgsOfflineEditing::updateFidLookup).
THEOREM LookupPairsTheSame == Spec => []LookupSound
<1>1. OInv => LookupSound
  BY DEF OInv, LayerInv, PairsSound, LookupSound
<1> QED BY <1>1, Invariance, PTL

\* A crash, or a failed commit whose rest is saved late, may make synchronize() add features
\* twice; it loses none, and leaves no log that cannot be replayed.
THEOREM ReplayLosesNothing == Spec => []NothingLost
<1>1. ASSUME OInv, NEW l \in Layers, lost[l] \subseteq {"repeated"}
      PROVE  ~SyncError(l) /\ Contents(table[l]) \subseteq Contents(WithAdded(l))
  <2>1. LayerTypeOK(l) /\ LayerInv(l) /\ Mild(l) /\ commitNo \in Nat
    BY <1>1, ConstantsAssumption DEF OInv, RestTypeOK, Mild
  <2>2. ASSUME NEW f \in DOMAIN table[l]
        PROVE  \E r \in DOMAIN WithAdded(l) : WithAdded(l)[r] = table[l][f]
    BY <1>1, <2>1, ReplayedOnce
  <2>3. Contents(table[l]) \subseteq Contents(WithAdded(l))
    BY <2>2 DEF Contents
  <2> QED BY <2>1, <2>3, ReplayFits
<1>2. OInv => NothingLost
  BY <1>1 DEF NothingLost
<1> QED BY <1>2, Invariance, PTL

\* synchronize() never changes or removes a feature of others, not even when features
\* were added twice, ids reused or updates forgotten, unless edits were not logged.
THEOREM OthersAreKept == Spec => TheirsKept
<1>1. ASSUME OInv, OInv', [Next]_vars
      PROVE  \A l \in Layers : "unlogged" \notin lost[l] =>
                \A r \in DOMAIN remote[l] :
                   ~IsMine(remote[l][r]) => r \in DOMAIN remote'[l] /\ remote'[l][r] = remote[l][r]
  <2>1. SUFFICES ASSUME NEW l \in Layers, "unlogged" \notin lost[l],
                        NEW r \in DOMAIN remote[l], ~IsMine(remote[l][r])
                 PROVE  r \in DOMAIN remote'[l] /\ remote'[l][r] = remote[l][r]
    OBVIOUS
  <2>2. LayerTypeOK(l) /\ LayerInv(l) /\ Maps
    BY <1>1 DEF OInv
  <2>3. r \notin Known(l)
    BY <2>1, <2>2 DEF LayerInv, PairsSound, Known
  <2>4. /\ r \in DOMAIN WithoutRemoved(l) /\ WithoutRemoved(l)[r] = remote[l][r]
        /\ r \in DOMAIN WithValues(l) /\ WithValues(l)[r] = remote[l][r]
        /\ r \in DOMAIN WithAdded(l) /\ WithAdded(l)[r] = remote[l][r]
    <3>1. r \in DOMAIN WithValues(l) /\ WithValues(l)[r] = remote[l][r] /\ r \in DOMAIN WithoutRemoved(l)
          /\ WithoutRemoved(l)[r] = WithValues(l)[r]
      BY <2>2, <2>3, ReplayTypes
    <3>2. r \in DOMAIN WithAdded(l) /\ WithAdded(l)[r] = WithValues(l)[r]
      BY <2>2, <3>1, ReplayedLayer
    <3> QED BY <3>1, <3>2
  <2>5. CASE remote'[l] = remote[l]
    BY <2>5
  <2>6. ASSUME NEW k \in Layers, Commit(k)
        PROVE  r \in DOMAIN remote'[l] /\ remote'[l][r] = remote[l][r]
    <3>1. remote' = [remote EXCEPT ![k] = WithAdded(k)]
      BY <2>6 DEF Commit
    <3>2. remote'[l] = remote[l] \/ remote'[l] = WithAdded(l)
      BY <2>2, <3>1 DEF Maps
    <3> QED BY <2>4, <3>2
  <2>7. ASSUME NEW k \in Layers, CommitFails(k)
        PROVE  r \in DOMAIN remote'[l] /\ remote'[l][r] = remote[l][r]
    <3>1. PICK stored \in {remote[k], WithValues(k), WithoutRemoved(k)} :
             remote' = [remote EXCEPT ![k] = stored]
      BY <2>7, PartStored
    <3>2. remote'[l] = remote[l] \/ remote'[l] \in {remote[l], WithValues(l), WithoutRemoved(l)}
      BY <2>2, <3>1 DEF Maps
    <3> QED BY <2>4, <3>2
  <2>8. ASSUME NEW k \in Layers, OthersAddFeature(k)
        PROVE  r \in DOMAIN remote'[l] /\ remote'[l][r] = remote[l][r]
    <3>1. CASE k = l
      <4>1. remote'[l] = Inserted(remote[l], [i \in {nextId[l]} |-> [who |-> Theirs, val |-> Default]])
        BY <2>2, <2>8, <3>1 DEF OthersAddFeature, Maps
      <4>2. r # nextId[l]
        BY <2>2, LayerTypes
      <4> QED BY <4>1, <4>2 DEF Inserted
    <3>2. CASE k # l
      <4>1. remote'[l] = remote[l]
        BY <2>2, <2>8, <3>2 DEF OthersAddFeature, Maps
      <4> QED BY <4>1
    <3> QED BY <3>1, <3>2
  <2>9. ASSUME NEW k \in Layers,
               \/ \E n \in 1 .. MaxFid : CommittedFeaturesAdded(k, n)
               \/ \E deleted \in SUBSET (1 .. MaxFid) : CommittedFeaturesRemoved(k, deleted)
               \/ \E f \in 1 .. MaxFid, v \in Values : CommittedChanges(k, f, v)
        PROVE  remote' = remote
    BY <2>9 DEF CommittedFeaturesAdded, CommittedFeaturesRemoved, CommittedChanges
  <2>10. ASSUME NEW k \in Layers,
                SkipLayer(k) \/ RollBack(k) \/ UpdateFidLookup(k) \/ ClearAdded(k) \/ ClearRemoved(k)
                \/ ClearUpdates(k) \/ DiscardRemote(k)
         PROVE  remote' = remote
    BY <2>10 DEF SkipLayer, RollBack, UpdateFidLookup, ClearAdded, ClearRemoved, ClearUpdates, DiscardRemote
  <2>11. ASSUME Synchronize \/ ResetCommitNo \/ SaveProject \/ OpenProject \/ Crash \/ UNCHANGED vars
         PROVE  remote' = remote
    BY <2>11 DEF Synchronize, ResetCommitNo, SaveProject, OpenProject, Crash, vars
  <2>12. ASSUME NEW k \in Layers, SaveRemote(k)
         PROVE  r \in DOMAIN remote'[l] /\ remote'[l][r] = remote[l][r]
    <3>1. CASE k = l
      <4>1. PICK n \in 0 .. 3 : remote' = [remote EXCEPT ![l] = Saved(l, buffer[l], n)]
        BY <2>12, <3>1 DEF SaveRemote
      <4>2. remote'[l] = Saved(l, buffer[l], n) /\ BufferInv(l)
        BY <1>1, <2>2, <4>1 DEF Maps, OInv
      <4>3. \A f : RemoteFid(l, f) # r
        BY <2>1, <2>2, <2>3, NotFound
      <4> QED BY <2>1, <2>2, <4>2, <4>3, SavedLayer
    <3>2. CASE k # l
      <4>1. remote'[l] = remote[l]
        BY <2>2, <2>12, <3>2 DEF SaveRemote, Maps
      <4> QED BY <4>1
    <3> QED BY <3>1, <3>2
  <2> QED BY <1>1, <2>5, <2>6, <2>7, <2>8, <2>9, <2>10, <2>11, <2>12 DEF Next
<1>2. OInv /\ OInv' /\ [Next]_vars =>
         [\A l \in Layers : "unlogged" \notin lost[l] =>
             \A r \in DOMAIN remote[l] :
                ~IsMine(remote[l][r]) => r \in DOMAIN remote'[l] /\ remote'[l][r] = remote[l][r]]_vars
  BY <1>1
<1> QED BY <1>2, Invariance, PTL DEF Spec, TheirsKept

Home(l, f) ==
    IF f \in Contents(log[l].added)
    THEN nextId[l] + (CHOOSE i \in DOMAIN log[l].added : log[l].added[i] = f) - 1
    ELSE RemoteFid(l, f)

\* If nothing has happened, the features of the copy and those of the server that are
\* not of others correspond, one to one.
LEMMA ReplayedAll ==
    ASSUME NEW l \in Layers, LayerTypeOK(l), LayerInv(l), lost[l] = {}, commitNo \in Nat,
           ~At(l, {"lookup", "added"})
    PROVE  LET replayed == WithAdded(l)
               mine == {r \in DOMAIN replayed : IsMine(replayed[r])}
           IN  /\ {replayed[r] : r \in mine} = Contents(table[l])
               /\ Cardinality(mine) = Cardinality(DOMAIN table[l])
<1> DEFINE replayed == WithAdded(l)
           mine == {r \in DOMAIN replayed : IsMine(replayed[r])}
           added == log[l].added
           D == DOMAIN table[l]
           b == nextId[l]
           n == Len(log[l].added)
           home == [f \in D |-> Home(l, f)]
<1>1. Mild(l) /\ ~At(l, {"lookup"}) /\ ~At(l, {"added"})
  BY DEF Mild, At
<1>2. /\ Copies(l) = added /\ added \in Seq(1 .. MaxFid) /\ n \in Nat /\ DOMAIN added = 1 .. n /\ b \in Nat
      /\ \A i \in 1 .. n : added[i] \in D
  BY AllCopied, LayerTypes DEF LayerTypeOK, Contents
<1>3. /\ \A i, j \in DOMAIN added : i < j => added[i] < added[j]
      /\ \A i, j \in DOMAIN fids[l] : fids[l][i].remote = fids[l][j].remote => i = j
      /\ \A f \in D : IsMine(table[l][f])
  BY <1>1 DEF LayerInv, InOrder
<1>4. /\ Contents(added) \intersect Mapped(l) = {}
      /\ \A i, j \in DOMAIN fids[l] : fids[l][i].offline = fids[l][j].offline => i = j
      /\ \A r \in DOMAIN remote[l] : IsMine(remote[l][r]) => r \in Known(l)
      /\ \A i \in DOMAIN fids[l] :
            fids[l][i].remote \in DOMAIN remote[l] => fids[l][i].offline \in D \union log[l].removed
  BY <1>1 DEF LayerInv, PairedOnce
<1>5. /\ DOMAIN replayed = DOMAIN WithoutRemoved(l) \union (b .. b + n - 1)
      /\ \A r \in DOMAIN WithoutRemoved(l) :
            /\ r \in DOMAIN remote[l] /\ replayed[r] = WithValues(l)[r]
            /\ replayed[r].who = remote[l][r].who /\ r \in Nat /\ r < b
      /\ \A i \in 1 .. n : b + i - 1 \in DOMAIN replayed /\ replayed[b + i - 1] = table[l][added[i]]
  <2>1. Len(Copies(l)) = n /\ \A i \in 1 .. n : Copies(l)[i] = added[i]
    BY <1>2
  <2>2. DOMAIN replayed = DOMAIN WithoutRemoved(l) \union (b .. b + n - 1)
    BY <2>1, ReplayedLayer
  <2>3. \A r \in DOMAIN WithoutRemoved(l) :
            /\ r \in DOMAIN remote[l] /\ replayed[r] = WithValues(l)[r]
            /\ replayed[r].who = remote[l][r].who /\ r \in Nat /\ r < b
    BY ReplayedLayer
  <2>4. ASSUME NEW i \in 1 .. n
        PROVE  b + i - 1 \in DOMAIN replayed /\ replayed[b + i - 1] = table[l][added[i]]
    <3>1. i \in 1 .. Len(Copies(l)) /\ Copies(l)[i] = added[i]
      BY <2>1
    <3>2. b + i - 1 \in DOMAIN WithAdded(l) /\ WithAdded(l)[b + i - 1] = table[l][Copies(l)[i]]
      BY <3>1, ReplayedLayer
    <3> QED BY <3>1, <3>2
  <2> QED BY <2>2, <2>3, <2>4
<1>6. \A i \in DOMAIN fids[l] :
         /\ fids[l][i].offline \in Mapped(l) /\ RemoteFid(l, fids[l][i].offline) = fids[l][i].remote
         /\ fids[l][i].remote \in Nat /\ fids[l][i].remote < b
  <2>1. SUFFICES ASSUME NEW i \in DOMAIN fids[l]
                 PROVE  /\ fids[l][i].offline \in Mapped(l)
                        /\ RemoteFid(l, fids[l][i].offline) = fids[l][i].remote
                        /\ fids[l][i].remote \in Nat /\ fids[l][i].remote < b
    OBVIOUS
  <2>2. fids[l][i].offline \in Mapped(l)
    BY DEF Mapped
  <2>3. PICK j \in DOMAIN fids[l] :
           fids[l][j].offline = fids[l][i].offline /\ RemoteFid(l, fids[l][i].offline) = fids[l][j].remote
    BY <2>2, RowOf
  <2>4. fids[l][i].remote \in Nat /\ fids[l][i].remote < b
    BY LayerTypes
  <2> QED BY <1>4, <2>2, <2>3, <2>4
<1>7. ASSUME NEW f \in D, f \notin Contents(added)
      PROVE  /\ \E i \in DOMAIN fids[l] : fids[l][i].offline = f /\ Home(l, f) = fids[l][i].remote
             /\ Home(l, f) \in DOMAIN replayed /\ replayed[Home(l, f)] = table[l][f]
  <2>1. f \in Mapped(l) /\ RemoteFid(l, f) \in DOMAIN remote[l] /\ Home(l, f) = RemoteFid(l, f)
        /\ (IF Updated(l, f) THEN LastLogged(l, f) ELSE OnServer(l, f))
    BY <1>1, <1>7 DEF LayerInv, LogFits, Stored, Home
  <2>2. PICK i \in DOMAIN fids[l] : fids[l][i].offline = f /\ RemoteFid(l, f) = fids[l][i].remote
    BY <2>1, RowOf
  <2>3. fids[l][i].remote \in DOMAIN WithoutRemoved(l)
        /\ (~Updated(l, f) => WithValues(l)[fids[l][i].remote] = remote[l][fids[l][i].remote])
    BY <1>1, <2>1, <2>2, ReplayFits
  <2>4. WithValues(l)[fids[l][i].remote] = table[l][f]
    <3>1. CASE Updated(l, f)
      BY <1>1, <2>2, <3>1, ReplayFits
    <3>2. CASE ~Updated(l, f)
      BY <1>4, <2>1, <2>2, <2>3, <3>2 DEF OnServer
    <3> QED BY <3>1, <3>2
  <2> QED BY <1>5, <2>1, <2>2, <2>3, <2>4
<1>8. ASSUME NEW i \in 1 .. n
      PROVE  Home(l, added[i]) = b + i - 1
  <2> DEFINE j == CHOOSE k \in DOMAIN log[l].added : log[l].added[k] = added[i]
  <2>1. added[i] \in Contents(log[l].added)
    BY <1>2 DEF Contents
  <2>2. j \in 1 .. n /\ added[j] = added[i]
    BY <1>2
  <2>3. Home(l, added[i]) = b + j - 1
    BY <2>1 DEF Home
  <2>4. j = i
    <3> HIDE DEF j
    <3>1. added[i] \in Int /\ added[j] \in Int
      <4>1. MaxFid \in Int
        BY ConstantsAssumption
      <4>2. i \in 1 .. Len(added) /\ j \in 1 .. Len(added)
        BY <2>2
      <4>3. added[i] \in 1 .. MaxFid /\ added[j] \in 1 .. MaxFid
        BY <1>2, <4>2, ElementOfSeq
      <4> QED BY <4>1, <4>3
    <3>2. ~(i < j) /\ ~(j < i)
      <4>1. i \in DOMAIN added /\ j \in DOMAIN added /\ added[j] = added[i]
        BY <1>2, <2>2
      <4>2. (i < j => added[i] < added[j]) /\ (j < i => added[j] < added[i])
        BY <1>3, <4>1
      <4> QED BY <3>1, <4>1, <4>2
    <3> QED BY <1>2, <2>2, <3>2
  <2> QED BY <2>3, <2>4
<1>9. \A f \in Contents(added) : \E i \in 1 .. n : added[i] = f
  BY <1>2 DEF Contents
<1>a. n \in Nat /\ b \in Nat
  BY <1>2
<1>10. \A f \in D : Home(l, f) \in mine /\ replayed[Home(l, f)] = table[l][f]
  <2>1. ASSUME NEW f \in D
        PROVE  Home(l, f) \in DOMAIN replayed /\ replayed[Home(l, f)] = table[l][f]
    <3>1. CASE f \in Contents(added)
      <4>1. PICK i \in 1 .. n : added[i] = f
        BY <1>9, <3>1
      <4>2. Home(l, f) = b + i - 1
        BY <1>8, <4>1
      <4> QED BY <1>5, <4>1, <4>2
    <3> QED BY <1>7, <3>1
  <2> QED BY <1>3, <2>1
<1>11. \A r \in mine : \E f \in D : Home(l, f) = r
  <2>1. SUFFICES ASSUME NEW r \in mine PROVE \E f \in D : Home(l, f) = r
    OBVIOUS
  <2>2. r \in DOMAIN WithoutRemoved(l) \/ r \in b .. b + n - 1
    BY <1>5
  <2>3. CASE r \in b .. b + n - 1
    <3>1. r - b + 1 \in 1 .. n /\ r = b + (r - b + 1) - 1
      <4> HIDE DEF n, b
      <4> QED BY <1>a, <2>3
    <3> DEFINE i == r - b + 1
    <3> HIDE DEF i
    <3>2. i \in 1 .. n /\ r = b + i - 1
      BY <3>1 DEF i
    <3> QED BY <1>2, <1>8, <3>2
  <2>4. CASE r \in DOMAIN WithoutRemoved(l)
    <3>1. r \in DOMAIN remote[l] /\ IsMine(remote[l][r])
      BY <1>5, <2>1, <2>4 DEF IsMine
    <3>2. PICK i \in DOMAIN fids[l] : fids[l][i].remote = r
      BY <1>4, <3>1 DEF Known
    <3> DEFINE f == fids[l][i].offline
    <3>3. f \in D \union log[l].removed /\ f \in Mapped(l) /\ RemoteFid(l, f) = r
      BY <1>4, <1>6, <3>1, <3>2
    <3> HIDE DEF f
    <3>4. f \notin log[l].removed
      <4>1. DOMAIN WithoutRemoved(l) = DOMAIN remote[l] \ {RemoteFid(l, g) : g \in log[l].removed}
        BY ReplayTypes
      <4> QED BY <2>4, <3>3, <4>1
    <3>5. f \in D /\ f \notin Contents(added)
      BY <1>4, <3>3, <3>4
    <3>6. Home(l, f) = r
      BY <3>3, <3>5 DEF Home
    <3> QED BY <3>5, <3>6
  <2> QED BY <2>2, <2>3, <2>4
<1>12. \A f, g \in D : Home(l, f) = Home(l, g) => f = g
  <2>1. SUFFICES ASSUME NEW f \in D, NEW g \in D, Home(l, f) = Home(l, g) PROVE f = g
    OBVIOUS
  <2>2. \A h \in D : h \in Contents(added) => \E i \in 1 .. n : added[i] = h /\ Home(l, h) = b + i - 1
    BY <1>8, <1>9
  <2>3. \A h \in D : h \notin Contents(added) =>
           \E i \in DOMAIN fids[l] : fids[l][i].offline = h /\ Home(l, h) = fids[l][i].remote
    BY <1>7
  <2>4. \A i \in DOMAIN fids[l] : fids[l][i].remote \in Nat /\ fids[l][i].remote < b
    BY <1>6
  <2>5. CASE f \in Contents(added) /\ g \in Contents(added)
    <3>1. PICK i \in 1 .. n : added[i] = f /\ Home(l, f) = b + i - 1
      BY <2>2, <2>5
    <3>2. PICK j \in 1 .. n : added[j] = g /\ Home(l, g) = b + j - 1
      BY <2>2, <2>5
    <3>3. i = j
      <4>1. b + i - 1 = b + j - 1
        BY <2>1, <3>1, <3>2
      <4> HIDE DEF n, b
      <4>2. i \in Int /\ j \in Int
        BY <1>a
      <4> QED BY <1>a, <4>1, <4>2
    <3> QED BY <3>1, <3>2, <3>3
  <2>6. CASE f \notin Contents(added) /\ g \notin Contents(added)
    BY <1>3, <2>1, <2>3, <2>6
  <2>7. ASSUME NEW h \in D, NEW k \in D, h \in Contents(added), k \notin Contents(added)
        PROVE  Home(l, h) # Home(l, k)
    <3>1. PICK i \in 1 .. n : Home(l, h) = b + i - 1
      BY <2>2, <2>7
    <3>2. Home(l, k) \in Nat /\ Home(l, k) < b
      BY <2>3, <2>4, <2>7
    <3> QED BY <1>2, <3>1, <3>2
  <2> QED BY <2>1, <2>5, <2>6, <2>7
<1>13. IsFiniteSet(D)
  <2>1. MaxFid \in Int /\ 1 \in Int /\ D \subseteq 1 .. MaxFid
    BY ConstantsAssumption DEF LayerTypeOK
  <2>2. IsFiniteSet(1 .. MaxFid)
    BY <2>1, FS_Interval
  <2> HIDE DEF D
  <2> QED BY <2>1, <2>2, FS_Subset
<1> HIDE DEF replayed, mine, D
<1>14. home \in Bijection(D, mine)
  <2>1. home \in [D -> mine]
    BY <1>10
  <2>2. \A f, g \in D : home[f] = home[g] => f = g
    BY <1>12
  <2>3. \A r \in mine : \E f \in D : home[f] = r
    BY <1>11
  <2> QED BY <2>1, <2>2, <2>3, Fun_IsBij
<1>15. Cardinality(mine) = Cardinality(D)
  <2> HIDE DEF home
  <2>1. ExistsBijection(D, mine)
    BY <1>14 DEF ExistsBijection
  <2> QED BY <1>13, <2>1, FS_Bijection
<1>16. {replayed[r] : r \in mine} = {table[l][f] : f \in D}
  BY <1>10, <1>11
<1> QED BY <1>15, <1>16 DEF replayed, mine, D, Contents

\* Wherever synchronize() was stopped, and whichever stage of a commit failed, also
\* when the values and removals it left are saved later, replaying the log brings the
\* remote layer to the state of the offline one: the same features with the same
\* values, each of them once.
THEOREM LogSaysTheDifference == Spec => []LogIsTheDifference
<1>1. ASSUME OInv, NEW l \in Layers, lost[l] = {}, ~(sync.layer = l /\ sync.stage \in {"lookup", "added"})
      PROVE  LET replayed == WithAdded(l)
                 mine == {r \in DOMAIN replayed : IsMine(replayed[r])}
             IN  /\ {replayed[r] : r \in mine} = Contents(table[l])
                 /\ Cardinality(mine) = Cardinality(DOMAIN table[l])
  <2>1. LayerTypeOK(l) /\ LayerInv(l) /\ commitNo \in Nat /\ ~At(l, {"lookup", "added"})
    BY <1>1, ConstantsAssumption DEF OInv, RestTypeOK, At
  <2> QED BY <1>1, <2>1, ReplayedAll
<1>2. OInv => LogIsTheDifference
  BY <1>1 DEF LogIsTheDifference
<1> QED BY <1>2, Invariance, PTL
=============================================================================
