-------------------------- MODULE EditBufferProofs --------------------------
(***************************************************************************)
(* Proofs about EditBuffer for any features, geometries, values, bounds    *)
(* and capabilities: every variable keeps its type, undo and redo find the *)
(* added features they work on, and bring back the buffer of that moment;  *)
(* a commit that succeeds leaves nothing, a rollback empties the buffer.   *)
(***************************************************************************)
EXTENDS EditBuffer, SequenceTheorems, FiniteSetTheorems, FunctionTheorems, TLAPS

\* What redo and undo do to mAddedFeatures alone.
RedoAdded(c, a) ==
    CASE c.op = "add" -> [a EXCEPT ![c.fid] = c.new]
      [] c.op = "delete" /\ IsNew(c.fid) -> [a EXCEPT ![c.fid] = None]
      [] c.op = "geom" /\ IsNew(c.fid) -> [a EXCEPT ![c.fid].geom = c.new]
      [] c.op = "attr" /\ IsNew(c.fid) -> [a EXCEPT ![c.fid].attr = c.new]
      [] OTHER -> a

UndoAdded(c, a) ==
    CASE c.op = "add" -> [a EXCEPT ![c.fid] = None]
      [] c.op = "delete" /\ IsNew(c.fid) -> [a EXCEPT ![c.fid] = c.old]
      [] c.op = "geom" /\ IsNew(c.fid) -> [a EXCEPT ![c.fid].geom = c.old]
      [] c.op = "attr" /\ IsNew(c.fid) -> [a EXCEPT ![c.fid].attr = c.old]
      [] OTHER -> a

Applies(c, a) == NeedsFeature(c, {"geom", "attr"}) => a[c.fid] # None

\* c leads from the added features a to d and back, from buffer b to d and back.
LinkedAdded(c, a, d) == Applies(c, a) /\ RedoAdded(c, a) = d /\ UndoAdded(c, d) = a
Linked(c, b, d) == Redo(c, b) = d /\ Undo(c, d) = b

AddedMaps == [NewIds -> Feats \union {None}]

-----------------------------------------------------------------------------
(* The operators *)

\* The commands by kind.
LEMMA CommandKinds ==
    ASSUME NEW c \in Commands
    PROVE  \/ c.op = "add" /\ c.fid \in NewIds /\ c.old = None /\ c.new \in Feats
           \/ c.op = "delete" /\ c.fid \in NewIds /\ c.old \in Feats
           \/ c.op = "delete" /\ c.fid \in ProviderIds
           \/ c.op = "geom" /\ c.fid \in NewIds /\ c.old \in Geoms \union {NoGeom} /\ c.new \in Geoms
           \/ c.op = "geom" /\ c.fid \in ProviderIds /\ c.old \in Geoms \union {None} /\ c.new \in Geoms
           \/ c.op = "attr" /\ c.fid \in NewIds /\ c.old \in Vals \union {Invalid} /\ c.new \in Vals
           \/ c.op = "attr" /\ c.fid \in ProviderIds /\ c.old \in Vals \union {None} /\ c.new \in Vals
           \/ c.op = "macro"
  BY DEF Commands, Kind, Marker, Command

\* A feature id is that of an added feature or of one in the provider.
LEMMA IdKinds ==
    /\ \A f \in NewIds : IsNew(f) /\ f \notin ProviderIds
    /\ \A f \in ProviderIds : ~IsNew(f) /\ f \notin NewIds
  BY IdsAssumption, BoundsAssumption DEF NewIds, IsNew

LEMMA FeatsAreNotNone == None \notin Feats
  BY SentinelAssumption

\* Redo keeps the type of the buffer if the feature it changes is there.
LEMMA RedoType ==
    ASSUME NEW c \in Commands, NEW b \in Buffers, Applies(c, b.added)
    PROVE  Redo(c, b) \in Buffers
<1> USE IdKinds DEF Buffers, Redo, AddedMaps
<1>1. CASE c.op = "add" /\ c.fid \in NewIds /\ c.new \in Feats
  BY <1>1
<1>2. CASE c.op = "delete" /\ c.fid \in NewIds
  BY <1>2
<1>3. CASE c.op = "delete" /\ c.fid \in ProviderIds
  BY <1>3
<1>4. CASE c.op = "geom" /\ c.fid \in NewIds /\ c.new \in Geoms
  <2>1. b.added[c.fid] \in Feats
    BY <1>4 DEF Applies, NeedsFeature
  <2>2. [b.added[c.fid] EXCEPT !.geom = c.new] \in Feats
    BY <2>1, <1>4 DEF Feats
  <2> QED BY <1>4, <2>2
<1>5. CASE c.op = "geom" /\ c.fid \in ProviderIds /\ c.new \in Geoms
  BY <1>5
<1>6. CASE c.op = "attr" /\ c.fid \in NewIds /\ c.new \in Vals
  <2>1. b.added[c.fid] \in Feats
    BY <1>6 DEF Applies, NeedsFeature
  <2>2. [b.added[c.fid] EXCEPT !.attr = c.new] \in Feats
    BY <2>1, <1>6 DEF Feats
  <2> QED BY <1>6, <2>2
<1>7. CASE c.op = "attr" /\ c.fid \in ProviderIds /\ c.new \in Vals
  BY <1>7
<1>8. CASE c.op = "macro"
  BY <1>8
<1> QED BY <1>1, <1>2, <1>3, <1>4, <1>5, <1>6, <1>7, <1>8, CommandKinds

\* So does undo.
LEMMA UndoType ==
    ASSUME NEW c \in Commands, NEW b \in Buffers, Applies(c, b.added)
    PROVE  Undo(c, b) \in Buffers
<1> USE IdKinds DEF Buffers, Undo, AddedMaps
<1>1. CASE c.op = "add" /\ c.fid \in NewIds
  BY <1>1
<1>2. CASE c.op = "delete" /\ c.fid \in NewIds /\ c.old \in Feats
  BY <1>2
<1>3. CASE c.op = "delete" /\ c.fid \in ProviderIds
  BY <1>3
<1>4. CASE c.op = "geom" /\ c.fid \in NewIds /\ c.old \in Geoms \union {NoGeom}
  <2>1. b.added[c.fid] \in Feats
    BY <1>4 DEF Applies, NeedsFeature
  <2>2. [b.added[c.fid] EXCEPT !.geom = c.old] \in Feats
    BY <2>1, <1>4 DEF Feats
  <2> QED BY <1>4, <2>2
<1>5. CASE c.op = "geom" /\ c.fid \in ProviderIds /\ c.old \in Geoms \union {None}
  BY <1>5
<1>6. CASE c.op = "attr" /\ c.fid \in NewIds /\ c.old \in Vals \union {Invalid}
  <2>1. b.added[c.fid] \in Feats
    BY <1>6 DEF Applies, NeedsFeature
  <2>2. [b.added[c.fid] EXCEPT !.attr = c.old] \in Feats
    BY <2>1, <1>6 DEF Feats
  <2> QED BY <1>6, <2>2
<1>7. CASE c.op = "attr" /\ c.fid \in ProviderIds /\ c.old \in Vals \union {None}
  BY <1>7
<1>8. CASE c.op = "macro"
  BY <1>8
<1> QED BY <1>1, <1>2, <1>3, <1>4, <1>5, <1>6, <1>7, <1>8, CommandKinds

\* Redo and undo work on each map of the buffer by itself.
RedoDeleted(c, d) == IF c.op = "delete" /\ ~IsNew(c.fid) THEN d \union {c.fid} ELSE d
UndoDeleted(c, d) == IF c.op = "delete" /\ ~IsNew(c.fid) THEN d \ {c.fid} ELSE d
SetExisting(op, c, m, v) == IF c.op = op /\ ~IsNew(c.fid) THEN [m EXCEPT ![c.fid] = v] ELSE m

LEMMA ByField ==
    ASSUME NEW c \in Commands, NEW b \in Buffers
    PROVE  /\ Redo(c, b).added = RedoAdded(c, b.added)
           /\ Redo(c, b).deleted = RedoDeleted(c, b.deleted)
           /\ Redo(c, b).geoms = SetExisting("geom", c, b.geoms, c.new)
           /\ Redo(c, b).attrs = SetExisting("attr", c, b.attrs, c.new)
           /\ Undo(c, b).added = UndoAdded(c, b.added)
           /\ Undo(c, b).deleted = UndoDeleted(c, b.deleted)
           /\ Undo(c, b).geoms = SetExisting("geom", c, b.geoms, c.old)
           /\ Undo(c, b).attrs = SetExisting("attr", c, b.attrs, c.old)
<1> USE IdKinds DEF Buffers, Redo, Undo, RedoAdded, UndoAdded, RedoDeleted, UndoDeleted, SetExisting
<1>1. CASE c.op = "add" /\ c.fid \in NewIds
  BY <1>1
<1>2. CASE c.op = "delete" /\ c.fid \in NewIds
  BY <1>2
<1>3. CASE c.op = "delete" /\ c.fid \in ProviderIds
  BY <1>3
<1>4. CASE c.op = "geom" /\ c.fid \in NewIds
  BY <1>4
<1>5. CASE c.op = "geom" /\ c.fid \in ProviderIds
  BY <1>5
<1>6. CASE c.op = "attr" /\ c.fid \in NewIds
  BY <1>6
<1>7. CASE c.op = "attr" /\ c.fid \in ProviderIds
  BY <1>7
<1>8. CASE c.op = "macro"
  BY <1>8
<1> QED BY <1>1, <1>2, <1>3, <1>4, <1>5, <1>6, <1>7, <1>8, CommandKinds

LEMMA SameFields ==
    ASSUME NEW b \in Buffers, NEW d \in Buffers,
           b.added = d.added, b.deleted = d.deleted, b.geoms = d.geoms, b.attrs = d.attrs
    PROVE  b = d
  BY DEF Buffers

\* The feature a command changes is there after redo too.
LEMMA StillApplies ==
    ASSUME NEW c \in Commands, NEW d \in Commands, c.fid = d.fid, c.op = "geom" \/ c = d,
           NEW b \in Buffers, Applies(c, b.added), Applies(d, b.added)
    PROVE  Applies(d, RedoAdded(c, b.added))
<1>1. SUFFICES ASSUME NeedsFeature(d, {"geom", "attr"}) PROVE RedoAdded(c, b.added)[d.fid] # None
  BY DEF Applies
<1>2. d.fid \in NewIds /\ b.added[d.fid] \in Feats
  BY <1>1, CommandKinds, IdKinds DEF NeedsFeature, Applies, Buffers
<1>3. c.op \in {"geom", "attr"} /\ IsNew(c.fid)
  BY <1>1 DEF NeedsFeature
<1>6. CASE c.op = "geom"
  <2>1. c.new \in Geoms
    BY <1>6, CommandKinds
  <2>2. [b.added[c.fid] EXCEPT !.geom = c.new] \in Feats
    BY <2>1, <1>2 DEF Feats
  <2>3. RedoAdded(c, b.added)[c.fid] = [b.added[c.fid] EXCEPT !.geom = c.new]
    BY <1>6, <1>2, <1>3 DEF RedoAdded, Buffers
  <2> QED BY <2>2, <2>3, FeatsAreNotNone
<1>7. CASE c.op = "attr"
  <2>1. c.new \in Vals
    BY <1>7, CommandKinds
  <2>2. [b.added[c.fid] EXCEPT !.attr = c.new] \in Feats
    BY <2>1, <1>2 DEF Feats
  <2>3. RedoAdded(c, b.added)[c.fid] = [b.added[c.fid] EXCEPT !.attr = c.new]
    BY <1>7, <1>2, <1>3 DEF RedoAdded, Buffers
  <2> QED BY <2>2, <2>3, FeatsAreNotNone
<1> QED BY <1>3, <1>6, <1>7

\* The old value a new command records.
Records(c, a) ==
    /\ c.op = "add" => a[c.fid] = None
    /\ c.op = "delete" /\ IsNew(c.fid) => a[c.fid] = c.old
    /\ c.op = "geom" /\ IsNew(c.fid) => a[c.fid].geom = c.old
    /\ c.op = "attr" /\ IsNew(c.fid) => a[c.fid].attr = c.old

RecordsAll(c, b) ==
    /\ Records(c, b.added)
    /\ c.op = "delete" /\ ~IsNew(c.fid) => c.fid \notin b.deleted
    /\ c.op = "geom" /\ ~IsNew(c.fid) => b.geoms[c.fid] = c.old
    /\ c.op = "attr" /\ ~IsNew(c.fid) => b.attrs[c.fid] = c.old

\* A command that recorded the old value undoes what it does.
LEMMA UndoOfRedoAdded ==
    ASSUME NEW c \in Commands, NEW a \in AddedMaps, Applies(c, a), Records(c, a)
    PROVE  UndoAdded(c, RedoAdded(c, a)) = a
<1> USE IdKinds DEF RedoAdded, UndoAdded, AddedMaps, Records
<1>1. CASE c.op = "add" /\ c.fid \in NewIds
  BY <1>1
<1>2. CASE c.op = "delete" /\ c.fid \in NewIds
  BY <1>2
<1>3. CASE c.op = "delete" /\ c.fid \in ProviderIds
  BY <1>3
<1>4. CASE c.op = "geom" /\ c.fid \in NewIds
  <2>1. a[c.fid] \in Feats
    BY <1>4 DEF Applies, NeedsFeature
  <2>2. [[a[c.fid] EXCEPT !.geom = c.new] EXCEPT !.geom = c.old] = a[c.fid]
    BY <2>1, <1>4 DEF Feats
  <2> QED BY <1>4, <2>2
<1>5. CASE c.op = "geom" /\ c.fid \in ProviderIds
  BY <1>5
<1>6. CASE c.op = "attr" /\ c.fid \in NewIds
  <2>1. a[c.fid] \in Feats
    BY <1>6 DEF Applies, NeedsFeature
  <2>2. [[a[c.fid] EXCEPT !.attr = c.new] EXCEPT !.attr = c.old] = a[c.fid]
    BY <2>1, <1>6 DEF Feats
  <2> QED BY <1>6, <2>2
<1>7. CASE c.op = "attr" /\ c.fid \in ProviderIds
  BY <1>7
<1>8. CASE c.op = "macro"
  BY <1>8
<1> QED BY <1>1, <1>2, <1>3, <1>4, <1>5, <1>6, <1>7, <1>8, CommandKinds

\* The same for the whole buffer.
LEMMA UndoOfRedo ==
    ASSUME NEW c \in Commands, NEW b \in Buffers, Applies(c, b.added), RecordsAll(c, b)
    PROVE  Undo(c, Redo(c, b)) = b
<1>1. b.added \in AddedMaps
  BY DEF Buffers, AddedMaps
<1>2. UndoAdded(c, RedoAdded(c, b.added)) = b.added
  BY <1>1, UndoOfRedoAdded DEF RecordsAll
<1>3. Redo(c, b) \in Buffers
  BY RedoType
<1>4. Applies(c, Redo(c, b).added)
  BY StillApplies, ByField
<1>5. Undo(c, Redo(c, b)) \in Buffers
  BY <1>3, <1>4, UndoType
<1>6. UndoDeleted(c, RedoDeleted(c, b.deleted)) = b.deleted
  BY DEF RecordsAll, UndoDeleted, RedoDeleted
<1>7. SetExisting("geom", c, SetExisting("geom", c, b.geoms, c.new), c.old) = b.geoms
  BY CommandKinds, IdKinds DEF RecordsAll, SetExisting, Buffers
<1>8. SetExisting("attr", c, SetExisting("attr", c, b.attrs, c.new), c.old) = b.attrs
  BY CommandKinds, IdKinds DEF RecordsAll, SetExisting, Buffers
<1> QED BY <1>2, <1>3, <1>5, <1>6, <1>7, <1>8, ByField, SameFields

\* A merged command does what both did, and undoes both.
LEMMA Merged ==
    ASSUME NEW c \in Commands, NEW d \in Commands, NEW b \in Buffers,
           c.op = "geom", d.op = "geom", c.fid = d.fid, Applies(c, b.added)
    PROVE  LET e == [c EXCEPT !.new = d.new]
           IN  /\ e \in Commands
               /\ Applies(e, b.added)
               /\ Redo(e, b) = Redo(d, Redo(c, b))
               /\ Undo(e, Redo(e, b)) = Undo(c, Redo(c, b))
               /\ RedoAdded(e, b.added) = RedoAdded(d, RedoAdded(c, b.added))
               /\ UndoAdded(e, RedoAdded(e, b.added)) = UndoAdded(c, RedoAdded(c, b.added))
<1> DEFINE e == [c EXCEPT !.new = d.new]
<1>1. d.new \in Geoms
  BY CommandKinds
<1>2. e \in Commands /\ e.op = "geom" /\ e.fid = c.fid /\ e.old = c.old /\ e.new = d.new
  <2>1. CASE c.fid \in NewIds
    <3>1. c \in Kind("geom", NewIds, Geoms \union {NoGeom}, Geoms)
      BY <2>1, IdKinds DEF Commands, Kind, Marker, Command
    <3>2. e \in Kind("geom", NewIds, Geoms \union {NoGeom}, Geoms)
      BY <3>1, <1>1 DEF Kind
    <3> QED BY <3>1, <3>2 DEF Commands, Kind
  <2>2. CASE c.fid \in ProviderIds
    <3>1. c \in Kind("geom", ProviderIds, Geoms \union {None}, Geoms)
      BY <2>2, IdKinds DEF Commands, Kind, Marker, Command
    <3>2. e \in Kind("geom", ProviderIds, Geoms \union {None}, Geoms)
      BY <3>1, <1>1 DEF Kind
    <3> QED BY <3>1, <3>2 DEF Commands, Kind
  <2> QED BY <2>1, <2>2, CommandKinds
<1> HIDE DEF e
<1>3. Applies(e, b.added) /\ Applies(d, b.added)
  BY <1>2 DEF Applies, NeedsFeature
<1>4. /\ RedoAdded(e, b.added) = RedoAdded(d, RedoAdded(c, b.added))
      /\ UndoAdded(e, RedoAdded(e, b.added)) = UndoAdded(c, RedoAdded(c, b.added))
  <2>1. CASE c.fid \in NewIds
    <3>1. b.added[c.fid] \in Feats
      BY <2>1, IdKinds DEF Applies, NeedsFeature, Buffers
    <3>2. /\ [b.added[c.fid] EXCEPT !.geom = d.new] = [[b.added[c.fid] EXCEPT !.geom = c.new] EXCEPT !.geom = d.new]
          /\ [[b.added[c.fid] EXCEPT !.geom = d.new] EXCEPT !.geom = c.old]
               = [[b.added[c.fid] EXCEPT !.geom = c.new] EXCEPT !.geom = c.old]
      BY <3>1 DEF Feats
    <3>3. /\ RedoAdded(e, b.added) = [b.added EXCEPT ![c.fid] = [b.added[c.fid] EXCEPT !.geom = d.new]]
          /\ RedoAdded(c, b.added) = [b.added EXCEPT ![c.fid] = [b.added[c.fid] EXCEPT !.geom = c.new]]
      BY <1>2, <2>1, IdKinds DEF RedoAdded
    <3>4. \A a : /\ RedoAdded(d, a) = [a EXCEPT ![c.fid] = [a[c.fid] EXCEPT !.geom = d.new]]
                 /\ UndoAdded(c, a) = [a EXCEPT ![c.fid] = [a[c.fid] EXCEPT !.geom = c.old]]
                 /\ UndoAdded(e, a) = [a EXCEPT ![c.fid] = [a[c.fid] EXCEPT !.geom = c.old]]
      BY <1>2, <2>1, IdKinds DEF RedoAdded, UndoAdded
    <3>5. \A x, y : /\ [b.added EXCEPT ![c.fid] = x][c.fid] = x
                    /\ [[b.added EXCEPT ![c.fid] = x] EXCEPT ![c.fid] = y] = [b.added EXCEPT ![c.fid] = y]
      BY <2>1 DEF Buffers
    <3> DEFINE x == [b.added[c.fid] EXCEPT !.geom = c.new]
    <3> DEFINE y == [b.added[c.fid] EXCEPT !.geom = d.new]
    <3> DEFINE z == [y EXCEPT !.geom = c.old]
    <3>6. RedoAdded(d, RedoAdded(c, b.added)) = [b.added EXCEPT ![c.fid] = [x EXCEPT !.geom = d.new]]
      <4> DEFINE a == RedoAdded(c, b.added)
      <4>1. RedoAdded(d, a) = [a EXCEPT ![c.fid] = [a[c.fid] EXCEPT !.geom = d.new]]
        BY <3>4
      <4>2. a[c.fid] = x
        BY <3>3, <3>5
      <4>3. \A w : [a EXCEPT ![c.fid] = w] = [b.added EXCEPT ![c.fid] = w]
        BY <3>3, <3>5
      <4> HIDE DEF x, y
      <4> QED BY <4>1, <4>2, <4>3
    <3>7. UndoAdded(c, RedoAdded(c, b.added)) = [b.added EXCEPT ![c.fid] = [x EXCEPT !.geom = c.old]]
      <4> DEFINE a == RedoAdded(c, b.added)
      <4>1. UndoAdded(c, a) = [a EXCEPT ![c.fid] = [a[c.fid] EXCEPT !.geom = c.old]]
        BY <3>4
      <4>2. a[c.fid] = x
        BY <3>3, <3>5
      <4>3. \A w : [a EXCEPT ![c.fid] = w] = [b.added EXCEPT ![c.fid] = w]
        BY <3>3, <3>5
      <4> HIDE DEF x, y
      <4> QED BY <4>1, <4>2, <4>3
    <3>8. UndoAdded(e, RedoAdded(e, b.added)) = [b.added EXCEPT ![c.fid] = [y EXCEPT !.geom = c.old]]
      <4> DEFINE a == RedoAdded(e, b.added)
      <4>1. UndoAdded(e, a) = [a EXCEPT ![c.fid] = [a[c.fid] EXCEPT !.geom = c.old]]
        BY <3>4
      <4>2. a[c.fid] = y
        BY <3>3, <3>5
      <4>3. \A w : [a EXCEPT ![c.fid] = w] = [b.added EXCEPT ![c.fid] = w]
        BY <3>3, <3>5
      <4> HIDE DEF x, y
      <4> QED BY <4>1, <4>2, <4>3
    <3> QED BY <3>2, <3>3, <3>6, <3>7, <3>8
  <2>2. CASE c.fid \in ProviderIds
    BY <1>2, <2>2, IdKinds DEF RedoAdded, UndoAdded
  <2> QED BY <2>1, <2>2, CommandKinds
<1>5. /\ Redo(c, b) \in Buffers /\ Redo(e, b) \in Buffers
      /\ Applies(c, Redo(c, b).added) /\ Applies(d, Redo(c, b).added) /\ Applies(e, Redo(e, b).added)
  <2>1. Redo(c, b) \in Buffers /\ Redo(e, b) \in Buffers
    BY <1>2, <1>3, RedoType
  <2>2. Redo(c, b).added = RedoAdded(c, b.added) /\ Redo(e, b).added = RedoAdded(e, b.added)
    BY <1>2, ByField
  <2>3. Applies(c, RedoAdded(c, b.added))
    BY StillApplies
  <2>4. Applies(d, RedoAdded(c, b.added))
    BY <1>3, StillApplies
  <2>5. Applies(e, RedoAdded(e, b.added))
    BY <1>2, <1>3, StillApplies
  <2> QED BY <2>1, <2>2, <2>3, <2>4, <2>5
<1>6. /\ Redo(d, Redo(c, b)) \in Buffers
      /\ Undo(c, Redo(c, b)) \in Buffers /\ Undo(e, Redo(e, b)) \in Buffers
  BY <1>2, <1>5, RedoType, UndoType
<1>7. /\ SetExisting("geom", e, b.geoms, e.new)
           = SetExisting("geom", d, SetExisting("geom", c, b.geoms, c.new), d.new)
      /\ SetExisting("geom", e, SetExisting("geom", e, b.geoms, e.new), e.old)
           = SetExisting("geom", c, SetExisting("geom", c, b.geoms, c.new), c.old)
  BY <1>2, CommandKinds, IdKinds DEF SetExisting, Buffers
<1>8. Redo(e, b) = Redo(d, Redo(c, b))
  <2>1. /\ Redo(e, b).added = RedoAdded(e, b.added)
        /\ Redo(e, b).deleted = b.deleted
        /\ Redo(e, b).geoms = SetExisting("geom", e, b.geoms, e.new)
        /\ Redo(e, b).attrs = b.attrs
    BY <1>2, ByField DEF RedoDeleted, SetExisting
  <2>2. /\ Redo(d, Redo(c, b)).added = RedoAdded(d, Redo(c, b).added)
        /\ Redo(d, Redo(c, b)).deleted = Redo(c, b).deleted
        /\ Redo(d, Redo(c, b)).geoms = SetExisting("geom", d, Redo(c, b).geoms, d.new)
        /\ Redo(d, Redo(c, b)).attrs = Redo(c, b).attrs
    BY <1>5, ByField DEF RedoDeleted, SetExisting
  <2>3. /\ Redo(c, b).added = RedoAdded(c, b.added)
        /\ Redo(c, b).deleted = b.deleted
        /\ Redo(c, b).geoms = SetExisting("geom", c, b.geoms, c.new)
        /\ Redo(c, b).attrs = b.attrs
    BY ByField DEF RedoDeleted, SetExisting
  <2> QED BY <1>4, <1>5, <1>6, <1>7, <2>1, <2>2, <2>3, SameFields
<1>9. Undo(e, Redo(e, b)) = Undo(c, Redo(c, b))
  <2>1. /\ Undo(e, Redo(e, b)).added = UndoAdded(e, RedoAdded(e, b.added))
        /\ Undo(e, Redo(e, b)).deleted = b.deleted
        /\ Undo(e, Redo(e, b)).geoms = SetExisting("geom", e, SetExisting("geom", e, b.geoms, e.new), e.old)
        /\ Undo(e, Redo(e, b)).attrs = b.attrs
    <3>1. /\ Redo(e, b).added = RedoAdded(e, b.added)
          /\ Redo(e, b).deleted = b.deleted
          /\ Redo(e, b).geoms = SetExisting("geom", e, b.geoms, e.new)
          /\ Redo(e, b).attrs = b.attrs
      BY <1>2, ByField DEF RedoDeleted, SetExisting
    <3>2. /\ Undo(e, Redo(e, b)).added = UndoAdded(e, Redo(e, b).added)
          /\ Undo(e, Redo(e, b)).deleted = Redo(e, b).deleted
          /\ Undo(e, Redo(e, b)).geoms = SetExisting("geom", e, Redo(e, b).geoms, e.old)
          /\ Undo(e, Redo(e, b)).attrs = Redo(e, b).attrs
      BY <1>2, <1>5, ByField DEF UndoDeleted, SetExisting
    <3> QED BY <3>1, <3>2
  <2>2. /\ Undo(c, Redo(c, b)).added = UndoAdded(c, RedoAdded(c, b.added))
        /\ Undo(c, Redo(c, b)).deleted = b.deleted
        /\ Undo(c, Redo(c, b)).geoms = SetExisting("geom", c, SetExisting("geom", c, b.geoms, c.new), c.old)
        /\ Undo(c, Redo(c, b)).attrs = b.attrs
    <3>1. /\ Redo(c, b).added = RedoAdded(c, b.added)
          /\ Redo(c, b).deleted = b.deleted
          /\ Redo(c, b).geoms = SetExisting("geom", c, b.geoms, c.new)
          /\ Redo(c, b).attrs = b.attrs
      BY ByField DEF RedoDeleted, SetExisting
    <3>2. /\ Undo(c, Redo(c, b)).added = UndoAdded(c, Redo(c, b).added)
          /\ Undo(c, Redo(c, b)).deleted = Redo(c, b).deleted
          /\ Undo(c, Redo(c, b)).geoms = SetExisting("geom", c, Redo(c, b).geoms, c.old)
          /\ Undo(c, Redo(c, b)).attrs = Redo(c, b).attrs
      BY <1>5, ByField DEF UndoDeleted, SetExisting
    <3> QED BY <3>1, <3>2
  <2> QED BY <1>4, <1>6, <1>7, <2>1, <2>2, SameFields
<1> QED BY <1>2, <1>3, <1>4, <1>8, <1>9 DEF e

-----------------------------------------------------------------------------
(* The inductive invariant *)

\* The stack and its history belong together.
StackOK ==
    /\ Len(hist) = Len(cmds) + 1
    /\ hist[1] = EmptyBuffer
    /\ macro => index = Len(cmds) /\ phase = "idle"
    /\ phase = "closed" => cmds = <<>>
    /\ phase \notin {"walking", "destroy"} => target = 0

\* The commands lead through the added features of the history, whatever has
\* failed, and no id below the mark was used.
Links == \A i \in 1..Len(cmds) : LinkedAdded(cmds[i], hist[i].added, hist[i + 1].added)
Unused == \A i \in 1..Len(hist) : \A f \in NewIds : f < mark => hist[i].added[f] = None
AddedOK ==
    /\ Links
    /\ Unused
    /\ ~(phase = "finish" /\ ok) => buf.added = hist[index + 1].added

\* They lead through all of it while the history is exact.
AllLinks == \A i \in 1..Len(cmds) : Linked(cmds[i], hist[i], hist[i + 1])
ExactOK ==
    exact =>
      /\ AllLinks
      /\ phase \notin CommitPhases => buf = hist[index + 1] /\ ChangedAreCached

IInv == TypeOK /\ StackOK /\ AddedOK /\ ExactOK

-----------------------------------------------------------------------------
(* The stack *)

\* A command put after the first n ones extends the history by what it does.
LEMMA Extended ==
    ASSUME IInv, NEW n \in 0..Len(cmds), NEW e \in Commands,
           cmds' = Append(SubSeq(cmds, 1, n), e), index' = n + 1,
           hist' = Append(SubSeq(hist, 1, n + 1), buf'), buf' \in Buffers,
           LinkedAdded(e, hist[n + 1].added, buf'.added),
           mark' \in Int, mark' <= mark,
           \A f \in NewIds : f < mark' => buf'.added[f] = None
    PROVE  /\ cmds' \in Seq(Commands) /\ hist' \in Seq(Buffers)
           /\ Len(cmds') = n + 1 /\ Len(hist') = n + 2
           /\ hist'[1] = EmptyBuffer
           /\ hist'[index' + 1] = buf'
           /\ Links' /\ Unused'
           /\ AllLinks /\ Linked(e, hist[n + 1], buf') => AllLinks'
<1>1. cmds \in Seq(Commands) /\ hist \in Seq(Buffers) /\ Len(hist) = Len(cmds) + 1 /\ Len(cmds) \in Nat
  BY DEF IInv, TypeOK, StackOK
<1>2. /\ SubSeq(cmds, 1, n) \in Seq(Commands) /\ Len(SubSeq(cmds, 1, n)) = n
      /\ \A i \in 1..n : SubSeq(cmds, 1, n)[i] = cmds[i]
  BY <1>1, SubSeqProperties
<1>3. /\ SubSeq(hist, 1, n + 1) \in Seq(Buffers) /\ Len(SubSeq(hist, 1, n + 1)) = n + 1
      /\ \A i \in 1..(n + 1) : SubSeq(hist, 1, n + 1)[i] = hist[i]
  BY <1>1, SubSeqProperties
<1>4. /\ cmds' \in Seq(Commands) /\ Len(cmds') = n + 1 /\ cmds'[n + 1] = e
      /\ \A i \in 1..n : cmds'[i] = cmds[i]
  BY <1>2, AppendProperties
<1>5. /\ hist' \in Seq(Buffers) /\ Len(hist') = n + 2 /\ hist'[n + 2] = buf'
      /\ \A i \in 1..(n + 1) : hist'[i] = hist[i]
  BY <1>3, AppendProperties
<1>6. hist'[1] = EmptyBuffer
  BY <1>5 DEF IInv, StackOK
<1>7. Links'
  <2>1. ASSUME NEW i \in 1..(n + 1)
        PROVE  LinkedAdded(cmds'[i], hist'[i].added, hist'[i + 1].added)
    <3>1. CASE i = n + 1
      BY <3>1, <1>4, <1>5
    <3>2. CASE i \in 1..n
      <4>1. hist'[i] = hist[i] /\ hist'[i + 1] = hist[i + 1] /\ cmds'[i] = cmds[i] /\ i \in 1..Len(cmds)
        BY <3>2, <1>1, <1>4, <1>5
      <4> QED BY <4>1 DEF IInv, AddedOK, Links
    <3> QED BY <3>1, <3>2
  <2> QED BY <2>1, <1>4 DEF Links
<1>8. Unused'
  <2>1. mark \in Int
    BY BoundsAssumption DEF IInv, TypeOK
  <2>2. ASSUME NEW i \in 1..(n + 2), NEW f \in NewIds, f < mark'
        PROVE  hist'[i].added[f] = None
    <3>1. CASE i = n + 2
      BY <3>1, <2>2, <1>5
    <3>2. CASE i \in 1..(n + 1)
      <4>1. f < mark
        BY <2>1, <2>2, BoundsAssumption DEF NewIds
      <4>2. hist'[i] = hist[i] /\ i \in 1..Len(hist)
        BY <3>2, <1>1, <1>5
      <4> QED BY <4>1, <4>2 DEF IInv, AddedOK, Unused
    <3> QED BY <3>1, <3>2
  <2> QED BY <2>2, <1>5 DEF Unused
<1>9. ASSUME AllLinks, Linked(e, hist[n + 1], buf')
      PROVE  AllLinks'
  <2>1. ASSUME NEW i \in 1..(n + 1)
        PROVE  Linked(cmds'[i], hist'[i], hist'[i + 1])
    <3>1. CASE i = n + 1
      BY <3>1, <1>4, <1>5, <1>9
    <3>2. CASE i \in 1..n
      <4>1. hist'[i] = hist[i] /\ hist'[i + 1] = hist[i + 1] /\ cmds'[i] = cmds[i] /\ i \in 1..Len(cmds)
        BY <3>2, <1>1, <1>4, <1>5
      <4> QED BY <4>1, <1>9 DEF AllLinks
    <3> QED BY <3>1, <3>2
  <2> QED BY <2>1, <1>4 DEF AllLinks
<1> QED BY <1>4, <1>5, <1>6, <1>7, <1>8, <1>9

-----------------------------------------------------------------------------
(* The geometry cache *)

\* What the readers see is a feature or nothing.
LEMMA OverlayType ==
    ASSUME NEW b \in Buffers, NEW p \in [ProviderIds -> Feats \union {None}], NEW f \in Fids
    PROVE  Overlay(b, p, f) \in Feats \union {None}
<1>1. CASE f \in NewIds
  BY <1>1, IdKinds DEF Overlay, Buffers
<1>2. CASE f \in ProviderIds
  <2>1. SUFFICES ASSUME f \notin b.deleted, p[f] # None
                 PROVE  Overlay(b, p, f) \in Feats
    BY <1>2, IdKinds DEF Overlay
  <2>2. p[f] \in Feats
    BY <1>2, <2>1
  <2>3. p[f].geom \in Geoms \union {NoGeom} /\ p[f].attr \in Vals \union {Invalid}
    BY <2>2 DEF Feats
  <2>4. /\ (IF b.geoms[f] = None THEN p[f].geom ELSE b.geoms[f]) \in Geoms \union {NoGeom}
        /\ (IF b.attrs[f] = None THEN p[f].attr ELSE b.attrs[f]) \in Vals \union {Invalid}
    BY <1>2, <2>3 DEF Buffers
  <2>5. Overlay(b, p, f) = [geom |-> IF b.geoms[f] = None THEN p[f].geom ELSE b.geoms[f],
                            attr |-> IF b.attrs[f] = None THEN p[f].attr ELSE b.attrs[f]]
    BY <1>2, <2>1, IdKinds DEF Overlay
  <2> QED BY <2>4, <2>5 DEF Feats
<1> QED BY <1>1, <1>2 DEF Fids

\* Redo and undo put geometries into the cache.
LEMMA CachedType ==
    ASSUME NEW c \in Commands, TypeOK, c.op # "macro", Applies(c, buf.added)
    PROVE  /\ RedoCached(c) \in Geoms \union {None}
           /\ ~UndoCrashes(c) => UndoCached(c) \in Geoms \union {None}
<1>1. c.fid \in Fids
  BY CommandKinds DEF Fids
<1>2. cache[c.fid] \in Geoms \union {None}
  BY <1>1 DEF TypeOK, Geometries
<1>3. c.op = "add" => c.new.geom \in Geoms \union {NoGeom}
  BY CommandKinds DEF Feats
<1>4. c.op = "geom" => c.new \in Geoms /\ c.old \in Geoms \union {NoGeom, None}
  BY CommandKinds
<1>5. Overlay(Undo(c, buf), prov, c.fid) \in Feats \union {None}
  BY <1>1, UndoType, OverlayType DEF TypeOK
<1>6. LET shown == Overlay(Undo(c, buf), prov, c.fid)
      IN  shown # None => shown.geom \in Geoms \union {NoGeom}
  BY <1>5 DEF Feats
<1>7. RedoCached(c) \in Geoms \union {None}
  BY <1>2, <1>3, <1>4 DEF RedoCached
<1>8. ~UndoCrashes(c) => UndoCached(c) \in Geoms \union {None}
  BY <1>2, <1>4, <1>6 DEF UndoCached, UndoCrashes
<1> QED BY <1>7, <1>8

\* After redo and undo every changed geometry is cached if it was before.
LEMMA CachedAfterRedo ==
    ASSUME NEW c \in Commands, TypeOK, ChangedAreCached, buf' = Redo(c, buf),
           CacheIt(c, RedoCached(c))
    PROVE  ChangedAreCached'
<1>1. SUFFICES ASSUME NEW f \in ProviderIds, buf'.geoms[f] # None PROVE cache'[f] = buf'.geoms[f]
  BY DEF ChangedAreCached
<1>2. buf'.geoms = SetExisting("geom", c, buf.geoms, c.new)
  BY ByField DEF TypeOK
<1>3. cache \in [Fids -> Geoms \union {None}] /\ buf.geoms \in [ProviderIds -> Geoms \union {None}]
  BY DEF TypeOK, Geometries, Buffers
<1>4. f \in Fids
  BY DEF Fids
<1>5. CASE c.op = "geom" /\ c.fid = f
  <2>1. cache'[f] = c.new
    BY <1>3, <1>4, <1>5 DEF CacheIt, RedoCached
  <2>2. buf'.geoms[f] = c.new
    BY <1>2, <1>3, <1>5, IdKinds DEF SetExisting
  <2> QED BY <2>1, <2>2
<1>6. CASE ~(c.op = "geom" /\ c.fid = f)
  <2>1. buf'.geoms[f] = buf.geoms[f]
    BY <1>2, <1>3, <1>6, IdKinds DEF SetExisting
  <2>2. cache'[f] = cache[f]
    <3>1. CASE c.op = "macro" \/ c.fid # f
      BY <1>3, <1>4, <3>1 DEF CacheIt
    <3>2. CASE c.op # "macro" /\ c.fid = f
      <4>1. c.op # "add" /\ c.op # "geom"
        BY <1>6, <3>2, CommandKinds, IdKinds
      <4> QED BY <1>3, <1>4, <3>2, <4>1 DEF CacheIt, RedoCached
    <3> QED BY <3>1, <3>2
  <2> QED BY <1>1, <2>1, <2>2 DEF ChangedAreCached
<1> QED BY <1>5, <1>6

LEMMA CachedAfterUndo ==
    ASSUME NEW c \in Commands, TypeOK, ChangedAreCached, buf' = Undo(c, buf),
           CacheIt(c, UndoCached(c))
    PROVE  ChangedAreCached'
<1>1. SUFFICES ASSUME NEW f \in ProviderIds, buf'.geoms[f] # None PROVE cache'[f] = buf'.geoms[f]
  BY DEF ChangedAreCached
<1>2. buf'.geoms = SetExisting("geom", c, buf.geoms, c.old)
  BY ByField DEF TypeOK
<1>3. cache \in [Fids -> Geoms \union {None}] /\ buf.geoms \in [ProviderIds -> Geoms \union {None}]
  BY DEF TypeOK, Geometries, Buffers
<1>4. f \in Fids
  BY DEF Fids
<1>5. CASE c.op = "geom" /\ c.fid = f
  <2>1. buf'.geoms[f] = c.old
    BY <1>2, <1>3, <1>5, IdKinds DEF SetExisting
  <2>2. cache'[f] = c.old
    BY <1>1, <1>3, <1>4, <1>5, <2>1 DEF CacheIt, UndoCached
  <2> QED BY <2>1, <2>2
<1>6. CASE ~(c.op = "geom" /\ c.fid = f)
  <2>1. buf'.geoms[f] = buf.geoms[f]
    BY <1>2, <1>3, <1>6, IdKinds DEF SetExisting
  <2>2. cache'[f] = cache[f]
    <3>1. CASE c.op = "macro" \/ c.fid # f
      BY <1>3, <1>4, <3>1 DEF CacheIt
    <3>2. CASE c.op # "macro" /\ c.fid = f
      <4>1. c.op # "add" /\ c.op # "geom"
        BY <1>6, <3>2, CommandKinds, IdKinds
      <4> QED BY <1>3, <1>4, <3>2, <4>1 DEF CacheIt, UndoCached
    <3> QED BY <3>1, <3>2
  <2> QED BY <1>1, <2>1, <2>2 DEF ChangedAreCached
<1> QED BY <1>5, <1>6

LEMMA CacheItType ==
    ASSUME NEW c \in Commands, TypeOK, NEW g, c.op # "macro" => g \in Geoms \union {None}, CacheIt(c, g)
    PROVE  cache' \in Geometries
<1>1. c.op # "macro" => c.fid \in Fids
  BY CommandKinds DEF Fids
<1> QED BY <1>1 DEF CacheIt, TypeOK, Geometries

-----------------------------------------------------------------------------
(* Pushing a command *)

\* Merged into the last command or appended, a new command extends the history.
LEMMA Pushed ==
    ASSUME IInv, phase = "idle", NEW c \in Commands, Push(c),
           Applies(c, buf.added), Records(c, buf.added), exact => RecordsAll(c, buf)
    PROVE  \E n \in 0..Len(cmds) : \E e \in Commands :
              /\ cmds' = Append(SubSeq(cmds, 1, n), e) /\ index' = n + 1
              /\ hist' = Append(SubSeq(hist, 1, n + 1), buf')
              /\ LinkedAdded(e, hist[n + 1].added, buf'.added)
              /\ exact => Linked(e, hist[n + 1], buf')
<1>1. /\ cmds \in Seq(Commands) /\ hist \in Seq(Buffers) /\ Len(hist) = Len(cmds) + 1
      /\ Len(cmds) \in Nat /\ index \in 0..Len(cmds) /\ buf \in Buffers
  BY DEF IInv, TypeOK, StackOK
<1>2. buf' = Redo(c, buf)
  BY DEF Push
<1>3. buf.added = hist[index + 1].added /\ (exact => buf = hist[index + 1])
  BY DEF IInv, AddedOK, ExactOK, CommitPhases
<1>4. buf'.added = RedoAdded(c, buf.added)
  BY <1>1, <1>2, ByField
<1>5. CASE Merges(c)
  <2> DEFINE last == cmds[index]
  <2> DEFINE e == [last EXCEPT !.new = c.new]
  <2> DEFINE n == index - 1
  <2> DEFINE b == hist[index]
  <2>1. index \in 1..Len(cmds) /\ last \in Commands /\ b \in Buffers
    BY <1>1, <1>5, ElementOfSeq DEF Merges
  <2>2. last.op = "geom" /\ c.op = "geom" /\ last.fid = c.fid
    BY <1>5 DEF Merges
  <2>3. LinkedAdded(last, b.added, buf.added) /\ (exact => Linked(last, b, buf))
    <3>1. /\ LinkedAdded(last, b.added, hist[index + 1].added)
          /\ exact => Linked(last, b, hist[index + 1])
      BY <2>1 DEF IInv, AddedOK, ExactOK, Links, AllLinks
    <3> QED BY <1>3, <3>1
  <2>4. /\ e \in Commands
        /\ Applies(e, b.added)
        /\ Redo(e, b) = Redo(c, Redo(last, b))
        /\ Undo(e, Redo(e, b)) = Undo(last, Redo(last, b))
        /\ RedoAdded(e, b.added) = RedoAdded(c, RedoAdded(last, b.added))
        /\ UndoAdded(e, RedoAdded(e, b.added)) = UndoAdded(last, RedoAdded(last, b.added))
    BY <2>1, <2>2, <2>3, Merged DEF LinkedAdded
  <2>5. LinkedAdded(e, b.added, buf'.added)
    BY <1>4, <2>3, <2>4 DEF LinkedAdded
  <2>6. exact => Linked(e, b, buf')
    BY <1>2, <2>3, <2>4 DEF Linked
  <2>7. cmds' = Append(SubSeq(cmds, 1, n), e)
    <3>1. /\ SubSeq(cmds, 1, n) \in Seq(Commands) /\ Len(SubSeq(cmds, 1, n)) = n
          /\ \A i \in 1..n : SubSeq(cmds, 1, n)[i] = cmds[i]
      BY <1>1, <2>1, SubSeqProperties
    <3>2. /\ Applied \in Seq(Commands) /\ Len(Applied) = index
          /\ \A i \in 1..index : Applied[i] = cmds[i]
      BY <1>1, <2>1, SubSeqProperties DEF Applied
    <3>3. cmds' = [Applied EXCEPT ![index] = [Applied[index] EXCEPT !.new = c.new]]
      BY <1>5 DEF Push
    <3>4. [Applied[index] EXCEPT !.new = c.new] = e
      BY <3>2, <2>1
    <3>8. cmds' = [Applied EXCEPT ![index] = e] /\ e \in Commands
      BY <3>3, <3>4, <2>4
    <3> HIDE DEF e
    <3>9. Applied \in Seq(Commands) /\ index \in 1..Len(Applied)
      BY <3>2, <2>1
    <3>5. /\ cmds' \in Seq(Commands) /\ Len(cmds') = index
          /\ \A i \in 1..index : cmds'[i] = IF i = index THEN e ELSE Applied[i]
      BY <3>2, <3>8, <3>9, ExceptSeq
    <3>6. /\ Append(SubSeq(cmds, 1, n), e) \in Seq(Commands)
          /\ Len(Append(SubSeq(cmds, 1, n), e)) = index
          /\ Append(SubSeq(cmds, 1, n), e)[index] = e
          /\ \A i \in 1..n : Append(SubSeq(cmds, 1, n), e)[i] = cmds[i]
      BY <3>1, <2>1, <2>4, AppendProperties
    <3>7. \A i \in 1..index : cmds'[i] = Append(SubSeq(cmds, 1, n), e)[i]
      BY <3>2, <3>5, <3>6, <2>1
    <3> QED BY <3>5, <3>6, <3>7, SeqEqual
  <2>8. index' = n + 1 /\ hist' = Append(SubSeq(hist, 1, n + 1), buf')
    BY <1>5, <2>1 DEF Push, Remember
  <2>9. n \in 0..Len(cmds) /\ hist[n + 1] = b
    BY <2>1, <1>1
  <2> HIDE DEF n, e
  <2> QED BY <2>4, <2>5, <2>6, <2>7, <2>8, <2>9
<1>6. CASE ~Merges(c)
  <2>1. /\ cmds' = Append(SubSeq(cmds, 1, index), c) /\ index' = index + 1
        /\ hist' = Append(SubSeq(hist, 1, index + 1), buf')
    BY <1>6 DEF Push, Remember, Applied
  <2>2. buf.added \in AddedMaps
    BY <1>1 DEF Buffers, AddedMaps
  <2>3. LinkedAdded(c, hist[index + 1].added, buf'.added)
    BY <1>3, <1>4, <2>2, UndoOfRedoAdded DEF LinkedAdded
  <2>4. exact => Linked(c, hist[index + 1], buf')
    BY <1>1, <1>2, <1>3, UndoOfRedo DEF Linked
  <2> QED BY <1>1, <2>1, <2>3, <2>4
<1> QED BY <1>5, <1>6

LEMMA PushKeeps ==
    ASSUME IInv, phase = "idle", NEW c \in Commands, Push(c),
           Applies(c, buf.added), Records(c, buf.added), exact => RecordsAll(c, buf),
           c.op = "add" => c.fid >= mark',
           mark' \in -(MaxNew + 1) .. -1, mark' <= mark, selected' \in SUBSET Fids,
           UNCHANGED <<store, target, phase, ok, crashed, commits, job>>
    PROVE  IInv'
<1> USE BoundsAssumption
<1>1. /\ cmds \in Seq(Commands) /\ hist \in Seq(Buffers) /\ Len(hist) = Len(cmds) + 1
      /\ Len(cmds) \in Nat /\ index \in 0..Len(cmds) /\ buf \in Buffers /\ TypeOK
  BY DEF IInv, TypeOK, StackOK
<1>2. buf' = Redo(c, buf) /\ CacheIt(c, RedoCached(c)) /\ exact' = exact /\ macro' = macro
  BY DEF Push
<1>3. buf' \in Buffers
  BY <1>1, <1>2, RedoType
<1>4. ASSUME NEW f \in NewIds, f < mark'
      PROVE  buf'.added[f] = None
  <2>1. buf.added[f] = None
    <3>1. f < mark
      BY <1>1, <1>4 DEF NewIds, TypeOK
    <3>2. hist[index + 1].added[f] = None
      BY <1>1, <3>1 DEF IInv, AddedOK, Unused
    <3> QED BY <3>2 DEF IInv, AddedOK
  <2>2. buf'.added = RedoAdded(c, buf.added) /\ buf.added \in [NewIds -> Feats \union {None}]
    BY <1>1, <1>2, ByField DEF Buffers
  <2>3. CASE c.fid # f
    BY <2>1, <2>2, <2>3, CommandKinds, IdKinds DEF RedoAdded
  <2>4. CASE c.fid = f
    <3>1. c.op # "add" /\ ~NeedsFeature(c, {"geom", "attr"})
      BY <1>4, <2>1, <2>4 DEF Applies, NewIds
    <3>2. c.op = "delete" \/ c.op = "macro"
      BY <2>4, <3>1, CommandKinds, IdKinds DEF NeedsFeature
    <3> QED BY <2>1, <2>2, <2>4, <3>2, IdKinds DEF RedoAdded
  <2> QED BY <2>3, <2>4
<1>5. PICK n \in 0..Len(cmds), e \in Commands :
         /\ cmds' = Append(SubSeq(cmds, 1, n), e) /\ index' = n + 1
         /\ hist' = Append(SubSeq(hist, 1, n + 1), buf')
         /\ LinkedAdded(e, hist[n + 1].added, buf'.added)
         /\ exact => Linked(e, hist[n + 1], buf')
  BY Pushed
<1>6. mark \in Int /\ mark' \in Int
  BY <1>1 DEF TypeOK
<1>7. /\ cmds' \in Seq(Commands) /\ hist' \in Seq(Buffers)
      /\ Len(cmds') = n + 1 /\ Len(hist') = n + 2
      /\ hist'[1] = EmptyBuffer
      /\ hist'[index' + 1] = buf'
      /\ Links' /\ Unused'
      /\ AllLinks /\ Linked(e, hist[n + 1], buf') => AllLinks'
  BY <1>3, <1>4, <1>5, <1>6, Extended
<1>8. cache' \in Geometries
  BY <1>1, <1>2, CachedType, CacheItType
<1>9. stops' \in SUBSET (0..Len(cmds'))
  <2>1. stops' = {s \in stops : s < index'} \union (IF macro THEN {} ELSE {index'})
    BY DEF Push
  <2>2. \A s \in stops : s \in Nat
    BY <1>1 DEF TypeOK
  <2>3. index' \in Nat /\ index' = Len(cmds')
    BY <1>1, <1>5, <1>7
  <2>4. \A s \in stops' : s \in 0..Len(cmds')
    BY <2>1, <2>2, <2>3
  <2> QED BY <2>4
<1>10. TypeOK'
  <2>1. /\ caps' \in CapSets /\ prov' \in [ProviderIds -> Feats \union {None}] /\ nextId' \in Nat
        /\ phase' \in Phases /\ ok' \in BOOLEAN /\ crashed' \in BOOLEAN /\ commits' \in 0..MaxCommits
        /\ job' \in Geometries \union {NoJob} /\ macro' \in BOOLEAN /\ exact' \in BOOLEAN
    BY <1>1, <1>2 DEF TypeOK, store
  <2>2. target' = 0 /\ index' \in 0..Len(cmds') /\ target' \in 0..Len(cmds')
    BY <1>1, <1>5, <1>7 DEF IInv, StackOK
  <2> QED BY <1>3, <1>7, <1>8, <1>9, <2>1, <2>2 DEF TypeOK
<1>11. StackOK'
  BY <1>1, <1>2, <1>5, <1>7 DEF IInv, StackOK
<1>12. AddedOK'
  BY <1>7 DEF AddedOK
<1>13. ExactOK'
  <2>1. SUFFICES ASSUME exact PROVE AllLinks' /\ buf' = hist'[index' + 1] /\ ChangedAreCached'
    BY <1>2 DEF ExactOK
  <2>2. AllLinks /\ ChangedAreCached
    BY <2>1 DEF IInv, ExactOK, CommitPhases
  <2> QED BY <1>1, <1>2, <1>5, <1>7, <2>1, <2>2, CachedAfterRedo
<1> QED BY <1>10, <1>11, <1>12, <1>13 DEF IInv

LEMMA AddFeatureKeeps ==
    ASSUME IInv, NEW feat \in NewFeats, AddFeature(feat)
    PROVE  IInv'
<1> USE BoundsAssumption
<1> DEFINE c == Command("add", mark - 1, None, feat)
<1>1. mark \in -(MaxNew + 1) .. -1 /\ mark > -(MaxNew + 1) /\ mark' = mark - 1 /\ phase = "idle"
  BY DEF IInv, TypeOK, AddFeature, Editing
<1>2. mark - 1 \in NewIds /\ mark - 1 < mark /\ mark' \in -(MaxNew + 1) .. -1 /\ mark' <= mark
  BY <1>1 DEF NewIds
<1>3. c \in Kind("add", NewIds, {None}, Feats)
  BY <1>2, InputsAssumption DEF Command, Kind
<1>4. c \in Commands /\ c.op = "add" /\ c.fid = mark - 1
  BY <1>3 DEF Commands, Command
<1>5. buf.added[mark - 1] = None
  <2>1. index + 1 \in 1..Len(hist) /\ buf.added = hist[index + 1].added
    BY <1>1 DEF IInv, TypeOK, StackOK, AddedOK
  <2> QED BY <1>2, <2>1 DEF IInv, AddedOK, Unused
<1>6. Push(c) /\ selected' = selected /\ UNCHANGED <<store, target, phase, ok, crashed, commits, job>>
  BY DEF AddFeature, store
<1>7. Applies(c, buf.added) /\ RecordsAll(c, buf) /\ Records(c, buf.added)
  BY <1>4, <1>5 DEF Applies, NeedsFeature, RecordsAll, Records
<1>8. c.fid >= mark' /\ selected' \in SUBSET Fids
  BY <1>1, <1>4, <1>6 DEF IInv, TypeOK
<1> HIDE DEF c
<1> QED BY <1>1, <1>2, <1>4, <1>6, <1>7, <1>8, PushKeeps

\* The features callers name have an id of the provider or of the buffer.
LEMMA KnownIds ==
    ASSUME TypeOK, NEW fid \in Known
    PROVE  fid \in Fids /\ (fid \in NewIds \/ fid \in ProviderIds)
  BY DEF Known, Visible, Fids, TypeOK, Buffers

LEMMA DeleteFeatureKeeps ==
    ASSUME IInv, NEW fid \in Known, DeleteFeature(fid)
    PROVE  IInv'
<1> DEFINE old == IF IsNew(fid) THEN buf.added[fid] ELSE None
<1> DEFINE c == Command("delete", fid, old, None)
<1>1. TypeOK /\ phase = "idle" /\ buf \in Buffers /\ mark \in -(MaxNew + 1) .. -1
  BY DEF IInv, TypeOK, DeleteFeature, Editing
<1>2. (fid \in NewIds /\ buf.added[fid] \in Feats) \/ (fid \in ProviderIds /\ fid \notin buf.deleted)
  BY <1>1, KnownIds, IdKinds DEF DeleteFeature, Buffers
<1>3. c \in Kind("delete", NewIds, Feats, {None}) \/ c \in Kind("delete", ProviderIds, {None}, {None})
  BY <1>2, IdKinds DEF Command, Kind
<1>4. c \in Commands /\ c.op = "delete" /\ c.fid = fid /\ c.old = old
  BY <1>3 DEF Commands, Command
<1>5. Push(c) /\ selected' = selected \ {fid} /\ mark' = mark
      /\ UNCHANGED <<store, target, phase, ok, crashed, commits, job>>
  BY DEF DeleteFeature, store
<1>6. Applies(c, buf.added) /\ RecordsAll(c, buf) /\ Records(c, buf.added)
  BY <1>2, <1>4, IdKinds DEF Applies, NeedsFeature, RecordsAll, Records
<1>7. mark' \in -(MaxNew + 1) .. -1 /\ mark' <= mark /\ selected' \in SUBSET Fids
  BY <1>1, <1>5, BoundsAssumption DEF TypeOK
<1> HIDE DEF c
<1> QED BY <1>1, <1>4, <1>5, <1>6, <1>7, PushKeeps

LEMMA ChangeGeometryKeeps ==
    ASSUME IInv, NEW fid \in Known, NEW g \in Geoms, ChangeGeometry(fid, g)
    PROVE  IInv'
<1> DEFINE c == Command("geom", fid, OldGeom(fid), g)
<1>1. TypeOK /\ phase = "idle" /\ buf \in Buffers /\ cache \in Geometries /\ mark \in -(MaxNew + 1) .. -1
  BY DEF IInv, TypeOK, ChangeGeometry, Editing
<1>2. (fid \in NewIds /\ buf.added[fid] \in Feats) \/ fid \in ProviderIds
  BY <1>1, KnownIds, IdKinds DEF ChangeGeometry, Buffers
<1>3. c \in Commands /\ c.op = "geom" /\ c.fid = fid /\ c.old = OldGeom(fid)
  <2>1. CASE fid \in NewIds
    <3>1. buf.added[fid] \in Feats
      BY <1>2, <2>1, IdKinds
    <3>2. OldGeom(fid) \in Geoms \union {NoGeom}
      BY <2>1, <3>1, IdKinds DEF OldGeom, Feats
    <3>3. c \in Kind("geom", NewIds, Geoms \union {NoGeom}, Geoms)
      BY <2>1, <3>2 DEF Command, Kind
    <3> QED BY <3>3 DEF Commands, Command
  <2>2. CASE fid \in ProviderIds
    <3>1. OldGeom(fid) \in Geoms \union {None}
      BY <1>1, <2>2, IdKinds DEF OldGeom, Geometries, Fids
    <3>2. c \in Kind("geom", ProviderIds, Geoms \union {None}, Geoms)
      BY <2>2, <3>1 DEF Command, Kind
    <3> QED BY <3>2 DEF Commands, Command
  <2> QED BY <1>2, <2>1, <2>2
<1>4. Push(c) /\ selected' = selected /\ mark' = mark
      /\ UNCHANGED <<store, target, phase, ok, crashed, commits, job>>
  BY DEF ChangeGeometry, store
<1>5. Applies(c, buf.added) /\ Records(c, buf.added)
  BY <1>2, <1>3, IdKinds, FeatsAreNotNone DEF Applies, NeedsFeature, Records, OldGeom
<1>6. exact => RecordsAll(c, buf)
  <2>1. exact => ChangedAreCached
    BY <1>1 DEF IInv, ExactOK, CommitPhases
  <2> QED BY <1>2, <1>3, <1>5, <2>1, IdKinds DEF RecordsAll, OldGeom, ChangedAreCached
<1>7. mark' \in -(MaxNew + 1) .. -1 /\ mark' <= mark /\ selected' \in SUBSET Fids
  BY <1>1, <1>4, BoundsAssumption DEF TypeOK
<1> HIDE DEF c
<1> QED BY <1>1, <1>3, <1>4, <1>5, <1>6, <1>7, PushKeeps

LEMMA ChangeAttributeValueKeeps ==
    ASSUME IInv, NEW fid \in Known, NEW v \in Vals, ChangeAttributeValue(fid, v)
    PROVE  IInv'
<1> DEFINE old == IF IsNew(fid) THEN buf.added[fid].attr ELSE buf.attrs[fid]
<1> DEFINE c == Command("attr", fid, old, v)
<1>1. TypeOK /\ phase = "idle" /\ buf \in Buffers /\ mark \in -(MaxNew + 1) .. -1
  BY DEF IInv, TypeOK, ChangeAttributeValue, Editing
<1>2. (fid \in NewIds /\ buf.added[fid] \in Feats) \/ fid \in ProviderIds
  BY <1>1, KnownIds, IdKinds DEF ChangeAttributeValue, Buffers
<1>3. c \in Commands /\ c.op = "attr" /\ c.fid = fid /\ c.old = old
  <2>1. CASE fid \in NewIds
    <3>1. buf.added[fid] \in Feats
      BY <1>2, <2>1, IdKinds
    <3>2. old \in Vals \union {Invalid}
      BY <2>1, <3>1, IdKinds DEF Feats
    <3>3. c \in Kind("attr", NewIds, Vals \union {Invalid}, Vals)
      BY <2>1, <3>2 DEF Command, Kind
    <3> QED BY <3>3 DEF Commands, Command
  <2>2. CASE fid \in ProviderIds
    <3>1. old \in Vals \union {None}
      BY <1>1, <2>2, IdKinds DEF Buffers
    <3>2. c \in Kind("attr", ProviderIds, Vals \union {None}, Vals)
      BY <2>2, <3>1 DEF Command, Kind
    <3> QED BY <3>2 DEF Commands, Command
  <2> QED BY <1>2, <2>1, <2>2
<1>4. Push(c) /\ selected' = selected /\ mark' = mark
      /\ UNCHANGED <<store, target, phase, ok, crashed, commits, job>>
  BY DEF ChangeAttributeValue, store
<1>5. Applies(c, buf.added) /\ Records(c, buf.added) /\ RecordsAll(c, buf)
  BY <1>2, <1>3, IdKinds, FeatsAreNotNone DEF Applies, NeedsFeature, Records, RecordsAll
<1>6. mark' \in -(MaxNew + 1) .. -1 /\ mark' <= mark /\ selected' \in SUBSET Fids
  BY <1>1, <1>4, BoundsAssumption DEF TypeOK
<1> HIDE DEF c
<1> QED BY <1>1, <1>3, <1>4, <1>5, <1>6, PushKeeps

LEMMA BeginEditCommandKeeps ==
    ASSUME IInv, BeginEditCommand
    PROVE  IInv'
<1> USE BoundsAssumption
<1>1. /\ TypeOK /\ phase = "idle" /\ index \in 0..Len(cmds) /\ Len(cmds) \in Nat
      /\ buf \in Buffers /\ mark \in Int /\ Len(hist) = Len(cmds) + 1 /\ target = 0
  BY DEF IInv, TypeOK, StackOK, BeginEditCommand, Editing
<1>2. /\ cmds' = Append(SubSeq(cmds, 1, index), Marker) /\ index' = index + 1
      /\ buf' = buf /\ hist' = Append(SubSeq(hist, 1, index + 1), buf')
      /\ mark' = mark /\ macro' = TRUE /\ exact' = exact /\ cache' = cache
      /\ UNCHANGED <<store, selected, target, phase, ok, crashed, commits, job>>
  BY DEF BeginEditCommand, Remember, Applied, store
<1>3. Marker \in Commands /\ Marker.op = "macro"
  BY DEF Commands, Marker, Command
<1>4. buf.added = hist[index + 1].added /\ (exact => buf = hist[index + 1])
  BY <1>1 DEF IInv, AddedOK, ExactOK, CommitPhases
<1>5. LinkedAdded(Marker, hist[index + 1].added, buf'.added) /\ (exact => Linked(Marker, hist[index + 1], buf'))
  BY <1>2, <1>3, <1>4 DEF LinkedAdded, Linked, RedoAdded, UndoAdded, Redo, Undo, Applies, NeedsFeature
<1>6. \A f \in NewIds : f < mark' => buf'.added[f] = None
  <2>1. index + 1 \in 1..Len(hist)
    BY <1>1
  <2> QED BY <1>2, <1>4, <2>1 DEF IInv, AddedOK, Unused
<1>7. /\ cmds' \in Seq(Commands) /\ hist' \in Seq(Buffers)
      /\ Len(cmds') = index + 1 /\ Len(hist') = index + 2
      /\ hist'[1] = EmptyBuffer
      /\ hist'[index' + 1] = buf'
      /\ Links' /\ Unused'
      /\ AllLinks /\ Linked(Marker, hist[index + 1], buf') => AllLinks'
  <2>1. mark' \in Int /\ mark' <= mark /\ buf' \in Buffers
    BY <1>1, <1>2
  <2> QED BY <1>1, <1>2, <1>3, <1>5, <1>6, <2>1, Extended
<1>8. stops' \in SUBSET (0..Len(cmds'))
  <2>1. stops' = {s \in stops : s <= index} /\ \A s \in stops : s \in Nat
    BY <1>1 DEF BeginEditCommand, TypeOK
  <2> QED BY <1>1, <1>7, <2>1
<1>9. TypeOK'
  <2>1. /\ caps' \in CapSets /\ prov' \in [ProviderIds -> Feats \union {None}] /\ nextId' \in Nat
        /\ phase' \in Phases /\ ok' \in BOOLEAN /\ crashed' \in BOOLEAN /\ commits' \in 0..MaxCommits
        /\ job' \in Geometries \union {NoJob} /\ macro' \in BOOLEAN /\ exact' \in BOOLEAN
        /\ cache' \in Geometries /\ selected' \in SUBSET Fids /\ mark' \in -(MaxNew + 1) .. -1
        /\ buf' \in Buffers
    BY <1>1, <1>2 DEF TypeOK, store
  <2>2. index' \in 0..Len(cmds') /\ target' \in 0..Len(cmds')
    BY <1>1, <1>2, <1>7
  <2> QED BY <1>7, <1>8, <2>1, <2>2 DEF TypeOK
<1>10. StackOK'
  BY <1>1, <1>2, <1>7 DEF IInv, StackOK
<1>11. AddedOK'
  BY <1>7 DEF AddedOK
<1>12. ExactOK'
  <2>1. exact => AllLinks /\ ChangedAreCached
    BY <1>1 DEF IInv, ExactOK, CommitPhases
  <2>2. exact => ChangedAreCached'
    BY <1>2, <2>1 DEF ChangedAreCached
  <2> QED BY <1>2, <1>5, <1>7, <2>1, <2>2 DEF ExactOK
<1> QED BY <1>9, <1>10, <1>11, <1>12 DEF IInv

-----------------------------------------------------------------------------
(* Walking along the stack *)

\* The command below the index applies to the buffer.
LEMMA LastApplies ==
    ASSUME TypeOK, StackOK, Links, index > 0, buf.added = hist[index + 1].added
    PROVE  /\ cmds[index] \in Commands /\ hist[index] \in Buffers
           /\ Applies(cmds[index], buf.added)
           /\ UndoAdded(cmds[index], buf.added) = hist[index].added
           /\ cmds[index].op = "add" => buf.added[cmds[index].fid] # None
<1> DEFINE c == cmds[index]
<1>1. index \in 1..Len(cmds) /\ index \in 1..Len(hist) /\ cmds \in Seq(Commands) /\ hist \in Seq(Buffers)
  BY DEF TypeOK, StackOK
<1>2. c \in Commands /\ hist[index] \in Buffers
  BY <1>1, ElementOfSeq
<1>3. LinkedAdded(c, hist[index].added, buf.added)
  BY <1>1 DEF Links
<1>4. Applies(c, buf.added)
  BY <1>2, <1>3, StillApplies DEF LinkedAdded
<1>5. c.op = "add" => buf.added[c.fid] # None
  BY <1>2, <1>3, CommandKinds, FeatsAreNotNone DEF LinkedAdded, RedoAdded, Buffers
<1> QED BY <1>2, <1>3, <1>4, <1>5 DEF LinkedAdded

\* So does the command above it.
LEMMA NextApplies ==
    ASSUME TypeOK, StackOK, Links, index < Len(cmds), buf.added = hist[index + 1].added
    PROVE  /\ cmds[index + 1] \in Commands
           /\ Applies(cmds[index + 1], buf.added)
           /\ RedoAdded(cmds[index + 1], buf.added) = hist[index + 2].added
<1>1. index + 1 \in 1..Len(cmds) /\ cmds \in Seq(Commands) /\ (index + 1) + 1 = index + 2
  BY DEF TypeOK, StackOK
<1>2. cmds[index + 1] \in Commands
  BY <1>1, ElementOfSeq
<1> QED BY <1>1, <1>2 DEF Links, LinkedAdded

LEMMA StepBackKeeps ==
    ASSUME IInv, StepBack
    PROVE  IInv'
<1> DEFINE c == cmds[index]
<1>1. /\ TypeOK /\ StackOK /\ phase \in {"walking", "destroy", "rollback", "discard"}
      /\ index \in Nat /\ target \in Nat /\ index > target /\ index > 0 /\ index \in 1..Len(cmds)
      /\ Len(cmds) \in Nat
  BY DEF IInv, TypeOK, StepBack, Walking
<1>2. /\ buf' = Undo(c, buf) /\ CacheIt(c, UndoCached(c)) /\ index' = index - 1 /\ ~UndoCrashes(c)
      /\ UNCHANGED <<caps, prov, nextId, selected, mark, ok, crashed, commits, job>>
      /\ UNCHANGED <<cmds, stops, macro, target, phase, hist, exact>>
  BY DEF StepBack, StackFrame, store, history
<1>3. buf.added = hist[index + 1].added /\ Links /\ Unused
  BY <1>1 DEF IInv, AddedOK
<1>4. /\ c \in Commands /\ hist[index] \in Buffers /\ Applies(c, buf.added)
      /\ UndoAdded(c, buf.added) = hist[index].added
  BY <1>1, <1>3, LastApplies
<1>5. buf' \in Buffers /\ buf'.added = hist[index' + 1].added
  BY <1>1, <1>2, <1>4, UndoType, ByField DEF TypeOK
<1>6. cache' \in Geometries
  BY <1>1, <1>2, <1>4, CachedType, CacheItType
<1>7. TypeOK'
  BY <1>1, <1>2, <1>5, <1>6 DEF TypeOK
<1>8. StackOK'
  BY <1>1, <1>2 DEF StackOK
<1>9. AddedOK'
  BY <1>2, <1>3, <1>5 DEF AddedOK, Links, Unused
<1>10. ExactOK'
  <2>1. SUFFICES ASSUME exact PROVE AllLinks' /\ buf' = hist[index' + 1] /\ ChangedAreCached'
    BY <1>2 DEF ExactOK
  <2>2. AllLinks /\ buf = hist[index + 1] /\ ChangedAreCached
    BY <1>1, <2>1 DEF IInv, ExactOK, CommitPhases
  <2>3. AllLinks'
    BY <1>2, <2>2 DEF AllLinks
  <2>4. buf' = hist[index' + 1]
    BY <1>1, <1>2, <2>2 DEF AllLinks, Linked
  <2> QED BY <1>1, <1>2, <1>4, <2>2, <2>3, <2>4, CachedAfterUndo
<1> QED BY <1>7, <1>8, <1>9, <1>10 DEF IInv

LEMMA StepForwardKeeps ==
    ASSUME IInv, StepForward
    PROVE  IInv'
<1> DEFINE c == cmds[index + 1]
<1>1. /\ TypeOK /\ StackOK /\ phase \in {"walking", "destroy", "rollback", "discard"}
      /\ index \in Nat /\ index < Len(cmds) /\ Len(cmds) \in Nat /\ index + 1 \in 1..Len(cmds)
      /\ (index + 1) + 1 = index + 2
  BY DEF IInv, TypeOK, StepForward, Walking
<1>2. /\ buf' = Redo(c, buf) /\ CacheIt(c, RedoCached(c)) /\ index' = index + 1
      /\ UNCHANGED <<caps, prov, nextId, selected, mark, ok, crashed, commits, job>>
      /\ UNCHANGED <<cmds, stops, macro, target, phase, hist, exact>>
  BY DEF StepForward, StackFrame, store, history
<1>3. buf.added = hist[index + 1].added /\ Links /\ Unused
  BY <1>1 DEF IInv, AddedOK
<1>4. c \in Commands /\ Applies(c, buf.added) /\ RedoAdded(c, buf.added) = hist[index + 2].added
  BY <1>1, <1>3, NextApplies
<1>5. buf' \in Buffers /\ buf'.added = hist[index' + 1].added
  BY <1>1, <1>2, <1>4, RedoType, ByField DEF TypeOK
<1>6. cache' \in Geometries
  BY <1>1, <1>2, <1>4, CachedType, CacheItType
<1>7. TypeOK'
  BY <1>1, <1>2, <1>5, <1>6 DEF TypeOK
<1>8. StackOK'
  BY <1>1, <1>2 DEF StackOK
<1>9. AddedOK'
  BY <1>2, <1>3, <1>5 DEF AddedOK, Links, Unused
<1>10. ExactOK'
  <2>1. SUFFICES ASSUME exact PROVE AllLinks' /\ buf' = hist[index' + 1] /\ ChangedAreCached'
    BY <1>2 DEF ExactOK
  <2>2. AllLinks /\ buf = hist[index + 1] /\ ChangedAreCached
    BY <1>1, <2>1 DEF IInv, ExactOK, CommitPhases
  <2>3. AllLinks'
    BY <1>2, <2>2 DEF AllLinks
  <2>4. buf' = hist[index' + 1]
    BY <1>1, <1>2, <2>2 DEF AllLinks, Linked
  <2> QED BY <1>1, <1>2, <1>4, <2>2, <2>3, <2>4, CachedAfterRedo
<1> QED BY <1>7, <1>8, <1>9, <1>10 DEF IInv

-----------------------------------------------------------------------------
(* Steps that leave the buffer, the commands and the cache alone *)

LEMMA QuietKeeps ==
    ASSUME IInv, UNCHANGED <<buf, cache, cmds, index, hist, exact, mark, store>>,
           selected' \in SUBSET Fids, stops' \in SUBSET (0..Len(cmds)), macro' \in BOOLEAN,
           target' \in 0..Len(cmds), phase' \in Phases \ {"finish"}, ok' = ok, crashed' \in BOOLEAN,
           commits' \in 0..MaxCommits, job' \in Geometries \union {NoJob},
           macro' => macro /\ phase' = "idle",
           phase' = "closed" => phase = "closed",
           phase' \notin {"walking", "destroy"} => target' = 0,
           phase \notin CommitPhases
    PROVE  IInv'
<1>1. TypeOK'
  BY DEF IInv, TypeOK, store
<1>2. StackOK'
  BY DEF IInv, StackOK
<1>3. AddedOK'
  BY DEF IInv, AddedOK, Links, Unused, CommitPhases
<1>4. ExactOK'
  BY DEF IInv, ExactOK, AllLinks, ChangedAreCached
<1> QED BY <1>1, <1>2, <1>3, <1>4 DEF IInv

QuietStep ==
    \/ UndoCommand \/ RedoCommand \/ StepBackCrashes \/ Arrive
    \/ EndEditCommand \/ DestroyEditCommand
    \/ \E fid \in Known : Select(fid)
    \/ \E fid \in selected : Deselect(fid)
    \/ \E extent \in Extents : RenderStart(extent)
    \/ \E p \in {"rollback", "discard"} : RollBack(p)
    \/ CommitChanges

LEMMA QuietStepKeeps ==
    ASSUME IInv, QuietStep
    PROVE  IInv'
<1>1. TypeOK /\ StackOK
  BY DEF IInv
<1>2. CASE UndoCommand
  BY <1>1, <1>2, QuietKeeps DEF UndoCommand, WalkTo, stack, history, Phases, TypeOK, StackOK, CommitPhases
<1>3. CASE RedoCommand
  BY <1>1, <1>3, QuietKeeps DEF RedoCommand, WalkTo, stack, history, Phases, TypeOK, StackOK, CommitPhases
<1>4. CASE StepBackCrashes
  BY <1>1, <1>4, QuietKeeps DEF StepBackCrashes, Walking, stack, history, Phases, TypeOK, StackOK, CommitPhases
<1>5. CASE Arrive
  BY <1>1, <1>5, QuietKeeps DEF Arrive, stack, history, Phases, TypeOK, StackOK, CommitPhases
<1>6. CASE EndEditCommand
  BY <1>1, <1>6, QuietKeeps DEF EndEditCommand, Editing, history, Phases, TypeOK, StackOK, CommitPhases
<1>7. CASE DestroyEditCommand
  BY <1>1, <1>7, QuietKeeps DEF DestroyEditCommand, Editing, WalkTo, history, Phases, TypeOK, StackOK, CommitPhases
<1>8. CASE \E fid \in Known : Select(fid)
  BY <1>1, <1>8, KnownIds, QuietKeeps DEF Select, stack, history, Phases, TypeOK, StackOK, CommitPhases
<1>9. CASE \E fid \in selected : Deselect(fid)
  BY <1>1, <1>9, QuietKeeps DEF Deselect, stack, history, Phases, TypeOK, StackOK, CommitPhases
<1>10. CASE \E extent \in Extents : RenderStart(extent)
  <2>1. PICK extent \in Extents : RenderStart(extent)
    BY <1>10
  <2>2. \A f \in Fids : View[f] \in Feats \union {None}
    BY <1>1, OverlayType DEF View, TypeOK
  <2>3. \A f \in Visible : View[f].geom \in Geoms \union {NoGeom}
    BY <2>2 DEF Visible, Feats
  <2>4. job' \in Geometries
    BY <2>1, <2>3 DEF RenderStart, Geometries
  <2> QED BY <1>1, <2>1, <2>4, QuietKeeps
          DEF RenderStart, Editing, stack, history, Phases, TypeOK, StackOK, CommitPhases
<1>11. CASE \E p \in {"rollback", "discard"} : RollBack(p)
  BY <1>1, <1>11, QuietKeeps DEF RollBack, Editing, WalkTo, stack, history, Phases, TypeOK, StackOK, CommitPhases
<1>12. CASE CommitChanges
  BY <1>1, <1>12, QuietKeeps, BoundsAssumption
  DEF CommitChanges, Editing, stack, history, Phases, TypeOK, StackOK, CommitPhases
<1> QED BY <1>2, <1>3, <1>4, <1>5, <1>6, <1>7, <1>8, <1>9, <1>10, <1>11, <1>12 DEF QuietStep

-----------------------------------------------------------------------------
(* Render jobs, and steps that start with an empty stack *)

LEMMA RenderFinishKeeps ==
    ASSUME IInv, RenderFinish
    PROVE  IInv'
<1>1. /\ TypeOK /\ StackOK /\ phase \in {"closed", "idle"} /\ job \in Geometries
      /\ cache' = job /\ job' = NoJob /\ buf' = buf /\ exact' = (exact /\ ChangedAreCached')
      /\ UNCHANGED <<caps, prov, nextId, selected, mark, target, phase, ok, crashed, commits, hist>>
      /\ UNCHANGED <<cmds, index, stops, macro>>
  BY DEF IInv, TypeOK, RenderFinish, store, stack
<1>2. exact' \in BOOLEAN /\ (exact' => exact /\ ChangedAreCached')
  BY <1>1 DEF TypeOK
<1>3. TypeOK'
  BY <1>1, <1>2 DEF TypeOK
<1>4. StackOK'
  BY <1>1 DEF StackOK
<1>5. AddedOK'
  BY <1>1 DEF IInv, AddedOK, Links, Unused
<1>6. ExactOK'
  BY <1>1, <1>2 DEF IInv, ExactOK, AllLinks, CommitPhases
<1> QED BY <1>3, <1>4, <1>5, <1>6 DEF IInv

LEMMA EmptyBufferType == EmptyBuffer \in Buffers
  BY DEF EmptyBuffer, Buffers

LEMMA ResetKeeps ==
    ASSUME TypeOK, buf' = EmptyBuffer, hist' = <<EmptyBuffer>>, exact' = TRUE,
           cmds' = <<>>, index' = 0, stops' = {0}, macro' = FALSE, target' = 0,
           phase' \in {"idle", "closed"}, cache' \in Geometries, ok' \in BOOLEAN,
           UNCHANGED <<store, selected, mark, crashed, commits, job>>
    PROVE  IInv'
<1>1. cmds' \in Seq(Commands) /\ Len(cmds') = 0 /\ hist' \in Seq(Buffers) /\ Len(hist') = 1 /\ hist'[1] = EmptyBuffer
  BY EmptyBufferType
<1>2. TypeOK'
  <2>1. /\ caps' \in CapSets /\ prov' \in [ProviderIds -> Feats \union {None}] /\ nextId' \in Nat
        /\ crashed' \in BOOLEAN /\ commits' \in 0..MaxCommits /\ job' \in Geometries \union {NoJob}
        /\ selected' \in SUBSET Fids /\ mark' \in -(MaxNew + 1) .. -1
    BY DEF TypeOK, store
  <2>2. 0 \in 0..Len(cmds') /\ stops' \in SUBSET (0..Len(cmds'))
    BY <1>1
  <2>3. phase' \in Phases
    BY DEF Phases
  <2> QED BY <1>1, <2>1, <2>2, <2>3, EmptyBufferType DEF TypeOK
<1>3. StackOK'
  BY <1>1 DEF StackOK
<1>4. Links' /\ AllLinks' /\ Unused' /\ ChangedAreCached'
  BY <1>1 DEF Links, AllLinks, Unused, ChangedAreCached, EmptyBuffer
<1> QED BY <1>1, <1>2, <1>3, <1>4 DEF IInv, AddedOK, ExactOK

LEMMA StartEditingKeeps ==
    ASSUME IInv, StartEditing
    PROVE  IInv'
<1>1. TypeOK /\ cmds = <<>> /\ index = 0 /\ target = 0 /\ macro = FALSE
  BY DEF IInv, TypeOK, StackOK, StartEditing
<1>2. /\ buf' = EmptyBuffer /\ hist' = <<EmptyBuffer>> /\ exact' = TRUE
      /\ cmds' = <<>> /\ index' = 0 /\ stops' = stops /\ macro' = FALSE /\ target' = 0
      /\ phase' = "idle" /\ cache' = cache /\ ok' = ok
      /\ UNCHANGED <<store, selected, mark, crashed, commits, job>>
  BY <1>1 DEF StartEditing, store, stack
<1>3. cmds' \in Seq(Commands) /\ Len(cmds') = 0 /\ hist' \in Seq(Buffers) /\ Len(hist') = 1 /\ hist'[1] = EmptyBuffer
  BY <1>2, EmptyBufferType
<1>4. TypeOK'
  BY <1>1, <1>2, <1>3, EmptyBufferType DEF TypeOK, store, Phases
<1>5. StackOK'
  BY <1>2, <1>3 DEF StackOK
<1>6. Links' /\ AllLinks' /\ Unused' /\ ChangedAreCached'
  BY <1>2, <1>3 DEF Links, AllLinks, Unused, ChangedAreCached, EmptyBuffer
<1> QED BY <1>2, <1>3, <1>4, <1>5, <1>6 DEF IInv, AddedOK, ExactOK

LEMMA NoCacheType == NoCache \in Geometries
  BY DEF NoCache, Geometries

LEMMA FinishRollBackKeeps ==
    ASSUME IInv, FinishRollBack
    PROVE  IInv'
<1>1. TypeOK /\ StackOK /\ cache' = NoCache /\ phase \in {"rollback", "discard"} /\ index = 0
      /\ UNCHANGED <<store, selected, mark, ok, crashed, commits, job>>
  BY DEF IInv, FinishRollBack, store
<1>2. CASE phase = "discard"
  BY <1>1, <1>2, NoCacheType, ResetKeeps DEF FinishRollBack, CloseBuffer, ClearStack, TypeOK
<1>3. CASE phase = "rollback"
  <2>1. /\ phase' = "idle"
        /\ UNCHANGED <<buf, cmds, index, stops, macro, target, hist, exact>>
    BY <1>3 DEF FinishRollBack, stack, history
  <2>2. TypeOK'
    BY <1>1, <2>1, NoCacheType DEF TypeOK, store, Phases
  <2>3. StackOK'
    BY <1>1, <1>3, <2>1 DEF StackOK
  <2>4. AddedOK'
    BY <1>1, <1>3, <2>1 DEF IInv, AddedOK, Links, Unused
  <2>5. ExactOK'
    <3>1. exact => buf = EmptyBuffer /\ AllLinks /\ buf = hist[index + 1]
      BY <1>1, <1>3 DEF IInv, ExactOK, StackOK, CommitPhases
    <3>2. exact => ChangedAreCached'
      BY <2>1, <3>1 DEF ChangedAreCached, EmptyBuffer
    <3> QED BY <2>1, <3>1, <3>2 DEF ExactOK, AllLinks
  <2> QED BY <2>2, <2>3, <2>4, <2>5 DEF IInv
<1> QED BY <1>1, <1>2, <1>3

LEMMA FinishCommitKeeps ==
    ASSUME IInv, FinishCommit
    PROVE  IInv'
<1>1. TypeOK /\ StackOK /\ cache' = NoCache /\ phase = "finish" /\ ok' = TRUE
      /\ UNCHANGED <<store, selected, mark, crashed, commits, job>>
  BY DEF IInv, FinishCommit, store
<1>2. CASE ok
  BY <1>1, <1>2, NoCacheType, ResetKeeps DEF FinishCommit, CloseBuffer, ClearStack
<1>3. CASE ~ok
  <2>1. /\ phase' = "idle" /\ exact' = FALSE
        /\ UNCHANGED <<buf, cmds, index, stops, macro, target, hist>>
    BY <1>3 DEF FinishCommit, stack
  <2>2. TypeOK'
    BY <1>1, <2>1, NoCacheType DEF TypeOK, store, Phases
  <2>3. StackOK'
    BY <1>1, <2>1 DEF StackOK
  <2>4. AddedOK'
    BY <1>1, <1>3, <2>1 DEF IInv, AddedOK, Links, Unused
  <2>5. ExactOK'
    BY <2>1 DEF ExactOK
  <2> QED BY <2>2, <2>3, <2>4, <2>5 DEF IInv
<1> QED BY <1>2, <1>3

-----------------------------------------------------------------------------
(* The stages of a commit *)

LEMMA StageKeeps ==
    ASSUME IInv, phase \in CommitPhases \ {"finish"}, phase' \in CommitPhases,
           prov' \in [ProviderIds -> Feats \union {None}], nextId' \in Nat, buf' \in Buffers,
           ok' \in BOOLEAN, selected' \in SUBSET Fids, StageFrame,
           buf'.added = buf.added \/ (phase' = "finish" /\ ok')
    PROVE  IInv'
<1>1. TypeOK /\ StackOK
      /\ UNCHANGED <<caps, cache, mark, cmds, index, stops, macro, target, crashed, commits, job, hist, exact>>
  BY DEF IInv, StageFrame, stack, history
<1>2. phase \in {"geometries", "attributes", "deletes", "adds"}
  BY DEF CommitPhases
<1>3. TypeOK'
  BY <1>1 DEF TypeOK, CommitPhases, Phases
<1>4. StackOK'
  BY <1>1, <1>2 DEF StackOK, CommitPhases
<1>5. AddedOK'
  BY <1>1, <1>2 DEF IInv, AddedOK, Links, Unused
<1>6. ExactOK'
  BY <1>1 DEF IInv, ExactOK, AllLinks
<1> QED BY <1>3, <1>4, <1>5, <1>6 DEF IInv

LEMMA WithTypes ==
    ASSUME buf \in Buffers, NEW p \in [ProviderIds -> Feats \union {None}]
    PROVE  /\ WithGeoms(p) \in [ProviderIds -> Feats \union {None}]
           /\ WithAttrs(p) \in [ProviderIds -> Feats \union {None}]
<1>1. ASSUME NEW f \in ProviderIds, f \in ChangedGeoms, p[f] # None
      PROVE  [p[f] EXCEPT !.geom = buf.geoms[f]] \in Feats
  <2>1. buf.geoms[f] \in Geoms /\ p[f] \in Feats
    BY <1>1 DEF ChangedGeoms, Buffers
  <2> QED BY <2>1 DEF Feats
<1>2. ASSUME NEW f \in ProviderIds, f \in ChangedAttrs, p[f] # None
      PROVE  [p[f] EXCEPT !.attr = buf.attrs[f]] \in Feats
  <2>1. buf.attrs[f] \in Vals /\ p[f] \in Feats
    BY <1>2 DEF ChangedAttrs, Buffers
  <2> QED BY <2>1 DEF Feats
<1> QED BY <1>1, <1>2 DEF WithGeoms, WithAttrs

LEMMA CommitGeometriesKeeps ==
    ASSUME IInv, CommitGeometries
    PROVE  IInv'
<1>1. TypeOK /\ phase = "geometries" /\ phase' = "attributes" /\ nextId' = nextId /\ selected' = selected
      /\ StageFrame /\ buf \in Buffers
  BY DEF IInv, CommitGeometries, TypeOK
<1>2. /\ prov' \in [ProviderIds -> Feats \union {None}] /\ buf' \in Buffers /\ ok' \in BOOLEAN
      /\ buf'.added = buf.added
  <2>1. CASE Saved(WithGeoms(prov), [buf EXCEPT !.geoms = EmptyBuffer.geoms])
    BY <1>1, <2>1, WithTypes, EmptyBufferType DEF Saved, TypeOK, Buffers
  <2>2. CASE Refused \/ Skipped
    BY <1>1, <2>2 DEF Refused, Skipped, TypeOK
  <2> QED BY <2>1, <2>2 DEF CommitGeometries
<1> QED BY <1>1, <1>2, StageKeeps DEF TypeOK, CommitPhases

LEMMA CommitAttributesKeeps ==
    ASSUME IInv, CommitAttributes
    PROVE  IInv'
<1>1. TypeOK /\ phase = "attributes" /\ phase' = "deletes" /\ nextId' = nextId /\ selected' = selected
      /\ StageFrame /\ buf \in Buffers
  BY DEF IInv, CommitAttributes, TypeOK
<1>2. /\ prov' \in [ProviderIds -> Feats \union {None}] /\ buf' \in Buffers /\ ok' \in BOOLEAN
      /\ buf'.added = buf.added
  <2>1. CASE Saved(WithAttrs(WithGeoms(prov)),
                   [buf EXCEPT !.geoms = EmptyBuffer.geoms, !.attrs = EmptyBuffer.attrs])
    BY <1>1, <2>1, WithTypes, EmptyBufferType DEF Saved, TypeOK, Buffers
  <2>2. CASE Saved(WithAttrs(prov), [buf EXCEPT !.attrs = EmptyBuffer.attrs])
    BY <1>1, <2>2, WithTypes, EmptyBufferType DEF Saved, TypeOK, Buffers
  <2>3. CASE Refused \/ Skipped
    BY <1>1, <2>3 DEF Refused, Skipped, TypeOK
  <2> QED BY <2>1, <2>2, <2>3 DEF CommitAttributes
<1> QED BY <1>1, <1>2, StageKeeps DEF TypeOK, CommitPhases

LEMMA CommitDeletesKeeps ==
    ASSUME IInv, CommitDeletes
    PROVE  IInv'
<1>1. TypeOK /\ phase = "deletes" /\ phase' = "adds" /\ nextId' = nextId /\ selected' = selected
      /\ StageFrame /\ buf \in Buffers
  BY DEF IInv, CommitDeletes, TypeOK
<1> DEFINE p == [f \in ProviderIds |-> IF f \in buf.deleted THEN None ELSE prov[f]]
<1> DEFINE b == [buf EXCEPT !.deleted = {},
                   !.geoms = [f \in ProviderIds |-> IF f \in buf.deleted THEN None ELSE @[f]],
                   !.attrs = [f \in ProviderIds |-> IF f \in buf.deleted THEN None ELSE @[f]]]
<1>2. p \in [ProviderIds -> Feats \union {None}] /\ b \in Buffers /\ b.added = buf.added
  BY <1>1 DEF TypeOK, Buffers
<1>3. /\ prov' \in [ProviderIds -> Feats \union {None}] /\ buf' \in Buffers /\ ok' \in BOOLEAN
      /\ buf'.added = buf.added
  <2>1. CASE Saved(p, b)
    BY <1>1, <1>2, <2>1 DEF Saved, TypeOK
  <2>2. CASE Refused \/ Skipped
    BY <1>1, <2>2 DEF Refused, Skipped, TypeOK
  <2> QED BY <2>1, <2>2 DEF CommitDeletes
<1> QED BY <1>1, <1>3, StageKeeps DEF TypeOK, CommitPhases

LEMMA CommitAddsKeeps ==
    ASSUME IInv, CommitAdds
    PROVE  IInv'
<1>1. TypeOK /\ phase = "adds" /\ phase' = "finish" /\ StageFrame /\ buf \in Buffers
  BY DEF IInv, CommitAdds, TypeOK
<1> DEFINE p == [i \in ProviderIds |-> IF i \in GivenIds THEN NewFeature(i) ELSE prov[i]]
<1> DEFINE b == [buf EXCEPT !.added = EmptyBuffer.added]
<1>2. CASE ok /\ GivenIds \subseteq ProviderIds /\ Saved(p, b)
           /\ selected' = UpdatedSelection /\ nextId' = nextId + Cardinality(Added)
  <2>1. \A i \in GivenIds : NewFeature(i) \in Feats
    <3>1. SUFFICES ASSUME NEW i \in GivenIds PROVE NewFeature(i) \in Feats
      OBVIOUS
    <3>2. \E f \in Added : GivenId(f) = i
      BY DEF GivenIds
    <3>3. (CHOOSE f \in Added : GivenId(f) = i) \in Added
      BY <3>2
    <3> QED BY <1>1, <3>3 DEF NewFeature, Added, Buffers
  <2>2. p \in [ProviderIds -> Feats \union {None}]
    BY <1>1, <2>1 DEF TypeOK
  <2>3. b \in Buffers
    BY <1>1, EmptyBufferType DEF Buffers
  <2>4. Cardinality(Added) \in Nat
    <3>1. -(MaxNew + 1) \in Int /\ -2 \in Int
      BY BoundsAssumption
    <3>2. IsFiniteSet(NewIds)
      BY <3>1, FS_Interval DEF NewIds
    <3> QED BY <3>2, FS_Subset, FS_CardinalityType DEF Added
  <2>5. selected' \in SUBSET Fids
    BY <1>1, <1>2 DEF TypeOK, UpdatedSelection, GivenIds, Fids
  <2>6. prov' \in [ProviderIds -> Feats \union {None}] /\ buf' \in Buffers /\ ok' = ok /\ nextId' \in Nat
    BY <1>1, <1>2, <2>2, <2>3, <2>4 DEF Saved, TypeOK
  <2> QED BY <1>1, <1>2, <2>5, <2>6, StageKeeps DEF TypeOK, CommitPhases
<1>3. CASE (Refused \/ Skipped) /\ UNCHANGED <<nextId, selected>>
  BY <1>1, <1>3, StageKeeps DEF Refused, Skipped, TypeOK, CommitPhases
<1> QED BY <1>2, <1>3 DEF CommitAdds

-----------------------------------------------------------------------------
(* The theorems *)

LEMMA InitInv == Init => IInv
<1> SUFFICES ASSUME Init PROVE IInv
  OBVIOUS
<1> USE IdsAssumption, BoundsAssumption
<1>1. cmds \in Seq(Commands) /\ Len(cmds) = 0 /\ hist \in Seq(Buffers) /\ Len(hist) = 1 /\ hist[1] = EmptyBuffer
  BY EmptyBufferType DEF Init
<1>2. TypeOK
  <2>1. /\ caps \in CapSets /\ prov \in [ProviderIds -> Feats \union {None}] /\ nextId \in Nat
        /\ crashed \in BOOLEAN /\ commits \in 0..MaxCommits /\ job \in Geometries \union {NoJob}
        /\ selected \in SUBSET Fids /\ mark \in -(MaxNew + 1) .. -1
    <3>1. prov = Stored /\ nextId \in ProviderIds /\ selected = {} /\ mark = -1
      BY DEF Init
    <3>2. caps \in CapSets /\ crashed = FALSE /\ commits = 0 /\ job = NoJob
      BY DEF Init
    <3>3. -1 \in -(MaxNew + 1) .. -1 /\ 0 \in 0..MaxCommits
      OBVIOUS
    <3>4. prov \in [ProviderIds -> Feats \union {None}]
      BY <3>1, StoredAssumption
    <3>5. selected \in SUBSET Fids /\ crashed \in BOOLEAN /\ job \in Geometries \union {NoJob}
      BY <3>1, <3>2
    <3> QED BY <3>1, <3>2, <3>3, <3>4, <3>5
  <2>2. index \in 0..Len(cmds) /\ target \in 0..Len(cmds) /\ stops \in SUBSET (0..Len(cmds))
    BY <1>1 DEF Init
  <2>3. phase \in Phases /\ cache \in Geometries /\ buf \in Buffers
        /\ ok \in BOOLEAN /\ macro \in BOOLEAN /\ exact \in BOOLEAN
    BY EmptyBufferType DEF Init, Phases, Geometries
  <2> QED BY <1>1, <2>1, <2>2, <2>3 DEF TypeOK
<1>3. StackOK
  BY <1>1 DEF StackOK, Init
<1>4. Links /\ AllLinks /\ Unused /\ ChangedAreCached
  BY <1>1 DEF Links, AllLinks, Unused, ChangedAreCached, EmptyBuffer, Init
<1> QED BY <1>1, <1>2, <1>3, <1>4 DEF IInv, AddedOK, ExactOK, Init

LEMMA NextKeeps == IInv /\ [Next]_vars => IInv'
<1> SUFFICES ASSUME IInv, [Next]_vars PROVE IInv'
  OBVIOUS
<1>1. CASE StartEditing
  BY <1>1, StartEditingKeeps
<1>2. CASE \E feat \in NewFeats : AddFeature(feat)
  BY <1>2, AddFeatureKeeps
<1>3. CASE \E fid \in Known : DeleteFeature(fid)
  BY <1>3, DeleteFeatureKeeps
<1>4. CASE \E fid \in Known : \E g \in Geoms : ChangeGeometry(fid, g)
  BY <1>4, ChangeGeometryKeeps
<1>5. CASE \E fid \in Known : \E v \in Vals : ChangeAttributeValue(fid, v)
  BY <1>5, ChangeAttributeValueKeeps
<1>6. CASE BeginEditCommand
  BY <1>6, BeginEditCommandKeeps
<1>7. CASE QuietStep
  BY <1>7, QuietStepKeeps
<1>8. CASE StepBack
  BY <1>8, StepBackKeeps
<1>9. CASE StepForward
  BY <1>9, StepForwardKeeps
<1>10. CASE FinishRollBack
  BY <1>10, FinishRollBackKeeps
<1>11. CASE CommitGeometries
  BY <1>11, CommitGeometriesKeeps
<1>12. CASE CommitAttributes
  BY <1>12, CommitAttributesKeeps
<1>13. CASE CommitDeletes
  BY <1>13, CommitDeletesKeeps
<1>14. CASE CommitAdds
  BY <1>14, CommitAddsKeeps
<1>15. CASE FinishCommit
  BY <1>15, FinishCommitKeeps
<1>16. CASE RenderFinish
  BY <1>16, RenderFinishKeeps
<1>17. CASE UNCHANGED vars
  <2>1. UNCHANGED <<caps, prov, nextId, buf, cache, selected, mark, cmds, index, stops, macro, target,
                    phase, ok, crashed, commits, job, hist, exact>>
    BY <1>17 DEF vars, store, stack, history
  <2>2. TypeOK' /\ StackOK'
    BY <2>1 DEF IInv, TypeOK, StackOK
  <2>3. AddedOK' /\ ExactOK'
    BY <2>1 DEF IInv, AddedOK, ExactOK, Links, AllLinks, Unused, ChangedAreCached
  <2> QED BY <2>2, <2>3 DEF IInv
<1> QED BY <1>1, <1>2, <1>3, <1>4, <1>5, <1>6, <1>7, <1>8, <1>9, <1>10, <1>11, <1>12,
           <1>13, <1>14, <1>15, <1>16, <1>17 DEF Next, QuietStep

\* Every reachable state satisfies the inductive invariant.
THEOREM Invariance == Spec => []IInv
  BY InitInv, NextKeeps, PTL DEF Spec

\* Every variable keeps its type: no undo command, repeated or reverted in any
\* order and after commits that failed half way, leaves a map with an entry of
\* the wrong kind.
THEOREM TypeCorrect == Spec => []TypeOK
<1>1. IInv => TypeOK
  BY DEF IInv
<1> QED BY <1>1, Invariance, PTL

\* Undo and redo bring back the buffer of that moment, with merged geometry
\* changes and edit commands, until a commit fails or a render job drops a
\* changed geometry from the cache.
THEOREM UndoIsExact == Spec => []UndoRestores
<1>1. IInv => UndoRestores
  BY DEF IInv, ExactOK, UndoRestores
<1> QED BY <1>1, Invariance, PTL

\* The undo commands find the added features they work on, after failed
\* commits and lost cache entries too: the assertions of
\* qgsvectorlayerundocommand.cpp hold.
THEOREM FeaturesAreFound == Spec => []AssertionsHold
<1>1. ASSUME IInv, phase \notin CommitPhases, index > 0, NeedsFeature(cmds[index], {"add", "geom", "attr"})
      PROVE  buf.added[cmds[index].fid] # None
  <2>1. buf.added = hist[index + 1].added /\ TypeOK /\ StackOK /\ Links
    BY <1>1 DEF IInv, AddedOK, CommitPhases
  <2> QED BY <1>1, <2>1, LastApplies DEF Applies, NeedsFeature
<1>2. ASSUME IInv, phase \notin CommitPhases, index < Len(cmds), NeedsFeature(cmds[index + 1], {"geom", "attr"})
      PROVE  buf.added[cmds[index + 1].fid] # None
  <2>1. buf.added = hist[index + 1].added /\ TypeOK /\ StackOK /\ Links
    BY <1>2 DEF IInv, AddedOK, CommitPhases
  <2> QED BY <1>2, <2>1, NextApplies DEF Applies
<1>3. IInv => AssertionsHold
  BY <1>1, <1>2 DEF AssertionsHold
<1> QED BY <1>3, Invariance, PTL

-----------------------------------------------------------------------------
(* Commits.  After a commit that failed half way the history no longer     *)
(* tells what is in the buffer; what still holds is that every entry has   *)
(* an applied command that takes it out (Covered, with Rooted), and what   *)
(* each stage of a commit has handed over (Stages).                        *)

\* One of the first n commands is the first that did op to feature f: it has no old value.
Starts(n, op, f) ==
    \E k \in 1..n : cmds[k].op = op /\ cmds[k].fid = f /\ cmds[k].old = None

\* A command that has an old value is above one that has none.
Rooted ==
    \A i \in 1..Len(cmds) :
        cmds[i].op \in {"geom", "attr"} /\ cmds[i].fid \in ProviderIds /\ cmds[i].old # None
            => Starts(i - 1, cmds[i].op, cmds[i].fid)

\* Whatever is in the buffer of a feature of the provider, an applied command will take it out.
Covered ==
    \A f \in ProviderIds :
        /\ f \in buf.deleted => Starts(index, "delete", f)
        /\ buf.geoms[f] # None => Starts(index, "geom", f)
        /\ buf.attrs[f] # None => Starts(index, "attr", f)

\* What the stages of a successful commit have handed over so far.
Stages ==
    ok =>
        /\ phase = "attributes" => ChangedGeoms = {} \/ Together
        /\ phase \in {"deletes", "adds", "finish"} => ChangedGeoms = {} /\ ChangedAttrs = {}
        /\ phase \in {"adds", "finish"} => buf.deleted = {}
        /\ phase = "finish" => Added = {}

\* Before a commit, the features to be deleted are in the provider.
DeletesStored ==
    exact /\ phase \notin CommitPhases =>
        \A i \in 1..Len(cmds) :
            cmds[i].op = "delete" /\ cmds[i].fid \in ProviderIds => prov[cmds[i].fid] # None

\* The ids the provider has not yet given are those of no feature.
IdsFresh ==
    /\ \A f \in ProviderIds : f >= nextId => prov[f] = None
    /\ \A f \in selected : f < nextId

CInv ==
    /\ IInv
    /\ Rooted
    /\ Covered
    /\ Stages
    /\ DeletesStored
    /\ IdsFresh

-----------------------------------------------------------------------------
(* The commands that put things into the buffer *)

LEMMA Basics ==
    ASSUME CInv
    PROVE  /\ TypeOK /\ StackOK /\ AddedOK
           /\ cmds \in Seq(Commands) /\ Len(cmds) \in Nat /\ index \in 0..Len(cmds)
           /\ buf \in Buffers /\ prov \in [ProviderIds -> Feats \union {None}] /\ nextId \in Nat
           /\ buf.deleted \subseteq ProviderIds
           /\ buf.geoms \in [ProviderIds -> Geoms \union {None}]
           /\ buf.attrs \in [ProviderIds -> Vals \union {None}]
           /\ buf.added \in [NewIds -> Feats \union {None}]
           /\ selected \subseteq Fids /\ phase \in Phases
<1>1. TypeOK /\ StackOK /\ AddedOK
  BY DEF CInv, IInv
<1> QED BY <1>1 DEF TypeOK, Buffers

LEMMA DeletesHaveNoOld ==
    ASSUME NEW c \in Commands, c.op = "delete", c.fid \in ProviderIds
    PROVE  c.old = None
  BY IdKinds DEF Commands, Kind, Marker, Command

\* cmds' has c on top of the applied commands, or merged into the last of them.
Stacked(c) ==
    /\ Len(cmds') = index'
    /\ \A k \in 1..index : cmds'[k].op = cmds[k].op /\ cmds'[k].fid = cmds[k].fid
                             /\ cmds'[k].old = cmds[k].old
    /\ \/ index' = index + 1 /\ cmds'[index'] = c
       \/ index' = index /\ index > 0 /\ cmds[index].op = c.op /\ cmds[index].fid = c.fid

LEMMA PushStacks ==
    ASSUME CInv, NEW c \in Commands, Push(c)
    PROVE  Stacked(c)
<1>1. cmds \in Seq(Commands) /\ Len(cmds) \in Nat /\ index \in 0..Len(cmds)
  BY Basics
<1>2. /\ Applied \in Seq(Commands) /\ Len(Applied) = index
      /\ \A i \in 1..index : Applied[i] = cmds[i] /\ Applied[i] \in Commands
  <2>1. /\ Applied \in Seq(Commands) /\ Len(Applied) = index
        /\ \A i \in 1..index : Applied[i] = cmds[i]
    BY <1>1, SubSeqProperties DEF Applied
  <2> QED BY <2>1, ElementOfSeq
<1>3. CASE Merges(c)
  <2>1. /\ index > 0 /\ cmds[index].op = "geom" /\ cmds[index].fid = c.fid /\ c.op = "geom"
        /\ cmds' = [Applied EXCEPT ![index] = [Applied[index] EXCEPT !.new = c.new]]
        /\ index' = index
    BY <1>3 DEF Push, Merges
  <2> DEFINE e == [Applied[index] EXCEPT !.new = c.new]
  <2>2. Applied[index] \in Commands /\ index \in 1..Len(Applied)
    BY <1>1, <1>2, <2>1
  <2>3. e.op = Applied[index].op /\ e.fid = Applied[index].fid /\ e.old = Applied[index].old
    BY <2>2 DEF Commands, Kind, Marker, Command
  <2>4. e \in Commands
    <3>1. c.new \in Geoms
      BY <2>1, CommandKinds
    <3>2. Applied[index].op = "geom"
      BY <1>2, <2>1, <2>2
    <3>3. Applied[index] \in Kind("geom", NewIds, Geoms \union {NoGeom}, Geoms)
            \union Kind("geom", ProviderIds, Geoms \union {None}, Geoms)
      BY <2>2, <3>2 DEF Commands, Kind, Marker, Command
    <3>4. e \in Kind("geom", NewIds, Geoms \union {NoGeom}, Geoms)
            \union Kind("geom", ProviderIds, Geoms \union {None}, Geoms)
      BY <3>1, <3>3 DEF Kind
    <3> QED BY <3>4 DEF Commands
  <2> HIDE DEF e
  <2>5. cmds' = [Applied EXCEPT ![index] = e]
    BY <2>1 DEF e
  <2>6. /\ Len(cmds') = index
        /\ \A i \in 1..index : cmds'[i] = IF i = index THEN e ELSE Applied[i]
    BY <1>2, <2>2, <2>4, <2>5, ExceptSeq
  <2> QED BY <1>2, <2>1, <2>2, <2>3, <2>6 DEF Stacked
<1>4. CASE ~Merges(c)
  <2>1. cmds' = Append(Applied, c) /\ index' = index + 1
    BY <1>4 DEF Push
  <2>2. Len(cmds') = index + 1 /\ cmds'[index + 1] = c /\ \A i \in 1..index : cmds'[i] = Applied[i]
    BY <1>1, <1>2, <2>1, AppendProperties
  <2> QED BY <1>2, <2>1, <2>2 DEF Stacked
<1> QED BY <1>3, <1>4

\* What is recorded as old is there.
Recorded(c) ==
    c.fid \in ProviderIds /\ c.old # None =>
        /\ c.op = "geom" => buf.geoms[c.fid] # None
        /\ c.op = "attr" => buf.attrs[c.fid] # None

LEMMA StackedKeepsCovered ==
    ASSUME CInv, NEW c \in Commands, Stacked(c), Recorded(c), buf' = Redo(c, buf)
    PROVE  Rooted' /\ Covered'
<1>1. /\ index \in Nat /\ index' \in Nat /\ index' >= index /\ Len(cmds') = index'
      /\ Len(cmds) \in Nat /\ index <= Len(cmds)
  BY Basics DEF Stacked
<1>2. ASSUME NEW n \in 0..index, NEW m \in Nat, n <= m, NEW op, NEW f, Starts(n, op, f)
      PROVE  \E k \in 1..m : cmds'[k].op = op /\ cmds'[k].fid = f /\ cmds'[k].old = None
  <2>1. PICK k \in 1..n : cmds[k].op = op /\ cmds[k].fid = f /\ cmds[k].old = None
    BY <1>2 DEF Starts
  <2>2. k \in 1..index /\ k \in 1..m
    BY <1>1, <1>2
  <2> QED BY <2>1, <2>2 DEF Stacked
<1>3. ASSUME c.op \in {"geom", "attr"}, c.fid \in ProviderIds, c.old # None
      PROVE  Starts(index, c.op, c.fid)
  BY <1>3 DEF Recorded, CInv, Covered
<1>4. Rooted'
  <2>1. ASSUME NEW i \in 1..index', cmds'[i].op \in {"geom", "attr"}, cmds'[i].fid \in ProviderIds,
               cmds'[i].old # None
        PROVE  \E k \in 1..(i - 1) : /\ cmds'[k].op = cmds'[i].op /\ cmds'[k].fid = cmds'[i].fid
                                     /\ cmds'[k].old = None
    <3>1. CASE i <= index
      <4>1. i \in 1..index /\ i \in 1..Len(cmds) /\ i - 1 \in 0..index /\ i - 1 \in Nat
        BY <1>1, <3>1
      <4>2. /\ cmds[i].op = cmds'[i].op /\ cmds[i].fid = cmds'[i].fid /\ cmds[i].old = cmds'[i].old
        BY <4>1 DEF Stacked
      <4>3. Starts(i - 1, cmds'[i].op, cmds'[i].fid)
        BY <2>1, <4>1, <4>2 DEF CInv, Rooted
      <4> QED BY <1>2, <4>1, <4>3
    <3>2. CASE i > index
      <4>1. i = index + 1 /\ cmds'[i] = c /\ i - 1 = index
        BY <1>1, <3>2 DEF Stacked
      <4>2. Starts(index, c.op, c.fid)
        BY <1>3, <2>1, <4>1
      <4>3. \E k \in 1..index : cmds'[k].op = c.op /\ cmds'[k].fid = c.fid /\ cmds'[k].old = None
        BY <1>1, <1>2, <4>2
      <4> QED BY <4>1, <4>3
    <3> QED BY <1>1, <3>1, <3>2
  <2> QED BY <1>1, <2>1 DEF Rooted, Starts
<1>5. ASSUME c.op \in {"geom", "attr", "delete"}, c.fid \in ProviderIds
      PROVE  \E k \in 1..index' : cmds'[k].op = c.op /\ cmds'[k].fid = c.fid /\ cmds'[k].old = None
  <2>1. CASE index' = index + 1 /\ cmds'[index'] = c
    <3>1. CASE c.old = None
      BY <1>1, <2>1, <3>1
    <3>2. CASE c.old # None
      <4>1. Starts(index, c.op, c.fid)
        BY <1>3, <1>5, <3>2, DeletesHaveNoOld
      <4> QED BY <1>1, <1>2, <4>1
    <3> QED BY <3>1, <3>2
  <2>2. CASE index' = index /\ index > 0 /\ cmds[index].op = c.op /\ cmds[index].fid = c.fid
    <3>1. index \in 1..index /\ index \in 1..Len(cmds) /\ index - 1 \in 0..index /\ cmds[index] \in Commands
      BY <1>1, <2>2, Basics, ElementOfSeq
    <3>2. CASE cmds[index].old = None
      BY <2>2, <3>1, <3>2 DEF Stacked
    <3>3. CASE cmds[index].old # None
      <4>1. Starts(index - 1, c.op, c.fid)
        BY <1>5, <2>2, <3>1, <3>3, DeletesHaveNoOld DEF CInv, Rooted
      <4> QED BY <1>1, <1>2, <3>1, <4>1
    <3> QED BY <3>2, <3>3
  <2> QED BY <2>1, <2>2 DEF Stacked
<1>6. Covered'
  <2>1. /\ buf'.deleted = RedoDeleted(c, buf.deleted)
        /\ buf'.geoms = SetExisting("geom", c, buf.geoms, c.new)
        /\ buf'.attrs = SetExisting("attr", c, buf.attrs, c.new)
    BY Basics, ByField
  <2>2. ASSUME NEW f \in ProviderIds, f \in buf'.deleted
        PROVE  \E k \in 1..index' : cmds'[k].op = "delete" /\ cmds'[k].fid = f /\ cmds'[k].old = None
    <3>1. CASE c.op = "delete" /\ c.fid = f
      BY <1>5, <3>1
    <3>2. CASE ~(c.op = "delete" /\ c.fid = f)
      <4>1. f \in buf.deleted
        BY <2>1, <2>2, <3>2 DEF RedoDeleted
      <4>2. Starts(index, "delete", f)
        BY <4>1 DEF CInv, Covered
      <4> QED BY <1>1, <1>2, <4>2
    <3> QED BY <3>1, <3>2
  <2>3. ASSUME NEW f \in ProviderIds, buf'.geoms[f] # None
        PROVE  \E k \in 1..index' : cmds'[k].op = "geom" /\ cmds'[k].fid = f /\ cmds'[k].old = None
    <3>1. CASE c.op = "geom" /\ c.fid = f
      BY <1>5, <3>1
    <3>2. CASE ~(c.op = "geom" /\ c.fid = f)
      <4>1. buf.geoms[f] # None
        BY <2>1, <2>3, <3>2, Basics DEF SetExisting
      <4>2. Starts(index, "geom", f)
        BY <4>1 DEF CInv, Covered
      <4> QED BY <1>1, <1>2, <4>2
    <3> QED BY <3>1, <3>2
  <2>4. ASSUME NEW f \in ProviderIds, buf'.attrs[f] # None
        PROVE  \E k \in 1..index' : cmds'[k].op = "attr" /\ cmds'[k].fid = f /\ cmds'[k].old = None
    <3>1. CASE c.op = "attr" /\ c.fid = f
      BY <1>5, <3>1
    <3>2. CASE ~(c.op = "attr" /\ c.fid = f)
      <4>1. buf.attrs[f] # None
        BY <2>1, <2>4, <3>2, Basics DEF SetExisting
      <4>2. Starts(index, "attr", f)
        BY <4>1 DEF CInv, Covered
      <4> QED BY <1>1, <1>2, <4>2
    <3> QED BY <3>1, <3>2
  <2> QED BY <2>2, <2>3, <2>4 DEF Covered, Starts
<1> QED BY <1>4, <1>6

\* A step back takes out what the last command put in, if it was the first.
LEMMA StepBackKeepsCovered ==
    ASSUME CInv, StepBack
    PROVE  Rooted' /\ Covered'
<1> DEFINE c == cmds[index]
<1>1. index \in 1..Len(cmds) /\ index' = index - 1 /\ cmds' = cmds /\ buf' = Undo(c, buf)
  BY Basics DEF StepBack, TypeOK
<1>2. c \in Commands
  BY <1>1, Basics, ElementOfSeq
<1>3. /\ buf'.deleted = UndoDeleted(c, buf.deleted)
      /\ buf'.geoms = SetExisting("geom", c, buf.geoms, c.old)
      /\ buf'.attrs = SetExisting("attr", c, buf.attrs, c.old)
  BY <1>1, <1>2, Basics, ByField
<1>4. ASSUME NEW op, NEW f, Starts(index, op, f), c.op # op \/ c.fid # f
      PROVE  Starts(index - 1, op, f)
  <2>1. PICK k \in 1..index : cmds[k].op = op /\ cmds[k].fid = f /\ cmds[k].old = None
    BY <1>4 DEF Starts
  <2>2. k # index
    BY <1>4, <2>1
  <2>3. k \in 1..(index - 1)
    BY <1>1, <2>2
  <2> QED BY <2>1, <2>3 DEF Starts
<1>5. ASSUME c.op \in {"geom", "attr"}, c.fid \in ProviderIds, c.old # None
      PROVE  Starts(index - 1, c.op, c.fid)
  BY <1>1, <1>5 DEF CInv, Rooted
<1> HIDE DEF c
<1>6. ASSUME NEW f \in ProviderIds, f \in buf'.deleted
      PROVE  Starts(index - 1, "delete", f)
  <2>1. f \in buf.deleted /\ (c.op # "delete" \/ c.fid # f)
    BY <1>3, <1>6, IdKinds DEF UndoDeleted
  <2>2. Starts(index, "delete", f)
    BY <2>1 DEF CInv, Covered
  <2> QED BY <1>4, <2>1, <2>2
<1>7. ASSUME NEW f \in ProviderIds, buf'.geoms[f] # None
      PROVE  Starts(index - 1, "geom", f)
  <2>1. CASE c.op = "geom" /\ c.fid = f
    <3>1. c.old # None
      BY <1>3, <1>7, <2>1, Basics, IdKinds DEF SetExisting
    <3> QED BY <1>5, <2>1, <3>1
  <2>2. CASE ~(c.op = "geom" /\ c.fid = f)
    <3>1. buf.geoms[f] # None
      BY <1>3, <1>7, <2>2, Basics DEF SetExisting
    <3>2. Starts(index, "geom", f)
      BY <3>1 DEF CInv, Covered
    <3> QED BY <1>4, <2>2, <3>2
  <2> QED BY <2>1, <2>2
<1>8. ASSUME NEW f \in ProviderIds, buf'.attrs[f] # None
      PROVE  Starts(index - 1, "attr", f)
  <2>1. CASE c.op = "attr" /\ c.fid = f
    <3>1. c.old # None
      BY <1>3, <1>8, <2>1, Basics, IdKinds DEF SetExisting
    <3> QED BY <1>5, <2>1, <3>1
  <2>2. CASE ~(c.op = "attr" /\ c.fid = f)
    <3>1. buf.attrs[f] # None
      BY <1>3, <1>8, <2>2, Basics DEF SetExisting
    <3>2. Starts(index, "attr", f)
      BY <3>1 DEF CInv, Covered
    <3> QED BY <1>4, <2>2, <3>2
  <2> QED BY <2>1, <2>2
<1>9. Rooted'
  BY <1>1 DEF CInv, Rooted, Starts
<1> QED BY <1>1, <1>6, <1>7, <1>8, <1>9 DEF Covered, Starts

LEMMA StepForwardKeepsCovered ==
    ASSUME CInv, StepForward
    PROVE  Rooted' /\ Covered'
<1> DEFINE c == cmds[index + 1]
<1>1. /\ index \in Nat /\ index + 1 \in 1..Len(cmds) /\ index' = index + 1 /\ cmds' = cmds
      /\ buf' = Redo(c, buf)
  BY Basics DEF StepForward, TypeOK
<1>2. c \in Commands
  BY <1>1, Basics, ElementOfSeq
<1>3. /\ buf'.deleted = RedoDeleted(c, buf.deleted)
      /\ buf'.geoms = SetExisting("geom", c, buf.geoms, c.new)
      /\ buf'.attrs = SetExisting("attr", c, buf.attrs, c.new)
  BY <1>1, <1>2, Basics, ByField
<1>4. ASSUME NEW op, NEW f, Starts(index, op, f)
      PROVE  Starts(index + 1, op, f)
  BY <1>1, <1>4 DEF Starts
<1>5. ASSUME c.op \in {"geom", "attr", "delete"}, c.fid \in ProviderIds
      PROVE  Starts(index + 1, c.op, c.fid)
  <2>1. CASE c.old = None
    BY <1>1, <2>1 DEF Starts
  <2>2. CASE c.old # None
    <3>1. Starts((index + 1) - 1, c.op, c.fid)
      BY <1>1, <1>2, <1>5, <2>2, DeletesHaveNoOld DEF CInv, Rooted
    <3>2. (index + 1) - 1 = index
      BY <1>1
    <3> QED BY <1>4, <3>1, <3>2
  <2> QED BY <2>1, <2>2
<1> HIDE DEF c
<1>6. ASSUME NEW f \in ProviderIds, f \in buf'.deleted
      PROVE  Starts(index + 1, "delete", f)
  <2>1. CASE c.op = "delete" /\ c.fid = f
    BY <1>5, <2>1
  <2>2. CASE ~(c.op = "delete" /\ c.fid = f)
    <3>1. f \in buf.deleted
      BY <1>3, <1>6, <2>2 DEF RedoDeleted
    <3> QED BY <1>4, <3>1 DEF CInv, Covered
  <2> QED BY <2>1, <2>2
<1>7. ASSUME NEW f \in ProviderIds, buf'.geoms[f] # None
      PROVE  Starts(index + 1, "geom", f)
  <2>1. CASE c.op = "geom" /\ c.fid = f
    BY <1>5, <2>1
  <2>2. CASE ~(c.op = "geom" /\ c.fid = f)
    <3>1. buf.geoms[f] # None
      BY <1>3, <1>7, <2>2, Basics DEF SetExisting
    <3> QED BY <1>4, <3>1 DEF CInv, Covered
  <2> QED BY <2>1, <2>2
<1>8. ASSUME NEW f \in ProviderIds, buf'.attrs[f] # None
      PROVE  Starts(index + 1, "attr", f)
  <2>1. CASE c.op = "attr" /\ c.fid = f
    BY <1>5, <2>1
  <2>2. CASE ~(c.op = "attr" /\ c.fid = f)
    <3>1. buf.attrs[f] # None
      BY <1>3, <1>8, <2>2, Basics DEF SetExisting
    <3> QED BY <1>4, <3>1 DEF CInv, Covered
  <2> QED BY <2>1, <2>2
<1>9. Rooted'
  BY <1>1 DEF CInv, Rooted, Starts
<1> QED BY <1>1, <1>6, <1>7, <1>8, <1>9 DEF Covered, Starts

-----------------------------------------------------------------------------
(* Editing *)

LEMMA StackedKeeps ==
    ASSUME CInv, IInv', phase = "idle", phase' = "idle", NEW c \in Commands,
           Stacked(c), Recorded(c), buf' = Redo(c, buf), exact' = exact,
           UNCHANGED <<prov, nextId, ok>>, selected' \subseteq selected,
           c.op = "delete" /\ c.fid \in ProviderIds => prov[c.fid] # None
    PROVE  CInv'
<1>1. Rooted' /\ Covered'
  BY StackedKeepsCovered
<1>2. Stages'
  BY DEF Stages
<1>3. DeletesStored'
  <2> SUFFICES ASSUME exact, NEW i \in 1..Len(cmds'), cmds'[i].op = "delete",
                      cmds'[i].fid \in ProviderIds
               PROVE  prov[cmds'[i].fid] # None
    BY DEF DeletesStored
  <2>1. index \in Nat /\ Len(cmds) \in Nat /\ index <= Len(cmds) /\ Len(cmds') = index'
    BY Basics DEF Stacked
  <2>2. CASE i <= index
    <3>1. i \in 1..index /\ i \in 1..Len(cmds)
      BY <2>1, <2>2
    <3>2. cmds[i].op = "delete" /\ cmds[i].fid = cmds'[i].fid
      BY <3>1 DEF Stacked
    <3> QED BY <3>1, <3>2 DEF CInv, DeletesStored, CommitPhases
  <2>3. CASE i > index
    <3>1. cmds'[i] = c
      BY <2>1, <2>3 DEF Stacked
    <3> QED BY <3>1
  <2> QED BY <2>1, <2>2, <2>3
<1>4. IdsFresh'
  BY DEF CInv, IdsFresh
<1> QED BY <1>1, <1>2, <1>3, <1>4 DEF CInv

LEMMA AddFeatureKeepsC ==
    ASSUME CInv, IInv', NEW feat \in NewFeats, AddFeature(feat)
    PROVE  CInv'
<1> DEFINE c == Command("add", mark - 1, None, feat)
<1>1. /\ Push(c) /\ phase = "idle" /\ phase' = "idle" /\ selected' = selected
      /\ UNCHANGED <<prov, nextId, ok>>
  BY DEF AddFeature, Editing, store
<1>2. mark - 1 \in NewIds
  <2>1. mark \in -(MaxNew + 1) .. -1 /\ mark > -(MaxNew + 1)
    BY Basics DEF TypeOK, AddFeature
  <2> QED BY <2>1, BoundsAssumption DEF NewIds
<1>3. c \in Commands /\ c.op = "add"
  <2>1. c \in Kind("add", NewIds, {None}, Feats)
    BY <1>2, InputsAssumption DEF Command, Kind
  <2> QED BY <2>1 DEF Commands, Command
<1> HIDE DEF c
<1>4. buf' = Redo(c, buf) /\ exact' = exact /\ Recorded(c)
  BY <1>1, <1>3 DEF Push, Recorded
<1> QED BY <1>1, <1>3, <1>4, PushStacks, StackedKeeps

\* A feature that can be seen is in the provider or among the added ones.
LEMMA SeenAreStored ==
    ASSUME CInv, NEW f \in Visible, f \in ProviderIds
    PROVE  prov[f] # None /\ f \notin buf.deleted
  BY IdKinds DEF Visible, View, Overlay

LEMMA DeleteFeatureKeepsC ==
    ASSUME CInv, IInv', NEW fid \in Known, DeleteFeature(fid)
    PROVE  CInv'
<1> DEFINE c == Command("delete", fid, IF IsNew(fid) THEN buf.added[fid] ELSE None, None)
<1>1. /\ Push(c) /\ phase = "idle" /\ phase' = "idle" /\ selected' \subseteq selected
      /\ UNCHANGED <<prov, nextId, ok>>
  BY DEF DeleteFeature, Editing, store
<1>2. (fid \in NewIds /\ buf.added[fid] \in Feats) \/ (fid \in ProviderIds /\ fid \notin buf.deleted)
  BY Basics, KnownIds, IdKinds DEF DeleteFeature
<1>3. c \in Kind("delete", NewIds, Feats, {None}) \/ c \in Kind("delete", ProviderIds, {None}, {None})
  BY <1>2, IdKinds DEF Command, Kind
<1>4. c \in Commands /\ c.op = "delete" /\ c.fid = fid
  BY <1>3 DEF Commands, Command
<1>5. fid \in ProviderIds => prov[fid] # None
  BY <1>2, IdKinds, SeenAreStored DEF Known
<1> HIDE DEF c
<1>6. buf' = Redo(c, buf) /\ exact' = exact /\ Recorded(c)
  BY <1>1, <1>4 DEF Push, Recorded
<1> QED BY <1>1, <1>4, <1>5, <1>6, PushStacks, StackedKeeps

LEMMA ChangeGeometryKeepsC ==
    ASSUME CInv, IInv', NEW fid \in Known, NEW g \in Geoms, ChangeGeometry(fid, g)
    PROVE  CInv'
<1> DEFINE c == Command("geom", fid, OldGeom(fid), g)
<1>1. /\ Push(c) /\ phase = "idle" /\ phase' = "idle" /\ selected' = selected
      /\ UNCHANGED <<prov, nextId, ok>>
  BY DEF ChangeGeometry, Editing, store
<1>2. (fid \in NewIds /\ buf.added[fid] \in Feats) \/ fid \in ProviderIds
  BY Basics, KnownIds, IdKinds DEF ChangeGeometry
<1>3. c \in Commands /\ c.op = "geom" /\ c.fid = fid /\ c.old = OldGeom(fid)
  <2>1. CASE fid \in NewIds
    <3>1. buf.added[fid] \in Feats
      BY <1>2, <2>1, IdKinds
    <3>2. OldGeom(fid) \in Geoms \union {NoGeom}
      BY <2>1, <3>1, IdKinds DEF OldGeom, Feats
    <3>3. c \in Kind("geom", NewIds, Geoms \union {NoGeom}, Geoms)
      BY <2>1, <3>2 DEF Command, Kind
    <3> QED BY <3>3 DEF Commands, Command
  <2>2. CASE fid \in ProviderIds
    <3>1. OldGeom(fid) \in Geoms \union {None}
      <4> cache \in Geometries
        BY Basics DEF TypeOK
      <4> QED BY <2>2, IdKinds DEF OldGeom, Geometries, Fids
    <3>2. c \in Kind("geom", ProviderIds, Geoms \union {None}, Geoms)
      BY <2>2, <3>1 DEF Command, Kind
    <3> QED BY <3>2 DEF Commands, Command
  <2> QED BY <1>2, <2>1, <2>2
<1>4. Recorded(c)
  BY <1>3, IdKinds DEF Recorded, OldGeom
<1> HIDE DEF c
<1>5. buf' = Redo(c, buf) /\ exact' = exact
  BY <1>1 DEF Push
<1> QED BY <1>1, <1>3, <1>4, <1>5, PushStacks, StackedKeeps

LEMMA ChangeAttributeValueKeepsC ==
    ASSUME CInv, IInv', NEW fid \in Known, NEW v \in Vals, ChangeAttributeValue(fid, v)
    PROVE  CInv'
<1> DEFINE old == IF IsNew(fid) THEN buf.added[fid].attr ELSE buf.attrs[fid]
<1> DEFINE c == Command("attr", fid, old, v)
<1>1. /\ Push(c) /\ phase = "idle" /\ phase' = "idle" /\ selected' = selected
      /\ UNCHANGED <<prov, nextId, ok>>
  BY DEF ChangeAttributeValue, Editing, store
<1>2. (fid \in NewIds /\ buf.added[fid] \in Feats) \/ fid \in ProviderIds
  BY Basics, KnownIds, IdKinds DEF ChangeAttributeValue
<1>3. c \in Commands /\ c.op = "attr" /\ c.fid = fid /\ c.old = old
  <2>1. CASE fid \in NewIds
    <3>1. buf.added[fid] \in Feats
      BY <1>2, <2>1, IdKinds
    <3>2. old \in Vals \union {Invalid}
      BY <2>1, <3>1, IdKinds DEF Feats
    <3>3. c \in Kind("attr", NewIds, Vals \union {Invalid}, Vals)
      BY <2>1, <3>2 DEF Command, Kind
    <3> QED BY <3>3 DEF Commands, Command
  <2>2. CASE fid \in ProviderIds
    <3>1. old \in Vals \union {None}
      BY <2>2, IdKinds, Basics
    <3>2. c \in Kind("attr", ProviderIds, Vals \union {None}, Vals)
      BY <2>2, <3>1 DEF Command, Kind
    <3> QED BY <3>2 DEF Commands, Command
  <2> QED BY <1>2, <2>1, <2>2
<1>4. Recorded(c)
  BY <1>3, IdKinds DEF Recorded
<1> HIDE DEF c
<1>5. buf' = Redo(c, buf) /\ exact' = exact
  BY <1>1 DEF Push
<1> QED BY <1>1, <1>3, <1>4, <1>5, PushStacks, StackedKeeps

LEMMA BeginEditCommandKeepsC ==
    ASSUME CInv, IInv', BeginEditCommand
    PROVE  CInv'
<1>1. /\ cmds' = Append(Applied, Marker) /\ index' = index + 1 /\ phase = "idle" /\ phase' = "idle"
      /\ buf' = buf /\ exact' = exact /\ selected' = selected /\ UNCHANGED <<prov, nextId, ok>>
  BY DEF BeginEditCommand, Editing, store
<1>2. Marker \in Commands /\ Marker.op = "macro" /\ Marker.old = None
  BY DEF Commands, Marker, Command
<1>3. Stacked(Marker)
  <2>1. cmds \in Seq(Commands) /\ Len(cmds) \in Nat /\ index \in 0..Len(cmds)
    BY Basics
  <2>2. /\ Applied \in Seq(Commands) /\ Len(Applied) = index
        /\ \A i \in 1..index : Applied[i] = cmds[i]
    BY <2>1, SubSeqProperties DEF Applied
  <2>3. /\ Len(cmds') = index + 1 /\ cmds'[index + 1] = Marker
        /\ \A i \in 1..index : cmds'[i] = Applied[i]
    BY <1>1, <1>2, <2>1, <2>2, AppendProperties
  <2> QED BY <1>1, <2>2, <2>3 DEF Stacked
<1>4. Redo(Marker, buf) = buf
  BY <1>2 DEF Redo
<1>5. Recorded(Marker)
  BY <1>2 DEF Recorded
<1> QED BY <1>1, <1>2, <1>3, <1>4, <1>5, StackedKeeps

LEMMA StepBackKeepsC ==
    ASSUME CInv, IInv', StepBack
    PROVE  CInv'
<1>1. /\ phase \notin CommitPhases /\ phase' = phase
      /\ UNCHANGED <<cmds, prov, nextId, ok, exact, selected>>
  BY DEF StepBack, Walking, StackFrame, store, history, CommitPhases
<1>2. Stages' /\ DeletesStored' /\ IdsFresh'
  BY <1>1 DEF CInv, Stages, DeletesStored, IdsFresh, CommitPhases
<1> QED BY <1>2, StepBackKeepsCovered DEF CInv

LEMMA StepForwardKeepsC ==
    ASSUME CInv, IInv', StepForward
    PROVE  CInv'
<1>1. /\ phase \notin CommitPhases /\ phase' = phase
      /\ UNCHANGED <<cmds, prov, nextId, ok, exact, selected>>
  BY DEF StepForward, Walking, StackFrame, store, history, CommitPhases
<1>2. Stages' /\ DeletesStored' /\ IdsFresh'
  BY <1>1 DEF CInv, Stages, DeletesStored, IdsFresh, CommitPhases
<1> QED BY <1>2, StepForwardKeepsCovered DEF CInv

LEMMA SeenIdsAreGiven ==
    ASSUME CInv, NEW f \in Visible
    PROVE  f < nextId
<1>1. f \in NewIds => f < 0
  BY IdKinds DEF IsNew
<1>2. CASE f \in ProviderIds
  BY <1>2, SeenAreStored, Basics, IdsAssumption DEF CInv, IdsFresh
<1> QED BY <1>1, <1>2, Basics, BoundsAssumption DEF Visible, Fids, NewIds

LEMMA QuietStepKeepsC ==
    ASSUME CInv, IInv', QuietStep
    PROVE  CInv'
<1>1. /\ UNCHANGED <<cmds, index, buf, prov, nextId, ok, exact>>
      /\ phase \notin CommitPhases
      /\ phase' \notin {"attributes", "deletes", "adds", "finish"}
      /\ \A f \in selected' : f \in selected \/ f \in Visible
  <2>1. CASE \E fid \in Known : Select(fid)
    BY <2>1 DEF Select, store, stack, history, CommitPhases
  <2>2. CASE \E fid \in selected : Deselect(fid)
    BY <2>2 DEF Deselect, store, stack, history, CommitPhases
  <2>3. CASE EndEditCommand \/ DestroyEditCommand
    BY <2>3 DEF EndEditCommand, DestroyEditCommand, Editing, WalkTo, store, history, CommitPhases
  <2>4. CASE UndoCommand \/ RedoCommand \/ StepBackCrashes \/ Arrive
    BY <2>4 DEF UndoCommand, RedoCommand, StepBackCrashes, Walking, Arrive, WalkTo, store, stack,
                history, CommitPhases
  <2>5. CASE (\E extent \in Extents : RenderStart(extent))
               \/ (\E p \in {"rollback", "discard"} : RollBack(p)) \/ CommitChanges
    BY <2>5 DEF RenderStart, RollBack, CommitChanges, Editing, WalkTo, store, stack, history,
                CommitPhases
  <2> QED BY <2>1, <2>2, <2>3, <2>4, <2>5 DEF QuietStep
<1>2. Rooted' /\ Covered' /\ Stages' /\ DeletesStored'
  BY <1>1 DEF CInv, Rooted, Covered, Stages, DeletesStored, Starts
<1>3. IdsFresh'
  BY <1>1, SeenIdsAreGiven DEF CInv, IdsFresh
<1> QED BY <1>2, <1>3 DEF CInv

LEMMA RenderFinishKeepsC ==
    ASSUME CInv, IInv', RenderFinish
    PROVE  CInv'
<1>1. /\ UNCHANGED <<cmds, index, buf, prov, nextId, ok, selected, phase>>
      /\ phase \in {"closed", "idle"}
      /\ exact' => exact
  BY DEF RenderFinish, store, stack
<1> QED BY <1>1 DEF CInv, Rooted, Covered, Stages, DeletesStored, Starts, IdsFresh, CommitPhases

\* With an empty buffer and an empty stack there is nothing to take out.
LEMMA EmptyKeepsC ==
    ASSUME CInv, IInv', buf' = EmptyBuffer, cmds' = <<>>, phase' \in {"idle", "closed"},
           UNCHANGED <<prov, nextId, selected>>
    PROVE  CInv'
<1>1. Len(cmds') = 0
  OBVIOUS
<1>2. Rooted' /\ Covered' /\ Stages' /\ DeletesStored' /\ IdsFresh'
  BY <1>1 DEF CInv, Rooted, Covered, Stages, DeletesStored, IdsFresh, EmptyBuffer
<1> QED BY <1>2 DEF CInv

LEMMA OpenCloseKeepC ==
    ASSUME CInv, IInv', StartEditing \/ FinishRollBack
    PROVE  CInv'
<1>1. CASE StartEditing
  <2>1. cmds' = <<>>
    BY <1>1, Basics DEF StartEditing, StackOK, stack
  <2> QED BY <1>1, <2>1, EmptyKeepsC DEF StartEditing, store
<1>2. CASE FinishRollBack /\ phase = "discard"
  BY <1>2, EmptyKeepsC DEF FinishRollBack, CloseBuffer, ClearStack, store
<1>3. CASE FinishRollBack /\ phase # "discard"
  <2>1. /\ UNCHANGED <<cmds, index, buf, prov, nextId, ok, exact, selected>>
        /\ phase \notin CommitPhases /\ phase' = "idle"
    BY <1>3 DEF FinishRollBack, store, stack, history, CommitPhases
  <2> QED BY <2>1 DEF CInv, Rooted, Covered, Stages, DeletesStored, Starts, IdsFresh
<1> QED BY <1>1, <1>2, <1>3

-----------------------------------------------------------------------------
(* The stages of a commit *)

\* A stage only takes things out of the buffer, and gives the provider no feature an id
\* it does not count.
LEMMA StageKeepsC ==
    ASSUME CInv, IInv', phase \in CommitPhases, phase' \in CommitPhases, Stages',
           UNCHANGED <<cmds, index, exact>>,
           \A f \in ProviderIds :
               /\ f \in buf'.deleted => f \in buf.deleted
               /\ buf'.geoms[f] # None => buf.geoms[f] # None
               /\ buf'.attrs[f] # None => buf.attrs[f] # None,
           IdsFresh'
    PROVE  CInv'
<1>1. Rooted' /\ Covered' /\ DeletesStored'
  BY DEF CInv, Rooted, Covered, DeletesStored, Starts
<1> QED BY <1>1 DEF CInv

LEMMA EmptyMaps ==
    /\ \A f \in ProviderIds : EmptyBuffer.geoms[f] = None /\ EmptyBuffer.attrs[f] = None
    /\ \A f \in NewIds : EmptyBuffer.added[f] = None
    /\ EmptyBuffer.deleted = {}
  BY DEF EmptyBuffer

\* The provider changes features it has, and no others.
LEMMA ChangedInPlace ==
    ASSUME CInv, NEW p \in [ProviderIds -> Feats \union {None}], NEW f \in ProviderIds
    PROVE  /\ p[f] = None => WithGeoms(p)[f] = None /\ WithAttrs(p)[f] = None
           /\ p[f] # None =>
                /\ WithGeoms(p)[f] # None /\ WithAttrs(p)[f] # None
                /\ WithGeoms(p)[f].geom = IF buf.geoms[f] = None THEN p[f].geom ELSE buf.geoms[f]
                /\ WithGeoms(p)[f].attr = p[f].attr
                /\ WithAttrs(p)[f].attr = IF buf.attrs[f] = None THEN p[f].attr ELSE buf.attrs[f]
                /\ WithAttrs(p)[f].geom = p[f].geom
<1>1. CASE p[f] = None
  BY <1>1 DEF WithGeoms, WithAttrs
<1>2. CASE p[f] # None
  <2>1. p[f] \in Feats
    BY <1>2
  <2>2. /\ WithGeoms(p)[f] = IF buf.geoms[f] # None THEN [p[f] EXCEPT !.geom = buf.geoms[f]] ELSE p[f]
        /\ WithAttrs(p)[f] = IF buf.attrs[f] # None THEN [p[f] EXCEPT !.attr = buf.attrs[f]] ELSE p[f]
    BY <1>2 DEF WithGeoms, WithAttrs, ChangedGeoms, ChangedAttrs
  <2>3. WithGeoms(p)[f] \in Feats /\ WithAttrs(p)[f] \in Feats
    <3>1. /\ buf.geoms[f] # None => [p[f] EXCEPT !.geom = buf.geoms[f]] \in Feats
          /\ buf.attrs[f] # None => [p[f] EXCEPT !.attr = buf.attrs[f]] \in Feats
      BY <2>1, Basics DEF Feats
    <3> QED BY <2>1, <2>2, <3>1
  <2> QED BY <1>2, <2>1, <2>2, <2>3, FeatsAreNotNone DEF Feats
<1> QED BY <1>1, <1>2

\* What the readers of the layer see is the same before and after.
SameView == selected' = selected /\ \A f \in Fids : Overlay(buf', prov', f) = Overlay(buf, prov, f)

LEMMA SameViewIsShown ==
    ASSUME SameView
    PROVE  SameShown
<1>1. View' = View
  BY DEF SameView, View
<1> QED BY <1>1 DEF SameView, SameShown, Shown

LEMMA CommitGeometriesKeepsC ==
    ASSUME CInv, IInv', CommitGeometries
    PROVE  CInv' /\ SameView
<1>1. /\ phase = "geometries" /\ phase' = "attributes"
      /\ UNCHANGED <<nextId, selected, caps, cmds, index, exact>>
  BY DEF CommitGeometries, StageFrame, stack, history
<1>2. CASE /\ ~Together
           /\ Saved(WithGeoms(prov), [buf EXCEPT !.geoms = EmptyBuffer.geoms])
  <2>1. /\ prov' = WithGeoms(prov) /\ buf'.geoms = EmptyBuffer.geoms
        /\ buf'.deleted = buf.deleted /\ buf'.attrs = buf.attrs /\ buf'.added = buf.added
    BY <1>2, Basics DEF Saved, Buffers
  <2>2. ASSUME NEW f \in Fids
        PROVE  Overlay(buf', prov', f) = Overlay(buf, prov, f)
    <3>1. CASE f \in NewIds
      BY <2>1, <3>1, IdKinds DEF Overlay
    <3>2. CASE f \in ProviderIds
      <4>1. prov \in [ProviderIds -> Feats \union {None}] /\ buf'.geoms[f] = None
        BY <2>1, <3>2, Basics, EmptyMaps
      <4> QED BY <2>1, <3>2, <4>1, ChangedInPlace, IdKinds DEF Overlay
    <3> QED BY <3>1, <3>2 DEF Fids
  <2>3. Stages'
    BY <1>1, <2>1, EmptyMaps DEF Stages, ChangedGeoms
  <2>4. IdsFresh'
    BY <1>1, <2>1, Basics, ChangedInPlace DEF CInv, IdsFresh
  <2> QED BY <1>1, <2>1, <2>2, <2>3, <2>4, EmptyMaps, StageKeepsC DEF SameView, CommitPhases
<1>3. CASE Refused \/ (Skipped /\ (ChangedGeoms = {} \/ Together))
  <2>1. UNCHANGED <<prov, buf>>
    BY <1>3 DEF Refused, Skipped
  <2>2. Stages'
    BY <1>1, <1>3, <2>1 DEF Refused, Stages, ChangedGeoms, ChangedAttrs, Together
  <2>3. IdsFresh'
    BY <1>1, <2>1 DEF CInv, IdsFresh
  <2> QED BY <1>1, <2>1, <2>2, <2>3, StageKeepsC DEF SameView, CommitPhases
<1> QED BY <1>2, <1>3 DEF CommitGeometries

LEMMA CommitAttributesKeepsC ==
    ASSUME CInv, IInv', CommitAttributes
    PROVE  CInv' /\ SameView
<1>1. /\ phase = "attributes" /\ phase' = "deletes"
      /\ UNCHANGED <<nextId, selected, caps, cmds, index, exact>>
  BY DEF CommitAttributes, StageFrame, stack, history
<1>2. CASE Saved(WithAttrs(WithGeoms(prov)),
                 [buf EXCEPT !.geoms = EmptyBuffer.geoms, !.attrs = EmptyBuffer.attrs])
  <2>1. /\ prov' = WithAttrs(WithGeoms(prov))
        /\ buf'.geoms = EmptyBuffer.geoms /\ buf'.attrs = EmptyBuffer.attrs
        /\ buf'.deleted = buf.deleted /\ buf'.added = buf.added
    BY <1>2, Basics DEF Saved, Buffers
  <2>2. /\ prov \in [ProviderIds -> Feats \union {None}]
        /\ WithGeoms(prov) \in [ProviderIds -> Feats \union {None}]
    BY Basics, WithTypes
  <2>3. ASSUME NEW f \in ProviderIds
        PROVE  /\ prov[f] = None => prov'[f] = None
               /\ prov[f] # None =>
                    /\ prov'[f] # None
                    /\ prov'[f].geom = IF buf.geoms[f] = None THEN prov[f].geom ELSE buf.geoms[f]
                    /\ prov'[f].attr = IF buf.attrs[f] = None THEN prov[f].attr ELSE buf.attrs[f]
    BY <2>1, <2>2, ChangedInPlace
  <2>4. ASSUME NEW f \in Fids
        PROVE  Overlay(buf', prov', f) = Overlay(buf, prov, f)
    <3>1. CASE f \in NewIds
      BY <2>1, <3>1, IdKinds DEF Overlay
    <3>2. CASE f \in ProviderIds
      BY <2>1, <2>3, <3>2, IdKinds, EmptyMaps DEF Overlay
    <3> QED BY <3>1, <3>2 DEF Fids
  <2>5. Stages'
    BY <1>1, <2>1, EmptyMaps DEF Stages, ChangedGeoms, ChangedAttrs
  <2>6. IdsFresh'
    BY <1>1, <2>3 DEF CInv, IdsFresh
  <2> QED BY <1>1, <2>1, <2>4, <2>5, <2>6, EmptyMaps, StageKeepsC DEF SameView, CommitPhases
<1>3. CASE ~Together /\ Saved(WithAttrs(prov), [buf EXCEPT !.attrs = EmptyBuffer.attrs])
  <2>1. /\ prov' = WithAttrs(prov) /\ buf'.attrs = EmptyBuffer.attrs /\ ok' = ok
        /\ buf'.deleted = buf.deleted /\ buf'.geoms = buf.geoms /\ buf'.added = buf.added
    BY <1>3, Basics DEF Saved, Buffers
  <2>2. ASSUME NEW f \in Fids
        PROVE  Overlay(buf', prov', f) = Overlay(buf, prov, f)
    <3>1. CASE f \in NewIds
      BY <2>1, <3>1, IdKinds DEF Overlay
    <3>2. CASE f \in ProviderIds
      <4>1. prov \in [ProviderIds -> Feats \union {None}] /\ buf'.attrs[f] = None
        BY <2>1, <3>2, Basics, EmptyMaps
      <4> QED BY <2>1, <3>2, <4>1, ChangedInPlace, IdKinds DEF Overlay
    <3> QED BY <3>1, <3>2 DEF Fids
  <2>3. Stages'
    <3>1. ok => ChangedGeoms = {}
      BY <1>1, <1>3 DEF CInv, Stages
    <3> QED BY <1>1, <2>1, <3>1, EmptyMaps DEF Stages, ChangedGeoms, ChangedAttrs
  <2>4. IdsFresh'
    BY <1>1, <2>1, Basics, ChangedInPlace DEF CInv, IdsFresh
  <2> QED BY <1>1, <2>1, <2>2, <2>3, <2>4, EmptyMaps, StageKeepsC DEF SameView, CommitPhases
<1>4. CASE Refused \/ (Skipped /\ ChangedAttrs = {} /\ ~Together)
  <2>1. UNCHANGED <<prov, buf>>
    BY <1>4 DEF Refused, Skipped
  <2>2. Stages'
    <3>1. CASE Refused
      BY <3>1 DEF Refused, Stages
    <3>2. CASE Skipped /\ ChangedAttrs = {} /\ ~Together
      <4>1. ok' = ok /\ ChangedGeoms' = ChangedGeoms /\ ChangedAttrs' = ChangedAttrs
        BY <2>1, <3>2 DEF Skipped, ChangedGeoms, ChangedAttrs
      <4> QED BY <1>1, <3>2, <4>1 DEF CInv, Stages
    <3> QED BY <1>4, <3>1, <3>2
  <2>3. IdsFresh'
    BY <1>1, <2>1 DEF CInv, IdsFresh
  <2> QED BY <1>1, <2>1, <2>2, <2>3, StageKeepsC DEF SameView, CommitPhases
<1> QED BY <1>2, <1>3, <1>4 DEF CommitAttributes

LEMMA CommitDeletesKeepsC ==
    ASSUME CInv, IInv', CommitDeletes
    PROVE  CInv' /\ SameView
<1> DEFINE p == [f \in ProviderIds |-> IF f \in buf.deleted THEN None ELSE prov[f]]
<1> DEFINE b == [buf EXCEPT !.deleted = {},
                   !.geoms = [f \in ProviderIds |-> IF f \in buf.deleted THEN None ELSE @[f]],
                   !.attrs = [f \in ProviderIds |-> IF f \in buf.deleted THEN None ELSE @[f]]]
<1>1. /\ phase = "deletes" /\ phase' = "adds"
      /\ UNCHANGED <<nextId, selected, caps, cmds, index, exact>>
  BY DEF CommitDeletes, StageFrame, stack, history
<1>2. CASE Saved(p, b)
  <2>1. /\ buf'.deleted = {} /\ buf'.added = buf.added /\ ok' = ok
        /\ \A f \in ProviderIds :
              /\ prov'[f] = IF f \in buf.deleted THEN None ELSE prov[f]
              /\ buf'.geoms[f] = IF f \in buf.deleted THEN None ELSE buf.geoms[f]
              /\ buf'.attrs[f] = IF f \in buf.deleted THEN None ELSE buf.attrs[f]
    BY <1>2, Basics DEF Saved, Buffers
  <2>2. ASSUME NEW f \in Fids
        PROVE  Overlay(buf', prov', f) = Overlay(buf, prov, f)
    <3>1. CASE f \in NewIds
      BY <2>1, <3>1, IdKinds DEF Overlay
    <3>2. CASE f \in ProviderIds
      BY <2>1, <3>2, IdKinds DEF Overlay
    <3> QED BY <3>1, <3>2 DEF Fids
  <2>3. Stages'
    BY <1>1, <2>1 DEF CInv, Stages, ChangedGeoms, ChangedAttrs
  <2>4. IdsFresh'
    BY <1>1, <2>1 DEF CInv, IdsFresh
  <2> QED BY <1>1, <2>1, <2>2, <2>3, <2>4, StageKeepsC DEF SameView, CommitPhases
<1>3. CASE Refused \/ (Skipped /\ ~(ok /\ buf.deleted # {}))
  <2>1. UNCHANGED <<prov, buf>>
    BY <1>3 DEF Refused, Skipped
  <2>2. Stages'
    <3>1. CASE Refused
      BY <3>1 DEF Refused, Stages
    <3>2. CASE Skipped /\ ~(ok /\ buf.deleted # {})
      <4>1. ok' = ok /\ ChangedGeoms' = ChangedGeoms /\ ChangedAttrs' = ChangedAttrs
        BY <2>1, <3>2 DEF Skipped, ChangedGeoms, ChangedAttrs
      <4> QED BY <1>1, <2>1, <3>2, <4>1 DEF CInv, Stages
    <3> QED BY <1>3, <3>1, <3>2
  <2>3. IdsFresh'
    BY <1>1, <2>1 DEF CInv, IdsFresh
  <2> QED BY <1>1, <2>1, <2>2, <2>3, StageKeepsC DEF SameView, CommitPhases
<1> QED BY <1>2, <1>3 DEF CommitDeletes

-----------------------------------------------------------------------------
(* The ids of the features a commit adds *)

LEMMA FiniteIds == IsFiniteSet(ProviderIds) /\ IsFiniteSet(NewIds) /\ IsFiniteSet(Fids)
<1>1. -(MaxNew + 1) \in Int /\ -2 \in Int
  BY BoundsAssumption
<1>2. IsFiniteSet(NewIds)
  BY <1>1, FS_Interval DEF NewIds
<1> QED BY <1>2, IdsAssumption, FS_Union DEF Fids

\* The provider numbers the features in the order of the list, from the next id on.
LEMMA GivenInOrder ==
    ASSUME CInv
    PROVE  /\ IsFiniteSet(Added) /\ Cardinality(Added) \in Nat
           /\ \A f \in Added : /\ GivenId(f) \in Nat
                               /\ nextId <= GivenId(f)
                               /\ GivenId(f) < nextId + Cardinality(Added)
           /\ \A f, g \in Added : g > f => GivenId(g) < GivenId(f)
<1> DEFINE Later(f) == {g \in Added : g > f}
<1>1. IsFiniteSet(Added) /\ Cardinality(Added) \in Nat
  BY FiniteIds, FS_Subset, FS_CardinalityType DEF Added
<1>2. Added \subseteq Int
  BY BoundsAssumption DEF Added, NewIds
<1>3. ASSUME NEW f \in Added
      PROVE  /\ IsFiniteSet(Later(f)) /\ Cardinality(Later(f)) \in Nat
             /\ Cardinality(Later(f)) < Cardinality(Added)
  <2>1. Later(f) \in SUBSET Added
    OBVIOUS
  <2>2. f \notin Later(f)
    BY <1>2
  <2>3. Later(f) # Added
    BY <2>2
  <2>4. /\ IsFiniteSet(Later(f)) /\ Cardinality(Later(f)) <= Cardinality(Added)
        /\ Cardinality(Added) # Cardinality(Later(f))
    BY <1>1, <2>1, <2>3, FS_Subset
  <2>5. Cardinality(Later(f)) \in Nat
    BY <2>4, FS_CardinalityType
  <2> QED BY <1>1, <2>4, <2>5
<1>4. ASSUME NEW f \in Added, NEW g \in Added, g > f
      PROVE  Cardinality(Later(g)) < Cardinality(Later(f))
  <2>1. Later(g) \in SUBSET Later(f)
    <3>1. SUFFICES ASSUME NEW h \in Added, h > g PROVE h > f
      OBVIOUS
    <3>2. f \in Int /\ g \in Int /\ h \in Int
      BY <1>2
    <3> QED BY <1>4, <3>1, <3>2
  <2>2. g \in Later(f) /\ g \notin Later(g)
    BY <1>2, <1>4
  <2>3. Later(g) # Later(f)
    BY <2>2
  <2>4. /\ Cardinality(Later(g)) <= Cardinality(Later(f))
        /\ Cardinality(Later(f)) # Cardinality(Later(g))
    BY <1>3, <2>1, <2>3, FS_Subset
  <2> QED BY <1>3, <2>4
<1>5. nextId \in Nat
  BY Basics
<1>6. \A f \in Added : GivenId(f) = nextId + Cardinality(Later(f))
  BY DEF GivenId
<1> HIDE DEF Later
<1>7. \A f \in Added : /\ GivenId(f) \in Nat
                       /\ nextId <= GivenId(f)
                       /\ GivenId(f) < nextId + Cardinality(Added)
  BY <1>1, <1>3, <1>5, <1>6
<1>8. \A f, g \in Added : g > f => GivenId(g) < GivenId(f)
  <2>1. SUFFICES ASSUME NEW f \in Added, NEW g \in Added, g > f PROVE GivenId(g) < GivenId(f)
    OBVIOUS
  <2> QED BY <1>3, <1>4, <1>5, <1>6, <2>1
<1> QED BY <1>1, <1>7, <1>8

\* No two features get the same id, and each id gets its feature.
LEMMA GivenOnce ==
    ASSUME CInv
    PROVE  /\ \A f, g \in Added : GivenId(f) = GivenId(g) => f = g
           /\ \A f \in Added : NewFeature(GivenId(f)) = buf.added[f]
<1>1. ASSUME NEW f \in Added, NEW g \in Added, GivenId(f) = GivenId(g)
      PROVE  f = g
  <2>1. f \in Int /\ g \in Int
    BY BoundsAssumption DEF Added, NewIds
  <2>2. CASE f > g
    BY <1>1, <2>2, GivenInOrder
  <2>3. CASE g > f
    BY <1>1, <2>3, GivenInOrder
  <2> QED BY <2>1, <2>2, <2>3
<1>2. ASSUME NEW f \in Added
      PROVE  NewFeature(GivenId(f)) = buf.added[f]
  <2> DEFINE g == CHOOSE g \in Added : GivenId(g) = GivenId(f)
  <2>1. g \in Added /\ GivenId(g) = GivenId(f)
    OBVIOUS
  <2>2. g = f
    BY <1>1, <2>1
  <2> QED BY <2>2 DEF NewFeature
<1> QED BY <1>1, <1>2

\* The ids given are free: the provider has no feature of theirs, and none is selected.
LEMMA GivenAreFree ==
    ASSUME CInv, NEW i \in GivenIds
    PROVE  i \in Nat /\ i >= nextId /\ i < nextId + Cardinality(Added) /\ i \notin selected /\ i \notin NewIds
             /\ (i \in ProviderIds => prov[i] = None)
<1>1. PICK f \in Added : i = GivenId(f)
  BY DEF GivenIds
<1>2. i \in Nat /\ i >= nextId /\ i < nextId + Cardinality(Added) /\ nextId \in Nat
  BY <1>1, GivenInOrder, Basics
<1>3. i \notin NewIds
  BY <1>2, BoundsAssumption DEF NewIds
<1>4. i \in selected => i < nextId
  BY DEF CInv, IdsFresh
<1> QED BY <1>2, <1>3, <1>4 DEF CInv, IdsFresh

\* With nothing deleted and nothing changed the layer shows what the provider has.
LEMMA BareView ==
    ASSUME NEW b \in Buffers, NEW p \in [ProviderIds -> Feats \union {None}], b.deleted = {},
           \A f \in ProviderIds : b.geoms[f] = None /\ b.attrs[f] = None,
           NEW f \in ProviderIds
    PROVE  Overlay(b, p, f) = p[f]
<1>1. CASE p[f] = None
  BY <1>1, IdKinds DEF Overlay
<1>2. CASE p[f] # None
  <2>1. p[f] \in Feats
    BY <1>2
  <2>2. p[f] = [geom |-> p[f].geom, attr |-> p[f].attr]
    BY <2>1 DEF Feats
  <2> QED BY <1>2, <2>2, IdKinds DEF Overlay
<1> QED BY <1>1, <1>2

\* The features are added under the ids the provider gives them.
LEMMA AddsSaved ==
    ASSUME CInv, IInv', phase = "adds", phase' = "finish", ok, GivenIds \subseteq ProviderIds,
           prov' = [i \in ProviderIds |-> IF i \in GivenIds THEN NewFeature(i) ELSE prov[i]],
           buf' = [buf EXCEPT !.added = EmptyBuffer.added], ok' = ok,
           selected' = UpdatedSelection, nextId' = nextId + Cardinality(Added),
           UNCHANGED <<cmds, index, exact>>
    PROVE  CInv' /\ SameShown
<1>1. /\ buf' \in Buffers /\ prov' \in [ProviderIds -> Feats \union {None}]
  BY DEF IInv, TypeOK
<1>2. /\ buf.deleted = {}
      /\ \A f \in ProviderIds : buf.geoms[f] = None /\ buf.attrs[f] = None
  BY DEF CInv, Stages, ChangedGeoms, ChangedAttrs
<1>3. /\ buf'.deleted = buf.deleted /\ buf'.geoms = buf.geoms /\ buf'.attrs = buf.attrs
      /\ buf'.added = EmptyBuffer.added
  BY Basics DEF Buffers
<1>4. /\ \A f \in ProviderIds : View[f] = prov[f] /\ View'[f] = prov'[f]
      /\ \A f \in NewIds : View[f] = buf.added[f] /\ View'[f] = None
  <2>1. ASSUME NEW f \in ProviderIds
        PROVE  View[f] = prov[f] /\ View'[f] = prov'[f]
    <3>1. View[f] = Overlay(buf, prov, f) /\ View'[f] = Overlay(buf', prov', f)
      BY DEF View, Fids
    <3>2. Overlay(buf, prov, f) = prov[f]
      BY <1>2, Basics, BareView
    <3>3. /\ buf'.deleted = {}
          /\ \A g \in ProviderIds : buf'.geoms[g] = None /\ buf'.attrs[g] = None
      BY <1>2, <1>3
    <3>4. Overlay(buf', prov', f) = prov'[f]
      BY <1>1, <3>3, BareView
    <3> QED BY <3>1, <3>2, <3>4
  <2>2. ASSUME NEW f \in NewIds
        PROVE  View[f] = buf.added[f] /\ View'[f] = None
    BY <1>3, IdKinds, EmptyMaps DEF View, Fids, Overlay
  <2> QED BY <2>1, <2>2
<1>5. /\ \A f \in Added : /\ GivenId(f) \in GivenIds /\ GivenId(f) \in ProviderIds
                          /\ prov[GivenId(f)] = None
                          /\ prov'[GivenId(f)] = buf.added[f]
      /\ \A f \in ProviderIds : f \notin GivenIds => prov'[f] = prov[f]
  <2>1. ASSUME NEW f \in Added
        PROVE  /\ GivenId(f) \in GivenIds /\ GivenId(f) \in ProviderIds
               /\ prov[GivenId(f)] = None
               /\ prov'[GivenId(f)] = buf.added[f]
    <3>1. GivenId(f) \in GivenIds /\ GivenId(f) \in ProviderIds
      BY DEF GivenIds
    <3> QED BY <3>1, GivenAreFree, GivenOnce
  <2> QED BY <2>1
<1>6. /\ \A f \in Added : GivenId(f) \in selected' <=> f \in selected
      /\ \A f \in Fids : f \notin Added /\ f \notin GivenIds => (f \in selected' <=> f \in selected)
  <2>1. ASSUME NEW f \in Added
        PROVE  GivenId(f) \in selected' <=> f \in selected
    <3>1. GivenId(f) \notin selected
      BY <1>5, GivenAreFree
    <3> QED BY <3>1, GivenOnce DEF UpdatedSelection
  <2>2. ASSUME NEW f \in Fids, f \notin Added, f \notin GivenIds
        PROVE  f \in selected' <=> f \in selected
    BY <2>2 DEF UpdatedSelection, GivenIds
  <2> QED BY <2>1, <2>2
<1>7. SameShown
  <2>1. SUFFICES ASSUME NEW feat \in Feats, NEW sel \in BOOLEAN
                 PROVE  Cardinality(Shown(View, selected, feat, sel))
                          = Cardinality(Shown(View', selected', feat, sel))
    BY DEF SameShown
  <2> DEFINE S == Shown(View, selected, feat, sel)
             T == Shown(View', selected', feat, sel)
             M == [f \in S |-> IF f \in Added THEN GivenId(f) ELSE f]
  <2>2. feat # None
    BY FeatsAreNotNone
  <2>3. /\ \A f \in Fids : f \in S <=> View[f] = feat /\ (f \in selected <=> sel)
        /\ \A f \in Fids : f \in T <=> View'[f] = feat /\ (f \in selected' <=> sel)
        /\ S \subseteq Fids /\ T \subseteq Fids
    BY DEF Shown
  <2>4. \A f \in Added : f \in NewIds /\ f \in Fids
    BY DEF Added, Fids
  <2>5. \A f \in S : f \in Added \/ (f \in ProviderIds /\ f \notin GivenIds /\ f \notin Added)
    <3>1. SUFFICES ASSUME NEW f \in S, f \notin Added PROVE f \in ProviderIds /\ f \notin GivenIds
      OBVIOUS
    <3>2. f \notin NewIds
      BY <1>4, <2>2, <2>3, <3>1 DEF Added
    <3>3. f \in ProviderIds
      BY <2>3, <3>1, <3>2 DEF Fids
    <3>4. prov[f] # None
      BY <1>4, <2>2, <2>3, <3>1, <3>3
    <3> QED BY <3>3, <3>4, GivenAreFree
  <2>6. \A f \in S : M[f] \in T
    <3>1. SUFFICES ASSUME NEW f \in S PROVE M[f] \in T
      OBVIOUS
    <3>2. CASE f \in Added
      <4>1. M[f] = GivenId(f) /\ GivenId(f) \in Fids
        BY <1>5, <3>2 DEF Fids
      <4>2. View'[GivenId(f)] = feat
        BY <1>4, <1>5, <2>3, <2>4, <3>1, <3>2
      <4>3. GivenId(f) \in selected' <=> sel
        BY <1>6, <2>3, <2>4, <3>1, <3>2
      <4> QED BY <2>3, <4>1, <4>2, <4>3
    <3>3. CASE f \in ProviderIds /\ f \notin GivenIds /\ f \notin Added
      <4>1. M[f] = f /\ f \in Fids
        BY <3>3 DEF Fids
      <4>2. View'[f] = feat
        BY <1>4, <1>5, <2>3, <3>1, <3>3, <4>1
      <4>3. f \in selected' <=> sel
        BY <1>6, <2>3, <3>1, <3>3, <4>1
      <4> QED BY <2>3, <4>1, <4>2, <4>3
    <3> QED BY <2>5, <3>1, <3>2, <3>3
  <2>7. \A f, g \in S : M[f] = M[g] => f = g
    <3>1. SUFFICES ASSUME NEW f \in S, NEW g \in S, M[f] = M[g] PROVE f = g
      OBVIOUS
    <3>2. CASE f \in Added /\ g \in Added
      BY <3>1, <3>2, GivenOnce
    <3>3. CASE f \notin Added /\ g \notin Added
      BY <3>1, <3>3
    <3>4. CASE f \in Added /\ g \notin Added
      BY <1>5, <2>5, <3>1, <3>4
    <3>5. CASE f \notin Added /\ g \in Added
      BY <1>5, <2>5, <3>1, <3>5
    <3> QED BY <3>2, <3>3, <3>4, <3>5
  <2>8. \A t \in T : \E f \in S : M[f] = t
    <3>1. SUFFICES ASSUME NEW t \in T PROVE \E f \in S : M[f] = t
      OBVIOUS
    <3>2. t \in Fids /\ View'[t] = feat /\ (t \in selected' <=> sel)
      BY <2>3
    <3>3. t \in ProviderIds /\ prov'[t] = feat /\ t \notin Added
      <4>1. t \notin NewIds
        BY <1>4, <2>2, <3>2
      <4> QED BY <1>4, <2>4, <3>2, <4>1 DEF Fids
    <3>4. CASE t \in GivenIds
      <4>1. PICK f \in Added : t = GivenId(f)
        BY <3>4 DEF GivenIds
      <4>2. View[f] = feat
        BY <1>4, <1>5, <2>4, <3>3, <4>1
      <4>3. f \in selected <=> sel
        BY <1>6, <3>2, <4>1
      <4>4. f \in S
        BY <2>3, <2>4, <4>2, <4>3
      <4> QED BY <4>1, <4>4
    <3>5. CASE t \notin GivenIds
      <4>1. View[t] = feat
        BY <1>4, <1>5, <3>3, <3>5
      <4>2. t \in selected <=> sel
        BY <1>6, <3>2, <3>3, <3>5
      <4>3. t \in S
        BY <2>3, <3>2, <4>1, <4>2
      <4> QED BY <3>3, <4>3
    <3> QED BY <3>4, <3>5
  <2> HIDE DEF S, T
  <2>9. M \in [S -> T]
    BY <2>6
  <2> HIDE DEF M
  <2>10. ExistsBijection(S, T)
    BY <2>7, <2>8, <2>9, Fun_IsBij DEF ExistsBijection
  <2>11. IsFiniteSet(S)
    BY <2>3, FiniteIds, FS_Subset
  <2>12. Cardinality(T) = Cardinality(S)
    BY <2>10, <2>11, FS_Bijection
  <2> QED BY <2>12 DEF S, T
<1>8. Stages'
  BY <1>2, <1>3, EmptyMaps DEF Stages, ChangedGeoms, ChangedAttrs, Added
<1>9. IdsFresh'
  <2>1. nextId \in Nat /\ Cardinality(Added) \in Nat /\ nextId' = nextId + Cardinality(Added)
    BY Basics, GivenInOrder
  <2>2. ASSUME NEW f \in ProviderIds, f >= nextId'
        PROVE  prov'[f] = None
    <3>1. f \in Nat /\ f >= nextId
      BY <2>1, <2>2, IdsAssumption
    <3>2. f \notin GivenIds
      BY <2>1, <2>2, <3>1, GivenAreFree
    <3> QED BY <1>5, <3>1, <3>2 DEF CInv, IdsFresh
  <2>3. ASSUME NEW f \in selected'
        PROVE  f < nextId'
    <3>1. CASE f \in selected
      <4>1. f \in Int /\ f < nextId
        BY <3>1, Basics, IdsAssumption, BoundsAssumption DEF CInv, IdsFresh, Fids, NewIds
      <4> QED BY <2>1, <4>1
    <3>2. CASE f \in GivenIds
      BY <2>1, <3>2, GivenAreFree
    <3> QED BY <3>1, <3>2 DEF UpdatedSelection, GivenIds
  <2> QED BY <2>2, <2>3 DEF IdsFresh
<1>10. CInv'
  BY <1>3, <1>8, <1>9, StageKeepsC DEF CommitPhases
<1> QED BY <1>7, <1>10

LEMMA CommitAddsKeepsC ==
    ASSUME CInv, IInv', CommitAdds
    PROVE  CInv' /\ SameShown
<1>1. /\ phase = "adds" /\ phase' = "finish" /\ UNCHANGED <<caps, cmds, index, exact>>
  BY DEF CommitAdds, StageFrame, stack, history
<1>2. CASE /\ ok /\ GivenIds \subseteq ProviderIds
           /\ Saved([i \in ProviderIds |-> IF i \in GivenIds THEN NewFeature(i) ELSE prov[i]],
                    [buf EXCEPT !.added = EmptyBuffer.added])
           /\ selected' = UpdatedSelection
           /\ nextId' = nextId + Cardinality(Added)
  BY <1>1, <1>2, AddsSaved DEF Saved
<1>3. CASE /\ Refused \/ (Skipped /\ ~(ok /\ Added # {}))
           /\ UNCHANGED <<nextId, selected>>
  <2>1. UNCHANGED <<prov, buf>>
    BY <1>3 DEF Refused, Skipped
  <2>2. Stages'
    <3>1. CASE Refused
      BY <3>1 DEF Refused, Stages
    <3>2. CASE Skipped /\ ~(ok /\ Added # {})
      <4>1. /\ ok' = ok /\ ChangedGeoms' = ChangedGeoms /\ ChangedAttrs' = ChangedAttrs
            /\ Added' = Added
        BY <2>1, <3>2 DEF Skipped, ChangedGeoms, ChangedAttrs, Added
      <4> QED BY <1>1, <2>1, <3>2, <4>1 DEF CInv, Stages
    <3> QED BY <1>3, <3>1, <3>2
  <2>3. IdsFresh'
    BY <1>3, <2>1 DEF CInv, IdsFresh
  <2>4. SameView
    BY <1>3, <2>1 DEF SameView
  <2> QED BY <1>1, <2>1, <2>2, <2>3, <2>4, StageKeepsC, SameViewIsShown DEF CommitPhases
<1> QED BY <1>2, <1>3 DEF CommitAdds

-----------------------------------------------------------------------------
(* The end of a commit *)

\* A commit that reports success leaves nothing in the buffer.
LEMMA SuccessEmpties ==
    ASSUME CInv, phase = "finish", ok
    PROVE  buf = EmptyBuffer
<1>1. buf \in Buffers /\ EmptyBuffer \in Buffers
  BY Basics, EmptyBufferType
<1>2. buf.deleted = {} /\ ChangedGeoms = {} /\ ChangedAttrs = {} /\ Added = {}
  BY DEF CInv, Stages
<1>3. buf.geoms = EmptyBuffer.geoms /\ buf.attrs = EmptyBuffer.attrs /\ buf.added = EmptyBuffer.added
  BY <1>2, Basics DEF ChangedGeoms, ChangedAttrs, Added, EmptyBuffer
<1> QED BY <1>1, <1>2, <1>3, EmptyMaps, SameFields

LEMMA FinishCommitKeepsC ==
    ASSUME CInv, IInv', FinishCommit
    PROVE  CInv' /\ SameView
<1>1. CASE ok
  <2>1. /\ buf' = EmptyBuffer /\ cmds' = <<>> /\ phase' = "closed" /\ phase = "finish"
        /\ UNCHANGED <<prov, nextId, selected>>
    BY <1>1 DEF FinishCommit, CloseBuffer, ClearStack, store
  <2>2. buf' = buf
    BY <1>1, <2>1, SuccessEmpties
  <2> QED BY <2>1, <2>2, EmptyKeepsC DEF SameView
<1>2. CASE ~ok
  <2>1. /\ UNCHANGED <<buf, cmds, index, prov, nextId, selected>>
        /\ phase' = "idle" /\ exact' = FALSE /\ ok' = TRUE
    BY <1>2 DEF FinishCommit, store, stack
  <2>2. Rooted' /\ Covered' /\ Stages' /\ DeletesStored' /\ IdsFresh'
    BY <2>1 DEF CInv, Rooted, Covered, Stages, DeletesStored, Starts, IdsFresh
  <2> QED BY <2>1, <2>2 DEF CInv, SameView
<1> QED BY <1>1, <1>2

-----------------------------------------------------------------------------
(* The theorems *)

LEMMA InitC == Init => CInv
<1> SUFFICES ASSUME Init PROVE CInv
  OBVIOUS
<1>1. cmds = <<>> /\ Len(cmds) = 0
  BY DEF Init
<1>2. Rooted /\ Covered /\ Stages /\ DeletesStored
  BY <1>1, EmptyMaps DEF Init, Rooted, Covered, Stages, DeletesStored
<1>3. IdsFresh
  BY DEF Init, IdsFresh
<1> QED BY <1>2, <1>3, InitInv DEF CInv

\* The stages of a commit, and nothing else a commit does.
CommitStep == \/ CommitGeometries \/ CommitAttributes
              \/ CommitDeletes \/ CommitAdds \/ FinishCommit

LEMMA CommitStepKeepsC ==
    ASSUME CInv, IInv', CommitStep
    PROVE  CInv' /\ SameShown
<1>1. CASE CommitGeometries
  BY <1>1, CommitGeometriesKeepsC, SameViewIsShown
<1>2. CASE CommitAttributes
  BY <1>2, CommitAttributesKeepsC, SameViewIsShown
<1>3. CASE CommitDeletes
  BY <1>3, CommitDeletesKeepsC, SameViewIsShown
<1>4. CASE CommitAdds
  BY <1>4, CommitAddsKeepsC
<1>5. CASE FinishCommit
  BY <1>5, FinishCommitKeepsC, SameViewIsShown
<1> QED BY <1>1, <1>2, <1>3, <1>4, <1>5 DEF CommitStep

LEMMA NextKeepsC == CInv /\ [Next]_vars => CInv'
<1> SUFFICES ASSUME CInv, [Next]_vars PROVE CInv'
  OBVIOUS
<1>1. IInv'
  BY NextKeeps DEF CInv
<1>2. CASE StartEditing \/ FinishRollBack
  BY <1>1, <1>2, OpenCloseKeepC
<1>3. CASE \E feat \in NewFeats : AddFeature(feat)
  BY <1>1, <1>3, AddFeatureKeepsC
<1>4. CASE \E fid \in Known : DeleteFeature(fid)
  BY <1>1, <1>4, DeleteFeatureKeepsC
<1>5. CASE \E fid \in Known : \E g \in Geoms : ChangeGeometry(fid, g)
  BY <1>1, <1>5, ChangeGeometryKeepsC
<1>6. CASE \E fid \in Known : \E v \in Vals : ChangeAttributeValue(fid, v)
  BY <1>1, <1>6, ChangeAttributeValueKeepsC
<1>7. CASE BeginEditCommand
  BY <1>1, <1>7, BeginEditCommandKeepsC
<1>8. CASE QuietStep
  BY <1>1, <1>8, QuietStepKeepsC
<1>9. CASE StepBack
  BY <1>1, <1>9, StepBackKeepsC
<1>10. CASE StepForward
  BY <1>1, <1>10, StepForwardKeepsC
<1>11. CASE CommitStep
  BY <1>1, <1>11, CommitStepKeepsC
<1>12. CASE RenderFinish
  BY <1>1, <1>12, RenderFinishKeepsC
<1>13. CASE UNCHANGED vars
  <2>1. UNCHANGED <<prov, nextId, buf, selected, cmds, index, phase, ok, exact, caps>>
    BY <1>13 DEF vars, store, stack, history
  <2>2. Rooted' /\ Covered' /\ DeletesStored' /\ IdsFresh'
    BY <2>1 DEF CInv, Rooted, Covered, DeletesStored, Starts, IdsFresh
  <2>3. Stages'
    BY <2>1 DEF CInv, Stages, ChangedGeoms, ChangedAttrs, Together, Added
  <2> QED BY <1>1, <2>2, <2>3 DEF CInv
<1> QED BY <1>2, <1>3, <1>4, <1>5, <1>6, <1>7, <1>8, <1>9, <1>10, <1>11, <1>12, <1>13
        DEF Next, QuietStep, CommitStep

\* Every reachable state satisfies the stronger invariant too.
THEOREM CommitInvariance == Spec => []CInv
  BY InitC, NextKeepsC, PTL DEF Spec

\* With everything undone nothing is left in the buffer, after commits that
\* failed half way and lost cache entries too: the assertions of rollBack() at
\* qgsvectorlayereditbuffer.cpp:660-664 can be relied on.
THEOREM RollbackIsComplete == Spec => []RollbackEmpties
<1>1. ASSUME CInv, index = 0, phase \notin CommitPhases
      PROVE  buf = EmptyBuffer
  <2>1. buf \in Buffers /\ EmptyBuffer \in Buffers
    BY <1>1, Basics, EmptyBufferType
  <2>2. \A op, f : ~Starts(index, op, f)
    BY <1>1 DEF Starts
  <2>3. /\ \A f \in ProviderIds : buf.geoms[f] = None /\ buf.attrs[f] = None
        /\ buf.deleted = {}
    BY <1>1, <2>2, Basics DEF CInv, Covered
  <2>4. buf.geoms = EmptyBuffer.geoms /\ buf.attrs = EmptyBuffer.attrs
    BY <1>1, <2>3, Basics DEF EmptyBuffer
  <2>5. buf.added = EmptyBuffer.added
    BY <1>1, Basics DEF AddedOK, StackOK, CommitPhases
  <2> QED BY <2>1, <2>3, <2>4, <2>5, EmptyMaps, SameFields
<1>2. CInv => RollbackEmpties
  BY <1>1 DEF RollbackEmpties
<1> QED BY <1>2, CommitInvariance, PTL

\* A commit that returns success has handed every change to the provider,
\* whatever the provider can do and whichever of its calls may fail: no stage
\* of QgsVectorLayerEditBuffer::commitChanges loses a failure of an earlier one.
THEOREM SuccessIsComplete == Spec => []SuccessSavesAll
<1>1. CInv => SuccessSavesAll
  BY SuccessEmpties DEF SuccessSavesAll
<1> QED BY <1>1, CommitInvariance, PTL

\* QgsVectorLayer::featureCount() agrees with what can be read from the layer
\* until a commit fails: each deleted feature is one the provider counts.
THEOREM FeatureCountIsExact == Spec => []FeatureCountExact
<1>1. ASSUME CInv, exact, phase \in {"closed", "idle"}
      PROVE  FeatureCount = Cardinality(Visible)
  <2> DEFINE stored == {f \in ProviderIds : prov[f] # None}
  <2>1. /\ buf.deleted \subseteq ProviderIds
        /\ \A f \in buf.deleted : prov[f] # None
    <3>1. ASSUME NEW f \in buf.deleted
          PROVE  prov[f] # None
      <4>1. f \in ProviderIds
        BY <1>1, Basics
      <4>2. PICK k \in 1..index : cmds[k].op = "delete" /\ cmds[k].fid = f
        BY <1>1, <4>1 DEF CInv, Covered, Starts
      <4>3. k \in 1..Len(cmds)
        BY <1>1, Basics
      <4> QED BY <1>1, <4>1, <4>2, <4>3 DEF CInv, DeletesStored, CommitPhases
    <3> QED BY <1>1, <3>1, Basics
  <2>2. Visible = (stored \ buf.deleted) \union Added
    <3>1. ASSUME NEW f \in NewIds
          PROVE  f \in Visible <=> f \in Added
      BY <3>1, IdKinds DEF Visible, View, Overlay, Added, Fids
    <3>2. ASSUME NEW f \in ProviderIds
          PROVE  f \in Visible <=> f \in stored \ buf.deleted
      <4>1. CASE f \in buf.deleted \/ prov[f] = None
        BY <3>2, <4>1, IdKinds DEF Visible, View, Overlay, Fids
      <4>2. CASE f \notin buf.deleted /\ prov[f] # None
        <5>1. prov[f] \in Feats
          BY <1>1, <3>2, <4>2, Basics
        <5>2. /\ buf.geoms[f] \in Geoms \union {None} /\ buf.attrs[f] \in Vals \union {None}
              /\ prov[f].geom \in Geoms \union {NoGeom} /\ prov[f].attr \in Vals \union {Invalid}
          BY <1>1, <3>2, <5>1, Basics DEF Feats
        <5>3. Overlay(buf, prov, f) \in Feats
          BY <3>2, <4>2, <5>2, IdKinds DEF Overlay, Feats
        <5> QED BY <3>2, <4>2, <5>3, FeatsAreNotNone DEF Visible, View, Fids
      <4> QED BY <4>1, <4>2
    <3>3. Visible \subseteq Fids /\ Added \subseteq NewIds /\ stored \subseteq ProviderIds
      BY DEF Visible, Added
    <3> QED BY <3>1, <3>2, <3>3, IdKinds DEF Fids
  <2>3. IsFiniteSet(stored) /\ IsFiniteSet(Added) /\ IsFiniteSet(stored \ buf.deleted)
    BY FiniteIds, FS_Subset, FS_Difference DEF Added
  <2>4. stored \intersect buf.deleted = buf.deleted
    BY <2>1
  <2>5. Cardinality(stored \ buf.deleted) = Cardinality(stored) - Cardinality(buf.deleted)
    BY <2>3, <2>4, FS_Difference
  <2>6. (stored \ buf.deleted) \intersect Added = {}
    BY IdKinds DEF Added
  <2>7. Cardinality(Visible) = Cardinality(stored \ buf.deleted) + Cardinality(Added)
    <3>1. Cardinality(Visible) = Cardinality(stored \ buf.deleted) + Cardinality(Added) - 0
      BY <2>2, <2>3, <2>6, FS_Union, FS_EmptySet
    <3>2. Cardinality(stored \ buf.deleted) \in Nat /\ Cardinality(Added) \in Nat
      BY <2>3, FS_CardinalityType
    <3> QED BY <3>1, <3>2
  <2>8. IsFiniteSet(buf.deleted)
    BY <2>1, FiniteIds, FS_Subset
  <2>9. Cardinality(stored) \in Nat /\ Cardinality(Added) \in Nat /\ Cardinality(buf.deleted) \in Nat
    BY <2>3, <2>8, FS_CardinalityType
  <2> QED BY <2>5, <2>7, <2>9 DEF FeatureCount
<1>2. CInv => FeatureCountExact
  BY <1>1 DEF FeatureCountExact, CountsVisible
<1> QED BY <1>2, CommitInvariance, PTL

\* No stage of a commit, saved, refused or skipped, changes what the layer
\* shows or which of the shown features are selected; the added ones are there
\* again under the ids the provider has given them.
THEOREM CommitsKeepTheView == Spec => CommitKeepsView
<1>1. ASSUME CInv, [Next]_vars
      PROVE  [(phase \in CommitPhases) => SameShown]_vars
  <2>1. SUFFICES ASSUME Next, phase \in CommitPhases PROVE SameShown
    BY <1>1
  <2>2. CommitStep
    BY <2>1 DEF Next, CommitStep, CommitPhases, StartEditing, AddFeature, DeleteFeature,
       ChangeGeometry, ChangeAttributeValue, Select, Deselect, BeginEditCommand, EndEditCommand,
       DestroyEditCommand, UndoCommand, RedoCommand, StepBack, StepBackCrashes, StepForward,
       Walking, Arrive, RollBack, FinishRollBack, CommitChanges, RenderStart, RenderFinish, Editing
  <2>3. IInv'
    BY <1>1, NextKeeps DEF CInv
  <2> QED BY <1>1, <2>2, <2>3, CommitStepKeepsC
<1>2. CInv /\ [Next]_vars => [(phase \in CommitPhases) => SameShown]_vars
  BY <1>1
<1> QED BY <1>2, CommitInvariance, PTL DEF Spec, CommitKeepsView
=============================================================================
