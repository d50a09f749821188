----------------------------- MODULE EditBuffer -----------------------------
(***************************************************************************)
(* Editing the features of a vector layer: the edit buffer                 *)
(* (qgsvectorlayereditbuffer.cpp), its undo commands                       *)
(* (qgsvectorlayerundocommand.cpp) on the layer's undo stack, the geometry *)
(* cache, the selection, commit in stages that may fail, rollback, and the *)
(* render jobs that replace the geometry cache.  The fields of the layer   *)
(* are fixed here; the features have one attribute.                        *)
(*                                                                         *)
(* The undo stack (QUndoStack) is a flat sequence of commands.  A macro is *)
(* a "macro" marker followed by its children, and "stops" are the          *)
(* positions undo and redo can halt at.  Undo and redo walk to their       *)
(* target one command at a time, since each command signals the change to  *)
(* the layer's observers; nothing else runs meanwhile.  The same holds for *)
(* the stages of a commit.                                                 *)
(***************************************************************************)
EXTENDS Integers, Sequences, FiniteSets

CONSTANTS
    ProviderIds,   \* feature ids the provider uses
    Stored,        \* the features of the provider when the layer is opened
    Geoms,         \* geometries
    Vals,          \* attribute values
    NoGeom,        \* the null geometry
    Invalid,       \* the invalid QVariant
    None,          \* no entry in a map
    CapSets,       \* capabilities a provider may have
    NewFeats,      \* the features users add
    Extents,       \* what may lie in the extent of a render job
    Selectable,    \* the features users select
    MaxNew,        \* bound: features added by a process
    MaxCmds,       \* bound: commands on the undo stack
    MaxCommits     \* bound: commits

Caps == {"ChangeFeatures", "ChangeGeometries", "ChangeAttributeValues",
         "AddFeatures", "DeleteFeatures"}
NewIds == -(MaxNew + 1) .. -2
Fids == ProviderIds \union NewIds
IsNew(fid) == fid < 0      \* FID_IS_NEW
Feats == [geom : Geoms \union {NoGeom}, attr : Vals \union {Invalid}]

ASSUME IdsAssumption == ProviderIds \subseteq Nat /\ IsFiniteSet(ProviderIds)
ASSUME StoredAssumption == Stored \in [ProviderIds -> Feats \union {None}]
ASSUME SentinelAssumption ==
    /\ NoGeom \notin Geoms \union {None}
    /\ Invalid \notin Vals \union {None}
    /\ None \notin Geoms \union Vals \union Feats
ASSUME CapsAssumption == CapSets \subseteq SUBSET Caps
ASSUME InputsAssumption == NewFeats \subseteq Feats /\ Extents \subseteq SUBSET Fids /\ Selectable \subseteq Fids
ASSUME BoundsAssumption == MaxNew \in Nat /\ MaxCmds \in Nat /\ MaxCommits \in Nat

VARIABLES
    caps,       \* provider->capabilities()
    prov,       \* the features of the provider
    nextId,     \* the id the provider gives to the next new feature
    buf,        \* the maps of the edit buffer
    cache,      \* the layer's QgsGeometryCache
    selected,   \* mSelectedFeatureIds
    mark,       \* addedIdLowWaterMark
    cmds,       \* the undo stack, flat
    index,      \* how many of cmds are applied
    stops,      \* positions undo and redo can halt at
    macro,      \* an edit command is open
    target,     \* where the walk along cmds goes to
    phase,      \* what the layer is doing
    ok,         \* success, the local of commitChanges(): TRUE outside
    crashed,    \* a null pointer was dereferenced
    commits,    \* how many commits were begun
    job,        \* the geometries a running render job will put in the cache
    hist,       \* history: buf at every position of cmds
    exact       \* history: no commit has failed and no render job has dropped a
                \* changed geometry from the cache since editing started

store == <<caps, prov, nextId>>
stack == <<cmds, index, stops, macro>>
history == <<hist, exact>>
vars == <<store, buf, cache, selected, mark, stack, target, phase, ok,
          crashed, commits, job, history>>

Buffers == [added   : [NewIds -> Feats \union {None}],        \* mAddedFeatures
            deleted : SUBSET ProviderIds,                     \* mDeletedFeatureIds
            geoms   : [ProviderIds -> Geoms \union {None}],   \* mChangedGeometries
            attrs   : [ProviderIds -> Vals \union {None}]]    \* mChangedAttributeValues

EmptyBuffer == [added   |-> [f \in NewIds |-> None],
                deleted |-> {},
                geoms   |-> [f \in ProviderIds |-> None],
                attrs   |-> [f \in ProviderIds |-> None]]

\* The members of the QgsVectorLayerUndoCommand classes, and the macro marker.
Command(op, fid, old, new) == [op |-> op, fid |-> fid, old |-> old, new |-> new]
Marker == Command("macro", 0, None, None)
Kind(op, fids, old, new) == [op : {op}, fid : fids, old : old, new : new]
Commands ==
    Kind("add", NewIds, {None}, Feats)
      \union Kind("delete", NewIds, Feats, {None})
      \union Kind("delete", ProviderIds, {None}, {None})
      \union Kind("geom", NewIds, Geoms \union {NoGeom}, Geoms)
      \union Kind("geom", ProviderIds, Geoms \union {None}, Geoms)
      \union Kind("attr", NewIds, Vals \union {Invalid}, Vals)
      \union Kind("attr", ProviderIds, Vals \union {None}, Vals)
      \union {Marker}

Phases == {"closed", "idle", "walking", "destroy", "rollback", "discard", "geometries",
           "attributes", "deletes", "adds", "finish"}
Geometries == [Fids -> Geoms \union {None}]
NoJob == [f \in Fids |-> NoGeom]

TypeOK ==
    /\ caps \in CapSets
    /\ prov \in [ProviderIds -> Feats \union {None}]
    /\ nextId \in Nat
    /\ buf \in Buffers
    /\ cache \in Geometries
    /\ selected \in SUBSET Fids
    /\ mark \in -(MaxNew + 1) .. -1
    /\ cmds \in Seq(Commands)
    /\ index \in 0..Len(cmds)
    /\ stops \in SUBSET (0..Len(cmds))
    /\ macro \in BOOLEAN
    /\ target \in 0..Len(cmds)
    /\ phase \in Phases
    /\ ok \in BOOLEAN
    /\ crashed \in BOOLEAN
    /\ commits \in 0..MaxCommits
    /\ job \in Geometries \union {NoJob}
    /\ hist \in Seq(Buffers)
    /\ exact \in BOOLEAN

Init ==
    /\ caps \in CapSets
    /\ prov = Stored
    /\ nextId \in ProviderIds /\ \A f \in ProviderIds : Stored[f] = None <=> f >= nextId
    /\ buf = EmptyBuffer
    /\ cache = [f \in Fids |-> None]
    /\ selected = {}
    /\ mark = -1
    /\ cmds = <<>> /\ index = 0 /\ stops = {0} /\ macro = FALSE
    /\ target = 0
    /\ phase = "closed"
    /\ ok = TRUE
    /\ crashed = FALSE
    /\ commits = 0
    /\ job = NoJob
    /\ hist = <<EmptyBuffer>>
    /\ exact = TRUE

-----------------------------------------------------------------------------
(* The layer as its readers see it: QgsVectorLayerFeatureIterator lays the *)
(* buffer over the provider.                                               *)

Overlay(b, p, f) ==
    IF IsNew(f) THEN b.added[f]
    ELSE IF f \in b.deleted \/ p[f] = None THEN None
    ELSE [geom |-> IF b.geoms[f] = None THEN p[f].geom ELSE b.geoms[f],
          attr |-> IF b.attrs[f] = None THEN p[f].attr ELSE b.attrs[f]]

View == [f \in Fids |-> Overlay(buf, prov, f)]
Visible == {f \in Fids : View[f] # None}

-----------------------------------------------------------------------------
(* What the undo commands do to the buffer. *)

Redo_NewAmongDeleted(c, b) ==
    CASE c.op = "add" -> [b EXCEPT !.added[c.fid] = c.new]
      [] c.op = "delete" /\ IsNew(c.fid) ->
            [b EXCEPT !.added[c.fid] = None, !.deleted = @ \union {c.fid}]
      [] c.op = "delete" /\ ~IsNew(c.fid) -> [b EXCEPT !.deleted = @ \union {c.fid}]
      [] c.op = "geom" /\ IsNew(c.fid) -> [b EXCEPT !.added[c.fid].geom = c.new]
      [] c.op = "geom" /\ ~IsNew(c.fid) -> [b EXCEPT !.geoms[c.fid] = c.new]
      [] c.op = "attr" /\ IsNew(c.fid) -> [b EXCEPT !.added[c.fid].attr = c.new]
      [] c.op = "attr" /\ ~IsNew(c.fid) -> [b EXCEPT !.attrs[c.fid] = c.new]
      [] c.op = "macro" -> b

Redo(c, b) ==
    CASE c.op = "add" -> [b EXCEPT !.added[c.fid] = c.new]
      [] c.op = "delete" /\ IsNew(c.fid) -> [b EXCEPT !.added[c.fid] = None]
      [] c.op = "delete" /\ ~IsNew(c.fid) -> [b EXCEPT !.deleted = @ \union {c.fid}]
      [] c.op = "geom" /\ IsNew(c.fid) -> [b EXCEPT !.added[c.fid].geom = c.new]
      [] c.op = "geom" /\ ~IsNew(c.fid) -> [b EXCEPT !.geoms[c.fid] = c.new]
      [] c.op = "attr" /\ IsNew(c.fid) -> [b EXCEPT !.added[c.fid].attr = c.new]
      [] c.op = "attr" /\ ~IsNew(c.fid) -> [b EXCEPT !.attrs[c.fid] = c.new]
      [] c.op = "macro" -> b

\* For an existing feature an old geometry or value of None is the null
\* mOldGeom or mFirstChange: the entry is removed.
Undo_KeepsDeleted(c, b) ==
    CASE c.op = "add" -> [b EXCEPT !.added[c.fid] = None]
      [] c.op = "delete" /\ IsNew(c.fid) -> [b EXCEPT !.added[c.fid] = c.old]
      [] c.op = "geom" /\ IsNew(c.fid) -> [b EXCEPT !.added[c.fid].geom = c.old]
      [] c.op = "geom" /\ ~IsNew(c.fid) -> [b EXCEPT !.geoms[c.fid] = c.old]
      [] c.op = "attr" /\ IsNew(c.fid) -> [b EXCEPT !.added[c.fid].attr = c.old]
      [] c.op = "attr" /\ ~IsNew(c.fid) -> [b EXCEPT !.attrs[c.fid] = c.old]
      [] OTHER -> b

Undo(c, b) ==
    CASE c.op = "add" -> [b EXCEPT !.added[c.fid] = None]
      [] c.op = "delete" /\ IsNew(c.fid) -> [b EXCEPT !.added[c.fid] = c.old]
      [] c.op = "delete" /\ ~IsNew(c.fid) -> [b EXCEPT !.deleted = @ \ {c.fid}]
      [] c.op = "geom" /\ IsNew(c.fid) -> [b EXCEPT !.added[c.fid].geom = c.old]
      [] c.op = "geom" /\ ~IsNew(c.fid) -> [b EXCEPT !.geoms[c.fid] = c.old]
      [] c.op = "attr" /\ IsNew(c.fid) -> [b EXCEPT !.added[c.fid].attr = c.old]
      [] c.op = "attr" /\ ~IsNew(c.fid) -> [b EXCEPT !.attrs[c.fid] = c.old]
      [] c.op = "macro" -> b

\* The geometry that redo() and undo() put into the cache, None to remove the
\* entry; the feature's own entry stays as it is where the code leaves it alone.
RedoCached(c) ==
    IF c.op = "add" /\ c.new.geom # NoGeom THEN c.new.geom
    ELSE IF c.op = "geom" THEN c.new
    ELSE cache[c.fid]

UndoCached(c) ==
    LET shown == Overlay(Undo(c, buf), prov, c.fid)
    IN  IF c.op = "add" /\ c.new.geom # NoGeom THEN None
        ELSE IF c.op = "geom" /\ c.old # None THEN c.old
        ELSE IF c.op = "geom" /\ shown # None /\ shown.geom # NoGeom THEN shown.geom
        ELSE cache[c.fid]

\* undo() of a geometry change to a new feature copies *mOldGeom, which is
\* null when the feature had no geometry.
UndoCrashes(c) == c.op = "geom" /\ c.old = NoGeom

CacheIt(c, g) ==
    cache' = IF c.op = "macro" THEN cache ELSE [cache EXCEPT ![c.fid] = g]

-----------------------------------------------------------------------------
(* The undo stack. *)

Applied == SubSeq(cmds, 1, index)

\* QUndoStack merges a command into the one before when both change the
\* geometry of the same feature and that one is not the end of a macro.
Merges_AnyFeature(c) ==
    /\ c.op = "geom"
    /\ index > 0
    /\ cmds[index].op = "geom"
    /\ macro \/ index - 1 \in stops

Merges(c) ==
    /\ c.op = "geom"
    /\ index > 0
    /\ cmds[index].op = "geom" /\ cmds[index].fid = c.fid
    /\ macro \/ index - 1 \in stops

Remember(n) ==
    hist' = Append(SubSeq(hist, 1, n), buf')

Push_KeepsStops(c) ==
    /\ buf' = Redo(c, buf)
    /\ CacheIt(c, RedoCached(c))
    /\ index < MaxCmds
    /\ cmds' = Append(Applied, c)
    /\ index' = index + 1
    /\ Remember(index + 1)
    /\ stops' = stops \union (IF macro THEN {} ELSE {index'})
    /\ UNCHANGED <<macro, exact>>

\* QUndoStack::push: run the command, drop what could have been redone, and
\* merge or append.
Push(c) ==
    /\ buf' = Redo(c, buf)
    /\ CacheIt(c, RedoCached(c))
    /\ IF Merges(c)
       THEN /\ cmds' = [Applied EXCEPT ![index].new = c.new]
            /\ index' = index
            /\ Remember(index)
       ELSE /\ index < MaxCmds
            /\ cmds' = Append(Applied, c)
            /\ index' = index + 1
            /\ Remember(index + 1)
    /\ stops' = {s \in stops : s < index'} \union (IF macro THEN {} ELSE {index'})
    /\ UNCHANGED <<macro, exact>>

\* n is the next position below or above the current one to halt at.
Below(n) == n \in stops /\ n < index /\ \A s \in stops : s < index => s <= n
Above(n) == n \in stops /\ n > index /\ \A s \in stops : s > index => s >= n

\* Walk along cmds to position n, on behalf of p.
WalkTo(n, p) == phase' = p /\ target' = n

StackFrame == UNCHANGED <<store, selected, mark, ok, crashed, commits, job>>

UndoCommand ==
    /\ phase = "idle" /\ ~macro
    /\ \E n \in 0..Len(cmds) : Below(n) /\ WalkTo(n, "walking")
    /\ UNCHANGED <<store, buf, cache, selected, mark, stack, ok, crashed, commits, job, history>>

RedoCommand ==
    /\ phase = "idle" /\ ~macro
    /\ \E n \in 0..Len(cmds) : Above(n) /\ WalkTo(n, "walking")
    /\ UNCHANGED <<store, buf, cache, selected, mark, stack, ok, crashed, commits, job, history>>

Walking == phase \in {"walking", "destroy", "rollback", "discard"} /\ ~crashed

StepBack ==
    /\ Walking /\ index > target
    /\ ~UndoCrashes(cmds[index])
    /\ buf' = Undo(cmds[index], buf)
    /\ CacheIt(cmds[index], UndoCached(cmds[index]))
    /\ index' = index - 1
    /\ StackFrame
    /\ UNCHANGED <<cmds, stops, macro, target, phase, history>>

StepBackCrashes ==
    /\ Walking /\ index > target
    /\ UndoCrashes(cmds[index])
    /\ crashed' = TRUE
    /\ UNCHANGED <<store, buf, cache, selected, mark, stack, target, phase, ok, commits, job, history>>

StepForward ==
    /\ Walking /\ index < target
    /\ buf' = Redo(cmds[index + 1], buf)
    /\ CacheIt(cmds[index + 1], RedoCached(cmds[index + 1]))
    /\ index' = index + 1
    /\ StackFrame
    /\ UNCHANGED <<cmds, stops, macro, target, phase, history>>

Arrive ==
    /\ phase \in {"walking", "destroy"} /\ index = target
    /\ phase' = "idle" /\ target' = 0
    /\ UNCHANGED <<store, buf, cache, selected, mark, stack, ok, crashed, commits, job, history>>

-----------------------------------------------------------------------------
(* Editing operations of QgsVectorLayer. *)

Editing == phase = "idle"

StartEditing ==
    /\ phase = "closed"
    /\ caps # {}
    /\ phase' = "idle"
    /\ buf' = EmptyBuffer
    /\ hist' = <<EmptyBuffer>> /\ exact' = TRUE
    /\ UNCHANGED <<store, cache, selected, mark, stack, target, ok, crashed, commits, job>>

AddFeature(feat) ==
    /\ Editing /\ "AddFeatures" \in caps
    /\ mark > -(MaxNew + 1)
    /\ mark' = mark - 1
    /\ Push(Command("add", mark - 1, None, feat))
    /\ UNCHANGED <<store, selected, target, phase, ok, crashed, commits, job>>

DeleteFeature(fid) ==
    /\ Editing /\ "DeleteFeatures" \in caps
    /\ IF IsNew(fid) THEN buf.added[fid] # None ELSE fid \notin buf.deleted
    /\ Push(Command("delete", fid, IF IsNew(fid) THEN buf.added[fid] ELSE None, None))
    /\ selected' = selected \ {fid}
    /\ UNCHANGED <<store, mark, target, phase, ok, crashed, commits, job>>

\* mOldGeom: what the added feature has, or the cached geometry if the feature
\* was changed before.
OldGeom(fid) ==
    IF IsNew(fid) THEN buf.added[fid].geom
    ELSE IF buf.geoms[fid] # None THEN cache[fid] ELSE None

ChangeGeometry(fid, g) ==
    /\ Editing
    /\ IF IsNew(fid) THEN buf.added[fid] # None ELSE "ChangeGeometries" \in caps
    /\ Push(Command("geom", fid, OldGeom(fid), g))
    /\ UNCHANGED <<store, selected, mark, target, phase, ok, crashed, commits, job>>

ChangeAttributeValue(fid, v) ==
    /\ Editing
    /\ IF IsNew(fid) THEN buf.added[fid] # None ELSE "ChangeAttributeValues" \in caps
    /\ Push(Command("attr", fid, IF IsNew(fid) THEN buf.added[fid].attr ELSE buf.attrs[fid], v))
    /\ UNCHANGED <<store, selected, mark, target, phase, ok, crashed, commits, job>>

BeginEditCommand ==
    /\ Editing /\ ~macro /\ index < MaxCmds
    /\ cmds' = Append(Applied, Marker)
    /\ index' = index + 1
    /\ stops' = {s \in stops : s <= index}
    /\ macro' = TRUE
    /\ UNCHANGED <<buf, exact>>
    /\ Remember(index + 1)
    /\ UNCHANGED <<store, cache, selected, mark, target, phase, ok, crashed, commits, job>>

EndEditCommand ==
    /\ Editing /\ macro
    /\ macro' = FALSE
    /\ stops' = stops \union {index}
    /\ UNCHANGED <<store, buf, cache, selected, mark, cmds, index, target, phase, ok, crashed, commits, job, history>>

\* endMacro() and undo().
DestroyEditCommand ==
    /\ Editing /\ macro
    /\ macro' = FALSE
    /\ stops' = stops \union {index}
    /\ \E n \in 0..Len(cmds) : Below(n) /\ WalkTo(n, "destroy")
    /\ UNCHANGED <<store, buf, cache, selected, mark, cmds, index, ok, crashed, commits, job, history>>

Select(fid) ==
    /\ phase \in {"closed", "idle"}
    /\ fid \in Selectable \intersect Visible
    /\ selected' = selected \union {fid}
    /\ UNCHANGED <<store, buf, cache, mark, stack, target, phase, ok, crashed, commits, job, history>>

Deselect(fid) ==
    /\ phase \in {"closed", "idle"}
    /\ fid \in selected
    /\ selected' = selected \ {fid}
    /\ UNCHANGED <<store, buf, cache, mark, stack, target, phase, ok, crashed, commits, job, history>>

-----------------------------------------------------------------------------
(* Render jobs.  A job for an editable layer collects the geometries of the *)
(* features it draws; when it has finished or was cancelled, its collection *)
(* replaces the layer's cache, whatever has been edited meanwhile.          *)

ChangedAreCached == \A f \in ProviderIds : buf.geoms[f] # None => cache[f] = buf.geoms[f]

RenderStart(extent) ==
    /\ Editing /\ job = NoJob
    /\ job' = [f \in Fids |-> IF f \in extent \intersect Visible /\ View[f].geom # NoGeom
                            THEN View[f].geom ELSE None]
    /\ UNCHANGED <<store, buf, cache, selected, mark, stack, target, phase, ok, crashed, commits, history>>

RenderFinish ==
    /\ phase \in {"closed", "idle"} /\ job # NoJob
    /\ cache' = job
    /\ job' = NoJob
    /\ UNCHANGED buf
    /\ exact' = (exact /\ ChangedAreCached')
    /\ UNCHANGED <<store, selected, mark, stack, target, phase, ok, crashed, commits, hist>>

-----------------------------------------------------------------------------
(* Rollback. *)

\* rollBack( deleteBuffer ): "discard" when it deletes the buffer.
RollBack(p) ==
    /\ Editing /\ ~macro
    /\ WalkTo(0, p)
    /\ UNCHANGED <<store, buf, cache, selected, mark, stack, ok, crashed, commits, job, history>>

ClearStack == cmds' = <<>> /\ index' = 0 /\ stops' = {0} /\ macro' = FALSE /\ target' = 0

CloseBuffer ==
    /\ phase' = "closed"
    /\ buf' = EmptyBuffer
    /\ ClearStack
    /\ hist' = <<EmptyBuffer>> /\ exact' = TRUE

NoCache == [f \in Fids |-> None]

FinishRollBack ==
    /\ phase \in {"rollback", "discard"} /\ index = 0
    /\ IF phase = "discard"
       THEN CloseBuffer
       ELSE phase' = "idle" /\ UNCHANGED <<buf, stack, target, history>>
    /\ cache' = NoCache
    /\ UNCHANGED <<store, selected, mark, ok, crashed, commits, job>>

-----------------------------------------------------------------------------
(* Commit: the stages of QgsVectorLayerEditBuffer::commitChanges.  Every call *)
(* to the provider may fail, and then changes nothing there.                 *)

CommitChanges ==
    /\ Editing /\ ~macro
    /\ commits < MaxCommits /\ commits' = commits + 1
    /\ phase' = "geometries"
    /\ UNCHANGED <<store, buf, cache, selected, mark, stack, target, ok, crashed, job, history>>

ChangedGeoms == {f \in ProviderIds : buf.geoms[f] # None}
ChangedAttrs == {f \in ProviderIds : buf.attrs[f] # None}
Added == {f \in NewIds : buf.added[f] # None}

WithGeoms(p) ==
    [f \in ProviderIds |-> IF f \in ChangedGeoms /\ p[f] # None
                           THEN [p[f] EXCEPT !.geom = buf.geoms[f]] ELSE p[f]]
WithAttrs(p) ==
    [f \in ProviderIds |-> IF f \in ChangedAttrs /\ p[f] # None
                           THEN [p[f] EXCEPT !.attr = buf.attrs[f]] ELSE p[f]]

Skipped == UNCHANGED <<prov, buf, ok>>
Refused_Unnoticed == Skipped
Refused == ok' = FALSE /\ UNCHANGED <<prov, buf>>
Saved(p, b) == prov' = p /\ buf' = b /\ UNCHANGED ok

StageFrame ==
    UNCHANGED <<caps, cache, mark, stack, target, crashed, commits, job, history>>

Together == "ChangeFeatures" \in caps /\ ChangedGeoms # {} /\ ChangedAttrs # {}

CommitGeometries ==
    /\ phase = "geometries" /\ phase' = "attributes"
    /\ IF ChangedGeoms # {} /\ ~Together
       THEN Saved(WithGeoms(prov), [buf EXCEPT !.geoms = EmptyBuffer.geoms]) \/ Refused
       ELSE Skipped
    /\ UNCHANGED <<nextId, selected>> /\ StageFrame

CommitAttributes ==
    /\ phase = "attributes" /\ phase' = "deletes"
    /\ IF Together
       THEN \/ Saved(WithAttrs(WithGeoms(prov)),
                     [buf EXCEPT !.geoms = EmptyBuffer.geoms, !.attrs = EmptyBuffer.attrs])
            \/ Refused
       ELSE IF ChangedAttrs # {}
       THEN \/ /\ "ChangeAttributeValues" \in caps
               /\ Saved(WithAttrs(prov), [buf EXCEPT !.attrs = EmptyBuffer.attrs])
            \/ Refused
       ELSE Skipped
    /\ UNCHANGED <<nextId, selected>> /\ StageFrame

CommitDeletes ==
    /\ phase = "deletes" /\ phase' = "adds"
    /\ IF ok /\ buf.deleted # {}
       THEN \/ /\ "DeleteFeatures" \in caps
               /\ Saved([f \in ProviderIds |-> IF f \in buf.deleted THEN None ELSE prov[f]],
                        [buf EXCEPT !.deleted = {},
                            !.geoms = [f \in ProviderIds |-> IF f \in buf.deleted THEN None ELSE @[f]],
                            !.attrs = [f \in ProviderIds |-> IF f \in buf.deleted THEN None ELSE @[f]]])
            \/ Refused
       ELSE Skipped
    /\ UNCHANGED <<nextId, selected>> /\ StageFrame

\* The features are added in the order they were created; the provider gives
\* ids it has not used before, in the order of the list.
GivenId(f) == nextId + Cardinality({g \in Added : g > f})
GivenIds == {GivenId(f) : f \in Added}

\* The feature of an id the provider has just given.
NewFeature(i) == buf.added[CHOOSE f \in Added : GivenId(f) = i]

UpdatedSelection_KeepsIds == selected
UpdatedSelection == (selected \ Added) \union {GivenId(f) : f \in selected \intersect Added}

CommitAdds_ClearsRefused ==
    /\ phase = "adds" /\ phase' = "finish"
    /\ IF ok /\ Added # {}
       THEN \/ /\ "AddFeatures" \in caps
               /\ GivenIds \subseteq ProviderIds
               /\ Saved([i \in ProviderIds |-> IF i \in GivenIds THEN NewFeature(i) ELSE prov[i]],
                        [buf EXCEPT !.added = EmptyBuffer.added])
               /\ selected' = UpdatedSelection
               /\ nextId' = nextId + Cardinality(Added)
            \/ /\ ok' = FALSE /\ buf' = [buf EXCEPT !.added = EmptyBuffer.added]
               /\ UNCHANGED <<prov, nextId, selected>>
       ELSE Skipped /\ UNCHANGED <<nextId, selected>>
    /\ StageFrame

CommitAdds ==
    /\ phase = "adds" /\ phase' = "finish"
    /\ IF ok /\ Added # {}
       THEN \/ /\ "AddFeatures" \in caps
               /\ GivenIds \subseteq ProviderIds
               /\ Saved([i \in ProviderIds |-> IF i \in GivenIds THEN NewFeature(i) ELSE prov[i]],
                        [buf EXCEPT !.added = EmptyBuffer.added])
               /\ selected' = UpdatedSelection
               /\ nextId' = nextId + Cardinality(Added)
            \/ Refused /\ UNCHANGED <<nextId, selected>>
       ELSE Skipped /\ UNCHANGED <<nextId, selected>>
    /\ StageFrame

\* The end of QgsVectorLayer::commitChanges.
FinishCommit ==
    /\ phase = "finish"
    /\ IF ok
       THEN CloseBuffer
       ELSE /\ phase' = "idle"
            /\ exact' = FALSE
            /\ UNCHANGED <<buf, stack, target, hist>>
    /\ ok' = TRUE
    /\ cache' = NoCache
    /\ UNCHANGED <<store, selected, mark, crashed, commits, job>>

-----------------------------------------------------------------------------

\* Callers name features they have seen: visible ones, or ones deleted meanwhile.
Known == Visible \union buf.deleted

Next ==
    \/ StartEditing
    \/ \E feat \in NewFeats : AddFeature(feat)
    \/ \E fid \in Known :
          \/ DeleteFeature(fid)
          \/ \E g \in Geoms : ChangeGeometry(fid, g)
          \/ \E v \in Vals : ChangeAttributeValue(fid, v)
          \/ Select(fid)
    \/ \E fid \in selected : Deselect(fid)
    \/ BeginEditCommand \/ EndEditCommand \/ DestroyEditCommand
    \/ UndoCommand \/ RedoCommand
    \/ StepBack \/ StepBackCrashes \/ StepForward \/ Arrive
    \/ \E p \in {"rollback", "discard"} : RollBack(p)
    \/ FinishRollBack
    \/ CommitChanges \/ CommitGeometries \/ CommitAttributes
    \/ CommitDeletes \/ CommitAdds \/ FinishCommit
    \/ \E extent \in Extents : RenderStart(extent)
    \/ RenderFinish

Spec == Init /\ [][Next]_vars

-----------------------------------------------------------------------------

CommitPhases == {"geometries", "attributes", "deletes", "adds", "finish"}

\* Undo and redo bring back exactly the buffer of that moment, however
\* changes were merged, nested in edit commands and undone before: as long as
\* no commit failed and no render job took a changed geometry from the cache.
UndoRestores ==
    exact /\ phase \notin CommitPhases => buf = hist[index + 1]

\* An undo command finds the added feature it works on in the buffer (the
\* assertions at qgsvectorlayerundocommand.cpp:49, 171, 208, 253 and 292),
\* after commits that failed half way too.
NeedsFeature(c, ops) == c.op \in ops /\ IsNew(c.fid)
AssertionsHold ==
    phase \notin CommitPhases =>
        /\ index > 0 /\ NeedsFeature(cmds[index], {"add", "geom", "attr"})
              => buf.added[cmds[index].fid] # None
        /\ index < Len(cmds) /\ NeedsFeature(cmds[index + 1], {"geom", "attr"})
              => buf.added[cmds[index + 1].fid] # None

\* With everything undone nothing is left in the buffer, after failed commits
\* and lost cache entries too (the assertions at
\* qgsvectorlayereditbuffer.cpp:660-664).
RollbackEmpties == index = 0 /\ phase \notin CommitPhases => buf = EmptyBuffer

\* A commit that reports success has handed everything to the provider.
SuccessSavesAll == phase = "finish" /\ ok => buf = EmptyBuffer

\* No stage of a commit, be it saved, refused or skipped, changes what the
\* layer shows: the same features with the same contents are there, and the
\* same ones are selected, whatever their ids are.
Shown(v, s, feat, sel) == {f \in Fids : v[f] = feat /\ (f \in s) = sel}
SameShown ==
    \A feat \in Feats : \A sel \in BOOLEAN :
        Cardinality(Shown(View, selected, feat, sel)) = Cardinality(Shown(View', selected', feat, sel))
CommitKeepsView == [][(phase \in CommitPhases) => SameShown]_vars

\* featureCount() agrees with the features that can be read, until a commit
\* has failed half way.
FeatureCount ==
    Cardinality({f \in ProviderIds : prov[f] # None}) + Cardinality(Added) - Cardinality(buf.deleted)
CountsVisible == FeatureCount = Cardinality(Visible)
FeatureCountExact == exact /\ phase \in {"closed", "idle"} => CountsVisible

-----------------------------------------------------------------------------
(* What the comments say and the code does not do. *)

\* "If a commit fails, the in-memory changes are left alone."
FailureKeepsBuffer == phase = "finish" /\ ~ok /\ exact => buf = hist[index + 1]

\* "all changed geometries are also cached"
ChangedStayCached == Editing => ChangedAreCached

\* "if a feature subsequently gets deleted [...] it always needs to be removed
\* from mSelectedFeatureIds as well"
DeletedNotSelected == selected \intersect buf.deleted = {}

\* "feature count including changes which have not yet been committed"
CountAlwaysExact == Editing => CountsVisible

\* Reverting a change never dereferences a null pointer.
NeverCrashes == ~crashed
=============================================================================
