----------------------------- MODULE FieldEdits -----------------------------
(***************************************************************************)
(* Editing the fields of a vector layer: adding, deleting and renaming     *)
(* fields in the edit buffer (qgsvectorlayereditbuffer.cpp), together with *)
(* the values of features, whose maps are keyed by field index and must    *)
(* shift with the fields; the undo commands of both                        *)
(* (qgsvectorlayerundocommand.cpp); and the stages of a commit that store  *)
(* fields and values, each of which may fail.                              *)
(*                                                                         *)
(* Indices count from 1.  The layer has no joined fields and no expression *)
(* fields.  A feature stored in the provider has one row; a feature that   *)
(* is added keeps its identity when it is stored (EditBuffer has the       *)
(* change of ids, and deletion of features and geometries).                *)
(***************************************************************************)
EXTENDS Integers, Sequences, FiniteSets, SequencesExt, SortedSets

CONSTANTS
    Names,         \* field names
    Vals,          \* attribute values
    Null,          \* QVariant()
    None,          \* no entry in a map
    Fids,          \* features
    Columns,       \* the fields of the provider when the layer is opened
    Rows,          \* the features of the provider when the layer is opened
    Templates,     \* the attributes of features users add, cut to the number of fields
    MaxFields,     \* bound: fields of the layer
    MaxCmds,       \* bound: commands on the undo stack
    MaxCommits     \* bound: commits; no edit follows the last one

Value == Vals \union {Null}
Index == 1 .. MaxFields + MaxCmds

ASSUME ColumnsAssumption == Columns \in Seq(Names) /\ IsInjective(Columns)
ASSUME RowsAssumption == Rows \in [Fids -> [1..Len(Columns) -> Value] \union {None}]
ASSUME TemplatesAssumption == Templates \subseteq [Index -> Value]
ASSUME SentinelAssumption == Null \notin Vals \union {None} /\ None \notin Vals \union Names \union Seq(Value)
ASSUME BoundsAssumption ==
    MaxFields \in Nat /\ MaxCmds \in Nat /\ MaxCommits \in Nat /\ Len(Columns) <= MaxFields

VARIABLES
    columns,    \* the names of the provider's fields
    rows,       \* the provider's features
    ed,         \* the edit buffer, and the fields of the layer
    cmds,       \* the undo stack
    index,      \* how many of cmds are applied
    phase,      \* what the layer is doing
    ok,         \* success, the local of commitChanges(): TRUE outside
    changes,    \* attributesChanged and attributeChangesOk, locals too
    before,     \* oldFields, local too
    commits,    \* how many commits were begun
    hist,       \* history: the table at every position of cmds
    exact       \* history: FALSE once an edit or a commit was met that loses
                \* the table, see Faithful

store == <<columns, rows>>
stack == <<cmds, index>>
locals == <<ok, changes, before>>
vars == <<store, ed, stack, phase, locals, commits, hist, exact>>

NoChanges == [f \in Fids |-> [i \in Index |-> None]]
NoFeatures == [f \in Fids |-> None]

\* A new edit buffer on a provider with these fields.
Opened(names) ==
    [added    |-> <<>>,                          \* mAddedAttributes
     deleted  |-> {},                            \* mDeletedAttributeIds
     renamed  |-> [i \in Index |-> None],        \* mRenamedAttributes
     changed  |-> NoChanges,                     \* mChangedAttributeValues
     features |-> NoFeatures,                    \* mAddedFeatures
     fields   |-> [i \in DOMAIN names |-> [name |-> names[i], from |-> "provider", at |-> i]],
     undefined |-> FALSE]                        \* an index was out of range

IsNew(f) == rows[f] = None                        \* FID_IS_NEW
FieldNames(e) == [i \in DOMAIN e.fields |-> e.fields[i].name]

-----------------------------------------------------------------------------
(* The layer as its readers see it. *)

\* QgsVectorLayerEditBuffer::updateChangedAttributes
UpdatedAttributes(e, f) ==
    LET kept == Sorted(DOMAIN rows[f] \ e.deleted)
        size == Len(kept) + Len(e.added)
    IN  [i \in 1..size |->
            IF e.changed[f][i] # None THEN e.changed[f][i]
            ELSE IF i <= Len(kept) THEN rows[f][kept[i]] ELSE Null]

Shown(e, f) == IF IsNew(f) THEN e.features[f] ELSE UpdatedAttributes(e, f)
Table(e) == [names |-> FieldNames(e), values |-> [f \in Fids |-> Shown(e, f)]]

-----------------------------------------------------------------------------
(* The helpers of the edit buffer that keep indices and fields up to date. *)

\* The added fields that QgsFields::append takes: the name is not there yet.
Appended(e, names) ==
    {i \in DOMAIN e.added :
        /\ \A k \in DOMAIN names \ e.deleted : names[k] # e.added[i]
        /\ \A k \in 1 .. i - 1 : e.added[k] # e.added[i]}

\* QgsVectorLayer::updateFields with QgsVectorLayerEditBuffer::updateFields;
\* fields[key] of a key that is out of range is undefined.
UpdateFields(e, names) ==
    LET kept == Sorted(DOMAIN names \ e.deleted)
        news == Sorted(Appended(e, names))
        all == [i \in DOMAIN kept |-> [name |-> names[kept[i]], from |-> "provider", at |-> kept[i]]]
               \o [i \in DOMAIN news |-> [name |-> e.added[news[i]], from |-> "edit", at |-> news[i]]]
    IN  [e EXCEPT
            !.fields = [i \in DOMAIN all |->
                IF e.renamed[i] = None THEN all[i] ELSE [all[i] EXCEPT !.name = e.renamed[i]]],
            !.undefined = @ \/ \E i \in Index \ DOMAIN all : e.renamed[i] # None]

\* updateAttributeMapIndex, up after making room at i and down after removing i
ShiftedUp(map, i) ==
    [j \in Index |-> IF j < i THEN map[j] ELSE IF j = i THEN None ELSE map[j - 1]]
ShiftedDown(map, i) ==
    [j \in Index |-> IF j < i THEN map[j] ELSE IF j + 1 \in Index THEN map[j + 1] ELSE None]

\* mRenamedAttributes is shifted in place: an entry whose neighbour has none is
\* copied and stays where it was, except at i, and except the last one going down.
RenamedUp(map, i) ==
    [j \in Index |-> IF j < i THEN map[j] ELSE IF j = i THEN None
                     ELSE IF map[j - 1] # None THEN map[j - 1] ELSE map[j]]
RenamedDown(map, i) ==
    LET isLast(j) == j > i /\ map[j] # None /\ \A k \in Index : k > j => map[k] = None
    IN  [j \in Index |-> IF j < i THEN map[j]
                         ELSE IF j + 1 \in Index /\ map[j + 1] # None THEN map[j + 1]
                         ELSE IF j = i \/ isLast(j) THEN None ELSE map[j]]

\* Mutant: the indices of changed values are not shifted.
HandleAttributeAdded_KeepsChanges(e, i) ==
    [e EXCEPT !.features = [f \in Fids |-> IF @[f] = None \/ i > Len(@[f]) + 1 THEN @[f]
                                            ELSE InsertAt(@[f], i, Null)],
              !.renamed = RenamedUp(@, i),
              !.undefined = @ \/ \E f \in Fids : e.features[f] # None /\ i > Len(e.features[f]) + 1]

HandleAttributeAdded(e, i) ==
    [e EXCEPT !.changed = [f \in Fids |-> ShiftedUp(@[f], i)],
              !.features = [f \in Fids |-> IF @[f] = None \/ i > Len(@[f]) + 1 THEN @[f]
                                            ELSE InsertAt(@[f], i, Null)],
              !.renamed = RenamedUp(@, i),
              !.undefined = @ \/ \E f \in Fids : e.features[f] # None /\ i > Len(e.features[f]) + 1]

\* Mutant: the indices of changed values are not shifted.
HandleAttributeDeleted_KeepsIndices(e, i) ==
    [e EXCEPT !.changed = [f \in Fids |-> [@[f] EXCEPT ![i] = None]],
              !.features = [f \in Fids |-> IF @[f] = None \/ i > Len(@[f]) THEN @[f]
                                            ELSE RemoveAt(@[f], i)],
              !.renamed = RenamedDown(@, i),
              !.undefined = @ \/ \E f \in Fids : e.features[f] # None /\ i > Len(e.features[f])]

HandleAttributeDeleted(e, i) ==
    [e EXCEPT !.changed = [f \in Fids |-> ShiftedDown(@[f], i)],
              !.features = [f \in Fids |-> IF @[f] = None \/ i > Len(@[f]) THEN @[f]
                                            ELSE RemoveAt(@[f], i)],
              !.renamed = RenamedDown(@, i),
              !.undefined = @ \/ \E f \in Fids : e.features[f] # None /\ i > Len(e.features[f])]

Undefined(e) == [e EXCEPT !.undefined = TRUE]

\* QgsFeature::setAttribute, which refuses an index that is out of range
SetAttribute(e, f, i, value) ==
    IF e.features[f] # None /\ i \in DOMAIN e.features[f]
    THEN [e EXCEPT !.features[f][i] = value] ELSE e

-----------------------------------------------------------------------------
(* The undo commands: redo() and undo() of each, as functions of the buffer. *)

RedoAddFeature(e, c) == [e EXCEPT !.features[c.fid] = c.attrs]
UndoAddFeature(e, c) == [e EXCEPT !.features[c.fid] = None]

RedoChange(e, c) ==
    IF IsNew(c.fid) THEN SetAttribute(e, c.fid, c.field, c.new)
    ELSE [e EXCEPT !.changed[c.fid][c.field] = c.new]
\* old is None for the first change of an existing feature's value
UndoChange(e, c) ==
    IF IsNew(c.fid) THEN SetAttribute(e, c.fid, c.field, c.old)
    ELSE [e EXCEPT !.changed[c.fid][c.field] = c.old]

RedoAdd(e, c) ==
    HandleAttributeAdded(UpdateFields([e EXCEPT !.added = Append(@, c.name)], columns), c.field)

\* removeAt() of the index the field has among the added ones
UndoAdd(e, c) ==
    IF c.field \notin DOMAIN e.fields THEN Undefined(e)
    ELSE LET at == e.fields[c.field].at
         IN  IF at \notin DOMAIN e.added THEN Undefined(e)
             ELSE UpdateFields(HandleAttributeDeleted([e EXCEPT !.added = RemoveAt(@, at)], c.field),
                               columns)

RedoDelete(e, c) ==
    IF c.from = "provider"
    THEN UpdateFields(HandleAttributeDeleted([e EXCEPT !.deleted = @ \union {c.at}], c.field), columns)
    ELSE IF c.at \notin DOMAIN e.added THEN Undefined(e)
    ELSE UpdateFields(HandleAttributeDeleted([e EXCEPT !.added = RemoveAt(@, c.at)], c.field), columns)

\* The values the field had, put back into the changed values and the added features.
Restored(e, c) ==
    [e EXCEPT !.features = [f \in Fids |->
                  IF e.features[f] = None \/ c.field \notin DOMAIN e.features[f] THEN e.features[f]
                  ELSE [e.features[f] EXCEPT ![c.field] = IF c.values[f] = None THEN Null ELSE c.values[f]]],
              !.changed = [f \in Fids |->
                  IF IsNew(f) \/ c.values[f] = None THEN e.changed[f]
                  ELSE [e.changed[f] EXCEPT ![c.field] = c.values[f]]]]

UndoDelete(e, c) ==
    LET back == IF c.from = "provider" THEN [e EXCEPT !.deleted = @ \ {c.at}]
                ELSE [e EXCEPT !.added = InsertAt(@, IF c.at > Len(@) THEN Len(@) + 1 ELSE c.at, c.name)]
        shifted == HandleAttributeAdded(UpdateFields(back, columns), c.field)
        named == IF c.old = None THEN shifted
                 ELSE UpdateFields([shifted EXCEPT !.renamed[c.field] = c.old], columns)
    IN  Restored(named, c)

RedoRename(e, c) == UpdateFields([e EXCEPT !.renamed[c.field] = c.name], columns)
UndoRename(e, c) == UpdateFields([e EXCEPT !.renamed[c.field] = c.old], columns)

Redo(e, c) ==
    CASE c.op = "feature" -> RedoAddFeature(e, c)
      [] c.op = "change"  -> RedoChange(e, c)
      [] c.op = "add"     -> RedoAdd(e, c)
      [] c.op = "delete"  -> RedoDelete(e, c)
      [] c.op = "rename"  -> RedoRename(e, c)

Undo(e, c) ==
    CASE c.op = "feature" -> UndoAddFeature(e, c)
      [] c.op = "change"  -> UndoChange(e, c)
      [] c.op = "add"     -> UndoAdd(e, c)
      [] c.op = "delete"  -> UndoDelete(e, c)
      [] c.op = "rename"  -> UndoRename(e, c)

\* The in-place shift of mRenamedAttributes goes wrong, or the fields are updated
\* before it (undo of a delete): from then on names are not what they were.
LosesNames(e, c, undoing) ==
    CASE c.op = "delete" /\ undoing -> \E j \in Index : j >= c.field /\ e.renamed[j] # None
      [] c.op = "delete" /\ ~undoing -> RenamedDown(e.renamed, c.field) # ShiftedDown(e.renamed, c.field)
      [] c.op = "add" /\ undoing -> RenamedDown(e.renamed, c.field) # ShiftedDown(e.renamed, c.field)
      [] OTHER -> FALSE

\* An added field is left out of the layer's fields when the provider still has
\* its name, because the field there is only renamed in the buffer.
HidesField(e) == Len(e.fields) # Cardinality(DOMAIN columns \ e.deleted) + Len(e.added)

-----------------------------------------------------------------------------

Init ==
    /\ columns = Columns
    /\ rows = Rows
    /\ ed = Opened(Columns)
    /\ cmds = <<>> /\ index = 0
    /\ phase = "closed"
    /\ ok = TRUE /\ changes = {} /\ before = <<>>
    /\ commits = 0
    /\ hist = <<Table(ed)>>
    /\ exact = TRUE

StartEditing ==
    /\ phase = "closed"
    /\ phase' = "editing"
    /\ UNCHANGED <<store, ed, stack, locals, commits, hist, exact>>

Editing == phase = "editing" /\ ~ed.undefined

\* Mutant: undone commands stay on the stack.
Push_KeepsRedo(c) ==
    /\ index < MaxCmds /\ commits < MaxCommits
    /\ ed' = Redo(ed, c)
    /\ cmds' = Append(cmds, c)
    /\ index' = index + 1
    /\ hist' = Append(SubSeq(hist, 1, index + 1), Table(ed'))
    /\ exact' = (exact /\ ~LosesNames(ed, c, FALSE) /\ ~HidesField(ed'))
    /\ UNCHANGED <<store, phase, locals, commits>>

\* QUndoStack::push: run the command and drop what could have been redone.
Push(c) ==
    /\ index < MaxCmds /\ commits < MaxCommits
    /\ ed' = Redo(ed, c)
    /\ cmds' = Append(SubSeq(cmds, 1, index), c)
    /\ index' = index + 1
    /\ hist' = Append(SubSeq(hist, 1, index + 1), Table(ed'))
    /\ exact' = (exact /\ ~LosesNames(ed, c, FALSE) /\ ~HidesField(ed'))
    /\ UNCHANGED <<store, phase, locals, commits>>

AddFeature ==
    /\ Editing
    /\ \E f \in Fids, t \in Templates :
        /\ IsNew(f) /\ \A k \in DOMAIN cmds : cmds[k].op = "feature" => cmds[k].fid # f
        /\ Push([op |-> "feature", fid |-> f, attrs |-> SubSeq(t, 1, Len(ed.fields))])

ChangeAttributeValue ==
    /\ Editing
    /\ \E f \in Fids, i \in DOMAIN ed.fields, v \in Vals :
        /\ ~IsNew(f) \/ ed.features[f] # None
        /\ LET now == Shown(ed, f)
           IN  Push([op |-> "change", fid |-> f, field |-> i, new |-> v,
                     old |-> IF ~IsNew(f) THEN ed.changed[f][i]
                             ELSE IF i \in DOMAIN now THEN now[i] ELSE Null])

AddAttribute ==
    /\ Editing
    /\ Len(columns) + Len(ed.added) < MaxFields
    /\ \E name \in Names \ Range(FieldNames(ed)) :
        Push([op |-> "add", name |-> name, field |-> Len(ed.fields) + 1])

DeleteAttribute ==
    /\ Editing
    /\ \E i \in DOMAIN ed.fields :
        LET field == ed.fields[i]
        IN  /\ field.from = "provider" => field.at \notin ed.deleted
            /\ field.from = "edit" => field.at \in DOMAIN ed.added
            /\ Push([op |-> "delete", field |-> i, from |-> field.from, at |-> field.at,
                     name |-> IF field.from = "edit" THEN ed.added[field.at] ELSE None,
                     old |-> ed.renamed[i],
                     values |-> [f \in Fids |->
                         IF ~IsNew(f) THEN ed.changed[f][i]
                         ELSE IF ed.features[f] = None THEN None
                         ELSE IF i \in DOMAIN ed.features[f] THEN ed.features[f][i] ELSE Null]])

RenameAttribute ==
    /\ Editing
    /\ \E i \in DOMAIN ed.fields, name \in Names \ Range(FieldNames(ed)) :
        Push([op |-> "rename", field |-> i, name |-> name, old |-> ed.fields[i].name])

StepBack ==
    /\ index > 0
    /\ ed' = Undo(ed, cmds[index])
    /\ index' = index - 1
    /\ exact' = (exact /\ ~LosesNames(ed, cmds[index], TRUE))
    /\ UNCHANGED <<store, cmds, phase, locals, commits, hist>>

UndoCommand == Editing /\ StepBack

RedoCommand ==
    /\ Editing
    /\ index < Len(cmds)
    /\ ed' = Redo(ed, cmds[index + 1])
    /\ index' = index + 1
    /\ exact' = (exact /\ ~LosesNames(ed, cmds[index'], FALSE))
    /\ UNCHANGED <<store, cmds, phase, locals, commits, hist>>

\* The buffer is deleted and the stack cleared.
Close ==
    /\ ed' = Opened(columns)
    /\ cmds' = <<>> /\ index' = 0
    /\ phase' = "closed"
    /\ hist' = <<Table(ed')>> /\ exact' = IsInjective(columns)
    /\ UNCHANGED <<store, commits>>

RollBack ==
    /\ Editing
    /\ phase' = "rollback"
    /\ UNCHANGED <<store, ed, stack, locals, commits, hist, exact>>

RollBackStep == phase = "rollback" /\ ~ed.undefined /\ StepBack
FinishRollBack ==
    /\ phase = "rollback" /\ ~ed.undefined /\ index = 0
    /\ Close
    /\ UNCHANGED locals

-----------------------------------------------------------------------------
(* Commit, stage by stage. *)

CommitChanges ==
    /\ Editing
    /\ commits < MaxCommits
    /\ commits' = commits + 1
    /\ phase' = "deletes"
    /\ before' = ed.fields
    /\ UNCHANGED <<store, ed, stack, ok, changes, hist, exact>>

Stage(this, next) == phase = this /\ phase' = next /\ UNCHANGED <<stack, before, commits, hist>>
Refused ==
    /\ ok' = FALSE /\ exact' = FALSE
    /\ UNCHANGED <<store, ed, changes>>
Skipped == UNCHANGED <<store, ed, ok, changes, exact>>
Stored ==
    /\ changes' = changes \union {"changed"}
    /\ UNCHANGED <<ok, exact>>

CommitDeletes ==
    /\ Stage("deletes", "adds")
    /\ IF ed.deleted = {} THEN Skipped
       ELSE \/ Refused
            \/ LET kept == Sorted(DOMAIN columns \ ed.deleted)
                   Drop(s) == [i \in DOMAIN kept |-> s[kept[i]]]
               IN  /\ ed.deleted \subseteq DOMAIN columns
                   /\ columns' = Drop(columns)
                   /\ rows' = [f \in Fids |-> IF rows[f] = None THEN None ELSE Drop(rows[f])]
                   /\ ed' = [ed EXCEPT !.deleted = {}]
                   /\ Stored

\* The provider refuses fields with a name it has.
CommitAdds ==
    /\ Stage("adds", "renames")
    /\ IF ed.added = <<>> THEN Skipped
       ELSE \/ Refused
            \/ /\ IsInjective(columns \o ed.added)
               /\ columns' = columns \o ed.added
               /\ rows' = [f \in Fids |-> IF rows[f] = None THEN None
                                          ELSE rows[f] \o [i \in DOMAIN ed.added |-> Null]]
               /\ ed' = [ed EXCEPT !.added = <<>>]
               /\ Stored

\* renameAttributes() of the memory and the OGR provider renames what it can and
\* returns false if it met an index it does not have or a name in use.
CommitRenames ==
    /\ Stage("renames", "check")
    /\ LET keys == {i \in Index : ed.renamed[i] # None}
           valid == {i \in keys : i \in DOMAIN columns /\ ed.renamed[i] \notin Range(columns)}
       IN  IF keys = {} THEN Skipped
           ELSE \/ Refused
                \/ /\ columns' = [i \in DOMAIN columns |->
                                     IF i \in valid THEN ed.renamed[i] ELSE columns[i]]
                   /\ IF valid = keys
                      THEN ed' = [ed EXCEPT !.renamed = [i \in Index |-> None]] /\ Stored
                      ELSE ok' = FALSE /\ exact' = FALSE /\ UNCHANGED <<ed, changes>>
                   /\ UNCHANGED rows

\* Mutant: only the number of fields is compared.
CheckFields_CountOnly ==
    /\ Stage("check", "values")
    /\ IF "changed" \in changes
       THEN /\ ed' = UpdateFields(ed, columns)
            /\ changes' = IF Len(ed'.fields) = Len(before) THEN changes ELSE changes \union {"wrong"}
            /\ exact' = (exact /\ changes' = changes)
            /\ UNCHANGED <<store, ok>>
       ELSE Skipped

\* "check that addition/removal went as expected"
CheckFields ==
    /\ Stage("check", "values")
    /\ IF "changed" \in changes
       THEN /\ ed' = UpdateFields(ed, columns)
            /\ changes' = IF FieldNames(ed') = [i \in DOMAIN before |-> before[i].name]
                          THEN changes ELSE changes \union {"wrong"}
            /\ exact' = (exact /\ changes' = changes)
            /\ UNCHANGED <<store, ok>>
       ELSE Skipped

Written(f) ==
    IF rows[f] = None THEN None
    ELSE [i \in DOMAIN rows[f] |-> IF ed.changed[f][i] = None THEN rows[f][i] ELSE ed.changed[f][i]]

CommitValues ==
    /\ Stage("values", "features")
    /\ IF "wrong" \in changes THEN ok' = FALSE /\ UNCHANGED <<store, ed, changes, exact>>
       ELSE IF ed.changed = NoChanges THEN Skipped
       ELSE \/ Refused
            \/ /\ rows' = [f \in Fids |-> Written(f)]
               /\ ed' = [ed EXCEPT !.changed = NoChanges]
               /\ UNCHANGED <<columns, ok, changes, exact>>

\* addFeatures() of a provider stores as many attributes as it has fields.
Fitted(attrs) == [i \in DOMAIN columns |-> IF i \in DOMAIN attrs THEN attrs[i] ELSE Null]

\* Mutant: features are stored whatever has failed.
CommitFeatures_Always ==
    /\ Stage("features", "finish")
    /\ IF ed.features = NoFeatures THEN Skipped
       ELSE \/ Refused
            \/ /\ rows' = [f \in Fids |-> IF ed.features[f] = None THEN rows[f] ELSE Fitted(ed.features[f])]
               /\ ed' = [ed EXCEPT !.features = NoFeatures]
               /\ UNCHANGED <<columns, ok, changes, exact>>

CommitFeatures ==
    /\ Stage("features", "finish")
    /\ IF ~ok \/ ed.features = NoFeatures THEN Skipped
       ELSE \/ Refused
            \/ /\ rows' = [f \in Fids |-> IF ed.features[f] = None THEN rows[f] ELSE Fitted(ed.features[f])]
               /\ ed' = [ed EXCEPT !.features = NoFeatures]
               /\ UNCHANGED <<columns, ok, changes, exact>>

ResetLocals == ok' = TRUE /\ changes' = {} /\ before' = <<>>

CommitSucceeds == phase = "finish" /\ ok /\ ResetLocals /\ Close
CommitFails ==
    /\ phase = "finish" /\ ~ok
    /\ ResetLocals
    /\ ed' = UpdateFields(ed, columns)
    /\ phase' = "editing"
    /\ UNCHANGED <<store, stack, commits, hist, exact>>

Next ==
    \/ StartEditing
    \/ AddFeature
    \/ ChangeAttributeValue
    \/ AddAttribute
    \/ DeleteAttribute
    \/ RenameAttribute
    \/ UndoCommand
    \/ RedoCommand
    \/ RollBack
    \/ RollBackStep
    \/ FinishRollBack
    \/ CommitChanges
    \/ CommitDeletes
    \/ CommitAdds
    \/ CommitRenames
    \/ CheckFields
    \/ CommitValues
    \/ CommitFeatures
    \/ CommitSucceeds
    \/ CommitFails

Spec == Init /\ [][Next]_vars
-----------------------------------------------------------------------------
(* Properties. *)

\* The variables have their types; a stage of a commit that failed never leaves
\* the layer claiming that nothing was lost.
TypeOK ==
    /\ columns \in Seq(Names)
    /\ \A f \in Fids : rows[f] # None => rows[f] \in Seq(Value)
    /\ ed.added \in Seq(Names)
    /\ ed.deleted \subseteq Index
    /\ ed.renamed \in [Index -> Names \union {None}]
    /\ ed.changed \in [Fids -> [Index -> Vals \union {Null, None}]]
    /\ \A f \in Fids : ed.features[f] # None => ed.features[f] \in Seq(Value)
    /\ index \in 0..Len(cmds) /\ Len(hist) = Len(cmds) + 1
    /\ ~ok => ~exact

\* Edits, undo, redo, rollback and commits form an undo history of tables: undo
\* and redo show exactly the names and values that were there, a stage of a commit
\* changes nothing that is shown, and rollback shows the table of the start.
History == INSTANCE UndoHistory WITH
    shown <- Table(ed), past <- hist, pos <- index + 1, lost <- ~exact
History_Spec == History!Spec

\* While nothing is lost, what is keyed by a field index fits the fields, so that
\* updateChangedAttributes() and the forms read within bounds.
IndicesFit ==
    exact /\ phase # "check" =>
        /\ ~ed.undefined
        /\ \A f \in Fids, i \in Index :
            i > Len(ed.fields) => ed.changed[f][i] = None /\ ed.renamed[i] = None
        /\ \A f \in Fids : Shown(ed, f) # None => Len(Shown(ed, f)) = Len(ed.fields)

\* What is written into a field of the provider was shown in the field of that name,
\* or in the one whose renaming was refused.
WritesInPlace ==
    \A f \in Fids, i \in DOMAIN columns :
        rows[f] # None /\ rows'[f][i] # rows[f][i] =>
            i \in DOMAIN before /\ (columns[i] = before[i].name \/ ed.renamed[i] # None)

\* A commit in which no stage has failed writes each value into the field of the
\* provider that the user saw it in.
ValuesReachTheirField ==
    [][phase = "values" /\ ok => WritesInPlace]_vars

\* The same of every commit, also of one that failed to delete fields:
\* qgsvectorlayereditbuffer.cpp:475 says of fields that are not as expected "don't
\* try attribute updates - they'll fail".
ValuesOnlyInExpectedFields ==
    [][phase = "values" => WritesInPlace]_vars

\* Undo leads back to the names that were there, before any commit:
\* qgsvectorlayereditbuffer.cpp:702 promises to "go through renamed attributes and adapt".
NamesRestored == phase = "editing" /\ commits = 0 => FieldNames(ed) = hist[index + 1].names

\* New features are stored only in the fields the user saw: a commit that failed
\* to delete or to add a field does not store them with attributes that belong to others.
FeaturesReachTheirFields ==
    [][(phase = "features" /\ rows' # rows) => columns = [i \in DOMAIN before |-> before[i].name]]_vars
=============================================================================
