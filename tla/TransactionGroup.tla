--------------------------- MODULE TransactionGroup ---------------------------
(***************************************************************************)
(* Layers of one database that are edited in one transaction               *)
(* (qgstransactiongroup.cpp, qgstransaction.cpp): the first layer to edit  *)
(* begins it and takes the others into edit mode, whose edits go straight  *)
(* to the provider (qgsvectorlayereditpassthrough.cpp), and the first to   *)
(* commit or roll back ends it for all.  Begin, commit and rollback of the *)
(* database may fail.  Layers that are read-only join, but do not edit.    *)
(* The user toggles editing, and cancels the edits of selected layers, as  *)
(* qgisapp.cpp and the forms (qgsguivectorlayertools.cpp) let him.         *)
(*                                                                         *)
(* Everything but the restart of editing after a failure, which is queued  *)
(* in the event loop, happens within the call that starts it.              *)
(***************************************************************************)
EXTENDS Naturals, Sequences, FiniteSets, SortedSets

CONSTANTS
    Layers,        \* vector layers of the database
    MaxQueued      \* bound: calls in the event queue

ASSUME LayersAssumption == IsFiniteSet(Layers)
ASSUME BoundAssumption == MaxQueued \in Nat

VARIABLES
    layers,     \* mLayers of the group
    readOnly,   \* layers with mReadOnly, or whose provider has no editing capabilities
    tx,         \* mTransaction: null, or its mTransactionActive
    members,    \* mLayers of the transaction
    inTx,       \* the layers whose data provider has the transaction set
    buffer,     \* mEditBuffer of each layer
    modified,   \* isModified() of that buffer
    linked,     \* layers whose beforeCommitChanges and beforeRollBack are connected
    queued,     \* startEditing() calls in the event queue
    draft,      \* layers with edits in the transaction that is open in the database
    hidden,     \* history: layers with drafts that their buffer never reported, or
                \* reports no longer
    kept,       \* history: layers whose passthrough buffer was kept by the rollBack()
                \* that ended its transaction
    turnedAway, \* history: layers that the group took along, or started again, when
                \* they were read-only
    discarded   \* history: how the last step discarded drafts, if it did

group == <<layers, tx, members, linked>>
history == <<hidden, kept, turnedAway>>
vars == <<group, readOnly, inTx, buffer, modified, queued, draft, history, discarded>>

Discards(way) == discarded' = IF draft # {} /\ draft' = {} THEN way ELSE "no"
DiscardsNothing == discarded' = "no"

Editable(l) == buffer[l] # "none"
GroupModified == \E l \in layers : modified[l]

TypeOK ==
    /\ layers \subseteq Layers
    /\ tx \in {"null", "inactive", "active"}
    /\ members \subseteq Layers
    /\ inTx \subseteq Layers
    /\ buffer \in [Layers -> {"none", "buffer", "passthrough"}]
    /\ modified \in [Layers -> BOOLEAN]
    /\ linked \subseteq layers
    /\ queued \in Seq(Layers) /\ Len(queued) <= MaxQueued
    /\ draft \subseteq Layers
    /\ hidden \subseteq draft
    /\ readOnly \union kept \union turnedAway \subseteq Layers
    /\ discarded \in {"no", "asked", "toggle", "form", "selection", "removal"}

Init ==
    /\ layers \in SUBSET Layers /\ readOnly \in SUBSET Layers
    /\ tx = "null" /\ members = {} /\ inTx = {} /\ linked = {}
    /\ buffer = [l \in Layers |-> "none"]
    /\ modified = [l \in Layers |-> FALSE]
    /\ queued = <<>>
    /\ draft = {}
    /\ hidden = {} /\ kept = {} /\ turnedAway = {} /\ discarded = "no"

-----------------------------------------------------------------------------
(* Starting to edit. *)

\* What startEditing() creates for layer l when the providers in set are in a transaction.
NewBuffer(l, set) == IF l \in set THEN "passthrough" ELSE "buffer"

\* Mutant: layers outside of the group are taken along.
BeginTransaction_AnyLayer(begun) ==
    LET joining == {l \in Layers : ~Editable(l)}
        starting == joining \ readOnly
    IN  /\ tx' = IF begun THEN "active" ELSE "inactive"
        /\ members' = joining
        /\ inTx' = IF begun THEN inTx \union joining ELSE inTx
        /\ linked' = Layers
        /\ buffer' = [l \in Layers |-> IF l \in starting THEN NewBuffer(l, inTx') ELSE buffer[l]]
        /\ modified' = [l \in Layers |-> modified[l] /\ l \notin starting]
        /\ turnedAway' = joining \intersect readOnly
        /\ UNCHANGED layers

\* onEditingStarted(): the result of begin() is not looked at; the transaction refuses
\* layers that are being edited, and takes those that cannot be edited.
BeginTransaction(begun) ==
    LET joining == {l \in layers : ~Editable(l)}
        starting == joining \ readOnly
    IN  /\ tx' = IF begun THEN "active" ELSE "inactive"
        /\ members' = joining
        /\ inTx' = IF begun THEN inTx \union joining ELSE inTx
        /\ linked' = layers
        /\ buffer' = [l \in Layers |-> IF l \in starting THEN NewBuffer(l, inTx') ELSE buffer[l]]
        /\ modified' = [l \in Layers |-> modified[l] /\ l \notin starting]
        /\ turnedAway' = joining \intersect readOnly
        /\ UNCHANGED layers

\* The first of a group to edit starts all; any other layer starts alone.
StartEditing(l) ==
    /\ l \in layers \ readOnly /\ ~Editable(l)
    /\ IF tx = "null"
       THEN \E begun \in BOOLEAN : BeginTransaction(begun)
       ELSE /\ buffer' = [buffer EXCEPT ![l] = NewBuffer(l, inTx)]
            /\ modified' = [modified EXCEPT ![l] = FALSE]
            /\ turnedAway' = turnedAway \ {l}
            /\ UNCHANGED <<group, inTx>>

Start(l) ==
    /\ StartEditing(l)
    /\ DiscardsNothing
    /\ UNCHANGED <<readOnly, queued, draft, hidden, kept>>

\* The event loop gets to a queued startEditing(); it does nothing for a layer
\* that is being edited, or has become read-only.
RunQueuedStart ==
    /\ queued # <<>>
    /\ queued' = Tail(queued)
    /\ \/ StartEditing(Head(queued))
       \/ /\ Editable(Head(queued))
          /\ UNCHANGED <<group, inTx, buffer, modified, turnedAway>>
       \/ /\ Head(queued) \in readOnly /\ ~Editable(Head(queued))
          /\ turnedAway' = turnedAway \union {Head(queued)}
          /\ UNCHANGED <<group, inTx, buffer, modified>>
    /\ DiscardsNothing
    /\ UNCHANGED <<readOnly, draft, hidden, kept>>

\* The properties of the project make a layer read-only, or no longer so.
SetReadOnly(l) ==
    /\ ~Editable(l)
    /\ readOnly' = IF l \in readOnly THEN readOnly \ {l} ELSE readOnly \union {l}
    /\ DiscardsNothing
    /\ UNCHANGED <<group, inTx, buffer, modified, queued, draft, history>>

-----------------------------------------------------------------------------
(* Editing.  An edit in a transaction is a draft, any other edit of a layer *)
(* stays in its own buffer, or is stored at once if it passes through.      *)

Edit(l) ==
    /\ Editable(l)
    /\ draft' = IF buffer[l] = "passthrough" /\ l \in inTx THEN draft \union {l} ELSE draft
    /\ modified' = [modified EXCEPT ![l] = TRUE]
    /\ hidden' = hidden \ {l}
    /\ DiscardsNothing
    /\ UNCHANGED <<group, readOnly, inTx, buffer, queued, kept, turnedAway>>

\* changeAttributeValues(), which attribute forms use, does not set mModified.
ChangeAttributeValues(l) ==
    /\ buffer[l] = "passthrough" /\ l \in inTx
    /\ draft' = draft \union {l}
    /\ hidden' = IF modified[l] THEN hidden ELSE hidden \union {l}
    /\ DiscardsNothing
    /\ UNCHANGED <<group, readOnly, inTx, buffer, modified, queued, kept, turnedAway>>

-----------------------------------------------------------------------------
(* Commit and rollback.  The layer's own buffer is committed or rolled back *)
(* after the group has reacted to the signal.                               *)

\* What commitChanges() and rollBack() leave of the buffers: the layers in closed have
\* none any more, those in settled report no modifications.
LayersEnd(closed, settled) ==
    /\ buffer' = [l \in Layers |-> IF l \in closed THEN "none" ELSE buffer[l]]
    /\ modified' = [l \in Layers |-> modified[l] /\ l \notin settled]

\* Mutant: the providers keep the transaction that has ended.
EndTransaction_KeepsProviders(closed, settled) ==
    /\ tx' = "null" /\ members' = {} /\ turnedAway' = {}
    /\ inTx' = inTx
    /\ linked' = linked \ layers
    /\ draft' = {} /\ hidden' = {}
    /\ kept' = (kept \ closed) \union {l \in settled \ closed : buffer[l] = "passthrough"}
    /\ LayersEnd(closed, settled)
    /\ UNCHANGED <<layers, queued>>

\* The transaction has ended; a passthrough buffer that is not closed outlives it.
EndTransaction(closed, settled) ==
    /\ tx' = "null" /\ members' = {} /\ turnedAway' = {}
    /\ inTx' = inTx \ members
    /\ linked' = linked \ layers
    /\ draft' = {} /\ hidden' = {}
    /\ kept' = (kept \ closed) \union {l \in settled \ closed : buffer[l] = "passthrough"}
    /\ LayersEnd(closed, settled)
    /\ UNCHANGED <<layers, queued>>

\* Mutant: the layer does not come back.
Refused_NoRestart(l, closed, settled) ==
    /\ queued' = queued
    /\ LayersEnd(closed, settled)
    /\ hidden' = hidden \union (draft \intersect settled)
    /\ kept' = kept \ closed
    /\ UNCHANGED <<group, inTx, draft, turnedAway>>

\* The database refuses, or there is no transaction to end: the calling layer is
\* to edit again, while it goes on to close its buffer; its edits stay drafts.
Refused(l, closed, settled) ==
    /\ Len(queued) < MaxQueued
    /\ queued' = Append(queued, l)
    /\ LayersEnd(closed, settled)
    /\ hidden' = hidden \union (draft \intersect settled)
    /\ kept' = kept \ closed
    /\ UNCHANGED <<group, inTx, draft, turnedAway>>

\* A layer that the group is not connected to ends editing on its own.
EndsAlone(closed, settled) ==
    /\ LayersEnd(closed, settled)
    /\ kept' = kept \ closed
    /\ UNCHANGED <<group, inTx, queued, draft, hidden, turnedAway>>

\* A passthrough buffer always commits, a layer's own buffer may fail, and stays then.
Committed(l) == IF buffer[l] = "buffer" THEN {{}, {l}} ELSE {{l}}

CommitChanges(l) ==
    /\ Editable(l)
    /\ \E own \in Committed(l) :
        \/ l \notin linked /\ EndsAlone(own, own)
        \/ l \in linked /\ Refused(l, own, own)
        \/ /\ l \in linked /\ tx = "active"
           /\ \E failing \in SUBSET {m \in layers \ {l} : buffer[m] = "buffer"} :
                LET set == (layers \ ({l} \union failing)) \union own
                IN  EndTransaction(set, set)
    /\ DiscardsNothing
    /\ UNCHANGED readOnly

\* rollBack() closes the buffer, or only empties it; the other layers of the group
\* close theirs in any case.
RollBack(l, deleteBuffer) ==
    /\ Editable(l)
    /\ LET closed == IF deleteBuffer THEN {l} ELSE {}
       IN  \/ l \notin linked /\ EndsAlone(closed, {l})
           \/ l \in linked /\ Refused(l, closed, {l})
           \/ /\ l \in linked /\ tx = "active"
              /\ EndTransaction((layers \ {l}) \union closed, layers)
    /\ UNCHANGED readOnly

\* Mutant: only the layer itself is asked.
Asks_OwnLayer(l) == modified[l]

\* toggleEditing() of the application asks whether to save when the layer or its
\* group reports modifications, and else rolls back.
Asks(l) == modified[l] \/ (l \in layers /\ GroupModified)

Discard(l) == Asks(l) /\ RollBack(l, TRUE) /\ Discards("asked")
StopEditing(l) == ~Asks(l) /\ RollBack(l, TRUE) /\ Discards("toggle")

\* The editor of related features in a form ends editing by stopEditing() of
\* QgsGuiVectorLayerTools, which looks at the layer alone.
StopEditingInForm(l) == ~modified[l] /\ RollBack(l, TRUE) /\ Discards("form")

\* Cancel and Rollback for the selected layers do not ask; the latter leaves the layer
\* editable, and its startEditing() finds the buffer in place.
CancelEdits(l, leaveEditable) == RollBack(l, ~leaveEditable) /\ Discards("selection")

-----------------------------------------------------------------------------
(* Layers that come and go. *)

\* A removed layer is gone: one that comes later is another one.
AddLayer(l) ==
    /\ l \notin layers /\ l \notin draft
    /\ layers' = layers \union {l}
    /\ DiscardsNothing
    /\ UNCHANGED <<tx, members, linked, readOnly, inTx, buffer, modified, queued, draft, history>>

Remaining(l) ==
    /\ layers' = layers \ {l}
    /\ linked' = linked \ {l}
    /\ buffer' = [buffer EXCEPT ![l] = "none"]
    /\ modified' = [modified EXCEPT ![l] = FALSE]
    /\ queued' = Kept(queued, Layers \ {l})
    /\ kept' = kept \ {l}
    /\ turnedAway' = turnedAway \ {l}

\* The application asks before it removes a layer that reports modifications.  A
\* group without layers is deleted, and its transaction with it.
RemoveLayer(l) ==
    /\ l \in layers
    /\ Remaining(l)
    /\ inTx' = inTx \ {l}
    /\ IF layers' = {}
       THEN tx' = "null" /\ members' = {} /\ draft' = {} /\ hidden' = {}
       ELSE /\ members' = members \ {l}
            /\ hidden' = hidden \union (draft \intersect {l})
            /\ UNCHANGED <<tx, draft>>
    /\ Discards(IF modified[l] THEN "asked" ELSE "removal")
    /\ UNCHANGED readOnly

Next ==
    \/ RunQueuedStart
    \/ \E l \in Layers :
        \/ Start(l)
        \/ SetReadOnly(l)
        \/ Edit(l)
        \/ ChangeAttributeValues(l)
        \/ CommitChanges(l)
        \/ Discard(l)
        \/ StopEditing(l)
        \/ StopEditingInForm(l)
        \/ \E leaveEditable \in BOOLEAN : CancelEdits(l, leaveEditable)
        \/ AddLayer(l)
        \/ RemoveLayer(l)

\* The event loop serves its queue.
Spec == Init /\ [][Next]_vars /\ WF_vars(RunQueuedStart)

-----------------------------------------------------------------------------
(* Properties. *)

\* A layer whose edits go straight to the provider has the provider in the active
\* transaction, unless rollBack() kept its buffer when it ended that transaction; and
\* no provider keeps a transaction that has ended: edits would be stored at once, or
\* sent to a transaction that was deleted.
PassthroughInTransaction ==
    /\ \A l \in Layers : buffer[l] = "passthrough" => l \in inTx \/ l \in kept
    /\ inTx # {} => tx = "active"
    /\ inTx \subseteq members

\* Does not hold.  qgsvectorlayer.h:1984 of startEditing() "Changes made in this edit
\* session will not be made persistent until commitChanges() is called": what is edited
\* in a passthrough buffer that a rollback left open is stored at once.
PersistentByCommit ==
    \A l \in Layers : buffer[l] = "passthrough" /\ modified[l] => l \in inTx

\* Layers edit together: while a transaction is active and no restart is pending, each
\* of its layers is being edited, unless it was read-only when it was to start.
EditTogether == tx = "active" /\ queued = <<>> => \A l \in members \ turnedAway : Editable(l)

\* toggleEditing() and the removal of the last layer discard edits without a question
\* only if none of the layers reports them.
AskedUnlessHidden == [][discarded' \in {"toggle", "removal"} => draft \subseteq hidden]_vars

\* A layer that stopped editing because a commit or rollback failed comes back into
\* the transaction's edit mode, or the transaction ends without it, or it has been
\* made read-only.
MemberComesBack ==
    \A l \in Layers :
        (l \in members /\ ~Editable(l)) ~> (l \notin members \/ Editable(l) \/ l \in turnedAway)

\* Does not hold.  qgsvectorlayer.h:1228 says of isModified() "Returns true if the
\* provider has been modified since the last commit": toggling a layer off never loses
\* edits silently.
NothingDiscarded == discarded # "toggle"

\* Does not hold.  qgsvectorlayertools.h:68 says of the end of editing "Appropriate
\* dialogs should be shown": a form discards only edits that no layer reports.
FormAsks == [][discarded' = "form" => draft \subseteq hidden]_vars
=============================================================================
