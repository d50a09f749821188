----------------------- MODULE TransactionGroupProofs -----------------------
(***************************************************************************)
(* Proofs about TransactionGroup for every set of layers.  Both properties *)
(* need to know which layers the group listens to: a layer of the          *)
(* transaction that ended on its own would keep its provider in it, and    *)
(* would take the report of its drafts along.                              *)
(***************************************************************************)
EXTENDS TransactionGroup, SortedSetsProofs, SequenceTheorems, TLAPS

Types ==
    /\ layers \subseteq Layers
    /\ tx \in {"null", "inactive", "active"}
    /\ members \subseteq Layers
    /\ inTx \subseteq Layers
    /\ buffer \in [Layers -> {"none", "buffer", "passthrough"}]
    /\ modified \in [Layers -> BOOLEAN]
    /\ linked \subseteq layers
    /\ draft \subseteq Layers
    /\ readOnly \union kept \union turnedAway \subseteq Layers

\* The group hears of the commit and the rollback of every layer of the transaction.
MembersLinked == members \subseteq linked

DraftsInTransaction == draft # {} => tx = "active"

DraftsLinked == draft \intersect layers \subseteq linked

OnlyLayersEdited == \A l \in Layers : Editable(l) => l \in layers

OnlyBuffersModified == \A l \in Layers : modified[l] => Editable(l)

\* What is not hidden is reported by a layer of the group that it listens to.
DraftsReported == \A l \in draft \ hidden : l \in linked /\ modified[l]

IInv ==
    /\ Types
    /\ PassthroughInTransaction
    /\ MembersLinked
    /\ DraftsInTransaction
    /\ DraftsLinked
    /\ OnlyLayersEdited
    /\ OnlyBuffersModified
    /\ DraftsReported

-----------------------------------------------------------------------------
LEMMA InitIInv == Init => IInv
BY DEF Init, IInv, Types, PassthroughInTransaction, MembersLinked, DraftsInTransaction,
       DraftsLinked, OnlyLayersEdited,
            OnlyBuffersModified, DraftsReported, Editable

\* A layer starts to edit, from the user or from the queue.
LEMMA StartIInv ==
    ASSUME IInv, NEW l, StartEditing(l), UNCHANGED <<readOnly, draft, hidden, kept>>
    PROVE  IInv'
<1> USE DEF IInv, Types, PassthroughInTransaction, MembersLinked, DraftsInTransaction,
            DraftsLinked, OnlyLayersEdited,
            OnlyBuffersModified, DraftsReported, Editable, NewBuffer
<1>1. ASSUME tx = "null", NEW begun \in BOOLEAN, BeginTransaction(begun) PROVE IInv'
  <2>1. inTx = {} /\ draft = {}
    BY <1>1
  <2>2. \A m \in Layers : buffer[m] = "passthrough" => m \in kept
    BY <2>1
  <2> DEFINE joining == {m \in layers : ~Editable(m)}
  <2> DEFINE starting == joining \ readOnly
  <2>3. /\ tx' = IF begun THEN "active" ELSE "inactive"
        /\ members' = joining /\ linked' = layers /\ layers' = layers
        /\ inTx' = IF begun THEN joining ELSE {}
        /\ turnedAway' \subseteq joining
    BY <1>1, <2>1 DEF BeginTransaction
  <2>4. /\ buffer' = [m \in Layers |-> IF m \in starting THEN NewBuffer(m, inTx') ELSE buffer[m]]
        /\ modified' = [m \in Layers |-> modified[m] /\ m \notin starting]
    BY <1>1 DEF BeginTransaction
  <2>5. Types'
    BY <2>1, <2>3, <2>4
  <2>6. PassthroughInTransaction'
    BY <2>2, <2>3, <2>4
  <2>7. MembersLinked' /\ DraftsInTransaction' /\ DraftsLinked' /\ DraftsReported'
    BY <2>1, <2>3
  <2>8. OnlyLayersEdited' /\ OnlyBuffersModified'
    BY <2>3, <2>4
  <2> QED BY <2>5, <2>6, <2>7, <2>8
<1>2. ASSUME tx # "null", UNCHANGED <<group, inTx>>, l \in layers, ~Editable(l),
             buffer' = [buffer EXCEPT ![l] = NewBuffer(l, inTx)],
             modified' = [modified EXCEPT ![l] = FALSE], turnedAway' = turnedAway \ {l}
      PROVE  IInv'
  BY <1>2 DEF group
<1> QED BY <1>1, <1>2 DEF StartEditing

\* The transaction ends: a passthrough buffer is closed, or remembered in kept.
LEMMA EndIInv ==
    ASSUME IInv, NEW closed, NEW settled, closed \subseteq settled, settled \subseteq layers,
           \A l \in layers \ closed : buffer[l] = "buffer" \/ l \in settled,
           EndTransaction(closed, settled), UNCHANGED readOnly
    PROVE  IInv'
<1> USE DEF IInv, Types, PassthroughInTransaction, MembersLinked, DraftsInTransaction,
            DraftsLinked, OnlyLayersEdited,
            OnlyBuffersModified, DraftsReported, Editable, EndTransaction, LayersEnd
<1>1. inTx' = {}
  OBVIOUS
<1>2. \A l \in Layers : buffer'[l] = "passthrough" => l \in kept'
  <2>1. \A l \in Layers : buffer[l] = "passthrough" => l \in layers
    OBVIOUS
  <2> QED BY <2>1
<1> QED BY <1>1, <1>2

\* Nothing of the transaction changes when the database refuses; drafts that are not
\* reported any more are hidden.
LEMMA RefusedIInv ==
    ASSUME IInv, NEW l \in Layers, NEW closed, NEW settled, closed \subseteq settled, settled \subseteq {l},
           Refused(l, closed, settled), UNCHANGED readOnly
    PROVE  IInv'
BY DEF IInv, Types, PassthroughInTransaction, MembersLinked, DraftsInTransaction,
       DraftsLinked, OnlyLayersEdited,
            OnlyBuffersModified, DraftsReported, Editable, Refused, LayersEnd, group

\* A layer that ends on its own has no reported drafts.
LEMMA AloneIInv ==
    ASSUME IInv, NEW l \in Layers, NEW closed, NEW settled, closed \subseteq settled, settled \subseteq {l},
           l \notin linked, EndsAlone(closed, settled), UNCHANGED readOnly
    PROVE  IInv'
BY DEF IInv, Types, PassthroughInTransaction, MembersLinked, DraftsInTransaction,
       DraftsLinked, OnlyLayersEdited,
            OnlyBuffersModified, DraftsReported, Editable, EndsAlone, LayersEnd, group

\* rollBack(), which closes the buffer of the layer or keeps it.
LEMMA RollBackIInv ==
    ASSUME IInv, NEW l \in Layers, NEW deleteBuffer \in BOOLEAN, RollBack(l, deleteBuffer)
    PROVE  IInv'
<1> DEFINE closed == IF deleteBuffer THEN {l} ELSE {}
<1>1. closed \subseteq {l} /\ readOnly' = readOnly
  BY DEF RollBack
<1>2. \/ l \notin linked /\ EndsAlone(closed, {l})
      \/ l \in linked /\ Refused(l, closed, {l})
      \/ l \in linked /\ EndTransaction((layers \ {l}) \union closed, layers)
  BY DEF RollBack
<1> HIDE DEF closed
<1>3. CASE l \notin linked /\ EndsAlone(closed, {l})
  BY <1>1, <1>3, AloneIInv
<1>4. CASE l \in linked /\ Refused(l, closed, {l})
  BY <1>1, <1>4, RefusedIInv
<1>5. CASE l \in linked /\ EndTransaction((layers \ {l}) \union closed, layers)
  <2>1. l \in layers
    BY <1>5 DEF IInv, Types
  <2> DEFINE set == (layers \ {l}) \union closed
  <2>2. set \subseteq layers /\ EndTransaction(set, layers)
    BY <1>1, <1>5, <2>1
  <2> HIDE DEF set
  <2> QED BY <1>1, <2>2, EndIInv
<1> QED BY <1>2, <1>3, <1>4, <1>5

\* commitChanges(): only a buffer of the layer's own can fail, and stays.
LEMMA CommitIInv ==
    ASSUME IInv, NEW l \in Layers, CommitChanges(l)
    PROVE  IInv'
<1> PICK own \in Committed(l) :
        \/ l \notin linked /\ EndsAlone(own, own)
        \/ l \in linked /\ Refused(l, own, own)
        \/ /\ l \in linked /\ tx = "active"
           /\ \E failing \in SUBSET {m \in layers \ {l} : buffer[m] = "buffer"} :
                EndTransaction((layers \ ({l} \union failing)) \union own,
                               (layers \ ({l} \union failing)) \union own)
  BY DEF CommitChanges
<1>1. /\ readOnly' = readOnly /\ own \subseteq {l}
      /\ own = {l} \/ buffer[l] = "buffer"
  BY DEF CommitChanges, Committed
<1>2. CASE l \notin linked /\ EndsAlone(own, own)
  BY <1>1, <1>2, AloneIInv
<1>3. CASE l \in linked /\ Refused(l, own, own)
  BY <1>1, <1>3, RefusedIInv
<1>4. ASSUME l \in linked, NEW failing \in SUBSET {m \in layers \ {l} : buffer[m] = "buffer"},
             EndTransaction((layers \ ({l} \union failing)) \union own,
                            (layers \ ({l} \union failing)) \union own)
      PROVE  IInv'
  <2> DEFINE set == (layers \ ({l} \union failing)) \union own
  <2>1. \A m \in layers \ set : buffer[m] = "buffer"
    BY <1>1
  <2>2. set \subseteq layers
    BY <1>1, <1>4 DEF IInv, Types
  <2>3. EndTransaction(set, set)
    BY <1>4
  <2> HIDE DEF set
  <2> QED BY <1>1, <2>1, <2>2, <2>3, EndIInv
<1> QED BY <1>2, <1>3, <1>4

\* A layer that is removed leaves the group, and takes it along if it was the last.
LEMMA RemoveIInv ==
    ASSUME IInv, NEW l \in Layers, RemoveLayer(l)
    PROVE  IInv'
<1> USE DEF IInv, Types, PassthroughInTransaction, MembersLinked, DraftsInTransaction,
            DraftsLinked, OnlyLayersEdited,
            OnlyBuffersModified, DraftsReported, Editable, RemoveLayer, Remaining
<1>1. CASE layers' = {}
  <2>1. inTx' = {}
    BY <1>1
  <2> QED BY <1>1, <2>1
<1>2. CASE layers' # {}
  BY <1>2
<1> QED BY <1>1, <1>2

\* An edit that becomes a draft is reported, by a layer that is in the transaction.
LEMMA EditIInv ==
    ASSUME IInv, NEW l \in Layers, Edit(l)
    PROVE  IInv'
<1> USE DEF IInv, Types, MembersLinked, Edit, group
<1>1. draft' \subseteq draft \union {l} /\ (l \in draft' => l \in draft \/ l \in inTx)
  OBVIOUS
<1>2. modified' \in [Layers -> BOOLEAN] /\ modified'[l]
      /\ \A m \in Layers : m # l => modified'[m] = modified[m]
  OBVIOUS
<1>3. Types'
  BY <1>1, <1>2
<1>4. PassthroughInTransaction' /\ MembersLinked'
  BY DEF PassthroughInTransaction
<1>5. DraftsInTransaction'
  BY <1>1 DEF DraftsInTransaction, PassthroughInTransaction
<1>6. OnlyBuffersModified' /\ OnlyLayersEdited'
  BY <1>2 DEF OnlyBuffersModified, OnlyLayersEdited, Editable
<1>7. DraftsReported'
  <2> SUFFICES ASSUME NEW m \in draft' \ hidden' PROVE m \in linked' /\ modified'[m]
    BY DEF DraftsReported
  <2>1. CASE m = l
    <3>1. hidden' = hidden \ {l} /\ linked' = linked
      OBVIOUS
    <3>2. l \in draft \/ l \in inTx
      BY <1>1, <2>1
    <3>3. l \in layers
      BY DEF OnlyLayersEdited
    <3>4. l \in linked
      BY <3>2, <3>3 DEF PassthroughInTransaction, DraftsLinked
    <3> QED BY <1>2, <2>1, <3>1, <3>4
  <2>2. CASE m # l
    BY <1>1, <1>2, <2>2 DEF DraftsReported
  <2> QED BY <2>1, <2>2
<1>8. DraftsLinked'
  BY <1>1 DEF DraftsLinked, PassthroughInTransaction
<1> QED BY <1>3, <1>4, <1>5, <1>6, <1>7, <1>8

LEMMA NextIInv == IInv /\ [Next]_vars => IInv'
<1> SUFFICES ASSUME IInv, [Next]_vars PROVE IInv'
  OBVIOUS
<1>1. CASE RunQueuedStart
  <2>1. CASE StartEditing(Head(queued))
    BY <1>1, <2>1, StartIInv DEF RunQueuedStart
  <2>2. CASE /\ UNCHANGED <<group, inTx, buffer, modified>>
             /\ turnedAway' = turnedAway \/ (Head(queued) \in readOnly
                                             /\ turnedAway' = turnedAway \union {Head(queued)})
    BY <1>1, <2>2
       DEF RunQueuedStart, group, IInv, Types, PassthroughInTransaction, MembersLinked,
           DraftsInTransaction, DraftsLinked, OnlyLayersEdited,
            OnlyBuffersModified, DraftsReported, Editable
  <2> QED BY <1>1, <2>1, <2>2 DEF RunQueuedStart
<1>2. ASSUME NEW l \in Layers, Start(l) PROVE IInv'
  BY <1>2, StartIInv DEF Start
<1>3. ASSUME NEW l \in Layers, Edit(l) PROVE IInv'
  BY <1>3, EditIInv
<1>4. ASSUME NEW l \in Layers, ChangeAttributeValues(l) PROVE IInv'
  BY <1>4 DEF ChangeAttributeValues, group, IInv, Types, PassthroughInTransaction, MembersLinked,
              DraftsInTransaction, DraftsLinked, OnlyLayersEdited,
            OnlyBuffersModified, DraftsReported, Editable
<1>5. ASSUME NEW l \in Layers, CommitChanges(l) PROVE IInv'
  BY <1>5, CommitIInv
<1>6. ASSUME NEW l \in Layers, NEW deleteBuffer \in BOOLEAN, RollBack(l, deleteBuffer) PROVE IInv'
  BY <1>6, RollBackIInv
<1>7. ASSUME NEW l \in Layers, SetReadOnly(l) PROVE IInv'
  BY <1>7 DEF SetReadOnly, history, group, IInv, Types, PassthroughInTransaction, MembersLinked,
              DraftsInTransaction, DraftsLinked, OnlyLayersEdited,
            OnlyBuffersModified, DraftsReported, Editable
<1>8. ASSUME NEW l \in Layers, AddLayer(l) PROVE IInv'
  BY <1>8 DEF AddLayer, history, IInv, Types, PassthroughInTransaction, MembersLinked,
              DraftsInTransaction, DraftsLinked, OnlyLayersEdited,
            OnlyBuffersModified, DraftsReported, Editable
<1>9. ASSUME NEW l \in Layers, RemoveLayer(l) PROVE IInv'
  BY <1>9, RemoveIInv
<1>10. CASE UNCHANGED vars
  BY <1>10 DEF vars, group, history, IInv, Types, PassthroughInTransaction, MembersLinked,
               DraftsInTransaction, DraftsLinked, OnlyLayersEdited,
            OnlyBuffersModified, DraftsReported, Editable
<1> QED
  <2>1. \A l \in Layers : Discard(l) \/ StopEditing(l) \/ StopEditingInForm(l)
                            => RollBack(l, TRUE)
    BY DEF Discard, StopEditing, StopEditingInForm
  <2>2. \A l \in Layers, leaveEditable \in BOOLEAN :
            CancelEdits(l, leaveEditable) => RollBack(l, ~leaveEditable)
    BY DEF CancelEdits
  <2>3. ASSUME NEW l \in Layers, NEW leaveEditable \in BOOLEAN, CancelEdits(l, leaveEditable)
        PROVE  IInv'
    BY <1>6, <2>2, <2>3
  <2> QED
    BY <1>1, <1>2, <1>3, <1>4, <1>5, <1>6, <1>7, <1>8, <1>9, <1>10, <2>1, <2>3 DEF Next

LEMMA AlwaysIInv == Spec => []IInv
BY InitIInv, NextIInv, PTL DEF Spec

-----------------------------------------------------------------------------
\* However the database refuses and layers come and go, the edits of a layer go to its
\* provider only while this is in the active transaction, and no provider keeps a
\* transaction that has ended (onEditingStarted(), onCommitChanges(), onRollback()).
THEOREM EditsGoToTransaction == Spec => []PassthroughInTransaction
<1>1. IInv => PassthroughInTransaction
  BY DEF IInv
<1> QED BY <1>1, AlwaysIInv, PTL

\* A step by which toggling a layer off, or removing the last one, discards drafts finds
\* every draft hidden: the layer was not told of it, or its buffer was closed or emptied
\* by a commit or rollback that was refused.
LEMMA DiscardStep ==
    ASSUME IInv, Next, discarded' \in {"toggle", "removal"}
    PROVE  draft \subseteq hidden
<1>1. CASE \E l \in Layers : StopEditing(l)
  <2> PICK l \in Layers : StopEditing(l)
    BY <1>1
  <2>1. draft # {} /\ draft' = {} /\ ~Asks(l) /\ RollBack(l, TRUE)
    BY DEF StopEditing, Discards
  <2>2. l \in linked
    BY <2>1 DEF RollBack, EndsAlone
  <2>3. \A m \in layers : ~modified[m]
    BY <2>1, <2>2 DEF Asks, GroupModified, IInv, Types
  <2> QED BY <2>3 DEF IInv, Types, DraftsReported
<1>2. CASE \E l \in Layers : RemoveLayer(l)
  <2> PICK l \in Layers : RemoveLayer(l)
    BY <1>2
  <2>1. draft # {} /\ draft' = {} /\ ~modified[l]
    BY DEF RemoveLayer, Discards
  <2>2. layers \subseteq {l}
    BY <2>1 DEF RemoveLayer, Remaining
  <2> QED BY <2>1, <2>2 DEF IInv, Types, DraftsReported
<1>3. \/ \E l \in Layers : StopEditing(l)
      \/ \E l \in Layers : RemoveLayer(l)
  BY DEF Next, RunQueuedStart, Start, SetReadOnly, Edit, ChangeAttributeValues, CommitChanges,
         Discard, StopEditingInForm, CancelEdits, AddLayer, Discards, DiscardsNothing
<1> QED BY <1>1, <1>2, <1>3

\* Toggling a layer off, or removing the last one, loses only edits that no layer of the
\* group reports (toggleEditing() of the application asks for the others).
THEOREM DiscardsAreHidden == Spec => AskedUnlessHidden
<1>1. IInv /\ [Next]_vars => [discarded' \in {"toggle", "removal"} => draft \subseteq hidden]_vars
  BY DiscardStep
<1> QED BY <1>1, AlwaysIInv, PTL DEF Spec, AskedUnlessHidden

-----------------------------------------------------------------------------
(* The event queue *)

\* A layer of the active transaction that is not being edited waits in the queue, unless
\* it was read-only when it was to start.
Returning ==
    tx = "active" => \A m \in members \ turnedAway : Editable(m) \/ m \in Contents(queued)

QueueInv ==
    /\ queued \in Seq(Layers) /\ Len(queued) <= MaxQueued
    /\ hidden \subseteq draft
    /\ discarded \in {"no", "asked", "toggle", "form", "selection", "removal"}
    /\ Returning

\* Every member that is to edit, after the step, does so or did not before.
NoneStops ==
    tx' = "active" => \A m \in members' \ turnedAway' :
        Editable(m)' \/ (tx = "active" /\ m \in members \ turnedAway /\ ~Editable(m))

\* Where the queue stays as it is, it is enough that no layer of the transaction stops
\* being edited.
LEMMA QueueKept ==
    ASSUME QueueInv, UNCHANGED queued, hidden' \subseteq draft', NoneStops,
           discarded' \in {"no", "asked", "toggle", "form", "selection", "removal"}
    PROVE  QueueInv'
  BY DEF QueueInv, Returning, NoneStops

LEMMA StartQueue ==
    ASSUME IInv, QueueInv, NEW l, StartEditing(l)
    PROVE  NoneStops /\ Editable(l)'
<1> USE DEF IInv, Types, Editable, NewBuffer, NoneStops
<1>1. CASE tx = "null"
  <2> PICK begun \in BOOLEAN : BeginTransaction(begun)
    BY <1>1 DEF StartEditing
  <2>1. l \in layers \ readOnly /\ ~Editable(l)
    BY DEF StartEditing
  <2> DEFINE joining == {m \in layers : ~Editable(m)}
  <2> DEFINE starting == joining \ readOnly
  <2>2. members' = joining /\ l \in starting /\ joining \subseteq Layers
        /\ turnedAway' = joining \intersect readOnly /\ starting = joining \ readOnly
        /\ buffer' = [m \in Layers |-> IF m \in starting THEN NewBuffer(m, inTx') ELSE buffer[m]]
    BY <2>1 DEF BeginTransaction
  <2> HIDE DEF joining, starting
  <2> QED BY <2>2
<1>2. CASE tx # "null"
  <2>1. /\ l \in Layers /\ tx' = tx /\ members' = members /\ turnedAway' = turnedAway \ {l}
        /\ buffer' = [buffer EXCEPT ![l] = NewBuffer(l, inTx)]
    BY <1>2 DEF StartEditing, group
  <2> QED BY <2>1
<1> QED BY <1>1, <1>2

\* The first of the queue is taken out: it is being edited then, or was turned away.
LEMMA RunQueue ==
    ASSUME IInv, QueueInv, RunQueuedStart
    PROVE  QueueInv'
<1>1. queued \in Seq(Layers) /\ queued # <<>> /\ queued' = Tail(queued)
  BY DEF QueueInv, RunQueuedStart
<1> PICK l \in Layers : l = Head(queued)
  BY <1>1, HeadTailProperties
<1>2. /\ queued' \in Seq(Layers) /\ Len(queued') <= MaxQueued
      /\ \A m \in Contents(queued) : m = l \/ m \in Contents(queued')
  <2>1. /\ Tail(queued) \in Seq(Layers) /\ Len(Tail(queued)) = Len(queued) - 1 /\ l = queued[1]
        /\ \A i \in 1 .. Len(Tail(queued)) : Tail(queued)[i] = queued[i + 1]
        /\ Len(queued) \in Nat \ {0} /\ DOMAIN Tail(queued) = 1 .. Len(Tail(queued))
        /\ DOMAIN queued = 1 .. Len(queued)
    BY <1>1, HeadTailProperties
  <2>2. Len(queued) <= MaxQueued /\ MaxQueued \in Nat
    BY BoundAssumption DEF QueueInv
  <2>4. ASSUME NEW i \in 1 .. Len(queued), i # 1
        PROVE  queued[i] \in Contents(queued')
    <3>1. i - 1 \in 1 .. Len(Tail(queued)) /\ (i - 1) + 1 = i
      BY <2>1, <2>4
    <3> QED BY <1>1, <2>1, <3>1 DEF Contents
  <2> QED BY <1>1, <2>1, <2>2, <2>4 DEF Contents
<1>3. hidden' \subseteq draft' /\ discarded' = "no"
  BY DEF RunQueuedStart, QueueInv, DiscardsNothing
<1>4. CASE StartEditing(l)
  <2>1. NoneStops /\ Editable(l)'
    BY <1>4, StartQueue
  <2> QED BY <1>2, <1>3, <2>1 DEF QueueInv, Returning, NoneStops
<1>5. CASE Editable(l) /\ UNCHANGED <<group, inTx, buffer, modified, turnedAway>>
  <2>1. tx' = tx /\ members' = members /\ turnedAway' = turnedAway /\ \A m : Editable(m)' = Editable(m)
    BY <1>5 DEF group, Editable
  <2> QED BY <1>2, <1>3, <1>5, <2>1 DEF QueueInv, Returning
<1>6. CASE turnedAway' = turnedAway \union {l} /\ UNCHANGED <<group, inTx, buffer, modified>>
  <2>1. tx' = tx /\ members' = members /\ \A m : Editable(m)' = Editable(m)
    BY <1>6 DEF group, Editable
  <2> QED BY <1>2, <1>3, <1>6, <2>1 DEF QueueInv, Returning
<1> QED BY <1>4, <1>5, <1>6 DEF RunQueuedStart

\* Commit or rollback was refused: the layer enters the queue.
LEMMA RefusedQueue ==
    ASSUME IInv, QueueInv, NEW l \in Layers, NEW closed, NEW settled, closed \subseteq {l},
           Refused(l, closed, settled),
           discarded' \in {"no", "asked", "toggle", "form", "selection", "removal"}
    PROVE  QueueInv'
<1>1. /\ queued' = Append(queued, l) /\ queued \in Seq(Layers) /\ Len(queued) < MaxQueued
      /\ tx' = tx /\ members' = members /\ turnedAway' = turnedAway
      /\ buffer' = [m \in Layers |-> IF m \in closed THEN "none" ELSE buffer[m]]
      /\ hidden' \subseteq draft'
  BY DEF Refused, LayersEnd, QueueInv, group
<1>2. /\ queued' \in Seq(Layers) /\ Len(queued') <= MaxQueued
      /\ l \in Contents(queued') /\ Contents(queued) \subseteq Contents(queued')
  <2>1. /\ queued' \in Seq(Layers) /\ Len(queued') = Len(queued) + 1
        /\ queued'[Len(queued) + 1] = l /\ \A i \in 1 .. Len(queued) : queued'[i] = queued[i]
    BY <1>1
  <2>2. Len(queued) \in Nat /\ MaxQueued \in Nat
    BY <1>1, BoundAssumption
  <2> QED BY <1>1, <2>1, <2>2 DEF Contents
<1>3. \A m \in members : m # l => Editable(m)' = Editable(m)
  BY <1>1 DEF IInv, Types, Editable
<1> QED BY <1>1, <1>2, <1>3 DEF QueueInv, Returning

\* A layer that ends on its own is in no transaction.
LEMMA AloneQueue ==
    ASSUME IInv, QueueInv, NEW l \in Layers, NEW closed, NEW settled, closed \subseteq {l},
           l \notin linked, EndsAlone(closed, settled),
           discarded' \in {"no", "asked", "toggle", "form", "selection", "removal"}
    PROVE  QueueInv'
<1>1. \A m \in members : Editable(m)' = Editable(m)
  BY DEF EndsAlone, LayersEnd, IInv, Types, MembersLinked, Editable
<1>2. /\ tx' = tx /\ members' = members /\ queued' = queued /\ hidden' \subseteq draft'
      /\ turnedAway' = turnedAway
  BY DEF EndsAlone, group, QueueInv
<1> QED BY <1>1, <1>2, QueueKept DEF NoneStops

\* No layer is to come back into a transaction that has ended.
LEMMA EndQueue ==
    ASSUME QueueInv, NEW closed, NEW settled, EndTransaction(closed, settled),
           discarded' \in {"no", "asked", "toggle", "form", "selection", "removal"}
    PROVE  QueueInv'
  BY QueueKept DEF EndTransaction, NoneStops

LEMMA RollBackQueue ==
    ASSUME IInv, QueueInv, NEW l \in Layers, NEW deleteBuffer \in BOOLEAN, RollBack(l, deleteBuffer),
           discarded' \in {"no", "asked", "toggle", "form", "selection", "removal"}
    PROVE  QueueInv'
<1> DEFINE closed == IF deleteBuffer THEN {l} ELSE {}
<1>1. closed \subseteq {l}
  OBVIOUS
<1>2. \/ l \notin linked /\ EndsAlone(closed, {l})
      \/ l \in linked /\ Refused(l, closed, {l})
      \/ EndTransaction((layers \ {l}) \union closed, layers)
  BY DEF RollBack
<1> HIDE DEF closed
<1> QED BY <1>1, <1>2, AloneQueue, RefusedQueue, EndQueue

LEMMA CommitQueue ==
    ASSUME IInv, QueueInv, NEW l \in Layers, CommitChanges(l)
    PROVE  QueueInv'
<1>1. discarded' = "no"
  BY DEF CommitChanges, DiscardsNothing
<1>2. PICK own \in Committed(l) :
        \/ l \notin linked /\ EndsAlone(own, own)
        \/ l \in linked /\ Refused(l, own, own)
        \/ \E set : EndTransaction(set, set)
  BY DEF CommitChanges
<1>3. own \subseteq {l}
  BY DEF Committed
<1> QED BY <1>1, <1>2, <1>3, AloneQueue, RefusedQueue, EndQueue

\* The queue forgets a layer that is removed.
LEMMA RemoveQueue ==
    ASSUME IInv, QueueInv, NEW l \in Layers, RemoveLayer(l)
    PROVE  QueueInv'
<1>1. queued' = Kept(queued, Layers \ {l}) /\ queued \in Seq(Layers) /\ Len(queued) <= MaxQueued
  BY DEF QueueInv, RemoveLayer, Remaining
<1>2. /\ queued' \in Seq(Layers) /\ Len(queued') <= MaxQueued
      /\ Contents(queued') = Contents(queued) \intersect (Layers \ {l})
  <2>1. /\ queued' \in Seq(Layers) /\ Len(queued') <= Len(queued)
        /\ Contents(queued') = Contents(queued) \intersect (Layers \ {l})
    BY <1>1, KeptProperties
  <2>2. Len(queued') \in Nat /\ Len(queued) \in Nat /\ MaxQueued \in Nat
    BY <1>1, <2>1, BoundAssumption
  <2>3. Len(queued') <= MaxQueued
    BY <1>1, <2>1, <2>2
  <2> QED BY <2>1, <2>3
<1>3. /\ hidden' \subseteq draft' /\ turnedAway' = turnedAway \ {l}
      /\ discarded' \in {"no", "asked", "removal"}
  BY DEF RemoveLayer, Remaining, QueueInv, Discards
<1>4. tx' = "active" => tx = "active" /\ members' = members \ {l}
  BY DEF RemoveLayer
<1>5. members \subseteq Layers /\ \A m \in Layers \ {l} : Editable(m)' = Editable(m)
  BY DEF RemoveLayer, Remaining, IInv, Types, Editable
<1> QED BY <1>2, <1>3, <1>4, <1>5 DEF QueueInv, Returning

LEMMA NextQueue == IInv /\ QueueInv /\ [Next]_vars => QueueInv'
<1> SUFFICES ASSUME IInv, QueueInv, [Next]_vars PROVE QueueInv'
  OBVIOUS
<1>1. CASE RunQueuedStart
  BY <1>1, RunQueue
<1>2. ASSUME NEW l \in Layers, Start(l) PROVE QueueInv'
  <2>1. queued' = queued /\ hidden' \subseteq draft' /\ discarded' = "no"
    BY <1>2 DEF Start, QueueInv, DiscardsNothing
  <2> QED BY <1>2, <2>1, StartQueue, QueueKept DEF Start
<1>3. ASSUME NEW l \in Layers, Edit(l) \/ ChangeAttributeValues(l) \/ AddLayer(l) \/ SetReadOnly(l)
      PROVE  QueueInv'
  <2>1. /\ tx' = tx /\ members' = members /\ queued' = queued /\ buffer' = buffer
        /\ turnedAway' = turnedAway /\ discarded' = "no"
    BY <1>3 DEF Edit, ChangeAttributeValues, AddLayer, SetReadOnly, group, history, DiscardsNothing
  <2>2. hidden' \subseteq draft'
    BY <1>3 DEF Edit, ChangeAttributeValues, AddLayer, SetReadOnly, history, QueueInv
  <2> QED BY <2>1, <2>2, QueueKept DEF Editable, NoneStops
<1>4. ASSUME NEW l \in Layers, CommitChanges(l) PROVE QueueInv'
  BY <1>4, CommitQueue
<1>5. ASSUME NEW l \in Layers, Discard(l) \/ StopEditing(l) \/ StopEditingInForm(l) PROVE QueueInv'
  <2>1. RollBack(l, TRUE) /\ discarded' \in {"no", "asked", "toggle", "form"}
    BY <1>5 DEF Discard, StopEditing, StopEditingInForm, Discards
  <2> QED BY <2>1, RollBackQueue
<1>6. ASSUME NEW l \in Layers, NEW leaveEditable \in BOOLEAN, CancelEdits(l, leaveEditable)
      PROVE  QueueInv'
  <2>1. RollBack(l, ~leaveEditable) /\ discarded' \in {"no", "selection"}
    BY <1>6 DEF CancelEdits, Discards
  <2> QED BY <2>1, RollBackQueue
<1>7. ASSUME NEW l \in Layers, RemoveLayer(l) PROVE QueueInv'
  BY <1>7, RemoveQueue
<1>8. CASE UNCHANGED vars
  BY <1>8 DEF vars, group, history, QueueInv, Returning, Editable
<1> QED BY <1>1, <1>2, <1>3, <1>4, <1>5, <1>6, <1>7, <1>8 DEF Next

LEMMA AlwaysQueueInv == Spec => [](IInv /\ QueueInv)
<1>1. Init => QueueInv
  BY BoundAssumption DEF Init, QueueInv, Returning
<1> QED BY <1>1, InitIInv, NextIInv, NextQueue, PTL DEF Spec

\* Every variable keeps its type; the queue of restarts names layers of the database
\* (onCommitChanges() and onRollback() fill it, removed layers leave it).
THEOREM TypeCorrect == Spec => []TypeOK
<1>1. IInv /\ QueueInv => TypeOK
  BY DEF IInv, Types, QueueInv, TypeOK
<1> QED BY <1>1, AlwaysQueueInv, PTL

\* Layers edit together: a layer of the active transaction that fell out of editing,
\* because the database refused its commit or rollback, has its restart in the queue; only
\* layers that were read-only when they were to start look on.
THEOREM LayersEditTogether == Spec => []EditTogether
<1>1. IInv /\ QueueInv => EditTogether
  BY DEF QueueInv, Returning, EditTogether, Contents
<1> QED BY <1>1, AlwaysQueueInv, PTL
=============================================================================
