--------------------------- MODULE OfflineEditing ---------------------------
(***************************************************************************)
(* Offline editing (QgsOfflineEditing, src/core/qgsofflineediting.cpp).    *)
(*                                                                         *)
(* Layers of a server have been copied into a database file.  What the     *)
(* user commits to a copy is logged in tables of that file: the ids of     *)
(* the features added, those of features removed, and the values changed,  *)
(* these with the number of their commit.  synchronize() replays the log   *)
(* on the remote layer, through an edit buffer that is committed once,     *)
(* looks up which remote feature each added one has become, deletes the    *)
(* log, and takes the copy out of the project.  If that commit fails, the  *)
(* remote layer keeps the rest of the buffer, for the user to save or not. *)
(*                                                                         *)
(* The database file and the server are durable, the open project is not:  *)
(* after a crash the project is what was saved last, in general with the   *)
(* copies.  Changes of attributes and of geometries are logged and         *)
(* replayed alike and are one kind of update here.                         *)
(***************************************************************************)
EXTENDS Integers, Sequences, FiniteSets, SequencesExt, Functions, SortedSets

CONSTANTS
    Layers,     \* the layers taken offline
    Values,     \* what the attributes and the geometry of a feature can be
    Unknown,    \* the id -1 that remoteFid() returns for a feature without one
    MaxRemote,  \* bound: remote features of a layer when it is copied
    MaxFid,     \* bound: ids of the offline table
    MaxEdits,   \* bound: commits of offline edits
    MaxSyncs,   \* bound: calls of synchronize()
    MaxFaults   \* bound: crashes, failures of the server, edits of others

\* The copy has room for the features of the remote layer.
ASSUME ConstantsAssumption ==
    /\ {MaxRemote, MaxFid, MaxEdits, MaxSyncs, MaxFaults} \subseteq Nat
    /\ MaxRemote <= MaxFid /\ Unknown \notin Nat /\ Cardinality(Values) > 1

VARIABLES
    table,      \* per layer: the features of the offline table, by rowid
    remote,     \* per layer: the features of the server
    nextId,     \* per layer: the next id the server gives
    buffer,     \* per layer: the edit buffer that a failed commit left in the remote layer
    fids,       \* per layer: log_fids, rows of an offline and a remote id
    log,        \* per layer: log_added_features, log_removed_features and log_feature_updates
    commitNo,   \* log_indices: commit_no, one for all layers
    project,    \* the open project: its OfflineDbPath entry and its offline layers
    saved,      \* the project file
    sync,       \* where synchronize() is
    lost,       \* per layer: what has gone wrong in its history (of the model alone)
    edits, syncs, faults

database == <<table, fids, log, commitNo>>
counters == <<edits, syncs, faults>>
vars == <<table, remote, nextId, buffer, fids, log, commitNo, project, saved, sync, lost, counters>>

-----------------------------------------------------------------------------
(***************************************************************************)
(* A feature has an identity, which neither side stores, and a value.  The *)
(* remote features that were not copied, or that others added, share one.  *)
(***************************************************************************)
Theirs == 0

Features == [who : Nat, val : Values]

Identities(l) == {table[l][f].who : f \in DOMAIN table[l]}
                     \union {remote[l][r].who : r \in DOMAIN remote[l]} \union {Theirs}

NewIdentity(l, k) == Max(Identities(l)) + k

\* A feature that is new has this value; another one is an edit of its own.
Default == CHOOSE v \in Values : TRUE

\* A table of features with new rows.
Inserted(features, new) ==
    [i \in DOMAIN features \union DOMAIN new |->
        IF i \in DOMAIN new THEN new[i] ELSE features[i]]

\* SQLite gives a new row the id after the highest one in use.
NextRow(l) == Max(DOMAIN table[l] \union {0}) + 1

Mapped(l) == {fids[l][i].offline : i \in DOMAIN fids[l]}

\* The first row of log_fids, or -1.
RemoteFid(l, f) ==
    IF f \in Mapped(l)
    THEN fids[l][CHOOSE i \in DOMAIN fids[l] :
                    /\ fids[l][i].offline = f
                    /\ \A j \in 1 .. i - 1 : fids[l][j].offline # f].remote
    ELSE Unknown

IsAddedFeature(l, f) == f \in Contents(log[l].added)

EmptyLog == [added |-> <<>>, removed |-> {}, updates |-> <<>>]

-----------------------------------------------------------------------------
(***************************************************************************)
(* What synchronize() does to the edit buffer of the remote layer.         *)
(***************************************************************************)
\* The updates it replays to remote feature r: those of the commits counted.
UpdatesOf(l, r) ==
    {i \in DOMAIN log[l].updates :
        /\ log[l].updates[i].commit < commitNo
        /\ RemoteFid(l, log[l].updates[i].fid) = r}

\* The one replayed last: commits in order, then the order of the log.
LastUpdate(l, r) ==
    CHOOSE i \in UpdatesOf(l, r) :
        \A j \in UpdatesOf(l, r) :
            \/ log[l].updates[j].commit < log[l].updates[i].commit
            \/ log[l].updates[j].commit = log[l].updates[i].commit /\ j <= i

\* The buffer refuses to change or delete a feature that has no id.
SyncError(l) ==
    \/ UpdatesOf(l, Unknown) # {}
    \/ \E f \in log[l].removed : RemoteFid(l, f) = Unknown

WithValues(l) ==
    IF log[l].updates = <<>> THEN remote[l]
    ELSE [r \in DOMAIN remote[l] |->
             IF UpdatesOf(l, r) = {} THEN remote[l][r]
             ELSE [remote[l][r] EXCEPT !.val = log[l].updates[LastUpdate(l, r)].val]]

WithoutRemoved(l) ==
    Restrict(WithValues(l), DOMAIN remote[l] \ {RemoteFid(l, f) : f \in log[l].removed})

\* Added features are read from the offline layer as they are now.
\* Mutant: they are added in another order than their ids have.
Copies_Reversed(l) == Reverse(Kept(log[l].added, DOMAIN table[l]))

Copies(l) == Kept(log[l].added, DOMAIN table[l])

WithAdded(l) ==
    LET copies == Copies(l)
    IN  Inserted(WithoutRemoved(l), [r \in nextId[l] .. nextId[l] + Len(copies) - 1 |->
                                        table[l][copies[r - nextId[l] + 1]]])

\* The buffer as a whole, which a commit stores in three stages: values, removals,
\* additions; and what is left of one when the first n stages are stored.
Replay(l) ==
    [values |-> [r \in {r \in DOMAIN remote[l] : UpdatesOf(l, r) # {}} |->
                    log[l].updates[LastUpdate(l, r)].val],
     removed |-> {RemoteFid(l, f) : f \in log[l].removed},
     added |-> [i \in DOMAIN Copies(l) |-> table[l][Copies(l)[i]]]]

NoBuffer == [values |-> <<>>, removed |-> {}, added |-> <<>>]

Rest(b, n) ==
    [values |-> IF n < 1 THEN b.values ELSE <<>>,
     removed |-> IF n < 2 THEN b.removed ELSE {},
     added |-> IF n < 3 THEN b.added ELSE <<>>]

\* The features of the server when the first n stages of buffer b are stored.
Saved(l, b, n) ==
    LET removed == IF n >= 2 THEN b.removed ELSE {}
        added == IF n >= 3 THEN b.added ELSE <<>>
    IN  Inserted([r \in DOMAIN remote[l] \ removed |->
                     IF n >= 1 /\ r \in DOMAIN b.values
                     THEN [remote[l][r] EXCEPT !.val = b.values[r]] ELSE remote[l][r]],
                 [r \in nextId[l] .. nextId[l] + Len(added) - 1 |-> added[r - nextId[l] + 1]])

-----------------------------------------------------------------------------
(***************************************************************************)
(* convertToOfflineProject(): the features of each layer, or only those    *)
(* selected, are copied, and their ids paired.  The user saves the result. *)
(***************************************************************************)
CopyVectorLayer(features, selected) ==
    LET ids == Sorted(selected)
    IN  [table |-> [f \in 1 .. Len(ids) |-> features[ids[f]]],
         remote |-> [r \in DOMAIN features |->
                        IF r \in selected THEN features[r] ELSE [features[r] EXCEPT !.who = Theirs]],
         fids |-> [f \in 1 .. Len(ids) |-> [offline |-> f, remote |-> ids[f]]]]

Offline == [entry |-> TRUE, layers |-> Layers]
Idle == [stage |-> "idle", todo |-> {}, layer |-> Unknown]

Init ==
    /\ \E copy \in [Layers -> UNION {{CopyVectorLayer(
                        [r \in 1 .. n |-> [who |-> r, val |-> Default]], selected) :
                            selected \in (SUBSET (1 .. n)) \ {{}}} : n \in 1 .. MaxRemote}] :
            /\ table = [l \in Layers |-> copy[l].table]
            /\ remote = [l \in Layers |-> copy[l].remote]
            /\ fids = [l \in Layers |-> copy[l].fids]
    /\ nextId = [l \in Layers |-> MaxRemote + 1]
    /\ buffer = [l \in Layers |-> NoBuffer]
    /\ log = [l \in Layers |-> EmptyLog]
    /\ commitNo = 0
    /\ project = Offline /\ saved = Offline
    /\ sync = Idle
    /\ lost = [l \in Layers |-> {}]
    /\ edits = 0 /\ syncs = 0 /\ faults = 0

-----------------------------------------------------------------------------
(***************************************************************************)
(* The user commits edits of an offline layer.  The slots connected to the *)
(* signals of the commit log them, if they find the database file, whose   *)
(* path is the entry of the project.                                       *)
(***************************************************************************)
Log(l, logged, harm) ==
    IF project.entry
    THEN /\ log' = [log EXCEPT ![l] = logged]
         /\ lost' = [lost EXCEPT ![l] = @ \union harm]
    ELSE /\ log' = log
         /\ lost' = [lost EXCEPT ![l] = @ \union harm \union {"unlogged"}]

\* Mutant: commits are not numbered.
IncreaseCommitNo_Never == UNCHANGED commitNo
IncreaseCommitNo == commitNo' = IF project.entry THEN commitNo + 1 ELSE commitNo

CanCommit(l) == sync = Idle /\ l \in project.layers /\ edits < MaxEdits

\* The ids logged are the n highest of the table, in ascending order.
CommittedFeaturesAdded(l, n) ==
    LET new == [i \in 1 .. n |-> NextRow(l) + i - 1]
    IN  /\ CanCommit(l) /\ n > 0 /\ new[n] <= MaxFid
        /\ table' = [table EXCEPT ![l] = Inserted(@, [f \in Contents(new) |->
                        [who |-> NewIdentity(l, f - NextRow(l) + 1), val |-> Default]])]
        /\ Log(l, [log[l] EXCEPT !.added = @ \o new],
               IF Contents(new) \intersect Mapped(l) = {} THEN {} ELSE {"reused"})
        /\ edits' = edits + 1
        /\ UNCHANGED <<remote, nextId, buffer, fids, commitNo, project, saved, sync, syncs, faults>>

\* Mutant: deleted features stay among the added ones.
WithoutFeatures_StillAdded(l, deleted) ==
    [log[l] EXCEPT !.removed = @ \union {f \in deleted : ~IsAddedFeature(l, f)}]
WithoutFeatures(l, deleted) ==
    [log[l] EXCEPT
        !.added = Kept(@, Contents(@) \ deleted),
        !.removed = @ \union {f \in deleted : ~IsAddedFeature(l, f)}]

CommittedFeaturesRemoved(l, deleted) ==
    /\ CanCommit(l) /\ deleted # {} /\ deleted \subseteq DOMAIN table[l]
    /\ table' = [table EXCEPT ![l] = Restrict(@, DOMAIN @ \ deleted)]
    /\ Log(l, WithoutFeatures(l, deleted), {})
    /\ edits' = edits + 1
    /\ UNCHANGED <<remote, nextId, buffer, fids, commitNo, project, saved, sync, syncs, faults>>

CommittedChanges(l, f, v) ==
    /\ CanCommit(l) /\ f \in DOMAIN table[l] /\ table[l][f].val # v
    /\ table' = [table EXCEPT ![l][f].val = v]
    /\ Log(l, IF IsAddedFeature(l, f) THEN log[l]
              ELSE [log[l] EXCEPT !.updates = Append(@, [commit |-> commitNo, fid |-> f, val |-> v])], {})
    /\ IncreaseCommitNo
    /\ edits' = edits + 1
    /\ UNCHANGED <<remote, nextId, buffer, fids, project, saved, sync, syncs, faults>>

-----------------------------------------------------------------------------
(***************************************************************************)
(* synchronize(): the offline layers of the project, one after the other.  *)
(***************************************************************************)
Synchronize ==
    /\ sync = Idle /\ project.entry /\ syncs < MaxSyncs
    /\ sync' = [Idle EXCEPT !.stage = "next", !.todo = project.layers]
    /\ syncs' = syncs + 1
    /\ UNCHANGED <<table, remote, nextId, buffer, database, project, saved, lost, edits, faults>>

AfterLayer(l) == [sync EXCEPT !.stage = "next", !.todo = @ \ {l}, !.layer = Unknown]

Turn(l) == sync.stage = "next" /\ l \in sync.todo

\* The offline layer leaves the project, and with it the entry, for all.
LeaveOffline(l) ==
    /\ project' = [entry |-> FALSE, layers |-> project.layers \ {l}]
    /\ sync' = AfterLayer(l)

\* The server is out of reach: the remote layer is not valid.
SkipLayer(l) ==
    /\ Turn(l) /\ faults < MaxFaults
    /\ faults' = faults + 1
    /\ sync' = AfterLayer(l)
    /\ UNCHANGED <<table, remote, nextId, buffer, database, project, saved, lost, edits, syncs>>

\* A change could not be replayed: the edit buffer is rolled back.
RollBack(l) ==
    /\ Turn(l) /\ SyncError(l)
    /\ LeaveOffline(l)
    /\ UNCHANGED <<table, remote, nextId, buffer, database, saved, lost, counters>>

Commit(l) ==
    /\ Turn(l) /\ ~SyncError(l)
    /\ remote' = [remote EXCEPT ![l] = WithAdded(l)]
    /\ nextId' = [nextId EXCEPT ![l] = @ + Len(Copies(l))]
    /\ sync' = [sync EXCEPT !.stage = "lookup", !.layer = l]
    /\ UNCHANGED <<table, buffer, database, project, saved, lost, counters>>

\* The commit stops at one of its stages.  Those before are stored, the others stay in
\* the remote layer, which is in the project and is still being edited.
CommitFails(l) ==
    /\ Turn(l) /\ ~SyncError(l) /\ faults < MaxFaults
    /\ faults' = faults + 1
    /\ \E n \in 0 .. 2 :
          /\ Rest(Replay(l), n) # NoBuffer
          /\ buffer' = [buffer EXCEPT ![l] = Rest(Replay(l), n)]
          /\ remote' = [remote EXCEPT ![l] = <<@, WithValues(l), WithoutRemoved(l)>>[n + 1]]
    /\ LeaveOffline(l)
    /\ UNCHANGED <<table, nextId, database, saved, lost, edits, syncs>>

\* Mutant: more new ids than expected will do.
Pairable_Enough(newRemote, newOffline) == Len(newRemote) >= Len(newOffline)
Pairable(newRemote, newOffline) == Len(newRemote) = Len(newOffline)

\* Remote features without a row in log_fids are the added ones, in the order
\* of their ids, if there are as many.
UpdateFidLookup(l) ==
    LET known == {fids[l][i].remote : i \in DOMAIN fids[l]}
        newRemote == Sorted(DOMAIN remote[l] \ known)
        newOffline == log[l].added
    IN  /\ sync.stage = "lookup" /\ sync.layer = l
        /\ IF Pairable(newRemote, newOffline)
           THEN /\ fids' = [fids EXCEPT ![l] = @ \o
                               [i \in DOMAIN newOffline |-> [offline |-> newOffline[i], remote |-> newRemote[i]]]]
                /\ lost' = lost
           ELSE /\ fids' = fids
                /\ lost' = [lost EXCEPT ![l] = IF newOffline = <<>> THEN @ ELSE @ \union {"unmapped"}]
        /\ sync' = [sync EXCEPT !.stage = "added"]
        /\ UNCHANGED <<table, remote, nextId, buffer, log, commitNo, project, saved, counters>>

\* Mutant: the table of added features is not emptied.
ClearAdded_Forgotten(l) ==
    /\ sync.stage = "added" /\ sync.layer = l
    /\ sync' = [sync EXCEPT !.stage = "removed"]
    /\ UNCHANGED <<table, remote, nextId, buffer, database, project, saved, lost, counters>>
ClearAdded(l) ==
    /\ sync.stage = "added" /\ sync.layer = l
    /\ log' = [log EXCEPT ![l].added = <<>>]
    /\ sync' = [sync EXCEPT !.stage = "removed"]
    /\ UNCHANGED <<table, remote, nextId, buffer, fids, commitNo, project, saved, lost, counters>>

\* The tables of the log are emptied one by one, each for good.
ClearRemoved(l) ==
    /\ sync.stage = "removed" /\ sync.layer = l
    /\ log' = [log EXCEPT ![l].removed = {}]
    /\ sync' = [sync EXCEPT !.stage = "updates"]
    /\ UNCHANGED <<table, remote, nextId, buffer, fids, commitNo, project, saved, lost, counters>>

ClearUpdates(l) ==
    /\ sync.stage = "updates" /\ sync.layer = l
    /\ log' = [log EXCEPT ![l].updates = <<>>]
    /\ LeaveOffline(l)
    /\ UNCHANGED <<table, remote, nextId, buffer, fids, commitNo, saved, lost, counters>>

\* The number of commits starts again, whatever is still in the logs.
ResetCommitNo ==
    /\ sync.stage = "next" /\ sync.todo = {}
    /\ commitNo' = 0
    /\ lost' = [l \in Layers |-> IF log[l].updates = <<>> THEN lost[l] ELSE lost[l] \union {"reset"}]
    /\ sync' = Idle
    /\ UNCHANGED <<table, remote, nextId, buffer, fids, log, project, saved, counters>>

-----------------------------------------------------------------------------
(***************************************************************************)
(* The project file, crashes, and the other users of the server.           *)
(***************************************************************************)
SaveProject ==
    /\ sync = Idle
    /\ saved' = project
    /\ UNCHANGED <<table, remote, nextId, buffer, database, project, sync, lost, counters>>

OpenProject ==
    /\ sync = Idle
    /\ project' = saved
    /\ buffer' = [l \in Layers |-> NoBuffer]
    /\ UNCHANGED <<table, remote, nextId, database, saved, sync, lost, counters>>

\* Added features that are committed and still logged will be added again.
Crash ==
    /\ sync # Idle /\ faults < MaxFaults
    /\ faults' = faults + 1
    /\ project' = saved
    /\ sync' = Idle
    /\ lost' = [l \in Layers |->
                  IF sync.layer = l /\ sync.stage \in {"lookup", "added"} /\ log[l].added # <<>>
                  THEN lost[l] \union {"repeated"} ELSE lost[l]]
    /\ buffer' = [l \in Layers |-> NoBuffer]
    /\ UNCHANGED <<table, remote, nextId, database, saved, edits, syncs>>

\* The user saves what a failed commit left in the remote layer, which may fail again:
\* the log still has all of it, and features added will be added again.
SaveRemote(l) ==
    /\ sync = Idle /\ buffer[l] # NoBuffer
    /\ \E n \in 0 .. 3 :
          LET rest == Rest(buffer[l], n)
              added == IF n = 3 THEN Len(buffer[l].added) ELSE 0
          IN  /\ IF rest = NoBuffer THEN faults' = faults
                 ELSE faults < MaxFaults /\ faults' = faults + 1
              /\ buffer' = [buffer EXCEPT ![l] = rest]
              /\ remote' = [remote EXCEPT ![l] = Saved(l, buffer[l], n)]
              /\ nextId' = [nextId EXCEPT ![l] = @ + added]
              /\ lost' = [lost EXCEPT ![l] = IF added = 0 THEN @ ELSE @ \union {"repeated"}]
    /\ UNCHANGED <<table, database, project, saved, sync, edits, syncs>>

DiscardRemote(l) ==
    /\ sync = Idle /\ buffer[l] # NoBuffer
    /\ buffer' = [buffer EXCEPT ![l] = NoBuffer]
    /\ UNCHANGED <<table, remote, nextId, database, project, saved, sync, lost, counters>>

OthersAddFeature(l) ==
    /\ faults < MaxFaults
    /\ faults' = faults + 1
    /\ remote' = [remote EXCEPT ![l] = Inserted(@, [r \in {nextId[l]} |-> [who |-> Theirs, val |-> Default]])]
    /\ nextId' = [nextId EXCEPT ![l] = @ + 1]
    /\ UNCHANGED <<table, buffer, database, project, saved, sync, lost, edits, syncs>>

Next ==
    \/ \E l \in Layers :
         \/ \E n \in 1 .. MaxFid : CommittedFeaturesAdded(l, n)
         \/ \E deleted \in SUBSET (1 .. MaxFid) : CommittedFeaturesRemoved(l, deleted)
         \/ \E f \in 1 .. MaxFid, v \in Values : CommittedChanges(l, f, v)
         \/ SkipLayer(l) \/ RollBack(l) \/ Commit(l) \/ CommitFails(l)
         \/ UpdateFidLookup(l) \/ ClearAdded(l) \/ ClearRemoved(l) \/ ClearUpdates(l)
         \/ SaveRemote(l) \/ DiscardRemote(l) \/ OthersAddFeature(l)
    \/ Synchronize \/ ResetCommitNo
    \/ SaveProject \/ OpenProject \/ Crash

Spec == Init /\ [][Next]_vars

-----------------------------------------------------------------------------
(***************************************************************************)
(* The model keeps in lost what has happened to the log of a layer that    *)
(* the code does not cope with:                                            *)
(*   unlogged   edits committed when the entry of the project was gone     *)
(*   reused     a new row got the id of a removed one that is in log_fids  *)
(*   unmapped   features were added remotely and their ids not looked up   *)
(*   repeated   a crash before features added remotely left the log, or    *)
(*              the buffer of a failed commit was saved after all          *)
(*   reset      commit_no was set to 0 with updates in the log             *)
(* The properties say what holds in spite of each.                         *)
(***************************************************************************)
Harms == {"unlogged", "reused", "unmapped", "repeated", "reset"}

Rows == [offline : 1 .. MaxFid, remote : Nat]
Updates == [commit : 0 .. MaxEdits, fid : 1 .. MaxFid, val : Values]

\* Variables have their types; the log names rows that exist, and the server
\* has given every id that its features and the lookup have.
LayerTypeOK(l) ==
    /\ table[l] \in [DOMAIN table[l] -> Features] /\ DOMAIN table[l] \subseteq 1 .. MaxFid
    /\ remote[l] \in [DOMAIN remote[l] -> Features]
    /\ nextId[l] \in Nat /\ DOMAIN remote[l] \subseteq 0 .. nextId[l] - 1
    /\ fids[l] \in Seq(Rows) /\ \A i \in DOMAIN fids[l] : fids[l][i].remote < nextId[l]
    /\ log[l] \in [added : Seq(1 .. MaxFid), removed : SUBSET (1 .. MaxFid), updates : Seq(Updates)]
    /\ "unlogged" \in lost[l] \/ Contents(log[l].added) \subseteq DOMAIN table[l]
    /\ lost[l] \subseteq Harms

BufferTypeOK(l) ==
    /\ buffer[l].values \in [DOMAIN buffer[l].values -> Values]
    /\ buffer[l].removed \subseteq Nat
    /\ buffer[l].added \in Seq(Features)

TypeOK ==
    /\ \A l \in Layers : LayerTypeOK(l) /\ BufferTypeOK(l)
    /\ commitNo \in 0 .. MaxEdits
    /\ {project, saved} \subseteq [entry : BOOLEAN, layers : SUBSET Layers]
    /\ sync \in [stage : {"idle", "next", "lookup", "added", "removed", "updates"},
                 todo : SUBSET Layers, layer : Layers \union {Unknown}]

IsMine(feature) == feature.who # Theirs

\* Wherever synchronize() was stopped, and whichever stage of a commit failed, also
\* when the values and removals it left are saved later, replaying the log brings the
\* remote layer to the state of the offline one: the same features with the same
\* values, each of them once.
LogIsTheDifference ==
    \A l \in Layers :
        lost[l] = {} /\ ~(sync.layer = l /\ sync.stage \in {"lookup", "added"}) =>
            LET replayed == WithAdded(l)
                mine == {r \in DOMAIN replayed : IsMine(replayed[r])}
            IN  /\ {replayed[r] : r \in mine} = Contents(table[l])
                /\ Cardinality(mine) = Cardinality(DOMAIN table[l])

\* A crash, or a failed commit whose rest is saved later, may make synchronize() add
\* features twice; it loses none, and leaves no log that cannot be replayed.
NothingLost ==
    \A l \in Layers : lost[l] \subseteq {"repeated"} =>
        ~SyncError(l) /\ Contents(table[l]) \subseteq Contents(WithAdded(l))

\* Two ids paired in log_fids are of the same feature, whoever else adds features
\* and wherever synchronize() was stopped, as long as both exist.
LookupSound ==
    \A l \in Layers : lost[l] \intersect {"unlogged", "reused"} = {} =>
        \A i \in DOMAIN fids[l] :
            LET row == fids[l][i] IN
            row.offline \in DOMAIN table[l] /\ row.remote \in DOMAIN remote[l] =>
                remote[l][row.remote].who = table[l][row.offline].who

\* synchronize() never changes or removes a feature that was not copied, not even
\* when features were added twice, ids reused or updates forgotten: only edits that
\* were not logged can bring a feature of others into the lookup.
TheirsKept ==
    [][\A l \in Layers : "unlogged" \notin lost[l] =>
          \A r \in DOMAIN remote[l] :
             ~IsMine(remote[l][r]) => r \in DOMAIN remote'[l] /\ remote'[l][r] = remote[l][r]]_vars

\* Does not hold.  Once a log is empty, what the user edited is on the server.
\* Updates of a layer that was skipped, because the server did not answer, are
\* beyond the commit_no that is reset all the same: the next synchronize() does
\* not replay them, and deletes them.
SynchronizedMeansStored ==
    \A l \in Layers :
        log[l] = EmptyLog /\ sync = Idle => Contents(table[l]) \subseteq Contents(remote[l])

=============================================================================
