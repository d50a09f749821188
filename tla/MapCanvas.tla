------------------------------ MODULE MapCanvas -------------------------------
(***************************************************************************)
(* The map canvas, its rendering jobs and its cache of layer images        *)
(* (qgsmapcanvas.cpp, qgsmaprendererparalleljob.cpp, qgsmaprendererjob.cpp,*)
(* qgsmaprenderercache.cpp).  A refresh is scheduled, cancels the job that *)
(* is running without waiting for it, and starts another: the main thread  *)
(* prepares the layers, worker threads draw them, and the end of the       *)
(* workers reaches the main thread as an event.  A cancelled job is left   *)
(* to itself and ends later.                                               *)
(*                                                                         *)
(* While layers are prepared, a provider may run an event loop that keeps  *)
(* user input out: repaint requests and the ends of other jobs get in.     *)
(***************************************************************************)
EXTENDS Naturals, FiniteSets

CONSTANTS
    Layers,
    Extents,
    Jobs,          \* bound: jobs that exist at a time
    Changing,      \* bound: layers that change
    MaxVersion,    \* bound: changes of a layer
    NoJob, NoExtent, NoImage

ASSUME JobsAssumption == IsFiniteSet(Jobs) /\ NoJob \notin Jobs
ASSUME ExtentsAssumption == NoExtent \notin Extents
ASSUME VersionAssumption == MaxVersion \in Nat /\ Changing \subseteq Layers

VARIABLES
    version,    \* what each layer is to look like
    extent,     \* the extent of mSettings
    scheduled,  \* mRefreshScheduled
    enabled,    \* mRenderFlag
    current,    \* mJob
    jobs,       \* the jobs, deleted or not
    caching,    \* mCache exists
    cache,      \* its extent and images
    shown,      \* the content of the canvas
    withheld,   \* history: the last refresh was stopped, or one was not accepted
    missed      \* history: layers whose repaint came after a job had prepared them

settings == <<version, extent, scheduled, enabled>>
vars == <<settings, current, jobs, caching, cache, shown, withheld, missed>>

\* What a layer looked like when it was prepared, where, and whether all of it is drawn.
Images == [version : 0..MaxVersion, extent : Extents, whole : BOOLEAN]
ASSUME ImageAssumption == NoImage \notin Images

EmptyCache(e) == [extent |-> e, images |-> [l \in Layers |-> NoImage]]

\* A deleted job: one that has not been created yet.
Deleted ==
    [status |-> "deleted", extent |-> NoExtent,
     images |-> [l \in Layers |-> NoImage],
     uncached |-> {},           \* layers that are drawn, not taken from the cache
     waiting |-> {},            \* of these, layers that are still to be drawn
     stopped |-> FALSE,         \* renderingStopped() of the contexts
     slot |-> "none",           \* the slot that finished() of mFutureWatcher is connected to
     posted |-> FALSE,          \* the event that leads to this signal
     cache |-> "none"]          \* mCache of the job: none, live or gone

JobType ==
    [status : {"deleted", "preparing", "layers", "labels", "idle"},
     extent : Extents \union {NoExtent},
     images : [Layers -> Images \union {NoImage}],
     uncached : SUBSET Layers, waiting : SUBSET Layers,
     stopped : BOOLEAN, slot : {"none", "finished", "cancelled"}, posted : BOOLEAN,
     cache : {"none", "live", "gone"}]

Active(j) == jobs[j].status \in {"preparing", "layers", "labels"}

TypeOK ==
    /\ version \in [Layers -> 0..MaxVersion]
    /\ extent \in Extents
    /\ scheduled \in BOOLEAN /\ enabled \in BOOLEAN /\ caching \in BOOLEAN
    /\ withheld \in BOOLEAN
    /\ current \in Jobs \union {NoJob}
    /\ jobs \in [Jobs -> JobType]
    /\ \A j \in Jobs : jobs[j].waiting \subseteq jobs[j].uncached
    /\ current # NoJob => Active(current)
    /\ cache \in [extent : Extents \union {NoExtent}, images : [Layers -> Images \union {NoImage}]]
    /\ shown \in [Layers -> Images \union {NoImage}]
    /\ missed \subseteq Layers

Init ==
    /\ version = [l \in Layers |-> 0]
    /\ extent \in Extents
    /\ scheduled = FALSE /\ enabled = TRUE
    /\ current = NoJob
    /\ jobs = [j \in Jobs |-> Deleted]
    /\ caching \in BOOLEAN
    /\ cache = EmptyCache(NoExtent)
    /\ shown = [l \in Layers |-> NoImage]
    /\ withheld = TRUE
    /\ missed = {}

Preparing == \E j \in Jobs : jobs[j].status = "preparing"

-----------------------------------------------------------------------------
(* Requests. *)

\* refresh(): one at a time, and none while rendering is switched off.
Refresh ==
    /\ scheduled' = (scheduled \/ enabled)
    /\ withheld' = (withheld \/ ~enabled)

\* A layer asks for a repaint.  The cache listens while it has an image of the layer.
TriggerRepaint(l) ==
    /\ l \in Changing /\ version[l] < MaxVersion
    /\ version' = [version EXCEPT ![l] = @ + 1]
    /\ cache' = [cache EXCEPT !.images[l] = NoImage]
    /\ missed' = IF current # NoJob /\ jobs[current].images[l] # NoImage
                 THEN missed \union {l} ELSE missed
    /\ Refresh
    /\ UNCHANGED <<extent, enabled, current, jobs, caching, shown>>

\* The extent changes and the canvas is refreshed, as for every change by the user.
SetExtent(e) ==
    /\ ~Preparing /\ e # extent
    /\ extent' = e
    /\ Refresh
    /\ UNCHANGED <<version, enabled, current, jobs, caching, cache, shown, missed>>

RefreshAllLayers ==
    /\ ~Preparing
    /\ cache' = EmptyCache(NoExtent)
    /\ Refresh
    /\ UNCHANGED <<version, extent, enabled, current, jobs, caching, shown, missed>>

\* Mutant: the workers of a cancelled job are not told.
Cancelled_NotStopped(job) ==
    [job EXCEPT !.slot = IF job.status = "layers" THEN "cancelled" ELSE @]

\* cancelWithoutBlocking(): tells the workers; a job that draws layers is to end with them.
Cancelled(job) ==
    [job EXCEPT !.stopped = TRUE,
                !.slot = IF job.status = "layers" THEN "cancelled" ELSE @]

\* stopRendering(): the canvas parts with its job.
Stopped == [j \in Jobs |-> IF j = current THEN Cancelled(jobs[j]) ELSE jobs[j]]

StopRendering ==
    /\ ~Preparing /\ current # NoJob
    /\ jobs' = Stopped
    /\ current' = NoJob
    /\ withheld' = TRUE
    /\ UNCHANGED <<settings, caching, cache, shown, missed>>

\* setRenderFlag().
EnableRendering ==
    /\ ~Preparing /\ ~enabled
    /\ enabled' = TRUE /\ scheduled' = TRUE
    /\ UNCHANGED <<version, extent, current, jobs, caching, cache, shown, withheld, missed>>

DisableRendering ==
    /\ ~Preparing /\ enabled
    /\ enabled' = FALSE
    /\ jobs' = Stopped
    /\ current' = NoJob
    /\ withheld' = (withheld \/ current # NoJob)
    /\ UNCHANGED <<version, extent, scheduled, caching, cache, shown, missed>>

-----------------------------------------------------------------------------
(* Starting a job. *)

\* init() of the cache drops the images of another extent.
CacheFor(e) == IF cache.extent = e THEN cache ELSE EmptyCache(e)

RefreshMap ==
    /\ scheduled /\ ~Preparing
    /\ \E j \in Jobs :
        /\ jobs[j].status = "deleted"
        /\ current' = j
        /\ jobs' = [Stopped EXCEPT ![j] =
                        [Deleted EXCEPT !.status = "preparing", !.extent = extent,
                                        !.cache = IF caching THEN "live" ELSE "none"]]
    /\ cache' = IF caching THEN CacheFor(extent) ELSE cache
    /\ withheld' = FALSE
    /\ UNCHANGED <<settings, caching, shown, missed>>

\* The image in the cache is used, unless the layer is edited or labelled.
PrepareLayer(j, l) ==
    /\ jobs[j].status = "preparing" /\ jobs[j].images[l] = NoImage
    /\ \/ /\ jobs[j].cache = "live" /\ cache.images[l] # NoImage
          /\ jobs' = [jobs EXCEPT ![j].images[l] = cache.images[l]]
          /\ missed' = IF cache.images[l].version = version[l] THEN missed \ {l} ELSE missed
          /\ UNCHANGED cache
       \/ /\ jobs' = [jobs EXCEPT
                        ![j].images[l] = [version |-> version[l], extent |-> jobs[j].extent,
                                          whole |-> FALSE],
                        ![j].uncached = @ \union {l}, ![j].waiting = @ \union {l}]
          /\ cache' = [cache EXCEPT !.images[l] = NoImage]
          /\ missed' = missed \ {l}
    /\ UNCHANGED <<settings, current, caching, shown, withheld>>

\* Mutant: the refresh stays scheduled.
StartWorkers_StaysScheduled(j) ==
    /\ jobs[j].status = "preparing"
    /\ \A l \in Layers : jobs[j].images[l] # NoImage
    /\ jobs' = [jobs EXCEPT ![j].status = "layers", ![j].slot = "finished",
                            ![j].posted = jobs[j].waiting = {}]
    /\ scheduled' = scheduled
    /\ UNCHANGED <<version, extent, enabled, current, caching, cache, shown, withheld, missed>>

\* The workers are started; only now is another refresh accepted.
StartWorkers(j) ==
    /\ jobs[j].status = "preparing"
    /\ \A l \in Layers : jobs[j].images[l] # NoImage
    /\ jobs' = [jobs EXCEPT ![j].status = "layers", ![j].slot = "finished",
                            ![j].posted = jobs[j].waiting = {}]
    /\ scheduled' = FALSE
    /\ UNCHANGED <<version, extent, enabled, current, caching, cache, shown, withheld, missed>>

-----------------------------------------------------------------------------
(* Workers and the ends of a job. *)

\* What a worker draws after it was told to stop counts as unfinished.
DrawLayer(j, l) ==
    /\ jobs[j].status = "layers" /\ l \in jobs[j].waiting
    /\ jobs' = [jobs EXCEPT ![j].images[l].whole = ~jobs[j].stopped,
                            ![j].waiting = @ \ {l},
                            ![j].posted = jobs[j].waiting = {l}]
    /\ UNCHANGED <<settings, current, caching, cache, shown, withheld, missed>>

\* Mutant: images of a cancelled job are stored.
Stored_Always(job) ==
    IF job.cache = "live"
    THEN [cache EXCEPT !.images = [l \in Layers |->
            IF l \in job.uncached THEN job.images[l] ELSE cache.images[l]]]
    ELSE cache

\* cleanupJobs(): the new images of a job that was not stopped enter the cache.
Stored(job) ==
    IF job.cache = "live" /\ ~job.stopped
    THEN [cache EXCEPT !.images = [l \in Layers |->
            IF l \in job.uncached THEN job.images[l] ELSE cache.images[l]]]
    ELSE cache

\* The layers of the job are dropped, their images live on in the image of the map.
Labelling(job) == [Deleted EXCEPT !.status = "labels", !.images = job.images]

\* A job that is to be deleted; the event of its workers may be in the queue, which
\* slot is connected to it matters then.
Ended(posted, slot) ==
    [Deleted EXCEPT !.status = "idle", !.posted = posted, !.slot = IF posted THEN slot ELSE "none"]

\* Mutant: the canvas keeps the job that has finished.
Finished_KeepsJob(j, images) ==
    IF j = current THEN current' = current /\ shown' = images
                   ELSE UNCHANGED <<current, shown>>

\* finished(): the canvas shows the image of its job and parts with it.
Finished(j, images) ==
    IF j = current THEN current' = NoJob /\ shown' = images
                   ELSE UNCHANGED <<current, shown>>

\* renderLayersFinished().
RenderLayersFinished(j) ==
    /\ jobs[j].posted /\ jobs[j].slot = "finished"
    /\ cache' = Stored(jobs[j])
    /\ \/ /\ ~jobs[j].stopped
          /\ jobs' = [jobs EXCEPT ![j] = Labelling(@)]
          /\ UNCHANGED <<current, shown>>
       \/ /\ jobs' = [jobs EXCEPT ![j] = Ended(FALSE, "none")]
          /\ Finished(j, jobs[j].images)
    /\ UNCHANGED <<settings, caching, withheld, missed>>

RenderLayersFinishedWhenJobCanceled(j) ==
    /\ jobs[j].posted /\ jobs[j].slot = "cancelled"
    /\ cache' = Stored(jobs[j])
    /\ jobs' = [jobs EXCEPT ![j] = Ended(FALSE, "none")]
    /\ Finished(j, jobs[j].images)
    /\ UNCHANGED <<settings, caching, withheld, missed>>

\* renderingFinished() after the labels.
RenderingFinished(j) ==
    /\ jobs[j].status = "labels"
    /\ jobs' = [jobs EXCEPT ![j] = Ended(FALSE, "none")]
    /\ Finished(j, jobs[j].images)
    /\ UNCHANGED <<settings, caching, cache, withheld, missed>>

\* The event finds nothing connected.
EventIgnored(j) ==
    /\ jobs[j].posted /\ jobs[j].slot = "none"
    /\ jobs' = [jobs EXCEPT ![j].posted = FALSE]
    /\ UNCHANGED <<settings, current, caching, cache, shown, withheld, missed>>

\* deleteLater() comes after the events that were there before.
DeleteJob(j) ==
    /\ jobs[j].status = "idle" /\ ~jobs[j].posted
    /\ jobs' = [jobs EXCEPT ![j] = Deleted]
    /\ UNCHANGED <<settings, current, caching, cache, shown, withheld, missed>>

\* The canvas shows what there is of its job from time to time: no image, as it is
\* unfinished.
MapUpdateTimeout ==
    /\ current # NoJob /\ ~Preparing
    /\ shown' = [l \in Layers |-> NoImage]
    /\ UNCHANGED <<settings, current, jobs, caching, cache, withheld, missed>>

-----------------------------------------------------------------------------
(* setCachingEnabled() waits for the job of the canvas, and only for it. *)

Drawn(job) == [l \in Layers |-> [job.images[l] EXCEPT !.whole = TRUE]]

\* Mutant: the slot stays connected.
WaitedFor_StaysConnected(job) == Ended(job.status = "layers", job.slot)

\* waitForFinished(): the layers, then the labels; the event of the workers may
\* still be in the queue.
WaitedFor(job) == Ended(job.status = "layers", "none")

WithoutCache(job) == [job EXCEPT !.cache = IF @ = "live" THEN "gone" ELSE @]

NotCaching ==
    /\ jobs' = [j \in Jobs |-> WithoutCache(IF j = current THEN WaitedFor(jobs[j]) ELSE jobs[j])]
    /\ current' = NoJob
    /\ shown' = IF current = NoJob THEN shown ELSE Drawn(jobs[current])

DisableCaching ==
    /\ ~Preparing /\ caching
    /\ NotCaching
    /\ caching' = FALSE
    /\ cache' = EmptyCache(NoExtent)
    /\ UNCHANGED <<settings, withheld, missed>>

EnableCaching ==
    /\ ~Preparing /\ ~caching
    /\ jobs' = [j \in Jobs |-> IF j = current THEN WaitedFor(jobs[j]) ELSE jobs[j]]
    /\ current' = NoJob
    /\ shown' = IF current = NoJob THEN shown ELSE Drawn(jobs[current])
    /\ caching' = TRUE
    /\ UNCHANGED <<settings, cache, withheld, missed>>

-----------------------------------------------------------------------------
Requests ==
    \/ \E l \in Layers : TriggerRepaint(l)
    \/ \E e \in Extents : SetExtent(e)
    \/ RefreshAllLayers
    \/ StopRendering
    \/ EnableRendering \/ DisableRendering
    \/ EnableCaching \/ DisableCaching

\* The event loop of the main thread, and the threads of the jobs.
Work ==
    \/ RefreshMap
    \/ \E j \in Jobs :
        \/ StartWorkers(j)
        \/ RenderLayersFinished(j)
        \/ RenderLayersFinishedWhenJobCanceled(j)
        \/ RenderingFinished(j)
        \/ EventIgnored(j)
        \/ DeleteJob(j)
        \/ \E l \in Layers : PrepareLayer(j, l) \/ DrawLayer(j, l)

Next == Requests \/ Work \/ MapUpdateTimeout

Spec == Init /\ [][Next]_vars /\ WF_vars(Work)

-----------------------------------------------------------------------------
(* Properties. *)

\* The cache has only whole images, of its extent if it has one, and of how the layers
\* look now unless a repaint was requested while the layer was being drawn: a job that
\* was cancelled, or started for another extent, has left nothing in it.
CacheSound ==
    \A l \in Layers : cache.images[l] # NoImage =>
        /\ cache.images[l].whole
        /\ cache.extent \in {cache.images[l].extent, NoExtent}
        /\ cache.images[l].version = version[l] \/ l \in missed

\* The end of the workers finds the job in the state that renderLayersFinished() asserts.
EndsWhileRendering ==
    \A j \in Jobs : jobs[j].posted /\ jobs[j].slot # "none" => jobs[j].status = "layers"

\* When nothing is left to do, the canvas shows all of every layer, at its extent and
\* as it looks now; but for missed repaints, and unless rendering was stopped.
Idle == ~scheduled /\ current = NoJob
ShowsMap ==
    Idle /\ ~withheld => \A l \in Layers :
        /\ shown[l] # NoImage /\ shown[l].whole
        /\ shown[l].extent = extent
        /\ shown[l].version = version[l] \/ l \in missed

\* A job never prepares a layer as it was before a repaint request: qgsmaplayer.h:635
\* says "caches automatically listen to repaintRequested() signal to invalidate the
\* cached image".
NoOutdatedImage ==
    [][\A j \in Jobs, l \in Layers :
        jobs[j].images[l] = NoImage /\ jobs'[j].images[l] # NoImage
            => jobs'[j].images[l].version = version[l]]_vars

\* When the requests cease, the canvas finishes, and every job ends and is deleted.
ComesToRest ==
    <>[][~Requests]_vars => <>[](Idle /\ \A j \in Jobs : jobs[j].status = "deleted")
=============================================================================
