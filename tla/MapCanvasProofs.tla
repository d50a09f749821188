--------------------------- MODULE MapCanvasProofs ----------------------------
(***************************************************************************)
(* Proofs about MapCanvas for every set of layers, extents and jobs.  An   *)
(* image passes from a worker through its job to the cache or the canvas.  *)
(* CurrentSound says how good the images are that the canvas' own job has, *)
(* CacheOwned that no other job still writes to the cache, and JobPhases   *)
(* what is left of a job in each of its phases.                            *)
(***************************************************************************)
EXTENDS MapCanvas, TLAPS

\* What each phase of a job leaves behind.
JobPhases ==
    \A j \in Jobs :
        LET job == jobs[j] IN
        /\ job.status = "deleted" => job = Deleted
        /\ job.status = "preparing" => j = current
        /\ job.status \in {"layers", "labels"} => \A l \in Layers : job.images[l] # NoImage
        /\ job.status # "layers" => job.slot = "none"
        /\ job.posted => job.status \in {"layers", "idle"} /\ job.waiting = {}
        /\ \A l \in job.uncached : job.images[l] # NoImage
        /\ job.status \notin {"preparing", "layers"} => job.uncached = {}

\* Only the canvas' own job still writes to the cache, and for the extent of the cache.
CacheOwned ==
    \A j \in Jobs : jobs[j].cache = "live" /\ ~jobs[j].stopped =>
        j = current /\ cache.extent \in {jobs[j].extent, NoExtent}

\* The canvas' own job was not stopped; what it has of a layer is for its extent, whole
\* unless it waits for a worker, and of how the layer looks unless a repaint was missed.
CurrentSound ==
    current # NoJob =>
        LET job == jobs[current] IN
        /\ ~job.stopped
        /\ \A l \in Layers : job.images[l] # NoImage =>
              /\ job.status # "labels" => job.images[l].extent = job.extent
              /\ ~scheduled /\ ~withheld => job.images[l].extent = extent
              /\ job.images[l].whole \/ l \in job.waiting
              /\ job.images[l].version = version[l] \/ l \in missed
        /\ job.status = "preparing" =>
              /\ scheduled /\ job.extent = extent
              /\ job.cache = "live" => cache.extent = job.extent

IInv ==
    /\ TypeOK
    /\ JobPhases
    /\ CacheOwned
    /\ CurrentSound
    /\ CacheSound
    /\ ShowsMap

-----------------------------------------------------------------------------
(* Jobs. *)

LEMMA Jobless == NoJob \notin Jobs
BY JobsAssumption

LEMMA DeletedType == Deleted \in JobType
BY DEF Deleted, JobType

LEMMA Fields ==
    ASSUME IInv, NEW j \in Jobs
    PROVE  /\ jobs[j] \in JobType
           /\ jobs[j].images \in [Layers -> Images \union {NoImage}]
           /\ jobs[j].waiting \subseteq jobs[j].uncached /\ jobs[j].uncached \subseteq Layers
           /\ jobs[j].extent \in Extents \union {NoExtent}
           /\ jobs[j].stopped \in BOOLEAN /\ jobs[j].posted \in BOOLEAN
           /\ jobs \in [Jobs -> JobType]
<1>1. jobs \in [Jobs -> JobType] /\ jobs[j].waiting \subseteq jobs[j].uncached
  BY DEF IInv, TypeOK
<1>2. jobs[j] \in JobType
  BY <1>1
<1> QED BY <1>1, <1>2 DEF JobType

LEMMA StoppedType ==
    ASSUME IInv
    PROVE  jobs \in [Jobs -> JobType] /\ Stopped \in [Jobs -> JobType]
<1>1. ASSUME NEW k \in Jobs PROVE Cancelled(jobs[k]) \in JobType /\ jobs[k] \in JobType
  <2> jobs[k] \in JobType
    BY Fields
  <2> QED BY DEF Cancelled, JobType
<1>2. jobs \in [Jobs -> JobType]
  BY DEF IInv, TypeOK
<1> QED BY <1>1, <1>2 DEF Stopped

\* Stopping tells the canvas' own job, and no other.
LEMMA StoppedFields ==
    ASSUME IInv, NEW j \in Jobs
    PROVE  /\ Stopped \in [Jobs -> JobType]
           /\ j # current => Stopped[j] = jobs[j]
           /\ j = current => Stopped[j].stopped
           /\ Stopped[j].slot = IF j = current /\ jobs[j].status = "layers" THEN "cancelled"
                                ELSE jobs[j].slot
           /\ Stopped[j].status = jobs[j].status /\ Stopped[j].extent = jobs[j].extent
           /\ Stopped[j].images = jobs[j].images /\ Stopped[j].uncached = jobs[j].uncached
           /\ Stopped[j].waiting = jobs[j].waiting /\ Stopped[j].posted = jobs[j].posted
           /\ Stopped[j].cache = jobs[j].cache
<1>2. Stopped \in [Jobs -> JobType]
  BY StoppedType
<1>3. CASE j # current
  BY <1>2, <1>3 DEF Stopped
<1>4. CASE j = current
  <2>1. jobs[j] \in JobType /\ Stopped[j] = Cancelled(jobs[j])
    BY <1>4, Fields DEF Stopped
  <2> QED BY <1>2, <1>4, <2>1 DEF Cancelled, JobType
<1> QED BY <1>3, <1>4

\* Parting with the stopped job leaves the jobs in order.
LEMMA PartingKeepsJobs ==
    ASSUME IInv, ~Preparing, jobs' = Stopped, current' = NoJob, UNCHANGED cache
    PROVE  /\ jobs' \in [Jobs -> JobType]
           /\ \A j \in Jobs : jobs'[j].waiting \subseteq jobs'[j].uncached
           /\ JobPhases' /\ CacheOwned' /\ CurrentSound'
<1>1. jobs' \in [Jobs -> JobType] /\ \A j \in Jobs : jobs'[j].waiting \subseteq jobs'[j].uncached
  BY StoppedType, StoppedFields DEF IInv, TypeOK
<1>2. CurrentSound'
  BY DEF CurrentSound
<1>3. ASSUME NEW j \in Jobs PROVE jobs'[j].cache = "live" => jobs'[j].stopped
  BY StoppedFields DEF IInv, CacheOwned
<1>4. JobPhases'
  <2> SUFFICES ASSUME NEW j \in Jobs
               PROVE  /\ jobs'[j].status = "deleted" => jobs'[j] = Deleted
                      /\ jobs'[j].status # "preparing"
                      /\ jobs'[j].status \in {"layers", "labels"} =>
                            \A l \in Layers : jobs'[j].images[l] # NoImage
                      /\ jobs'[j].status # "layers" => jobs'[j].slot = "none"
                      /\ jobs'[j].posted => jobs'[j].status \in {"layers", "idle"} /\ jobs'[j].waiting = {}
                      /\ \A l \in jobs'[j].uncached : jobs'[j].images[l] # NoImage
                      /\ jobs'[j].status \notin {"preparing", "layers"} => jobs'[j].uncached = {}
    BY DEF JobPhases
  <2>1. jobs[j].status = "deleted" => j # current
    BY Jobless DEF IInv, TypeOK, Active
  <2>2. jobs[j].status # "preparing"
    BY DEF Preparing
  <2> QED BY <2>1, <2>2, StoppedFields DEF IInv, JobPhases
<1> QED BY <1>1, <1>2, <1>3, <1>4 DEF CacheOwned

-----------------------------------------------------------------------------
(* Requests. *)

LEMMA InitIInv == Init => IInv
<1> SUFFICES ASSUME Init PROVE IInv
  OBVIOUS
<1>1. TypeOK
  <2>1. jobs \in [Jobs -> JobType]
    BY DeletedType DEF Init
  <2>2. \A j \in Jobs : jobs[j].waiting \subseteq jobs[j].uncached
    BY DEF Init, Deleted
  <2>3. version \in [Layers -> 0..MaxVersion]
    BY VersionAssumption DEF Init
  <2>4. cache \in [extent : Extents \union {NoExtent}, images : [Layers -> Images \union {NoImage}]]
    BY DEF Init, EmptyCache
  <2>5. current = NoJob
    BY DEF Init
  <2> QED BY <2>1, <2>2, <2>3, <2>4, <2>5 DEF Init, TypeOK
<1>2. JobPhases /\ CacheOwned
  BY DEF Init, JobPhases, CacheOwned, Deleted
<1>3. CurrentSound /\ CacheSound /\ ShowsMap
  BY DEF Init, CurrentSound, CacheSound, ShowsMap, EmptyCache
<1> QED BY <1>1, <1>2, <1>3 DEF IInv

LEMMA TriggerRepaintIInv ==
    ASSUME IInv, NEW l \in Layers, TriggerRepaint(l)
    PROVE  IInv'
<1>1. /\ version \in [Layers -> 0..MaxVersion] /\ MaxVersion \in Nat /\ version[l] < MaxVersion
      /\ cache \in [extent : Extents \union {NoExtent}, images : [Layers -> Images \union {NoImage}]]
      /\ version' = [version EXCEPT ![l] = @ + 1]
      /\ cache' = [cache EXCEPT !.images[l] = NoImage]
  BY VersionAssumption DEF IInv, TypeOK, TriggerRepaint
<1>2. /\ version' \in [Layers -> 0..MaxVersion]
      /\ \A m \in Layers \ {l} : version'[m] = version[m]
  BY <1>1
<1>3. /\ cache' \in [extent : Extents \union {NoExtent}, images : [Layers -> Images \union {NoImage}]]
      /\ cache'.images[l] = NoImage /\ cache'.extent = cache.extent
      /\ \A m \in Layers \ {l} : cache'.images[m] = cache.images[m]
  BY <1>1
<1>4. /\ missed \subseteq missed' /\ missed' \subseteq Layers
      /\ (current # NoJob /\ jobs[current].images[l] # NoImage => l \in missed')
  BY DEF TriggerRepaint, IInv, TypeOK
<1>5. /\ UNCHANGED <<extent, enabled, current, jobs, caching, shown>>
      /\ scheduled' = (scheduled \/ enabled) /\ withheld' = (withheld \/ ~enabled)
  BY DEF TriggerRepaint, Refresh
<1>6. TypeOK'
  BY <1>2, <1>3, <1>4, <1>5 DEF IInv, TypeOK, Active
<1>7. JobPhases'
  BY <1>5 DEF IInv, JobPhases
<1>8. CacheOwned'
  BY <1>3, <1>5 DEF IInv, CacheOwned
<1>9. CacheSound'
  BY <1>2, <1>3, <1>4 DEF IInv, CacheSound
<1>10. CurrentSound'
  <2> SUFFICES ASSUME current # NoJob PROVE CurrentSound'
    BY <1>5 DEF CurrentSound
  <2>1. ASSUME NEW m \in Layers, jobs[current].images[m] # NoImage
        PROVE  jobs[current].images[m].version = version'[m] \/ m \in missed'
    BY <1>2, <1>4, <2>1 DEF IInv, CurrentSound
  <2> QED BY <1>3, <1>5, <2>1 DEF IInv, CurrentSound
<1>11. ShowsMap'
  BY <1>5 DEF ShowsMap, Idle, IInv, TypeOK
<1> QED BY <1>6, <1>7, <1>8, <1>9, <1>10, <1>11 DEF IInv

LEMMA SetExtentIInv ==
    ASSUME IInv, NEW e \in Extents, SetExtent(e)
    PROVE  IInv'
<1>1. /\ UNCHANGED <<version, enabled, current, jobs, caching, cache, shown, missed>> /\ ~Preparing
      /\ scheduled' = (scheduled \/ enabled) /\ withheld' = (withheld \/ ~enabled) /\ extent' = e
  BY DEF SetExtent, Refresh
<1>2. TypeOK' /\ JobPhases' /\ CacheOwned' /\ CacheSound'
  BY <1>1 DEF IInv, TypeOK, Active, JobPhases, CacheOwned, CacheSound
<1>3. scheduled' \/ withheld'
  BY <1>1 DEF IInv, TypeOK
<1>4. CurrentSound'
  <2>1. current # NoJob => jobs[current].status # "preparing"
    BY <1>1 DEF Preparing, IInv, TypeOK
  <2> QED BY <1>1, <1>3, <2>1 DEF IInv, CurrentSound
<1>5. ShowsMap'
  BY <1>3 DEF ShowsMap, Idle
<1> QED BY <1>2, <1>4, <1>5 DEF IInv

LEMMA RefreshAllLayersIInv ==
    ASSUME IInv, RefreshAllLayers
    PROVE  IInv'
<1>1. /\ UNCHANGED <<version, extent, enabled, current, jobs, caching, shown, missed>> /\ ~Preparing
      /\ scheduled' = (scheduled \/ enabled) /\ withheld' = (withheld \/ ~enabled)
      /\ cache' = EmptyCache(NoExtent)
  BY DEF RefreshAllLayers, Refresh
<1>2. /\ cache' \in [extent : Extents \union {NoExtent}, images : [Layers -> Images \union {NoImage}]]
      /\ cache'.extent = NoExtent /\ \A l \in Layers : cache'.images[l] = NoImage
  BY <1>1 DEF EmptyCache
<1>3. scheduled' \/ withheld'
  BY <1>1 DEF IInv, TypeOK
<1>4. TypeOK' /\ JobPhases' /\ CacheOwned' /\ CacheSound'
  BY <1>1, <1>2 DEF IInv, TypeOK, Active, JobPhases, CacheOwned, CacheSound
<1>5. CurrentSound'
  <2>1. current # NoJob => jobs[current].status # "preparing"
    BY <1>1 DEF Preparing, IInv, TypeOK
  <2> QED BY <1>1, <1>3, <2>1 DEF IInv, CurrentSound
<1>6. ShowsMap'
  BY <1>3 DEF ShowsMap, Idle
<1> QED BY <1>4, <1>5, <1>6 DEF IInv

LEMMA StopIInv ==
    ASSUME IInv, StopRendering \/ DisableRendering
    PROVE  IInv'
<1>1. /\ ~Preparing /\ jobs' = Stopped /\ current' = NoJob
      /\ UNCHANGED <<version, extent, scheduled, caching, cache, shown, missed>>
      /\ withheld' = (withheld \/ current # NoJob) /\ enabled' \in BOOLEAN
  BY DEF StopRendering, DisableRendering, settings, IInv, TypeOK
<1>2. /\ jobs' \in [Jobs -> JobType] /\ \A j \in Jobs : jobs'[j].waiting \subseteq jobs'[j].uncached
      /\ JobPhases' /\ CacheOwned' /\ CurrentSound'
  BY <1>1, PartingKeepsJobs
<1>3. TypeOK' /\ CacheSound'
  BY <1>1, <1>2 DEF IInv, TypeOK, CacheSound
<1>4. ShowsMap'
  BY <1>1 DEF IInv, TypeOK, ShowsMap, Idle
<1> QED BY <1>2, <1>3, <1>4 DEF IInv

LEMMA EnableRenderingIInv ==
    ASSUME IInv, EnableRendering
    PROVE  IInv'
<1>1. /\ UNCHANGED <<version, extent, current, jobs, caching, cache, shown, withheld, missed>>
      /\ scheduled' = TRUE /\ enabled' = TRUE
  BY DEF EnableRendering
<1> QED BY <1>1 DEF IInv, TypeOK, Active, JobPhases, CacheOwned, CurrentSound, CacheSound,
                    ShowsMap, Idle

-----------------------------------------------------------------------------
(* Starting a job. *)

LEMMA CacheForFields ==
    ASSUME IInv
    PROVE  /\ CacheFor(extent) \in [extent : Extents \union {NoExtent},
                                    images : [Layers -> Images \union {NoImage}]]
           /\ CacheFor(extent).extent = extent
           /\ \A l \in Layers : CacheFor(extent).images[l] # NoImage =>
                /\ CacheFor(extent).images[l] = cache.images[l]
                /\ CacheFor(extent).extent = cache.extent
<1>1. /\ extent \in Extents
      /\ cache \in [extent : Extents \union {NoExtent}, images : [Layers -> Images \union {NoImage}]]
  BY DEF IInv, TypeOK
<1>2. CASE cache.extent = extent
  BY <1>1, <1>2 DEF CacheFor
<1>3. CASE cache.extent # extent
  BY <1>1, <1>3 DEF CacheFor, EmptyCache
<1> QED BY <1>2, <1>3

LEMMA RefreshMapIInv ==
    ASSUME IInv, RefreshMap
    PROVE  IInv'
<1>1. PICK j \in Jobs :
        /\ jobs[j].status = "deleted" /\ current' = j
        /\ jobs' = [Stopped EXCEPT ![j] =
                      [Deleted EXCEPT !.status = "preparing", !.extent = extent,
                                      !.cache = IF caching THEN "live" ELSE "none"]]
  BY DEF RefreshMap
<1>2. /\ scheduled /\ ~Preparing /\ withheld' = FALSE
      /\ cache' = IF caching THEN CacheFor(extent) ELSE cache
      /\ UNCHANGED <<version, extent, scheduled, enabled, caching, shown, missed>>
  BY DEF RefreshMap, settings
<1>3. j # NoJob /\ j # current
  BY <1>1, Jobless DEF IInv, TypeOK, Active
<1>4. extent \in Extents
  BY DEF IInv, TypeOK
<1>5. [Deleted EXCEPT !.status = "preparing", !.extent = extent,
                      !.cache = IF caching THEN "live" ELSE "none"] \in JobType
  BY <1>4 DEF Deleted, JobType
<1>6. /\ jobs' \in [Jobs -> JobType]
      /\ \A k \in Jobs \ {j} : jobs'[k] = Stopped[k]
  BY <1>1, <1>5, StoppedType
<1>7. /\ jobs'[j].status = "preparing" /\ jobs'[j].extent = extent
      /\ \A l \in Layers : jobs'[j].images[l] = NoImage
      /\ jobs'[j].uncached = {} /\ jobs'[j].waiting = {} /\ ~jobs'[j].stopped
      /\ jobs'[j].slot = "none" /\ ~jobs'[j].posted
      /\ jobs'[j].cache = "live" <=> caching
  <2> jobs'[j] = [Deleted EXCEPT !.status = "preparing", !.extent = extent,
                                 !.cache = IF caching THEN "live" ELSE "none"]
    BY <1>1, StoppedType
  <2> QED BY DEF Deleted
<1>8. /\ cache' \in [extent : Extents \union {NoExtent}, images : [Layers -> Images \union {NoImage}]]
      /\ caching => cache'.extent = extent
      /\ \A l \in Layers : cache'.images[l] # NoImage =>
            cache'.images[l] = cache.images[l] /\ cache'.extent = cache.extent
  BY <1>2, CacheForFields DEF IInv, TypeOK
<1>9. TypeOK'
  <2>1. \A k \in Jobs : jobs'[k].waiting \subseteq jobs'[k].uncached
    BY <1>6, <1>7, StoppedFields, Fields
  <2>2. Active(current)'
    BY <1>1, <1>7 DEF Active
  <2> QED BY <1>1, <1>2, <1>6, <1>8, <2>1, <2>2 DEF IInv, TypeOK
<1>10. JobPhases'
  <2> SUFFICES ASSUME NEW k \in Jobs
               PROVE  /\ jobs'[k].status = "deleted" => jobs'[k] = Deleted
                      /\ jobs'[k].status = "preparing" => k = j
                      /\ jobs'[k].status \in {"layers", "labels"} =>
                            \A l \in Layers : jobs'[k].images[l] # NoImage
                      /\ jobs'[k].status # "layers" => jobs'[k].slot = "none"
                      /\ jobs'[k].posted => jobs'[k].status \in {"layers", "idle"} /\ jobs'[k].waiting = {}
                      /\ \A l \in jobs'[k].uncached : jobs'[k].images[l] # NoImage
                      /\ jobs'[k].status \notin {"preparing", "layers"} => jobs'[k].uncached = {}
    BY <1>1 DEF JobPhases
  <2>1. CASE k = j
    BY <1>7, <2>1
  <2>2. CASE k # j
    <3>1. jobs[k].status = "deleted" => k # current
      BY Jobless DEF IInv, TypeOK, Active
    <3>2. jobs[k].status # "preparing" /\ jobs'[k] = Stopped[k]
      BY <1>2, <1>6, <2>2 DEF Preparing
    <3> QED BY <3>1, <3>2, StoppedFields DEF IInv, JobPhases
  <2> QED BY <2>1, <2>2
<1>11. CacheOwned'
  <2> SUFFICES ASSUME NEW k \in Jobs, jobs'[k].cache = "live", ~jobs'[k].stopped
               PROVE  k = j /\ cache'.extent \in {jobs'[k].extent, NoExtent}
    BY <1>1 DEF CacheOwned
  <2>1. k = j
    <3> SUFFICES ASSUME k # j PROVE FALSE
      OBVIOUS
    <3>1. jobs'[k] = Stopped[k]
      BY <1>6
    <3> QED BY <3>1, StoppedFields DEF IInv, CacheOwned
  <2> QED BY <1>7, <1>8, <2>1
<1>12. CurrentSound'
  BY <1>1, <1>2, <1>7, <1>8 DEF CurrentSound
<1>13. CacheSound'
  BY <1>2, <1>8 DEF IInv, CacheSound
<1>14. ShowsMap'
  BY <1>1, <1>3 DEF ShowsMap, Idle
<1> QED BY <1>9, <1>10, <1>11, <1>12, <1>13, <1>14 DEF IInv

LEMMA ImageType == \A i \in Images : i # NoImage
BY ImageAssumption

\* The layer is taken from the cache.
LEMMA PrepareCachedIInv ==
    ASSUME IInv, NEW j \in Jobs, NEW l \in Layers,
           jobs[j].status = "preparing", jobs[j].images[l] = NoImage,
           jobs[j].cache = "live", cache.images[l] # NoImage,
           jobs' = [jobs EXCEPT ![j].images[l] = cache.images[l]],
           missed' = IF cache.images[l].version = version[l] THEN missed \ {l} ELSE missed,
           UNCHANGED <<settings, current, caching, cache, shown, withheld>>
    PROVE  IInv'
<1>1. j = current /\ j # NoJob
  BY Jobless DEF IInv, JobPhases
<1>2. /\ UNCHANGED <<version, extent, scheduled, enabled, current, caching, cache, shown, withheld>>
      /\ cache.images \in [Layers -> Images \union {NoImage}] /\ extent \in Extents
      /\ cache.images[l] \in Images
  BY DEF settings, IInv, TypeOK
<1>3. /\ jobs' \in [Jobs -> JobType]
      /\ \A k \in Jobs \ {j} : jobs'[k] = jobs[k]
      /\ jobs'[j] = [jobs[j] EXCEPT !.images[l] = cache.images[l]]
  <2>1. jobs[j] \in JobType /\ jobs \in [Jobs -> JobType]
    BY Fields
  <2>2. [jobs[j] EXCEPT !.images[l] = cache.images[l]] \in JobType
    BY <1>2, <2>1 DEF JobType
  <2> QED BY <2>1, <2>2
<1>4. /\ jobs'[j].images[l] = cache.images[l]
      /\ \A m \in Layers \ {l} : jobs'[j].images[m] = jobs[j].images[m]
      /\ jobs'[j].status = "preparing" /\ jobs'[j].extent = jobs[j].extent
      /\ jobs'[j].uncached = jobs[j].uncached /\ jobs'[j].waiting = jobs[j].waiting
      /\ jobs'[j].stopped = jobs[j].stopped /\ jobs'[j].slot = jobs[j].slot
      /\ jobs'[j].posted = jobs[j].posted /\ jobs'[j].cache = "live"
  <2>1. jobs[j] \in JobType
    BY Fields
  <2> QED BY <1>3, <2>1 DEF JobType
<1>5. /\ ~jobs[j].stopped /\ scheduled /\ jobs[j].extent = extent /\ cache.extent = extent
      /\ \A m \in Layers : jobs[j].images[m] # NoImage =>
            /\ jobs[j].images[m].extent = extent
            /\ jobs[j].images[m].whole \/ m \in jobs[j].waiting
            /\ jobs[j].images[m].version = version[m] \/ m \in missed
  BY <1>1 DEF IInv, CurrentSound
<1>6. /\ cache.images[l].whole /\ cache.images[l].extent = extent
      /\ cache.images[l].version = version[l] \/ l \in missed
  BY <1>2, <1>5, ExtentsAssumption DEF IInv, CacheSound
<1>7. TypeOK'
  <2>1. ASSUME NEW k \in Jobs
        PROVE  jobs'[k].waiting \subseteq jobs'[k].uncached
    <3>1. jobs[k].waiting \subseteq jobs[k].uncached
      BY Fields
    <3> QED BY <1>3, <1>4, <3>1
  <2>2. Active(current)'
    BY <1>1, <1>2, <1>4 DEF Active
  <2> QED BY <1>2, <1>3, <2>1, <2>2 DEF IInv, TypeOK
<1>8. JobPhases'
  BY <1>1, <1>2, <1>3, <1>4, ImageType DEF IInv, JobPhases
<1>9. CacheOwned'
  BY <1>1, <1>2, <1>3, <1>4 DEF IInv, CacheOwned
<1>10. CurrentSound'
  BY <1>1, <1>2, <1>4, <1>5, <1>6 DEF CurrentSound
<1>11. CacheSound'
  BY <1>2, <1>6 DEF IInv, CacheSound
<1>12. ShowsMap'
  BY <1>1, <1>2 DEF ShowsMap, Idle
<1> QED BY <1>7, <1>8, <1>9, <1>10, <1>11, <1>12 DEF IInv

\* The layer is to be drawn; the cache no longer has it.
LEMMA PrepareUncachedIInv ==
    ASSUME IInv, NEW j \in Jobs, NEW l \in Layers,
           jobs[j].status = "preparing", jobs[j].images[l] = NoImage,
           jobs' = [jobs EXCEPT
                     ![j].images[l] = [version |-> version[l], extent |-> jobs[j].extent,
                                       whole |-> FALSE],
                     ![j].uncached = @ \union {l}, ![j].waiting = @ \union {l}],
           cache' = [cache EXCEPT !.images[l] = NoImage],
           missed' = missed \ {l},
           UNCHANGED <<settings, current, caching, shown, withheld>>
    PROVE  IInv'
<1> DEFINE New == [version |-> version[l], extent |-> jobs[j].extent, whole |-> FALSE]
<1>1. j = current /\ j # NoJob
  BY Jobless DEF IInv, JobPhases
<1>2. /\ UNCHANGED <<version, extent, scheduled, enabled, current, caching, shown, withheld>>
      /\ extent \in Extents
      /\ cache \in [extent : Extents \union {NoExtent}, images : [Layers -> Images \union {NoImage}]]
  BY DEF settings, IInv, TypeOK
<1>3. /\ ~jobs[j].stopped /\ scheduled /\ jobs[j].extent = extent
      /\ jobs[j].cache = "live" => cache.extent = jobs[j].extent
      /\ \A m \in Layers : jobs[j].images[m] # NoImage =>
            /\ jobs[j].images[m].extent = extent
            /\ jobs[j].images[m].whole \/ m \in jobs[j].waiting
            /\ jobs[j].images[m].version = version[m] \/ m \in missed
  BY <1>1 DEF IInv, CurrentSound
<1>4. New \in Images /\ New # NoImage
  <2>1. version[l] \in 0..MaxVersion
    BY DEF IInv, TypeOK
  <2>2. New \in Images
    BY <1>2, <1>3, <2>1 DEF Images
  <2> QED BY <2>2, ImageType
<1>5. /\ New.version = version[l] /\ New.extent = extent /\ ~New.whole
  BY <1>3
<1> HIDE DEF New
<1>6. /\ jobs' \in [Jobs -> JobType]
      /\ \A k \in Jobs \ {j} : jobs'[k] = jobs[k]
      /\ jobs'[j] = [jobs[j] EXCEPT !.images[l] = New, !.uncached = @ \union {l}, !.waiting = @ \union {l}]
  <2>1. jobs[j] \in JobType /\ jobs \in [Jobs -> JobType]
    BY Fields
  <2>2. [jobs[j] EXCEPT !.images[l] = New, !.uncached = @ \union {l}, !.waiting = @ \union {l}] \in JobType
    BY <1>4, <2>1 DEF JobType
  <2>3. jobs' = [jobs EXCEPT ![j] = [jobs[j] EXCEPT !.images[l] = New, !.uncached = @ \union {l},
                                                    !.waiting = @ \union {l}]]
    BY DEF New
  <2> QED BY <2>1, <2>2, <2>3
<1>7. /\ jobs'[j].images[l] = New
      /\ \A m \in Layers \ {l} : jobs'[j].images[m] = jobs[j].images[m]
      /\ jobs'[j].status = "preparing" /\ jobs'[j].extent = jobs[j].extent
      /\ jobs'[j].uncached = jobs[j].uncached \union {l}
      /\ jobs'[j].waiting = jobs[j].waiting \union {l}
      /\ jobs'[j].stopped = jobs[j].stopped /\ jobs'[j].slot = jobs[j].slot
      /\ jobs'[j].posted = jobs[j].posted /\ jobs'[j].cache = jobs[j].cache
  <2>1. jobs[j] \in JobType
    BY Fields
  <2>2. jobs'[j].images = [jobs[j].images EXCEPT ![l] = New]
    BY <1>6, <2>1 DEF JobType
  <2>3. /\ jobs'[j].images[l] = New
        /\ \A m \in Layers \ {l} : jobs'[j].images[m] = jobs[j].images[m]
    BY <2>2, Fields
  <2>4. /\ jobs'[j].status = "preparing" /\ jobs'[j].extent = jobs[j].extent
        /\ jobs'[j].uncached = jobs[j].uncached \union {l}
        /\ jobs'[j].waiting = jobs[j].waiting \union {l}
        /\ jobs'[j].stopped = jobs[j].stopped /\ jobs'[j].slot = jobs[j].slot
        /\ jobs'[j].posted = jobs[j].posted /\ jobs'[j].cache = jobs[j].cache
    BY <1>6, <2>1 DEF JobType
  <2> QED BY <2>3, <2>4
<1>8. /\ cache' \in [extent : Extents \union {NoExtent}, images : [Layers -> Images \union {NoImage}]]
      /\ cache'.images[l] = NoImage /\ cache'.extent = cache.extent
      /\ \A m \in Layers \ {l} : cache'.images[m] = cache.images[m]
  BY <1>2
<1>9. TypeOK'
  <2>1. \A k \in Jobs : jobs'[k].waiting \subseteq jobs'[k].uncached
    BY <1>6, <1>7, Fields
  <2>2. Active(current)'
    BY <1>1, <1>2, <1>7 DEF Active
  <2>3. missed' \subseteq Layers
    BY DEF IInv, TypeOK
  <2> QED BY <1>2, <1>6, <1>8, <2>1, <2>2, <2>3 DEF IInv, TypeOK
<1>10. JobPhases'
  <2> SUFFICES ASSUME NEW k \in Jobs
               PROVE  /\ jobs'[k].status = "deleted" => jobs'[k] = Deleted
                      /\ jobs'[k].status = "preparing" => k = current
                      /\ jobs'[k].status \in {"layers", "labels"} =>
                            \A m \in Layers : jobs'[k].images[m] # NoImage
                      /\ jobs'[k].status # "layers" => jobs'[k].slot = "none"
                      /\ jobs'[k].posted => jobs'[k].status \in {"layers", "idle"} /\ jobs'[k].waiting = {}
                      /\ \A m \in jobs'[k].uncached : jobs'[k].images[m] # NoImage
                      /\ jobs'[k].status \notin {"preparing", "layers"} => jobs'[k].uncached = {}
    BY <1>2 DEF JobPhases
  <2>1. CASE k = j
    <3>1. ~jobs[j].posted /\ jobs[j].slot = "none" /\ jobs[j].uncached \subseteq Layers
          /\ \A m \in jobs[j].uncached : jobs[j].images[m] # NoImage
      BY Fields DEF IInv, JobPhases
    <3>2. \A m \in jobs'[j].uncached : jobs'[j].images[m] # NoImage
      BY <1>4, <1>7, <3>1
    <3> QED BY <1>1, <1>7, <2>1, <3>1, <3>2
  <2>2. CASE k # j
    <3>1. jobs'[k] = jobs[k]
      BY <1>6, <2>2
    <3>2. /\ jobs[k].status = "deleted" => jobs[k] = Deleted
          /\ jobs[k].status = "preparing" => k = current
          /\ jobs[k].status \in {"layers", "labels"} =>
                \A m \in Layers : jobs[k].images[m] # NoImage
          /\ jobs[k].status # "layers" => jobs[k].slot = "none"
          /\ jobs[k].posted => jobs[k].status \in {"layers", "idle"} /\ jobs[k].waiting = {}
          /\ \A m \in jobs[k].uncached : jobs[k].images[m] # NoImage
          /\ jobs[k].status \notin {"preparing", "layers"} => jobs[k].uncached = {}
      BY DEF IInv, JobPhases
    <3> QED BY <3>1, <3>2
  <2> QED BY <2>1, <2>2
<1>11. CacheOwned'
  BY <1>1, <1>2, <1>6, <1>7, <1>8 DEF IInv, CacheOwned
<1>12. CurrentSound'
  <2>1. ASSUME NEW m \in Layers, jobs'[j].images[m] # NoImage
        PROVE  /\ jobs'[j].images[m].extent = extent
               /\ jobs'[j].images[m].whole \/ m \in jobs'[j].waiting
               /\ jobs'[j].images[m].version = version[m] \/ m \in missed'
    <3>1. CASE m = l
      BY <1>5, <1>7, <3>1
    <3>2. CASE m # l
      BY <1>3, <1>7, <2>1, <3>2
    <3> QED BY <3>1, <3>2
  <2>2. /\ current' = j /\ ~jobs'[j].stopped /\ scheduled'
        /\ jobs'[j].extent = extent' /\ extent' = extent /\ version' = version
        /\ jobs'[j].cache = "live" => cache'.extent = jobs'[j].extent
    BY <1>1, <1>2, <1>3, <1>7, <1>8
  <2> QED BY <2>1, <2>2 DEF CurrentSound
<1>13. CacheSound'
  BY <1>2, <1>8 DEF IInv, CacheSound
<1>14. ShowsMap'
  BY <1>1, <1>2 DEF ShowsMap, Idle
<1> QED BY <1>9, <1>10, <1>11, <1>12, <1>13, <1>14 DEF IInv

LEMMA PrepareLayerIInv ==
    ASSUME IInv, NEW j \in Jobs, NEW l \in Layers, PrepareLayer(j, l)
    PROVE  IInv'
BY PrepareCachedIInv, PrepareUncachedIInv DEF PrepareLayer

LEMMA StartWorkersIInv ==
    ASSUME IInv, NEW j \in Jobs, StartWorkers(j)
    PROVE  IInv'
<1>1. /\ jobs[j].status = "preparing" /\ \A l \in Layers : jobs[j].images[l] # NoImage
      /\ jobs' = [jobs EXCEPT ![j].status = "layers", ![j].slot = "finished",
                              ![j].posted = jobs[j].waiting = {}]
      /\ scheduled' = FALSE
      /\ UNCHANGED <<version, extent, enabled, current, caching, cache, shown, withheld, missed>>
  BY DEF StartWorkers
<1>2. j = current /\ j # NoJob
  BY <1>1, Jobless DEF IInv, JobPhases
<1>3. /\ jobs' \in [Jobs -> JobType]
      /\ \A k \in Jobs \ {j} : jobs'[k] = jobs[k]
      /\ jobs'[j] = [jobs[j] EXCEPT !.status = "layers", !.slot = "finished",
                                    !.posted = jobs[j].waiting = {}]
  <2>1. jobs[j] \in JobType /\ jobs \in [Jobs -> JobType]
    BY Fields
  <2>2. [jobs[j] EXCEPT !.status = "layers", !.slot = "finished",
                        !.posted = jobs[j].waiting = {}] \in JobType
    BY <2>1 DEF JobType
  <2>3. jobs' = [jobs EXCEPT ![j] = [jobs[j] EXCEPT !.status = "layers", !.slot = "finished",
                                                    !.posted = jobs[j].waiting = {}]]
    BY <1>1
  <2> QED BY <2>1, <2>2, <2>3
<1>4. /\ jobs'[j].status = "layers" /\ jobs'[j].slot = "finished"
      /\ jobs'[j].posted <=> jobs[j].waiting = {}
      /\ jobs'[j].images = jobs[j].images /\ jobs'[j].extent = jobs[j].extent
      /\ jobs'[j].uncached = jobs[j].uncached /\ jobs'[j].waiting = jobs[j].waiting
      /\ jobs'[j].stopped = jobs[j].stopped /\ jobs'[j].cache = jobs[j].cache
  <2>1. jobs[j] \in JobType
    BY Fields
  <2> QED BY <1>3, <2>1 DEF JobType
<1>5. TypeOK'
  <2>1. ASSUME NEW k \in Jobs
        PROVE  jobs'[k].waiting \subseteq jobs'[k].uncached
    <3>1. jobs[k].waiting \subseteq jobs[k].uncached
      BY Fields
    <3> QED BY <1>3, <1>4, <3>1
  <2>2. Active(current)'
    BY <1>1, <1>2, <1>4 DEF Active
  <2> QED BY <1>1, <1>3, <2>1, <2>2 DEF IInv, TypeOK
<1>6. JobPhases'
  BY <1>1, <1>2, <1>3, <1>4 DEF IInv, JobPhases
<1>7. CacheOwned'
  BY <1>1, <1>2, <1>3, <1>4 DEF IInv, CacheOwned
<1>8. CurrentSound'
  <2>1. /\ ~jobs[j].stopped /\ jobs[j].extent = extent
        /\ \A l \in Layers :
              /\ jobs[j].images[l].extent = jobs[j].extent
              /\ jobs[j].images[l].whole \/ l \in jobs[j].waiting
              /\ jobs[j].images[l].version = version[l] \/ l \in missed
    BY <1>1, <1>2 DEF IInv, CurrentSound
  <2>2. current' = j /\ ~jobs'[j].stopped /\ jobs'[j].status = "layers"
    BY <1>1, <1>2, <1>4, <2>1
  <2>3. ASSUME NEW l \in Layers
        PROVE  /\ jobs'[j].images[l].extent = jobs'[j].extent
               /\ jobs'[j].images[l].extent = extent'
               /\ jobs'[j].images[l].whole \/ l \in jobs'[j].waiting
               /\ jobs'[j].images[l].version = version'[l] \/ l \in missed'
    BY <1>1, <1>4, <2>1
  <2> QED BY <2>2, <2>3 DEF CurrentSound
<1>9. CacheSound' /\ ShowsMap'
  BY <1>1, <1>2 DEF IInv, CacheSound, ShowsMap, Idle
<1> QED BY <1>5, <1>6, <1>7, <1>8, <1>9 DEF IInv

-----------------------------------------------------------------------------
(* Workers and the ends of a job. *)

LEMMA DrawLayerIInv ==
    ASSUME IInv, NEW j \in Jobs, NEW l \in Layers, DrawLayer(j, l)
    PROVE  IInv'
<1> DEFINE New == [jobs[j].images[l] EXCEPT !.whole = ~jobs[j].stopped]
<1>1. /\ jobs[j].status = "layers" /\ l \in jobs[j].waiting
      /\ jobs' = [jobs EXCEPT ![j] = [jobs[j] EXCEPT !.images[l] = New, !.waiting = @ \ {l},
                                                     !.posted = jobs[j].waiting = {l}]]
      /\ UNCHANGED <<version, extent, scheduled, enabled, current, caching, cache, shown,
                     withheld, missed>>
  BY DEF DrawLayer, settings
<1>2. \A m \in Layers : jobs[j].images[m] # NoImage
  BY <1>1 DEF IInv, JobPhases
<1>3. /\ jobs[j].images[l] \in Images /\ New \in Images /\ New # NoImage
      /\ New.version = jobs[j].images[l].version /\ New.extent = jobs[j].images[l].extent
      /\ New.whole <=> ~jobs[j].stopped
  <2>1. jobs[j].images[l] \in Images /\ jobs[j].stopped \in BOOLEAN
    BY <1>2, Fields
  <2>2. /\ New \in Images
        /\ New.version = jobs[j].images[l].version /\ New.extent = jobs[j].images[l].extent
        /\ New.whole <=> ~jobs[j].stopped
    BY <2>1 DEF Images
  <2> QED BY <2>1, <2>2, ImageType
<1> HIDE DEF New
<1>4. /\ jobs' \in [Jobs -> JobType]
      /\ \A k \in Jobs \ {j} : jobs'[k] = jobs[k]
      /\ jobs'[j] = [jobs[j] EXCEPT !.images[l] = New, !.waiting = @ \ {l},
                                    !.posted = jobs[j].waiting = {l}]
  <2>1. jobs[j] \in JobType /\ jobs \in [Jobs -> JobType]
    BY Fields
  <2>2. [jobs[j] EXCEPT !.images[l] = New, !.waiting = @ \ {l},
                        !.posted = jobs[j].waiting = {l}] \in JobType
    BY <1>3, <2>1 DEF JobType
  <2> QED BY <1>1, <2>1, <2>2
<1>5. /\ jobs'[j].images[l] = New
      /\ \A m \in Layers \ {l} : jobs'[j].images[m] = jobs[j].images[m]
      /\ jobs'[j].status = "layers" /\ jobs'[j].extent = jobs[j].extent
      /\ jobs'[j].uncached = jobs[j].uncached
      /\ jobs'[j].waiting = jobs[j].waiting \ {l}
      /\ jobs'[j].stopped = jobs[j].stopped /\ jobs'[j].slot = jobs[j].slot
      /\ jobs'[j].posted <=> jobs[j].waiting = {l}
      /\ jobs'[j].cache = jobs[j].cache
  <2>1. jobs[j] \in JobType
    BY Fields
  <2>2. jobs'[j].images = [jobs[j].images EXCEPT ![l] = New]
    BY <1>4, <2>1 DEF JobType
  <2>3. /\ jobs'[j].images[l] = New
        /\ \A m \in Layers \ {l} : jobs'[j].images[m] = jobs[j].images[m]
    BY <2>2, Fields
  <2>4. /\ jobs'[j].status = "layers" /\ jobs'[j].extent = jobs[j].extent
        /\ jobs'[j].uncached = jobs[j].uncached
        /\ jobs'[j].waiting = jobs[j].waiting \ {l}
        /\ jobs'[j].stopped = jobs[j].stopped /\ jobs'[j].slot = jobs[j].slot
        /\ jobs'[j].posted <=> jobs[j].waiting = {l}
        /\ jobs'[j].cache = jobs[j].cache
    BY <1>1, <1>4, <2>1 DEF JobType
  <2> QED BY <2>3, <2>4
<1>6. \A m \in Layers : jobs'[j].images[m] # NoImage
  BY <1>2, <1>3, <1>5
<1>7. TypeOK'
  <2>1. \A k \in Jobs : jobs'[k].waiting \subseteq jobs'[k].uncached
    BY <1>4, <1>5, Fields
  <2>2. current # NoJob => Active(current)'
    BY <1>1, <1>4, <1>5 DEF Active, IInv, TypeOK
  <2> QED BY <1>1, <1>4, <2>1, <2>2 DEF IInv, TypeOK
<1>8. JobPhases'
  <2> SUFFICES ASSUME NEW k \in Jobs
               PROVE  /\ jobs'[k].status = "deleted" => jobs'[k] = Deleted
                      /\ jobs'[k].status = "preparing" => k = current
                      /\ jobs'[k].status \in {"layers", "labels"} =>
                            \A m \in Layers : jobs'[k].images[m] # NoImage
                      /\ jobs'[k].status # "layers" => jobs'[k].slot = "none"
                      /\ jobs'[k].posted => jobs'[k].status \in {"layers", "idle"} /\ jobs'[k].waiting = {}
                      /\ \A m \in jobs'[k].uncached : jobs'[k].images[m] # NoImage
                      /\ jobs'[k].status \notin {"preparing", "layers"} => jobs'[k].uncached = {}
    BY <1>1 DEF JobPhases
  <2>1. CASE k = j
    BY <1>5, <1>6, <2>1, Fields
  <2>2. CASE k # j
    BY <1>4, <2>2 DEF IInv, JobPhases
  <2> QED BY <2>1, <2>2
<1>9. CacheOwned'
  BY <1>1, <1>4, <1>5 DEF IInv, CacheOwned
<1>10. CurrentSound'
  <2>1. CASE j = current
    <3>1. /\ ~jobs[j].stopped
          /\ \A m \in Layers :
                /\ jobs[j].images[m].extent = jobs[j].extent
                /\ ~scheduled /\ ~withheld => jobs[j].images[m].extent = extent
                /\ jobs[j].images[m].whole \/ m \in jobs[j].waiting
                /\ jobs[j].images[m].version = version[m] \/ m \in missed
      BY <1>1, <1>2, <2>1, Jobless DEF IInv, CurrentSound
    <3>2. ASSUME NEW m \in Layers
          PROVE  /\ jobs'[j].images[m].extent = jobs[j].extent
                 /\ ~scheduled /\ ~withheld => jobs'[j].images[m].extent = extent
                 /\ jobs'[j].images[m].whole \/ m \in jobs'[j].waiting
                 /\ jobs'[j].images[m].version = version[m] \/ m \in missed
      <4>1. CASE m = l
        BY <1>3, <1>5, <3>1, <4>1
      <4>2. CASE m # l
        BY <1>5, <3>1, <4>2
      <4> QED BY <4>1, <4>2
    <3> QED BY <1>1, <1>5, <2>1, <3>1, <3>2 DEF CurrentSound
  <2>2. CASE j # current
    <3> current # NoJob => jobs'[current] = jobs[current]
      BY <1>4, <2>2 DEF IInv, TypeOK
    <3> QED BY <1>1 DEF IInv, CurrentSound
  <2> QED BY <2>1, <2>2
<1>11. CacheSound' /\ ShowsMap'
  BY <1>1 DEF IInv, CacheSound, ShowsMap, Idle
<1> QED BY <1>7, <1>8, <1>9, <1>10, <1>11 DEF IInv

\* What a job leaves in the cache when its layers are drawn is as sound as the rest.
LEMMA StoredSound ==
    ASSUME IInv, NEW j \in Jobs, jobs[j].status = "layers", jobs[j].waiting = {},
           cache' = Stored(jobs[j]), UNCHANGED <<version, missed>>
    PROVE  /\ cache' \in [extent : Extents \union {NoExtent}, images : [Layers -> Images \union {NoImage}]]
           /\ cache'.extent = cache.extent
           /\ CacheSound'
<1>1. cache \in [extent : Extents \union {NoExtent}, images : [Layers -> Images \union {NoImage}]]
  BY DEF IInv, TypeOK
<1>2. CASE jobs[j].cache = "live" /\ ~jobs[j].stopped
  <2>1. cache' = [cache EXCEPT !.images = [l \in Layers |->
                    IF l \in jobs[j].uncached THEN jobs[j].images[l] ELSE cache.images[l]]]
    BY <1>2 DEF Stored
  <2>2. /\ cache' \in [extent : Extents \union {NoExtent}, images : [Layers -> Images \union {NoImage}]]
        /\ cache'.extent = cache.extent
        /\ \A l \in Layers : cache'.images[l] =
              IF l \in jobs[j].uncached THEN jobs[j].images[l] ELSE cache.images[l]
    BY <1>1, <2>1, Fields
  <2>3. /\ j = current /\ j # NoJob /\ cache.extent \in {jobs[j].extent, NoExtent}
    BY <1>2, Jobless DEF IInv, CacheOwned
  <2>4. \A l \in Layers : jobs[j].images[l] # NoImage =>
              /\ jobs[j].images[l].extent = jobs[j].extent
              /\ jobs[j].images[l].whole
              /\ jobs[j].images[l].version = version[l] \/ l \in missed
    BY <2>3 DEF IInv, CurrentSound
  <2>5. CacheSound'
    <3> SUFFICES ASSUME NEW l \in Layers, cache'.images[l] # NoImage
                 PROVE  /\ cache'.images[l].whole
                        /\ cache'.extent \in {cache'.images[l].extent, NoExtent}
                        /\ cache'.images[l].version = version[l] \/ l \in missed
      BY DEF CacheSound
    <3>1. CASE l \in jobs[j].uncached
      BY <2>2, <2>3, <2>4, <3>1
    <3>2. CASE l \notin jobs[j].uncached
      BY <2>2, <3>2 DEF IInv, CacheSound
    <3> QED BY <3>1, <3>2
  <2> QED BY <2>2, <2>5
<1>3. CASE ~(jobs[j].cache = "live" /\ ~jobs[j].stopped)
  <2> cache' = cache
    BY <1>3 DEF Stored
  <2> QED BY <1>1 DEF IInv, CacheSound
<1> QED BY <1>2, <1>3

LEMMA EndedFields ==
    LET ended == Ended(FALSE, "none") IN
    /\ ended \in JobType
    /\ ended.status = "idle" /\ ended.waiting = {} /\ ended.uncached = {}
    /\ ended.cache = "none" /\ ended.slot = "none" /\ ~ended.posted
BY DEF Ended, Deleted, JobType

\* A job that has drawn everything ends, and the canvas shows it if it is its own.
LEMMA EndIInv ==
    ASSUME IInv, NEW j \in Jobs, jobs[j].status \in {"layers", "labels"}, jobs[j].waiting = {},
           jobs' = [jobs EXCEPT ![j] = Ended(FALSE, "none")],
           Finished(j, jobs[j].images),
           cache' \in [extent : Extents \union {NoExtent}, images : [Layers -> Images \union {NoImage}]],
           cache'.extent = cache.extent, CacheSound',
           UNCHANGED <<version, extent, scheduled, enabled, caching, withheld, missed>>
    PROVE  IInv'
<1>1. /\ jobs' \in [Jobs -> JobType]
      /\ \A k \in Jobs \ {j} : jobs'[k] = jobs[k]
      /\ jobs'[j] = Ended(FALSE, "none")
  BY EndedFields DEF IInv, TypeOK
<1>2. /\ jobs'[j].status = "idle" /\ jobs'[j].waiting = {} /\ jobs'[j].uncached = {}
      /\ jobs'[j].cache = "none" /\ jobs'[j].slot = "none" /\ ~jobs'[j].posted
  BY <1>1, EndedFields
<1>3. /\ j = current => current' = NoJob /\ shown' = jobs[j].images
      /\ j # current => current' = current /\ shown' = shown
  BY DEF Finished
<1>4. current' # NoJob => j # current /\ current' = current
  BY <1>3
<1>5. TypeOK'
  <2>1. \A k \in Jobs : jobs'[k].waiting \subseteq jobs'[k].uncached
    BY <1>1, <1>2, Fields
  <2>2. current' # NoJob => Active(current)'
    BY <1>1, <1>4 DEF Active, IInv, TypeOK
  <2>3. shown' \in [Layers -> Images \union {NoImage}] /\ current' \in Jobs \union {NoJob}
    BY <1>3, Fields DEF IInv, TypeOK
  <2> QED BY <1>1, <2>1, <2>2, <2>3 DEF IInv, TypeOK
<1>6. JobPhases'
  <2> SUFFICES ASSUME NEW k \in Jobs
               PROVE  /\ jobs'[k].status = "deleted" => jobs'[k] = Deleted
                      /\ jobs'[k].status = "preparing" => k = current'
                      /\ jobs'[k].status \in {"layers", "labels"} =>
                            \A m \in Layers : jobs'[k].images[m] # NoImage
                      /\ jobs'[k].status # "layers" => jobs'[k].slot = "none"
                      /\ jobs'[k].posted => jobs'[k].status \in {"layers", "idle"} /\ jobs'[k].waiting = {}
                      /\ \A m \in jobs'[k].uncached : jobs'[k].images[m] # NoImage
                      /\ jobs'[k].status \notin {"preparing", "layers"} => jobs'[k].uncached = {}
    BY DEF JobPhases
  <2>1. CASE k = j
    BY <1>2, <2>1
  <2>2. CASE k # j
    BY <1>1, <1>3, <2>2 DEF IInv, JobPhases
  <2> QED BY <2>1, <2>2
<1>7. CacheOwned'
  BY <1>1, <1>2, <1>3 DEF IInv, CacheOwned
<1>8. CurrentSound'
  <2> SUFFICES ASSUME current' # NoJob PROVE CurrentSound'
    BY DEF CurrentSound
  <2> jobs'[current] = jobs[current] /\ current' = current
    BY <1>1, <1>4 DEF IInv, TypeOK
  <2> QED BY DEF IInv, CurrentSound
<1>9. ShowsMap'
  <2> SUFFICES ASSUME ~scheduled, ~withheld, current' = NoJob, NEW l \in Layers
               PROVE  /\ shown'[l] # NoImage /\ shown'[l].whole
                      /\ shown'[l].extent = extent
                      /\ shown'[l].version = version[l] \/ l \in missed
    BY DEF ShowsMap, Idle
  <2>1. CASE j = current
    <3>1. jobs[j].images[l] # NoImage
      BY DEF IInv, JobPhases
    <3> QED BY <1>3, <2>1, <3>1, Jobless DEF IInv, CurrentSound
  <2>2. CASE j # current
    BY <1>3, <2>2 DEF IInv, ShowsMap, Idle
  <2> QED BY <2>1, <2>2
<1> QED BY <1>5, <1>6, <1>7, <1>8, <1>9 DEF IInv

LEMMA StartLabelsIInv ==
    ASSUME IInv, NEW j \in Jobs, jobs[j].status = "layers", jobs[j].waiting = {},
           ~jobs[j].stopped, cache' = Stored(jobs[j]),
           jobs' = [jobs EXCEPT ![j] = Labelling(@)],
           UNCHANGED <<version, extent, scheduled, enabled, current, caching, shown, withheld, missed>>
    PROVE  IInv'
<1>1. /\ cache' \in [extent : Extents \union {NoExtent}, images : [Layers -> Images \union {NoImage}]]
      /\ cache'.extent = cache.extent
      /\ CacheSound'
  BY StoredSound
<1>2. Labelling(jobs[j]) \in JobType
  BY Fields DEF Labelling, Deleted, JobType
<1>3. /\ jobs' \in [Jobs -> JobType]
      /\ \A k \in Jobs \ {j} : jobs'[k] = jobs[k]
      /\ jobs'[j] = Labelling(jobs[j])
  BY <1>2 DEF IInv, TypeOK
<1>4. /\ jobs'[j].status = "labels" /\ jobs'[j].waiting = {} /\ jobs'[j].uncached = {}
      /\ jobs'[j].cache = "none" /\ jobs'[j].slot = "none" /\ ~jobs'[j].posted
      /\ jobs'[j].images = jobs[j].images /\ ~jobs'[j].stopped
  BY <1>3 DEF Labelling, Deleted
<1>5. \A m \in Layers : jobs[j].images[m] # NoImage
  BY DEF IInv, JobPhases
<1>6. TypeOK'
  <2>1. ASSUME NEW k \in Jobs
        PROVE  jobs'[k].waiting \subseteq jobs'[k].uncached
    <3>1. jobs[k].waiting \subseteq jobs[k].uncached
      BY Fields
    <3> QED BY <1>3, <1>4, <3>1
  <2>2. current # NoJob => Active(current)'
    BY <1>3, <1>4 DEF Active, IInv, TypeOK
  <2> QED BY <1>1, <1>3, <2>1, <2>2 DEF IInv, TypeOK
<1>7. JobPhases'
  BY <1>3, <1>4, <1>5 DEF IInv, JobPhases
<1>8. CacheOwned'
  BY <1>1, <1>3, <1>4 DEF IInv, CacheOwned
<1>9. CurrentSound'
  <2>1. CASE j = current
    <3>1. \A m \in Layers :
                /\ ~scheduled /\ ~withheld => jobs[j].images[m].extent = extent
                /\ jobs[j].images[m].whole
                /\ jobs[j].images[m].version = version[m] \/ m \in missed
      BY <1>5, <2>1, Jobless DEF IInv, CurrentSound
    <3> QED BY <1>4, <2>1, <3>1 DEF CurrentSound
  <2>2. CASE j # current
    <3> current # NoJob => jobs'[current] = jobs[current]
      BY <1>3, <2>2 DEF IInv, TypeOK
    <3>1. current # NoJob /\ jobs[current].status = "preparing" =>
             (jobs[current].cache = "live" => cache'.extent = jobs[current].extent)
      BY <1>1 DEF IInv, CurrentSound
    <3> QED BY <3>1 DEF IInv, CurrentSound
  <2> QED BY <2>1, <2>2
<1>10. ShowsMap'
  BY DEF IInv, ShowsMap, Idle
<1> QED BY <1>1, <1>6, <1>7, <1>8, <1>9, <1>10 DEF IInv

LEMMA RenderLayersFinishedIInv ==
    ASSUME IInv, NEW j \in Jobs,
           RenderLayersFinished(j) \/ RenderLayersFinishedWhenJobCanceled(j)
    PROVE  IInv'
<1>1. /\ jobs[j].posted /\ jobs[j].slot # "none" /\ cache' = Stored(jobs[j])
      /\ UNCHANGED <<version, extent, scheduled, enabled, caching, withheld, missed>>
      /\ \/ /\ ~jobs[j].stopped
            /\ jobs' = [jobs EXCEPT ![j] = Labelling(@)]
            /\ UNCHANGED <<current, shown>>
         \/ /\ jobs' = [jobs EXCEPT ![j] = Ended(FALSE, "none")]
            /\ Finished(j, jobs[j].images)
  BY DEF RenderLayersFinished, RenderLayersFinishedWhenJobCanceled, settings
<1>2. jobs[j].status = "layers" /\ jobs[j].waiting = {}
  BY <1>1 DEF IInv, JobPhases
<1>3. /\ cache' \in [extent : Extents \union {NoExtent}, images : [Layers -> Images \union {NoImage}]]
      /\ cache'.extent = cache.extent
      /\ CacheSound'
  BY <1>1, <1>2, StoredSound
<1> QED BY <1>1, <1>2, <1>3, EndIInv, StartLabelsIInv

LEMMA RenderingFinishedIInv ==
    ASSUME IInv, NEW j \in Jobs, RenderingFinished(j)
    PROVE  IInv'
<1>1. /\ jobs[j].status = "labels" /\ jobs' = [jobs EXCEPT ![j] = Ended(FALSE, "none")]
      /\ Finished(j, jobs[j].images)
      /\ UNCHANGED <<version, extent, scheduled, enabled, caching, cache, withheld, missed>>
  BY DEF RenderingFinished, settings
<1>2. jobs[j].waiting = {}
  BY <1>1, Fields DEF IInv, JobPhases
<1>3. /\ cache' \in [extent : Extents \union {NoExtent}, images : [Layers -> Images \union {NoImage}]]
      /\ CacheSound'
  BY <1>1 DEF IInv, TypeOK, CacheSound
<1> QED BY <1>1, <1>2, <1>3, EndIInv

LEMMA EventIgnoredIInv ==
    ASSUME IInv, NEW j \in Jobs, EventIgnored(j)
    PROVE  IInv'
<1>1. /\ jobs[j].posted /\ jobs[j].slot = "none"
      /\ jobs' = [jobs EXCEPT ![j] = [jobs[j] EXCEPT !.posted = FALSE]]
      /\ UNCHANGED <<version, extent, scheduled, enabled, current, caching, cache, shown,
                     withheld, missed>>
  BY DEF EventIgnored, settings
<1>2. /\ jobs' \in [Jobs -> JobType]
      /\ \A k \in Jobs \ {j} : jobs'[k] = jobs[k]
      /\ jobs'[j] = [jobs[j] EXCEPT !.posted = FALSE]
  <2>1. jobs[j] \in JobType /\ jobs \in [Jobs -> JobType]
    BY Fields
  <2>2. [jobs[j] EXCEPT !.posted = FALSE] \in JobType
    BY <2>1 DEF JobType
  <2> QED BY <1>1, <2>1, <2>2
<1>3. /\ jobs'[j].status = jobs[j].status /\ jobs'[j].extent = jobs[j].extent
      /\ jobs'[j].images = jobs[j].images
      /\ jobs'[j].uncached = jobs[j].uncached /\ jobs'[j].waiting = jobs[j].waiting
      /\ jobs'[j].stopped = jobs[j].stopped /\ jobs'[j].slot = jobs[j].slot
      /\ ~jobs'[j].posted /\ jobs'[j].cache = jobs[j].cache
  <2>1. jobs[j] \in JobType
    BY Fields
  <2> QED BY <1>2, <2>1 DEF JobType
<1>4. TypeOK'
  <2>1. \A k \in Jobs : jobs'[k].waiting \subseteq jobs'[k].uncached
    BY <1>2, <1>3, Fields
  <2>2. current # NoJob => Active(current)'
    BY <1>1, <1>2, <1>3 DEF Active, IInv, TypeOK
  <2> QED BY <1>1, <1>2, <2>1, <2>2 DEF IInv, TypeOK
<1>5. JobPhases'
  <2>1. jobs[j].status # "deleted"
    BY <1>1 DEF IInv, JobPhases
  <2> QED BY <1>1, <1>2, <1>3, <2>1 DEF IInv, JobPhases
<1>6. CacheOwned'
  BY <1>1, <1>2, <1>3 DEF IInv, CacheOwned
<1>7. CurrentSound'
  <2>1. CASE j = current
    <3>1. jobs[j].status # "preparing"
      BY <1>1 DEF IInv, JobPhases
    <3> QED BY <1>1, <1>3, <2>1, <3>1 DEF IInv, CurrentSound
  <2>2. CASE j # current
    <3> current # NoJob => jobs'[current] = jobs[current]
      BY <1>2, <2>2 DEF IInv, TypeOK
    <3> QED BY <1>1 DEF IInv, CurrentSound
  <2> QED BY <2>1, <2>2
<1>8. CacheSound' /\ ShowsMap'
  BY <1>1 DEF IInv, CacheSound, ShowsMap, Idle
<1> QED BY <1>4, <1>5, <1>6, <1>7, <1>8 DEF IInv

LEMMA DeleteJobIInv ==
    ASSUME IInv, NEW j \in Jobs, DeleteJob(j)
    PROVE  IInv'
<1>1. /\ jobs[j].status = "idle" /\ jobs' = [jobs EXCEPT ![j] = Deleted]
      /\ UNCHANGED <<version, extent, scheduled, enabled, current, caching, cache, shown,
                     withheld, missed>>
  BY DEF DeleteJob, settings
<1>2. /\ jobs' \in [Jobs -> JobType]
      /\ \A k \in Jobs \ {j} : jobs'[k] = jobs[k]
      /\ jobs'[j] = Deleted
  BY <1>1, DeletedType DEF IInv, TypeOK
<1>3. /\ Deleted.status = "deleted" /\ Deleted.waiting = {} /\ Deleted.uncached = {}
      /\ Deleted.cache = "none" /\ Deleted.slot = "none" /\ ~Deleted.posted
  BY DEF Deleted
<1>4. j # current
  BY <1>1, Jobless DEF IInv, TypeOK, Active
<1>5. TypeOK'
  <2>1. \A k \in Jobs : jobs'[k].waiting \subseteq jobs'[k].uncached
    BY <1>2, <1>3, Fields
  <2>2. current # NoJob => Active(current)'
    BY <1>1, <1>2, <1>4 DEF Active, IInv, TypeOK
  <2> QED BY <1>1, <1>2, <2>1, <2>2 DEF IInv, TypeOK
<1>6. JobPhases' /\ CacheOwned'
  BY <1>1, <1>2, <1>3 DEF IInv, JobPhases, CacheOwned
<1>7. CurrentSound'
  <2> current # NoJob => jobs'[current] = jobs[current]
    BY <1>2, <1>4 DEF IInv, TypeOK
  <2> QED BY <1>1 DEF IInv, CurrentSound
<1>8. CacheSound' /\ ShowsMap'
  BY <1>1 DEF IInv, CacheSound, ShowsMap, Idle
<1> QED BY <1>5, <1>6, <1>7, <1>8 DEF IInv

LEMMA MapUpdateTimeoutIInv ==
    ASSUME IInv, MapUpdateTimeout
    PROVE  IInv'
<1>1. /\ current # NoJob /\ shown' = [l \in Layers |-> NoImage]
      /\ UNCHANGED <<version, extent, scheduled, enabled, current, jobs, caching, cache,
                     withheld, missed>>
  BY DEF MapUpdateTimeout, settings
<1> QED BY <1>1 DEF IInv, TypeOK, Active, JobPhases, CacheOwned, CurrentSound, CacheSound,
                    ShowsMap, Idle

-----------------------------------------------------------------------------
(* Waiting for the job. *)

LEMMA WaitedForFields ==
    ASSUME IInv, NEW j \in Jobs
    PROVE  /\ WaitedFor(jobs[j]) \in JobType
           /\ WaitedFor(jobs[j]).status = "idle" /\ WaitedFor(jobs[j]).waiting = {}
           /\ WaitedFor(jobs[j]).uncached = {} /\ WaitedFor(jobs[j]).cache = "none"
           /\ WaitedFor(jobs[j]).slot = "none"
<1>1. CASE jobs[j].status = "layers"
  BY <1>1 DEF WaitedFor, Ended, Deleted, JobType
<1>2. CASE jobs[j].status # "layers"
  BY <1>2 DEF WaitedFor, Ended, Deleted, JobType
<1> QED BY <1>1, <1>2

LEMMA WithoutCacheFields ==
    ASSUME NEW job \in JobType
    PROVE  /\ WithoutCache(job) \in JobType
           /\ WithoutCache(job).status = job.status /\ WithoutCache(job).images = job.images
           /\ WithoutCache(job).uncached = job.uncached /\ WithoutCache(job).waiting = job.waiting
           /\ WithoutCache(job).slot = job.slot /\ WithoutCache(job).posted = job.posted
           /\ WithoutCache(job).cache # "live"
           /\ job.cache = "none" => WithoutCache(job) = job
BY DEF WithoutCache, JobType

\* The canvas shows all that the job has drawn for it.
LEMMA DrawnShowsMap ==
    ASSUME IInv, ~Preparing, current' = NoJob,
           shown' = IF current = NoJob THEN shown ELSE Drawn(jobs[current]),
           UNCHANGED <<version, extent, scheduled, withheld, missed>>
    PROVE  shown' \in [Layers -> Images \union {NoImage}] /\ ShowsMap'
<1>1. CASE current = NoJob
  BY <1>1 DEF IInv, TypeOK, ShowsMap, Idle
<1>2. CASE current # NoJob
  <2>1. current \in Jobs /\ jobs[current].status \in {"layers", "labels"}
    BY <1>2 DEF IInv, TypeOK, Active, Preparing
  <2>2. \A l \in Layers : jobs[current].images[l] # NoImage
    BY <2>1 DEF IInv, JobPhases
  <2>3. ASSUME NEW l \in Layers
        PROVE  /\ shown'[l] \in Images /\ shown'[l].whole
               /\ shown'[l].extent = jobs[current].images[l].extent
               /\ shown'[l].version = jobs[current].images[l].version
    <3>1. shown'[l] = [jobs[current].images[l] EXCEPT !.whole = TRUE]
      BY <1>2 DEF Drawn
    <3>2. jobs[current].images[l] \in Images
      BY <2>1, <2>2, Fields
    <3> QED BY <3>1, <3>2 DEF Images
  <2>4. shown' \in [Layers -> Images \union {NoImage}]
    <3>1. shown' = [l \in Layers |-> [jobs[current].images[l] EXCEPT !.whole = TRUE]]
      BY <1>2 DEF Drawn
    <3> QED BY <2>3, <3>1
  <2>5. ShowsMap'
    <3> SUFFICES ASSUME ~scheduled, ~withheld, NEW l \in Layers
                 PROVE  /\ shown'[l] # NoImage /\ shown'[l].whole
                        /\ shown'[l].extent = extent
                        /\ shown'[l].version = version[l] \/ l \in missed
      BY DEF ShowsMap, Idle
    <3>1. /\ jobs[current].images[l].extent = extent
          /\ jobs[current].images[l].version = version[l] \/ l \in missed
      BY <1>2, <2>2 DEF IInv, CurrentSound
    <3> QED BY <2>3, <3>1, ImageType
  <2> QED BY <2>4, <2>5
<1> QED BY <1>1, <1>2

LEMMA DisableCachingIInv ==
    ASSUME IInv, DisableCaching
    PROVE  IInv'
<1> DEFINE Kept(j) == IF j = current THEN WaitedFor(jobs[j]) ELSE jobs[j]
<1>1. /\ ~Preparing /\ current' = NoJob /\ jobs' = [j \in Jobs |-> WithoutCache(Kept(j))]
      /\ shown' = IF current = NoJob THEN shown ELSE Drawn(jobs[current])
      /\ cache' = EmptyCache(NoExtent) /\ caching' = FALSE
      /\ UNCHANGED <<version, extent, scheduled, enabled, withheld, missed>>
  BY DEF DisableCaching, NotCaching, settings
<1>2. ASSUME NEW j \in Jobs
      PROVE  /\ Kept(j) \in JobType
             /\ j = current => Kept(j) = WaitedFor(jobs[j])
             /\ j # current => Kept(j) = jobs[j]
  BY WaitedForFields, Fields
<1> HIDE DEF Kept
<1>3. ASSUME NEW j \in Jobs
      PROVE  /\ jobs'[j] \in JobType /\ jobs'[j] = WithoutCache(Kept(j))
             /\ jobs'[j].status = Kept(j).status /\ jobs'[j].images = Kept(j).images
             /\ jobs'[j].uncached = Kept(j).uncached /\ jobs'[j].waiting = Kept(j).waiting
             /\ jobs'[j].slot = Kept(j).slot /\ jobs'[j].posted = Kept(j).posted
             /\ jobs'[j].cache # "live"
             /\ Kept(j).cache = "none" => jobs'[j] = Kept(j)
  BY <1>1, <1>2, WithoutCacheFields
<1>4. jobs' \in [Jobs -> JobType]
  BY <1>1, <1>3
<1>5. /\ cache' \in [extent : Extents \union {NoExtent}, images : [Layers -> Images \union {NoImage}]]
      /\ \A l \in Layers : cache'.images[l] = NoImage
  BY <1>1 DEF EmptyCache
<1>6. shown' \in [Layers -> Images \union {NoImage}] /\ ShowsMap'
  BY <1>1, DrawnShowsMap
<1>7. ASSUME NEW j \in Jobs PROVE jobs'[j].waiting \subseteq jobs'[j].uncached
  BY <1>2, <1>3, WaitedForFields, Fields
<1>8. TypeOK'
  BY <1>1, <1>4, <1>5, <1>6, <1>7 DEF IInv, TypeOK
<1>9. JobPhases'
  <2> SUFFICES ASSUME NEW k \in Jobs
               PROVE  /\ jobs'[k].status = "deleted" => jobs'[k] = Deleted
                      /\ jobs'[k].status # "preparing"
                      /\ jobs'[k].status \in {"layers", "labels"} =>
                            \A m \in Layers : jobs'[k].images[m] # NoImage
                      /\ jobs'[k].status # "layers" => jobs'[k].slot = "none"
                      /\ jobs'[k].posted => jobs'[k].status \in {"layers", "idle"} /\ jobs'[k].waiting = {}
                      /\ \A m \in jobs'[k].uncached : jobs'[k].images[m] # NoImage
                      /\ jobs'[k].status \notin {"preparing", "layers"} => jobs'[k].uncached = {}
    BY DEF JobPhases
  <2>1. CASE k = current
    BY <1>2, <1>3, <2>1, WaitedForFields
  <2>2. CASE k # current
    <3>1. jobs[k].status # "preparing"
      BY <1>1 DEF Preparing
    <3>2. jobs'[k].status = "deleted" => jobs'[k] = Deleted
      <4> SUFFICES ASSUME jobs'[k].status = "deleted" PROVE jobs'[k] = Deleted
        OBVIOUS
      <4>1. jobs[k] = Deleted /\ Kept(k) = Deleted
        BY <1>2, <1>3, <2>2 DEF IInv, JobPhases
      <4>2. Deleted.cache = "none"
        BY DEF Deleted
      <4> QED BY <1>3, <4>1, <4>2
    <3> QED BY <1>2, <1>3, <2>2, <3>1, <3>2 DEF IInv, JobPhases
  <2> QED BY <2>1, <2>2
<1>10. CacheOwned' /\ CurrentSound' /\ CacheSound'
  BY <1>1, <1>3, <1>5 DEF CacheOwned, CurrentSound, CacheSound
<1> QED BY <1>6, <1>8, <1>9, <1>10 DEF IInv

LEMMA EnableCachingIInv ==
    ASSUME IInv, EnableCaching
    PROVE  IInv'
<1>1. /\ ~Preparing /\ current' = NoJob
      /\ jobs' = [j \in Jobs |-> IF j = current THEN WaitedFor(jobs[j]) ELSE jobs[j]]
      /\ shown' = IF current = NoJob THEN shown ELSE Drawn(jobs[current])
      /\ caching' = TRUE
      /\ UNCHANGED <<version, extent, scheduled, enabled, cache, withheld, missed>>
  BY DEF EnableCaching, settings
<1>2. ASSUME NEW j \in Jobs
      PROVE  /\ jobs'[j] \in JobType
             /\ j = current => jobs'[j] = WaitedFor(jobs[j])
             /\ j # current => jobs'[j] = jobs[j]
  BY <1>1, WaitedForFields, Fields
<1>3. jobs' \in [Jobs -> JobType]
  <2> jobs' = [j \in Jobs |-> jobs'[j]]
    BY <1>1
  <2> QED BY <1>2
<1>4. shown' \in [Layers -> Images \union {NoImage}] /\ ShowsMap'
  BY <1>1, DrawnShowsMap
<1>5. ASSUME NEW j \in Jobs PROVE jobs'[j].waiting \subseteq jobs'[j].uncached
  BY <1>2, WaitedForFields, Fields
<1>6. TypeOK'
  BY <1>1, <1>3, <1>4, <1>5 DEF IInv, TypeOK
<1>7. JobPhases'
  <2> SUFFICES ASSUME NEW k \in Jobs
               PROVE  /\ jobs'[k].status = "deleted" => jobs'[k] = Deleted
                      /\ jobs'[k].status # "preparing"
                      /\ jobs'[k].status \in {"layers", "labels"} =>
                            \A m \in Layers : jobs'[k].images[m] # NoImage
                      /\ jobs'[k].status # "layers" => jobs'[k].slot = "none"
                      /\ jobs'[k].posted => jobs'[k].status \in {"layers", "idle"} /\ jobs'[k].waiting = {}
                      /\ \A m \in jobs'[k].uncached : jobs'[k].images[m] # NoImage
                      /\ jobs'[k].status \notin {"preparing", "layers"} => jobs'[k].uncached = {}
    BY DEF JobPhases
  <2>1. CASE k = current
    BY <1>2, <2>1, WaitedForFields
  <2>2. CASE k # current
    <3>1. jobs[k].status # "preparing"
      BY <1>1 DEF Preparing
    <3> QED BY <1>2, <2>2, <3>1 DEF IInv, JobPhases
  <2> QED BY <2>1, <2>2
<1>8. CacheOwned'
  <2> SUFFICES ASSUME NEW k \in Jobs, jobs'[k].cache = "live", ~jobs'[k].stopped PROVE FALSE
    BY DEF CacheOwned
  <2>1. k # current
    BY <1>2, WaitedForFields
  <2> QED BY <1>2, <2>1 DEF IInv, CacheOwned
<1>9. CurrentSound' /\ CacheSound'
  BY <1>1 DEF IInv, CurrentSound, CacheSound
<1> QED BY <1>4, <1>6, <1>7, <1>8, <1>9 DEF IInv

-----------------------------------------------------------------------------
LEMMA NextIInv == IInv /\ [Next]_vars => IInv'
<1> SUFFICES ASSUME IInv, [Next]_vars PROVE IInv'
  OBVIOUS
<1>1. CASE Requests
  BY <1>1, TriggerRepaintIInv, SetExtentIInv, RefreshAllLayersIInv, StopIInv,
     EnableRenderingIInv, EnableCachingIInv, DisableCachingIInv DEF Requests
<1>2. CASE Work
  BY <1>2, RefreshMapIInv, StartWorkersIInv, RenderLayersFinishedIInv, RenderingFinishedIInv,
     EventIgnoredIInv, DeleteJobIInv, PrepareLayerIInv, DrawLayerIInv DEF Work
<1>3. CASE MapUpdateTimeout
  BY <1>3, MapUpdateTimeoutIInv
<1>4. CASE UNCHANGED vars
  BY <1>4 DEF vars, settings, IInv, TypeOK, Active, JobPhases, CacheOwned, CurrentSound,
              CacheSound, ShowsMap, Idle
<1> QED BY <1>1, <1>2, <1>3, <1>4 DEF Next

LEMMA AlwaysIInv == Spec => []IInv
BY InitIInv, NextIInv, PTL DEF Spec

-----------------------------------------------------------------------------
(* Theorems. *)

\* The variables keep their types: a job waits only for layers it has to draw, and the
\* canvas' own job is one that is preparing or drawing (qgsmapcanvas.cpp).
THEOREM TypeCorrect == Spec => []TypeOK
<1>1. IInv => TypeOK
  BY DEF IInv
<1> QED BY <1>1, AlwaysIInv, PTL

\* Every image of the cache is whole, drawn for the extent of the cache, and of the layer
\* as it looks now unless a repaint was missed, whatever the order of requests, cancelled
\* jobs and their ends (qgsmaprenderercache.cpp, cleanupJobs()).
THEOREM CacheAlwaysSound == Spec => []CacheSound
<1>1. IInv => CacheSound
  BY DEF IInv
<1> QED BY <1>1, AlwaysIInv, PTL

\* The end of the workers reaches a slot only while the job draws layers, which
\* renderLayersFinished() asserts (qgsmaprendererparalleljob.cpp).
THEOREM EndsFindTheJobRendering == Spec => []EndsWhileRendering
<1>1. IInv => EndsWhileRendering
  BY DEF IInv, JobPhases, EndsWhileRendering
<1> QED BY <1>1, AlwaysIInv, PTL

\* A canvas that has nothing left to do shows all of every layer, at its extent and as it
\* looks now (qgsmapcanvas.cpp), for any number of jobs and layers.
THEOREM CanvasShowsMap == Spec => []ShowsMap
<1>1. IInv => ShowsMap
  BY DEF IInv
<1> QED BY <1>1, AlwaysIInv, PTL
=============================================================================
