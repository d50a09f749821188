---------------------------- MODULE WfsSharedData ----------------------------
(***************************************************************************)
(* The download cache that all readers of a WFS layer share                *)
(* (providers/wfs/qgswfsshareddata.cpp), with its downloader thread and    *)
(* the feature iterators (qgswfsfeatureiterator.cpp).  A reader registers, *)
(* which may stop the download and start another, and gets a generation    *)
(* counter: it reads the features up to that generation from the cache and *)
(* is handed the others as they arrive.                                    *)
(*                                                                         *)
(* What runs under mMutex is one step.  registerToCache() releases it      *)
(* while it waits for the old downloader; mMutexRegisterToCache keeps      *)
(* other readers out meanwhile.                                            *)
(***************************************************************************)
EXTENDS Integers, FiniteSets

CONSTANTS
    Features,
    Rects,        \* request rectangles, each the set of the features inside
    Whole,        \* the empty rectangle: no restriction
    Readers,
    PageSize,     \* mMaxFeatures, which is never 0 where the server pages
    Requests,     \* bound: pairs of a rectangle and whether one feature is enough
    MaxGen,       \* bound: generations
    MaxEvents     \* bound: failures, truncated answers, aborts, reloads and rewinds

ASSUME FeaturesAssumption == IsFiniteSet(Features)
ASSUME RectsAssumption == Rects \subseteq (SUBSET Features) \ {{}} /\ Whole \notin Rects
ASSUME PageSizeAssumption == PageSize \in Nat \ {0}
ASSUME RequestsAssumption == Requests \subseteq (Rects \union {Whole}) \X BOOLEAN
ASSUME BoundsAssumption == MaxGen \in Nat /\ MaxEvents \in Nat

VARIABLES
    paging,      \* mCaps.supportsPaging
    rect,        \* mRect
    limited,     \* mRequestLimit is 1 (else 0)
    finished,    \* mDownloadFinished
    gen,         \* mGenCounter
    regions,     \* mRegions
    cached,      \* the features in the cache, each with its generation
    count,       \* mFeatureCount
    exact,       \* mFeatureCountExact
    down,        \* mDownloader and its thread
    readers,     \* the iterators
    reloading,   \* invalidateCache() waits for the downloader
    events,      \* how many of those that are bounded have happened
    failed,      \* history: the last download did not bring all it was asked for
    lost         \* history: how the cache came to be wrong about itself

download == <<rect, limited, finished>>
contents == <<regions, cached, count, exact>>
history == <<failed, lost>>
vars == <<paging, download, gen, contents, down, readers, reloading, events, history>>

AllRects == Rects \union {Whole}
In(r) == IF r = Whole THEN Features ELSE r
Cached == DOMAIN cached

NoDownloader ==
    [pc |-> "none",
     stop |-> FALSE,        \* mStop
     limited |-> FALSE,     \* maxFeatures is 1
     for |-> <<Whole, FALSE>>,  \* history: rectangle and limit it was started for
     sent |-> {},           \* features of the pages that are complete
     page |-> {},           \* features of this page
     todo |-> {},           \* of these, the ones still to be processed
     batch |-> {},          \* featureList
     gen |-> 0,             \* genCounter of serializeFeatures()
     success |-> TRUE, truncated |-> FALSE]

Idle ==
    [pc |-> "out", want |-> Whole, limited |-> FALSE,
     counter |-> -1,        \* what registerToCache() returned
     connected |-> FALSE,   \* to the signals of the downloader
     buffer |-> {},         \* what mWriterStream holds
     ended |-> FALSE,       \* mDownloadFinished, or the signal that sets it is queued
     got |-> {}, twice |-> {},
     must |-> {},           \* history: features it may not miss
     told |-> FALSE,        \* history: it has a reason not to get everything
     covered |-> FALSE,     \* history: a cached region covers its request
     raced |-> FALSE]       \* history: a batch was on its way when it got its counter

TypeOK ==
    /\ paging \in BOOLEAN /\ limited \in BOOLEAN /\ finished \in BOOLEAN
    /\ exact \in BOOLEAN /\ reloading \in BOOLEAN /\ failed \in BOOLEAN
    /\ rect \in AllRects
    /\ gen \in 0..MaxGen + 1 /\ events \in 0..MaxEvents
    /\ count \in 0..((MaxEvents + 1) * Cardinality(Features))
    /\ regions \subseteq [rect : Rects, full : BOOLEAN]
    /\ Cached \subseteq Features /\ \A f \in Cached : cached[f] \in 0..gen
    /\ down.pc \in {"none", "start", "request", "read", "serialize", "write", "emit",
                    "page", "end", "signal", "over"}
    /\ down.batch \union down.todo \subseteq down.page
    /\ \A r \in Readers :
        /\ readers[r].pc \in {"out", "stopping", "query", "fetch", "done"}
        /\ readers[r].want \in AllRects
        /\ readers[r].counter \in -1..MaxGen + 1
        /\ readers[r].twice \subseteq readers[r].got
        /\ readers[r].got \subseteq In(readers[r].want)
    /\ lost \subseteq {"mislabelled", "cut", "unstored", "uncounted"}

Init ==
    /\ paging \in BOOLEAN
    /\ rect = Whole /\ limited = FALSE /\ finished = FALSE /\ gen = 0
    /\ regions = {} /\ cached = [f \in {} |-> 0] /\ count = 0 /\ exact = FALSE
    /\ down = NoDownloader
    /\ readers = [r \in Readers |-> Idle]
    /\ reloading = FALSE /\ events = 0 /\ failed = FALSE /\ lost = {}

Event == events < MaxEvents /\ events' = events + 1

-----------------------------------------------------------------------------
(* A reader registers. *)

\* mMutexRegisterToCache is free.
RegisterFree == ~reloading /\ \A r \in Readers : readers[r].pc # "stopping"

\* A region that was downloaded in full serves every rectangle inside it.
CoveredInFull(want) == \E g \in regions : g.full /\ want \subseteq g.rect

\* One that hit the limit would only be hit again by a larger rectangle.
HitsLimit(want) == \E g \in regions : ~g.full /\ g.rect \subseteq want

NewRectNeeded(want) ==
    want # Whole /\ rect # want /\ ~(down.pc # "none" /\ rect = Whole)

NewDownloadNeeded(want, lim) ==
    IF NewRectNeeded(want)
    THEN ~CoveredInFull(want) /\ ~HitsLimit(want)
    ELSE \/ want = Whole /\ down.pc # "none" /\ rect # Whole
         \/ ~lim /\ limited

\* A batch has its generation and is not yet handed to the readers.
BatchUnderWay == down.pc \in {"write", "emit"}

\* A request that starts no download is told beforehand that it may not get everything
\* if it meets a region that hit the limit, or a download that has failed.
ToldBefore(want) ==
    IF NewRectNeeded(want) THEN ~CoveredInFull(want) ELSE finished /\ failed

\* Mutant: a reader is connected to a download that is finished.
Connected_Always(r, want, lim, over) ==
    [Idle EXCEPT !.pc = "query", !.want = want, !.limited = lim, !.counter = gen,
                 !.connected = TRUE, !.must = Cached \intersect In(want), !.raced = BatchUnderWay]

\* connectSignals() and the counter, unless the download is finished.
Connected(r, want, lim, over) ==
    [Idle EXCEPT !.pc = "query", !.want = want, !.limited = lim,
                 !.counter = IF over THEN -1 ELSE gen,
                 !.connected = ~over, !.ended = over,
                 !.must = Cached \intersect In(want),
                 !.raced = BatchUnderWay]

Register(r, want, lim) ==
    /\ readers[r].pc = "out" /\ RegisterFree /\ gen < MaxGen
    /\ down.pc # "none" /\ ~NewDownloadNeeded(want, lim)
    /\ readers' = [readers EXCEPT ![r] =
           [Connected(r, want, lim, finished) EXCEPT
               !.told = lim \/ ToldBefore(want),
               !.covered = NewRectNeeded(want) /\ CoveredInFull(want)]]
    /\ gen' = IF finished THEN gen ELSE gen + 1
    /\ UNCHANGED <<paging, download, contents, down, reloading, events, history>>

\* A new download is needed: mMutex is released to delete the old downloader.
Replace(r, want, lim) ==
    /\ readers[r].pc = "out" /\ RegisterFree /\ gen < MaxGen
    /\ down.pc = "none" \/ NewDownloadNeeded(want, lim)
    /\ rect' = want /\ limited' = lim
    /\ readers' = [readers EXCEPT ![r] =
           [Idle EXCEPT !.pc = "stopping", !.want = want, !.limited = lim]]
    /\ UNCHANGED <<paging, finished, gen, contents, down, reloading, events, history>>

Running == down.pc \notin {"none", "over"}

\* stop(), and the caller waits for the thread.
StopDownloader ==
    /\ ~RegisterFree /\ Running /\ ~down.stop
    /\ down' = [down EXCEPT !.stop = TRUE]
    /\ UNCHANGED <<paging, download, gen, contents, readers, reloading, events, history>>

StartDownloader(r) ==
    /\ readers[r].pc = "stopping" /\ ~Running
    /\ finished' = FALSE
    /\ down' = [NoDownloader EXCEPT !.pc = "start", !.for = <<rect, limited>>]
    /\ readers' = [readers EXCEPT ![r] =
           [Connected(r, readers[r].want, readers[r].limited, FALSE) EXCEPT
               !.told = readers[r].limited, !.raced = FALSE]]
    /\ gen' = gen + 1
    /\ failed' = FALSE
    /\ UNCHANGED <<paging, rect, limited, contents, reloading, events, lost>>

-----------------------------------------------------------------------------
(* A reader reads. *)

Becomes(r, reader) == readers' = [readers EXCEPT ![r] = reader]
OnlyReaders == UNCHANGED <<paging, download, contents, down, reloading, history>>

\* Mutant: the features of the reader's own generation are left out.
Query_Before(r) ==
    /\ readers[r].pc = "query"
    /\ LET i == readers[r]
       IN Becomes(r, [i EXCEPT !.pc = "fetch", !.counter = -1,
              !.got = {f \in Cached \intersect In(i.want) :
                           i.counter >= 0 => cached[f] < i.counter}])
    /\ UNCHANGED <<gen, events>> /\ OnlyReaders

\* Mutant: no filter on the generation.
Query_All(r) ==
    /\ readers[r].pc = "query"
    /\ LET i == readers[r]
       IN Becomes(r, [i EXCEPT !.pc = "fetch", !.counter = -1,
                               !.got = Cached \intersect In(i.want)])
    /\ UNCHANGED <<gen, events>> /\ OnlyReaders

\* The query of the cache, with its filter on the generation.
Query(r) ==
    /\ readers[r].pc = "query"
    /\ LET i == readers[r]
       IN Becomes(r, [i EXCEPT !.pc = "fetch", !.counter = -1,
              !.got = {f \in Cached \intersect In(i.want) :
                           i.counter >= 0 => cached[f] <= i.counter}])
    /\ UNCHANGED <<gen, events>> /\ OnlyReaders

\* What the downloader has handed over.
Fetch(r) ==
    /\ readers[r].pc = "fetch" /\ readers[r].buffer # {}
    /\ LET i == readers[r]
           new == i.buffer \intersect In(i.want)
       IN Becomes(r, [i EXCEPT !.buffer = {}, !.got = @ \union new,
                           !.twice = @ \union (i.got \intersect new)])
    /\ UNCHANGED <<gen, events>> /\ OnlyReaders

\* Nothing is left, and the event loop of fetchFeature() has run endOfDownload().
Exhausted(r) ==
    /\ readers[r].pc = "fetch" /\ readers[r].ended /\ readers[r].buffer = {}
    /\ Becomes(r, [readers[r] EXCEPT !.pc = "done"])
    /\ UNCHANGED <<gen, events>> /\ OnlyReaders

\* rewind() asks the cache again; what waits in the buffer stays there.
Rewind(r) ==
    /\ readers[r].pc \in {"fetch", "done"} /\ gen < MaxGen /\ Event
    /\ Becomes(r, [readers[r] EXCEPT !.pc = "query", !.counter = gen, !.got = {}, !.twice = {},
               !.must = @ \union (Cached \intersect In(readers[r].want)),
               !.raced = @ \/ (readers[r].connected /\ BatchUnderWay) \/ readers[r].buffer # {}])
    /\ gen' = IF finished THEN gen ELSE gen + 1
    /\ OnlyReaders

Close(r) ==
    /\ readers[r].pc \in {"fetch", "done"}
    /\ Becomes(r, Idle)
    /\ UNCHANGED <<gen, events>> /\ OnlyReaders

-----------------------------------------------------------------------------
(* The downloader thread. *)

OnlyDownloader == UNCHANGED <<paging, download, gen, readers, reloading>>


ReadLimit ==
    /\ down.pc = "start"
    /\ down' = [down EXCEPT !.pc = "request", !.limited = limited]
    /\ OnlyDownloader /\ UNCHANGED <<contents, events, history>>

\* A request for the next page, of the rectangle that mRect is by now.  The server
\* answers with all that is left, or cuts the answer short and says so; one that pages
\* answers with any part of it, however many features were asked for.
Rest == In(rect) \ down.sent
Page(page, truncated) ==
    down' = [down EXCEPT !.pc = "read", !.page = page, !.todo = page, !.truncated = truncated]

SendRequest ==
    /\ down.pc = "request"
    /\ \/ \E page \in IF down.limited THEN {{f} : f \in Rest}
                      ELSE IF paging THEN SUBSET Rest ELSE {Rest} :
              Page(page, FALSE) /\ UNCHANGED events
       \/ Rest = {} /\ Page({}, FALSE) /\ UNCHANGED events
       \/ /\ ~paging /\ ~down.limited /\ Event
          /\ \E page \in (SUBSET Rest) \ {Rest, {}} : Page(page, TRUE)
    /\ OnlyDownloader /\ UNCHANGED <<contents, history>>

GivenUp == [down EXCEPT !.pc = "end", !.page = {}, !.todo = {}, !.success = FALSE]

Interrupted ==
    /\ down.pc = "read" /\ down.stop
    /\ down' = GivenUp
    /\ OnlyDownloader /\ UNCHANGED <<contents, events, history>>

\* An error, after which the page is asked for again unless that was the last try.
RequestFails ==
    /\ down.pc = "read" /\ Event
    /\ \/ ~down.stop /\ down' = [down EXCEPT !.pc = "request", !.page = {}, !.todo = {}]
       \/ down' = GivenUp
    /\ OnlyDownloader /\ UNCHANGED <<contents, history>>

ProcessData ==
    /\ down.pc = "read" /\ ~down.stop
    /\ IF down.todo = {}
       THEN down' = [down EXCEPT !.pc = "page"]
       ELSE \E batch \in (SUBSET down.todo) \ {{}} :
                down' = [down EXCEPT !.pc = "serialize", !.batch = batch, !.todo = @ \ batch]
    /\ OnlyDownloader /\ UNCHANGED <<contents, events, history>>

\* serializeFeatures(): the generation first,
TakeGeneration ==
    /\ down.pc = "serialize"
    /\ down' = [down EXCEPT !.pc = "write", !.gen = gen]
    /\ OnlyDownloader /\ UNCHANGED <<contents, events, history>>

\* then what is not in the cache yet is added to it and counted,
NewFeatures == down.batch \ Cached

\* Mutant: everything that arrives is counted.
Counted_All ==
    /\ count' = IF ~limited /\ ~exact THEN count + Cardinality(down.batch) ELSE count
    /\ UNCHANGED <<regions, exact>>

Counted ==
    /\ count' = IF ~limited /\ ~exact THEN count + Cardinality(NewFeatures) ELSE count
    /\ UNCHANGED <<regions, exact>>

Store ==
    cached' = [f \in Cached \union NewFeatures |-> IF f \in Cached THEN cached[f] ELSE down.gen]

WriteBatch ==
    /\ down.pc = "write"
    /\ \/ /\ Store
          /\ lost' = IF limited /\ NewFeatures # {} THEN lost \union {"uncounted"} ELSE lost
          /\ UNCHANGED events
       \/ /\ NewFeatures # {} /\ Event
          /\ lost' = lost \union {"unstored"}
          /\ UNCHANGED cached
    /\ Counted
    /\ down' = [down EXCEPT !.pc = "emit", !.batch = NewFeatures, !.gen = 0]
    /\ readers' = [r \in Readers |->
           IF readers[r].connected
           THEN [readers[r] EXCEPT !.must = @ \union (down.batch \intersect In(readers[r].want))]
           ELSE readers[r]]
    /\ UNCHANGED <<paging, download, gen, reloading, failed>>

\* and handed to the readers that are connected by now.
FeatureReceived ==
    /\ down.pc = "emit"
    /\ readers' = [r \in Readers |->
           IF readers[r].connected
           THEN [readers[r] EXCEPT !.buffer = @ \union down.batch] ELSE readers[r]]
    /\ down' = [down EXCEPT !.batch = {}, !.pc = IF down.todo = {} THEN "page" ELSE "read"]
    /\ UNCHANGED <<paging, download, gen, contents, reloading, events, history>>

Unsent(sent) == ~down.limited /\ In(down.for[1]) \ sent # {}

\* A page with fewer features than were asked for is taken for the last one.
FullPage == Cardinality(down.page) >= PageSize

\* The last page, or a stop that comes after all of a page was processed.
PageComplete ==
    /\ down.pc = "page"
    /\ LET more == paging /\ ~down.limited /\ FullPage
       IN down' = [down EXCEPT !.pc = IF more /\ ~down.stop THEN "request" ELSE "end",
                               !.sent = @ \union down.page, !.page = {}]
    /\ OnlyDownloader /\ UNCHANGED <<contents, events, history>>

\* Mutant: the region of a request for one feature is remembered as well.
Remembered_AlsoLimited ==
    IF down.success /\ rect # Whole
    THEN regions \union {[rect |-> rect, full |-> ~down.truncated]} ELSE regions

\* endOfDownload() of the shared data remembers the region of mRect.
Remembered ==
    IF down.success /\ rect # Whole /\ ~limited
    THEN regions \union {[rect |-> rect, full |-> ~down.truncated]} ELSE regions

\* Mutant: a download of any rectangle makes the count exact.
CountIsExact_AnyRect == down.success /\ ~down.truncated /\ ~limited

CountIsExact == rect = Whole /\ down.success /\ ~down.truncated /\ ~limited

\* The download did not bring what it was started for, as far as its limit allows.
Short == ~down.success \/ down.truncated \/ Unsent(down.sent)

EndOfDownload ==
    /\ down.pc = "end"
    /\ finished' = TRUE
    /\ regions' = Remembered
    /\ exact' = (exact \/ CountIsExact)
    /\ down' = [down EXCEPT !.pc = "signal", !.stop = TRUE]
    /\ failed' = Short
    /\ lost' = lost
          \union {h \in {"mislabelled"} : down.success /\ <<rect, limited>> # down.for}
          \union {h \in {"cut"} : down.success /\ ~down.truncated /\ Unsent(down.sent)}
    /\ readers' = [r \in Readers |->
           IF readers[r].connected /\ ~readers[r].covered
           THEN [readers[r] EXCEPT !.told = @ \/ Short] ELSE readers[r]]
    /\ UNCHANGED <<paging, rect, limited, gen, cached, count, reloading, events>>

\* Only then are the readers told, by a queued signal.
SignalEndOfDownload ==
    /\ down.pc = "signal"
    /\ readers' = [r \in Readers |->
           IF readers[r].connected
           THEN [readers[r] EXCEPT !.ended = TRUE, !.connected = FALSE] ELSE readers[r]]
    /\ down' = [NoDownloader EXCEPT !.pc = "over"]
    /\ UNCHANGED <<paging, download, gen, contents, reloading, events, history>>

\* The user aborts the download in its progress dialog.
Abort ==
    /\ Running /\ ~down.stop /\ Event
    /\ down' = [down EXCEPT !.stop = TRUE]
    /\ OnlyDownloader /\ UNCHANGED <<contents, history>>

-----------------------------------------------------------------------------
(* invalidateCache(): the layer is reloaded or its filter changes. *)

Invalidate ==
    /\ RegisterFree /\ Event
    /\ reloading' = TRUE
    /\ UNCHANGED <<paging, download, gen, contents, down, readers, history>>

ClearCache ==
    /\ reloading /\ ~Running
    /\ reloading' = FALSE
    /\ rect' = Whole /\ limited' = FALSE /\ finished' = FALSE /\ gen' = 0
    /\ regions' = {} /\ cached' = [f \in {} |-> 0] /\ count' = 0 /\ exact' = FALSE
    /\ down' = NoDownloader
    /\ failed' = FALSE /\ lost' = {}
    /\ readers' = [r \in Readers |->
           IF readers[r].pc = "out" THEN readers[r]
           ELSE [readers[r] EXCEPT !.must = {}, !.told = TRUE, !.raced = TRUE]]
    /\ UNCHANGED <<paging, events>>

DownloaderStep ==
    \/ ReadLimit \/ SendRequest \/ Interrupted \/ RequestFails \/ ProcessData
    \/ TakeGeneration \/ WriteBatch \/ FeatureReceived \/ PageComplete
    \/ EndOfDownload \/ SignalEndOfDownload

ReaderStep(r) == Query(r) \/ Fetch(r) \/ Exhausted(r)

Next ==
    \/ DownloaderStep \/ StopDownloader \/ Abort \/ Invalidate \/ ClearCache
    \/ \E r \in Readers :
        \/ ReaderStep(r) \/ StartDownloader(r) \/ Rewind(r) \/ Close(r)
        \/ \E q \in Requests : Register(r, q[1], q[2]) \/ Replace(r, q[1], q[2])

Spec == Init /\ [][Next]_vars

-----------------------------------------------------------------------------
(* Properties. *)

\* qgswfsshareddata.cpp:569 "Under the mutex to ensure that we will not miss features":
\* a reader returns what was in the cache when it registered and all that was
\* downloaded while it was connected.
NothingMissed ==
    \A r \in Readers : readers[r].pc = "done" =>
        readers[r].must \subseteq readers[r].got \/ "unstored" \in lost

\* A request that is answered from the cache, or joins a download, gets every feature of
\* its rectangle, unless a download failed or an answer was cut short.
ServedCompletely ==
    \A r \in Readers :
        readers[r].pc = "done" /\ ~readers[r].told /\ lost \subseteq {"uncounted"} =>
            readers[r].got = In(readers[r].want)

\* The generations keep a reader from getting a feature twice, unless a batch that has
\* its generation was still to be handed over when the reader got its own.
TwiceOnlyInRace ==
    \A r \in Readers : readers[r].twice # {} => readers[r].raced \/ "unstored" \in lost

\* qgswfsshareddata.h:35 "It avoids the iterator to return features in duplicates".
NeverTwice == \A r \in Readers : readers[r].twice = {}

\* A feature count that counts as exact is the number of features.
CountExact == exact /\ lost = {} => count = Cardinality(Features)

\* A reader that waits for features or for the end is connected to a downloader that
\* runs: endOfDownload() of the shared data comes before the signal, so that no reader
\* joins a download that has nothing to tell any more.
NobodyWaitsInVain ==
    \A r \in Readers : readers[r].pc \in {"query", "fetch"} /\ ~readers[r].ended =>
        readers[r].connected /\ Running
=============================================================================
