------------------------- MODULE WfsSharedDataProofs --------------------------
(***************************************************************************)
(* Proofs about WfsSharedData for every set of features, rectangles and    *)
(* readers.  What a reader may not miss (must) follows it from the cache,  *)
(* through a batch that is handed over and its buffer, to what it returned:*)
(* MustCome says where it is at each step, Served when it is all of the    *)
(* rectangle.  Both need to know which rectangle the downloader was        *)
(* started for (Registration) and that what it completed is in the cache   *)
(* (SentCached).                                                           *)
(***************************************************************************)
EXTENDS WfsSharedData, FiniteSetTheorems, TLAPS

DownType ==
    [pc : {"none", "start", "request", "read", "serialize", "write", "emit", "page", "end",
           "signal", "over"},
     stop : BOOLEAN, limited : BOOLEAN, for : AllRects \X BOOLEAN,
     sent : SUBSET Features, page : SUBSET Features, todo : SUBSET Features,
     batch : SUBSET Features, gen : Nat, success : BOOLEAN, truncated : BOOLEAN]

ReaderType ==
    [pc : {"out", "stopping", "query", "fetch", "done"}, want : AllRects, limited : BOOLEAN,
     counter : Nat \union {-1}, connected : BOOLEAN, buffer : SUBSET Features,
     ended : BOOLEAN, got : SUBSET Features, twice : SUBSET Features,
     must : SUBSET Features, told : BOOLEAN, covered : BOOLEAN, raced : BOOLEAN]

Types ==
    /\ paging \in BOOLEAN /\ rect \in AllRects /\ limited \in BOOLEAN /\ finished \in BOOLEAN
    /\ exact \in BOOLEAN /\ reloading \in BOOLEAN /\ failed \in BOOLEAN
    /\ gen \in Nat /\ events \in 0..MaxEvents /\ count \in Nat
    /\ regions \subseteq [rect : Rects, full : BOOLEAN]
    /\ cached \in [Cached -> Nat] /\ Cached \subseteq Features
    /\ down \in DownType
    /\ readers \in [Readers -> ReaderType]
    /\ lost \subseteq {"mislabelled", "cut", "unstored", "uncounted"}

\* What the phases of the downloader leave behind.
Phases ==
    /\ finished <=> down.pc \in {"signal", "over"}
    /\ down.batch # {} => down.pc \in {"serialize", "write", "emit"}
    /\ down.todo # {} => down.pc \in {"read", "serialize", "write", "emit"}
    /\ down.batch \union down.todo \subseteq down.page

\* One reader at a time waits for the old downloader, and not while the cache is cleared;
\* meanwhile, and only then, the rectangle is not the one the downloader was started for.
Registration ==
    /\ \A r \in Readers : readers[r].pc = "stopping" =>
        /\ ~reloading
        /\ readers[r].want = rect /\ readers[r].limited = limited
        /\ \A q \in Readers : readers[q].pc = "stopping" => q = r
    /\ Running => (down.for = <<rect, limited>> <=> \A r \in Readers : readers[r].pc # "stopping")
    /\ Running /\ down.for = <<rect, limited>> /\ down.pc # "start" => down.limited = limited

\* Who is connected is told the end; who is not has been told, or need not be.
Connections ==
    \A r \in Readers :
        LET i == readers[r] IN
        /\ i.connected => Running /\ i.pc \in {"query", "fetch"} /\ ~i.ended
        /\ i.pc \in {"query", "fetch", "done"} => i.connected \/ i.ended
        /\ i.pc = "done" => i.buffer = {} /\ ~i.connected
        /\ i.pc \in {"out", "stopping", "query"} => i.twice = {}

\* The bounds that the type invariant states.
Bounds ==
    /\ gen <= MaxGen + 1
    /\ (\E r \in Readers : readers[r].pc = "stopping") => gen <= MaxGen
    /\ down.gen <= gen
    /\ \A f \in Cached : cached[f] <= gen
    /\ \A r \in Readers :
        /\ readers[r].counter <= MaxGen + 1
        /\ readers[r].twice \subseteq readers[r].got
        /\ readers[r].got \subseteq In(readers[r].want)

\* Each feature is counted once, but for those that could not be stored.
CountBound == count <= Cardinality(Cached) + events * Cardinality(Features)

AllStored == "unstored" \notin lost

\* What a reader has, or will have from the query of the cache, and what is on its way.
Have(i) ==
    IF i.pc = "query"
    THEN {f \in Cached \intersect In(i.want) : i.counter >= 0 => cached[f] <= i.counter}
    ELSE i.got
Emitted(i) == IF i.connected /\ down.pc = "emit" THEN down.batch ELSE {}

\* A reader that is connected must get all that is in the cache, and it has it or gets it.
GetsAll(i) ==
    /\ i.must \subseteq Cached \intersect In(i.want)
    /\ i.connected => Cached \intersect In(i.want) \subseteq i.must
    /\ i.must \subseteq Have(i) \union i.buffer \union Emitted(i)

Reads(i) == i.pc \in {"query", "fetch", "done"}

MustCome == AllStored => \A r \in Readers : Reads(readers[r]) => GetsAll(readers[r])

\* What is on its way to a reader is in the cache by a later generation than the reader's.
GetsOnce(i) ==
    /\ i.twice = {}
    /\ i.got \union i.buffer \union Emitted(i) \subseteq Cached
    /\ i.buffer \intersect Emitted(i) = {}
    /\ i.pc = "query" =>
        /\ i.counter < 0 => ~i.connected /\ i.buffer = {}
        /\ \A f \in i.buffer \union Emitted(i) : cached[f] > i.counter
        /\ i.connected /\ ~finished => gen > i.counter
        /\ i.connected /\ down.pc = "write" => down.gen > i.counter
    /\ i.pc # "query" => i.got \intersect (i.buffer \union Emitted(i)) = {}

NoneTwice ==
    AllStored => \A r \in Readers :
        Reads(readers[r]) /\ ~readers[r].raced => GetsOnce(readers[r])

\* What the downloader has completed is in the cache.
SentCached ==
    AllStored =>
        /\ down.sent \subseteq Cached
        /\ down.page \subseteq Cached \union down.todo
              \union (IF down.pc \in {"serialize", "write"} THEN down.batch ELSE {})

\* The cache is what it says it is.
Truthful == lost \subseteq {"uncounted"}

RegionsCached == Truthful => \A g \in regions : g.full => g.rect \subseteq Cached

FinishedCached ==
    Truthful /\ finished /\ ~failed /\ (\A r \in Readers : readers[r].pc # "stopping") =>
        limited \/ In(rect) \subseteq Cached

\* A reader that has no reason to miss anything must get all, at the latest when its
\* download has ended; until then its rectangle is part of what is downloaded.
Due(i) ==
    \/ In(i.want) \subseteq i.must
    \/ /\ i.connected /\ ~finished /\ ~i.covered
       /\ In(i.want) \subseteq In(down.for[1]) /\ ~down.for[2]

Served ==
    Truthful => \A r \in Readers : Reads(readers[r]) /\ ~readers[r].told => Due(readers[r])

Counts ==
    lost = {} => count = Cardinality(Cached) /\ (exact => Cached = Features)

IInv ==
    /\ Types /\ Phases /\ Registration /\ Connections /\ Bounds /\ CountBound
    /\ MustCome /\ NoneTwice /\ SentCached
    /\ RegionsCached /\ FinishedCached /\ Served /\ Counts

-----------------------------------------------------------------------------
(* Types. *)

LEMMA Inside == \A r \in AllRects : In(r) \subseteq Features
BY RectsAssumption DEF In, AllRects

LEMMA NoDownloaderType == NoDownloader \in DownType
BY DEF NoDownloader, DownType, AllRects

LEMMA IdleType == Idle \in ReaderType
BY DEF Idle, ReaderType, AllRects

LEMMA InitTypes == Init => Types
<1> SUFFICES ASSUME Init PROVE Types
  OBVIOUS
<1> USE DEF Init
<1>1. cached \in [Cached -> Nat] /\ Cached \subseteq Features
  BY DEF Cached
<1>2. down \in DownType /\ readers \in [Readers -> ReaderType]
  BY NoDownloaderType, IdleType
<1>3. /\ paging \in BOOLEAN /\ rect \in AllRects /\ limited \in BOOLEAN /\ finished \in BOOLEAN
      /\ exact \in BOOLEAN /\ reloading \in BOOLEAN /\ failed \in BOOLEAN
  BY DEF AllRects
<1>5. gen \in Nat /\ events \in 0..MaxEvents /\ count \in Nat
  BY BoundsAssumption
<1>4. regions \subseteq [rect : Rects, full : BOOLEAN] /\ lost = {}
  OBVIOUS
<1> HIDE DEF Init
<1> QED BY <1>1, <1>2, <1>3, <1>4, <1>5 DEF Types

LEMMA EventType ==
    ASSUME events \in 0..MaxEvents, Event \/ UNCHANGED events
    PROVE  events' \in 0..MaxEvents
BY BoundsAssumption DEF Event

LEMMA DownloaderTypes ==
    ASSUME Types, DownloaderStep
    PROVE  Types'
<1> USE Inside DEF Types, OnlyDownloader, download, contents, history, Cached
<1>1. ASSUME ReadLimit PROVE Types'
  BY <1>1 DEF ReadLimit, DownType
<1>2. ASSUME SendRequest PROVE Types'
  <2>1. events' \in 0..MaxEvents
    <3>1. Event \/ UNCHANGED events
      BY <1>2 DEF SendRequest
    <3> QED BY <3>1, EventType
  <2>2. down' \in DownType
    <3> Rest \subseteq Features
      BY DEF Rest
    <3>1. ASSUME NEW page \in SUBSET Features, NEW t \in BOOLEAN, Page(page, t)
          PROVE  down' \in DownType
      BY <3>1 DEF Page, DownType
    <3> QED BY <3>1, <1>2 DEF SendRequest
  <2> QED BY <1>2, <2>1, <2>2 DEF SendRequest
<1>3. ASSUME Interrupted PROVE Types'
  BY <1>3 DEF Interrupted, GivenUp, DownType
<1>4. ASSUME RequestFails PROVE Types'
  <2>1. events' \in 0..MaxEvents
    BY <1>4, EventType DEF RequestFails
  <2>2. down' \in DownType
    <3>1. GivenUp \in DownType
      BY DEF GivenUp, DownType
    <3>2. [down EXCEPT !.pc = "request", !.page = {}, !.todo = {}] \in DownType
      BY DEF DownType
    <3> QED BY <1>4, <3>1, <3>2 DEF RequestFails
  <2> QED BY <1>4, <2>1, <2>2 DEF RequestFails
<1>5. ASSUME ProcessData PROVE Types'
  <2>1. down' \in DownType
    <3>1. CASE down.todo = {}
      BY <1>5, <3>1 DEF ProcessData, DownType
    <3>2. ASSUME NEW batch \in SUBSET down.todo, down' = [down EXCEPT !.pc = "serialize",
                                                   !.batch = batch, !.todo = @ \ batch]
          PROVE down' \in DownType
      BY <3>2 DEF DownType
    <3> QED BY <1>5, <3>1, <3>2 DEF ProcessData
  <2> QED BY <1>5, <2>1 DEF ProcessData
<1>6. ASSUME TakeGeneration PROVE Types'
  BY <1>6 DEF TakeGeneration, DownType
<1>7. ASSUME WriteBatch PROVE Types'
  <2>1. down' \in DownType
    BY <1>7 DEF WriteBatch, NewFeatures, DownType
  <2>2. readers' \in [Readers -> ReaderType]
    <3>1. ASSUME NEW r \in Readers
          PROVE  [readers[r] EXCEPT !.must = @ \union (down.batch \intersect In(readers[r].want))] \in ReaderType
      <4>1. readers[r] \in ReaderType /\ down.batch \subseteq Features
        BY DEF DownType
      <4> QED BY <4>1 DEF ReaderType
    <3> QED BY <1>7, <3>1 DEF WriteBatch
  <2>3. down.batch \subseteq Features /\ down.gen \in Nat
    BY DEF DownType
  <2>4. cached' \in [Cached' -> Nat] /\ Cached' \subseteq Features
    BY <1>7, <2>3 DEF WriteBatch, Store, NewFeatures
  <2>5. count' \in Nat
    <3>1. Cardinality(NewFeatures) \in Nat
      BY <2>3, FeaturesAssumption, FS_Subset, FS_CardinalityType DEF NewFeatures
    <3> QED BY <3>1, <1>7 DEF WriteBatch, Counted
  <2>6. events' \in 0..MaxEvents
    BY <1>7, EventType DEF WriteBatch
  <2>7. lost' \subseteq {"mislabelled", "cut", "unstored", "uncounted"}
    BY <1>7 DEF WriteBatch
  <2> QED BY <1>7, <2>1, <2>2, <2>4, <2>5, <2>6, <2>7 DEF WriteBatch, Counted
<1>8. ASSUME FeatureReceived PROVE Types'
  <2>1. down' \in DownType
    BY <1>8 DEF FeatureReceived, DownType
  <2>2. readers' \in [Readers -> ReaderType]
    <3>1. ASSUME NEW r \in Readers
          PROVE  [readers[r] EXCEPT !.buffer = @ \union down.batch] \in ReaderType
      <4>1. readers[r] \in ReaderType /\ down.batch \subseteq Features
        BY DEF DownType
      <4> QED BY <4>1 DEF ReaderType
    <3> QED BY <1>8, <3>1 DEF FeatureReceived
  <2> QED BY <1>8, <2>1, <2>2 DEF FeatureReceived
<1>9. ASSUME PageComplete PROVE Types'
  BY <1>9 DEF PageComplete, DownType
<1>10. ASSUME EndOfDownload PROVE Types'
  <2>1. down' \in DownType
    BY <1>10 DEF EndOfDownload, DownType
  <2>2. readers' \in [Readers -> ReaderType]
    BY <1>10 DEF EndOfDownload, Short, Unsent, DownType, ReaderType
  <2>3. failed' \in BOOLEAN
    BY <1>10 DEF EndOfDownload, Short, Unsent, DownType
  <2>4. regions' \subseteq [rect : Rects, full : BOOLEAN]
    BY <1>10 DEF EndOfDownload, Remembered, DownType, AllRects
  <2>5. exact' \in BOOLEAN
    BY <1>10 DEF EndOfDownload, CountIsExact, DownType
  <2> QED BY <1>10, <2>1, <2>2, <2>3, <2>4, <2>5 DEF EndOfDownload
<1>11. ASSUME SignalEndOfDownload PROVE Types'
  <2>1. down' \in DownType
    BY <1>11, NoDownloaderType DEF SignalEndOfDownload, DownType
  <2>2. readers' \in [Readers -> ReaderType]
    <3>1. ASSUME NEW r \in Readers
          PROVE  [readers[r] EXCEPT !.ended = TRUE, !.connected = FALSE] \in ReaderType
      <4> readers[r] \in ReaderType
        OBVIOUS
      <4> QED BY DEF ReaderType
    <3> QED BY <1>11, <3>1 DEF SignalEndOfDownload
  <2> QED BY <1>11, <2>1, <2>2 DEF SignalEndOfDownload
<1> QED BY <1>1, <1>2, <1>3, <1>4, <1>5, <1>6, <1>7, <1>8, <1>9, <1>10, <1>11
        DEF DownloaderStep

LEMMA IdleWith ==
    ASSUME Types, NEW want \in AllRects, NEW lim \in BOOLEAN, NEW over \in BOOLEAN, NEW r
    PROVE  Connected(r, want, lim, over) \in ReaderType
<1>1. Cached \intersect In(want) \subseteq Features /\ gen \in Nat /\ BatchUnderWay \in BOOLEAN
  BY DEF Types, BatchUnderWay
<1> DEFINE counter == IF over THEN -1 ELSE gen
           must == Cached \intersect In(want)
<1>2. counter \in Nat \union {-1} /\ must \in SUBSET Features
  BY <1>1
<1> HIDE DEF counter, must
<1>3. Connected(r, want, lim, over) =
         [Idle EXCEPT !.pc = "query", !.want = want, !.limited = lim, !.counter = counter,
                      !.connected = ~over, !.ended = over, !.must = must, !.raced = BatchUnderWay]
  BY DEF Connected, counter, must
<1> HIDE DEF BatchUnderWay
<1> DEFINE i == [Idle EXCEPT !.pc = "query", !.want = want, !.limited = lim, !.counter = counter]
<1>4. i \in ReaderType
  BY <1>2, IdleType DEF ReaderType
<1>5. Connected(r, want, lim, over) =
         [i EXCEPT !.connected = ~over, !.ended = over, !.must = must, !.raced = BatchUnderWay]
  BY <1>3, IdleType DEF ReaderType
<1> HIDE DEF i
<1> QED BY <1>1, <1>2, <1>4, <1>5 DEF ReaderType

\* One reader becomes another.
LEMMA BecomesType ==
    ASSUME Types, NEW r \in Readers, NEW i \in ReaderType, readers' = [readers EXCEPT ![r] = i]
    PROVE  readers' \in [Readers -> ReaderType]
BY DEF Types

LEMMA RegisterTypes ==
    ASSUME Types, NEW r \in Readers, NEW want \in AllRects, NEW lim \in BOOLEAN,
           Register(r, want, lim)
    PROVE  Types'
<1> DEFINE i == Connected(r, want, lim, finished)
<1> i \in ReaderType
  BY IdleWith DEF Types
<1> HIDE DEF i
<1>1. (lim \/ ToldBefore(want)) \in BOOLEAN /\ (NewRectNeeded(want) /\ CoveredInFull(want)) \in BOOLEAN
  BY DEF ToldBefore, NewRectNeeded, CoveredInFull, Types
<1>2. [i EXCEPT !.told = lim \/ ToldBefore(want),
                !.covered = NewRectNeeded(want) /\ CoveredInFull(want)] \in ReaderType
  BY <1>1 DEF ReaderType
<1>3. readers' \in [Readers -> ReaderType]
  BY <1>2, BecomesType DEF Register, i
<1>4. gen' \in Nat
  BY DEF Register, Types
<1> QED BY <1>3, <1>4 DEF Register, Types, download, contents, history, Cached

LEMMA ReplaceTypes ==
    ASSUME Types, NEW r \in Readers, NEW want \in AllRects, NEW lim \in BOOLEAN,
           Replace(r, want, lim)
    PROVE  Types'
<1>1. [Idle EXCEPT !.pc = "stopping", !.want = want, !.limited = lim] \in ReaderType
  BY IdleType DEF ReaderType
<1>2. readers' \in [Readers -> ReaderType]
  BY <1>1, BecomesType DEF Replace
<1> QED BY <1>2 DEF Replace, Types, contents, history, Cached

LEMMA StartDownloaderTypes ==
    ASSUME Types, NEW r \in Readers, StartDownloader(r)
    PROVE  Types'
<1> DEFINE want == readers[r].want
           lim == readers[r].limited
           i == Connected(r, want, lim, FALSE)
<1>1. want \in AllRects /\ lim \in BOOLEAN
  BY DEF Types, ReaderType
<1>2. i \in ReaderType
  BY <1>1, IdleWith
<1>3. readers' = [readers EXCEPT ![r] = [i EXCEPT !.told = lim, !.raced = FALSE]]
  BY DEF StartDownloader
<1> HIDE DEF i, lim, want
<1>4. [i EXCEPT !.told = lim, !.raced = FALSE] \in ReaderType
  BY <1>1, <1>2 DEF ReaderType
<1>5. readers' \in [Readers -> ReaderType]
  BY <1>3, <1>4, BecomesType
<1>6. down' \in DownType
  BY NoDownloaderType DEF StartDownloader, DownType, Types
<1>7. gen' \in Nat
  BY DEF StartDownloader, Types
<1>8. /\ UNCHANGED <<paging, rect, limited, contents, reloading, events, lost>>
      /\ finished' = FALSE /\ failed' = FALSE
  BY DEF StartDownloader
<1> QED BY <1>5, <1>6, <1>7, <1>8 DEF Types, contents, Cached

LEMMA ReaderTypes ==
    ASSUME Types, NEW r \in Readers, ReaderStep(r) \/ Rewind(r) \/ Close(r)
    PROVE  Types'
<1> DEFINE i == readers[r]
<1>1. i \in ReaderType /\ Cached \subseteq Features /\ gen \in Nat
  BY DEF Types
<1> HIDE DEF i
<1>2. ASSUME ReaderStep(r) \/ Close(r) PROVE readers' \in [Readers -> ReaderType]
  <2>1. CASE Query(r)
    <3> DEFINE j == [i EXCEPT !.pc = "fetch", !.counter = -1,
                      !.got = {f \in Cached \intersect In(i.want) :
                                   i.counter >= 0 => cached[f] <= i.counter}]
    <3>1. j \in ReaderType
      BY <1>1 DEF ReaderType
    <3> QED BY <2>1, <3>1, BecomesType DEF Query, Becomes, i
  <2>2. CASE Fetch(r)
    <3> DEFINE new == i.buffer \intersect In(i.want)
               j == [i EXCEPT !.buffer = {}, !.got = @ \union new,
                              !.twice = @ \union (i.got \intersect new)]
    <3>1. j \in ReaderType
      BY <1>1 DEF ReaderType
    <3> QED BY <2>2, <3>1, BecomesType DEF Fetch, Becomes, i
  <2>3. CASE Exhausted(r)
    <3>1. [i EXCEPT !.pc = "done"] \in ReaderType
      BY <1>1 DEF ReaderType
    <3> QED BY <2>3, <3>1, BecomesType DEF Exhausted, Becomes, i
  <2>4. CASE Close(r)
    BY <2>4, IdleType, BecomesType DEF Close, Becomes
  <2> QED BY <1>2, <2>1, <2>2, <2>3, <2>4 DEF ReaderStep
<1>3. ASSUME Rewind(r) PROVE readers' \in [Readers -> ReaderType]
  <2> DEFINE j == [i EXCEPT !.pc = "query", !.counter = gen, !.got = {}, !.twice = {},
                     !.must = @ \union (Cached \intersect In(i.want)),
                     !.raced = @ \/ (i.connected /\ BatchUnderWay) \/ i.buffer # {}]
  <2>1. j \in ReaderType
    BY <1>1 DEF ReaderType, BatchUnderWay
  <2> QED BY <1>3, <2>1, BecomesType DEF Rewind, Becomes, i
<1>4. gen' \in Nat /\ events' \in 0..MaxEvents
  BY EventType DEF ReaderStep, Query, Fetch, Exhausted, Rewind, Close, Types
<1>5. OnlyReaders
  BY DEF ReaderStep, Query, Fetch, Exhausted, Rewind, Close
<1> QED BY <1>2, <1>3, <1>4, <1>5 DEF OnlyReaders, Types, download, contents, history, Cached

LEMMA OtherTypes ==
    ASSUME Types, StopDownloader \/ Abort \/ Invalidate \/ ClearCache \/ UNCHANGED vars
    PROVE  Types'
<1>1. ASSUME StopDownloader \/ Abort PROVE Types'
  <2>1. down' \in DownType
    <3>1. down' = [down EXCEPT !.stop = TRUE]
      BY <1>1 DEF StopDownloader, Abort
    <3> QED BY <3>1 DEF Types, DownType
  <2>2. events' \in 0..MaxEvents
    BY <1>1, EventType DEF StopDownloader, Abort, Types
  <2> QED BY <1>1, <2>1, <2>2 DEF StopDownloader, Abort, OnlyDownloader, Types, download,
                                  contents, history, Cached
<1>2. CASE Invalidate
  <2>1. events' \in 0..MaxEvents
    BY <1>2, EventType DEF Invalidate, Types
  <2> QED BY <1>2, <2>1 DEF Invalidate, Types, download, contents, history, Cached
<1>3. CASE ClearCache
  <2>1. readers' \in [Readers -> ReaderType]
    <3>1. ASSUME NEW r \in Readers
          PROVE  [readers[r] EXCEPT !.must = {}, !.told = TRUE, !.raced = TRUE] \in ReaderType
      <4> readers[r] \in ReaderType
        BY DEF Types
      <4> QED BY DEF ReaderType
    <3> QED BY <1>3, <3>1 DEF ClearCache, Types
  <2>2. cached' \in [Cached' -> Nat] /\ Cached' \subseteq Features
    BY <1>3 DEF ClearCache, Cached
  <2>3. down' \in DownType
    BY <1>3, NoDownloaderType DEF ClearCache
  <2> QED BY <1>3, <2>1, <2>2, <2>3 DEF ClearCache, Types, AllRects
<1>4. CASE UNCHANGED vars
  BY <1>4 DEF vars, Types, download, contents, history, Cached
<1> QED BY <1>1, <1>2, <1>3, <1>4

LEMMA NextTypes == Types /\ [Next]_vars => Types'
<1> SUFFICES ASSUME Types, [Next]_vars PROVE Types'
  OBVIOUS
<1>1. ASSUME NEW q \in Requests PROVE q[1] \in AllRects /\ q[2] \in BOOLEAN
  BY RequestsAssumption DEF AllRects
<1> QED BY <1>1, DownloaderTypes, RegisterTypes, ReplaceTypes, StartDownloaderTypes, ReaderTypes,
           OtherTypes DEF Next

-----------------------------------------------------------------------------
(* Steps, phases and registration. *)

\* A step is one of these; the request of a reader is of the right kind.
LEMMA Steps ==
    ASSUME [Next]_vars
    PROVE  \/ DownloaderStep \/ StopDownloader \/ Abort \/ Invalidate \/ ClearCache
           \/ \E r \in Readers :
                \/ Query(r) \/ Fetch(r) \/ Exhausted(r) \/ StartDownloader(r) \/ Rewind(r) \/ Close(r)
                \/ \E want \in AllRects, lim \in BOOLEAN :
                      Register(r, want, lim) \/ Replace(r, want, lim)
           \/ UNCHANGED vars
<1>1. ASSUME NEW q \in Requests PROVE q[1] \in AllRects /\ q[2] \in BOOLEAN
  BY RequestsAssumption DEF AllRects
<1> QED BY <1>1 DEF Next, ReaderStep

\* A request only changes the page.
LEMMA RequestPage ==
    ASSUME SendRequest
    PROVE  \E page \in SUBSET Rest, truncated \in BOOLEAN : Page(page, truncated)
BY DEF SendRequest

LEMMA SendRequestDown ==
    ASSUME Types, SendRequest
    PROVE  /\ down.pc = "request" /\ down'.pc = "read"
           /\ down'.todo = down'.page /\ down'.page \subseteq Rest
           /\ down'.batch = down.batch /\ down'.sent = down.sent /\ down'.gen = down.gen
           /\ down'.for = down.for /\ down'.limited = down.limited
<1>1. PICK page \in SUBSET Rest, truncated \in BOOLEAN : Page(page, truncated)
  BY RequestPage
<1>2. down \in DownType
  BY DEF Types
<1> QED BY <1>1, <1>2 DEF Page, SendRequest, DownType

\* The downloader gives up, or asks again.
LEMMA FailureDown ==
    ASSUME Types, Interrupted \/ RequestFails
    PROVE  /\ down.pc = "read" /\ down'.pc \in {"end", "request"}
           /\ down'.todo = {} /\ down'.page = {}
           /\ down'.batch = down.batch /\ down'.sent = down.sent /\ down'.gen = down.gen
           /\ down'.for = down.for /\ down'.limited = down.limited
<1>1. down \in DownType
  BY DEF Types
<1>2. CASE down' = GivenUp
  BY <1>1, <1>2 DEF Interrupted, RequestFails, GivenUp, DownType
<1>3. CASE down' = [down EXCEPT !.pc = "request", !.page = {}, !.todo = {}]
  BY <1>1, <1>3 DEF Interrupted, RequestFails, DownType
<1> QED BY <1>2, <1>3 DEF Interrupted, RequestFails

\* What the steps that concern all readers make of each.
LEMMA DownloaderReaders ==
    ASSUME Types, NEW r \in Readers
    PROVE  /\ WriteBatch => readers'[r] = IF readers[r].connected
                 THEN [readers[r] EXCEPT !.must = @ \union (down.batch \intersect In(readers[r].want))]
                 ELSE readers[r]
           /\ FeatureReceived => readers'[r] = IF readers[r].connected
                 THEN [readers[r] EXCEPT !.buffer = @ \union down.batch] ELSE readers[r]
           /\ EndOfDownload => readers'[r] = IF readers[r].connected /\ ~readers[r].covered
                 THEN [readers[r] EXCEPT !.told = @ \/ Short] ELSE readers[r]
           /\ SignalEndOfDownload => readers'[r] = IF readers[r].connected
                 THEN [readers[r] EXCEPT !.ended = TRUE, !.connected = FALSE] ELSE readers[r]
           /\ ClearCache => readers'[r] = IF readers[r].pc = "out" THEN readers[r]
                 ELSE [readers[r] EXCEPT !.must = {}, !.told = TRUE, !.raced = TRUE]
           /\ readers[r] \in ReaderType
BY DEF WriteBatch, FeatureReceived, EndOfDownload, SignalEndOfDownload, ClearCache, Types

\* Steps of all the readers that leave the phase and the request of each as they are.
LEMMA KeepRequests ==
    ASSUME Types, NEW r \in Readers,
           WriteBatch \/ FeatureReceived \/ EndOfDownload \/ SignalEndOfDownload \/ ClearCache
    PROVE  /\ readers'[r].pc = readers[r].pc
           /\ readers'[r].want = readers[r].want
           /\ readers'[r].limited = readers[r].limited
           /\ readers'[r].counter = readers[r].counter
           /\ readers'[r].got = readers[r].got
           /\ readers'[r].twice = readers[r].twice
<1> readers[r] \in ReaderType
  BY DownloaderReaders
<1>1. CASE WriteBatch
  BY <1>1, DownloaderReaders DEF ReaderType
<1>2. CASE FeatureReceived
  BY <1>2, DownloaderReaders DEF ReaderType
<1>3. CASE EndOfDownload
  BY <1>3, DownloaderReaders DEF ReaderType
<1>4. CASE SignalEndOfDownload
  BY <1>4, DownloaderReaders DEF ReaderType
<1>5. CASE ClearCache
  BY <1>5, DownloaderReaders DEF ReaderType
<1> QED BY <1>1, <1>2, <1>3, <1>4, <1>5

\* What these steps do to the other fields.
LEMMA WriteBatchFields ==
    ASSUME Types, NEW r \in Readers, WriteBatch
    PROVE  /\ readers'[r].connected = readers[r].connected /\ readers'[r].ended = readers[r].ended
           /\ readers'[r].buffer = readers[r].buffer /\ readers'[r].told = readers[r].told
           /\ readers'[r].covered = readers[r].covered /\ readers'[r].raced = readers[r].raced
           /\ readers'[r].must = readers[r].must \union
                 (IF readers[r].connected THEN down.batch \intersect In(readers[r].want) ELSE {})
<1> readers[r] \in ReaderType
  BY DownloaderReaders
<1> QED BY DownloaderReaders DEF ReaderType

LEMMA FeatureReceivedFields ==
    ASSUME Types, NEW r \in Readers, FeatureReceived
    PROVE  /\ readers'[r].connected = readers[r].connected /\ readers'[r].ended = readers[r].ended
           /\ readers'[r].must = readers[r].must /\ readers'[r].told = readers[r].told
           /\ readers'[r].covered = readers[r].covered /\ readers'[r].raced = readers[r].raced
           /\ readers'[r].buffer = readers[r].buffer \union
                 (IF readers[r].connected THEN down.batch ELSE {})
<1> readers[r] \in ReaderType
  BY DownloaderReaders
<1> QED BY DownloaderReaders DEF ReaderType

LEMMA EndOfDownloadFields ==
    ASSUME Types, NEW r \in Readers, EndOfDownload
    PROVE  /\ readers'[r].connected = readers[r].connected /\ readers'[r].ended = readers[r].ended
           /\ readers'[r].must = readers[r].must /\ readers'[r].buffer = readers[r].buffer
           /\ readers'[r].covered = readers[r].covered /\ readers'[r].raced = readers[r].raced
           /\ readers'[r].told <=>
                 readers[r].told \/ (readers[r].connected /\ ~readers[r].covered /\ Short)
<1> readers[r] \in ReaderType
  BY DownloaderReaders
<1>1. CASE readers[r].connected /\ ~readers[r].covered
  <2>1. readers'[r] = [readers[r] EXCEPT !.told = @ \/ Short]
    BY <1>1, DownloaderReaders
  <2>2. readers'[r].told = (readers[r].told \/ Short)
    BY <2>1 DEF ReaderType
  <2>3. /\ readers'[r].connected = readers[r].connected /\ readers'[r].ended = readers[r].ended
        /\ readers'[r].must = readers[r].must /\ readers'[r].buffer = readers[r].buffer
        /\ readers'[r].covered = readers[r].covered /\ readers'[r].raced = readers[r].raced
    BY <2>1 DEF ReaderType
  <2> QED BY <1>1, <2>2, <2>3
<1>2. CASE ~(readers[r].connected /\ ~readers[r].covered)
  <2>1. readers'[r] = readers[r]
    BY <1>2, DownloaderReaders
  <2> QED BY <1>2, <2>1
<1> QED BY <1>1, <1>2

LEMMA SignalEndOfDownloadFields ==
    ASSUME Types, NEW r \in Readers, SignalEndOfDownload
    PROVE  /\ readers'[r].must = readers[r].must /\ readers'[r].buffer = readers[r].buffer
           /\ readers'[r].told = readers[r].told
           /\ readers'[r].covered = readers[r].covered /\ readers'[r].raced = readers[r].raced
           /\ readers'[r].connected = FALSE
           /\ readers'[r].ended <=> readers[r].ended \/ readers[r].connected
<1> readers[r] \in ReaderType
  BY DownloaderReaders
<1>1. CASE readers[r].connected
  BY <1>1, DownloaderReaders DEF ReaderType
<1>2. CASE ~readers[r].connected
  BY <1>2, DownloaderReaders DEF ReaderType
<1> QED BY <1>1, <1>2

LEMMA ClearCacheFields ==
    ASSUME Types, NEW r \in Readers, ClearCache
    PROVE  /\ readers'[r].connected = readers[r].connected /\ readers'[r].ended = readers[r].ended
           /\ readers'[r].buffer = readers[r].buffer
           /\ readers'[r].covered = readers[r].covered
           /\ readers[r].pc # "out" =>
                 readers'[r].must = {} /\ readers'[r].told = TRUE /\ readers'[r].raced = TRUE
<1>1. readers[r] \in ReaderType
  BY DownloaderReaders
<1>2. CASE readers[r].pc = "out"
  <2>1. readers'[r] = readers[r]
    BY <1>2, DownloaderReaders
  <2> QED BY <1>2, <2>1
<1>3. CASE readers[r].pc # "out"
  <2>1. readers'[r] = [readers[r] EXCEPT !.must = {}, !.told = TRUE, !.raced = TRUE]
    BY <1>3, DownloaderReaders
  <2> QED BY <1>1, <2>1 DEF ReaderType
<1> QED BY <1>2, <1>3

LEMMA NextPhases ==
    ASSUME Types, Phases, [Next]_vars
    PROVE  Phases'
<1>1. down \in DownType
  BY DEF Types
<1> USE <1>1 DEF Phases, OnlyDownloader, download
<1>2. ASSUME DownloaderStep PROVE Phases'
  <2>1. ASSUME ReadLimit PROVE Phases'
    BY <2>1 DEF ReadLimit, DownType
  <2>10. ASSUME SendRequest PROVE Phases'
    BY <2>10, SendRequestDown DEF SendRequest
  <2>2. ASSUME Interrupted \/ RequestFails PROVE Phases'
    BY <2>2, FailureDown DEF Interrupted, RequestFails
  <2>3. ASSUME ProcessData PROVE Phases'
    <3>1. CASE down.todo = {}
      BY <2>3, <3>1 DEF ProcessData, DownType
    <3>2. ASSUME NEW batch \in SUBSET down.todo, down.pc = "read", UNCHANGED finished,
                 down' = [down EXCEPT !.pc = "serialize",
                                                   !.batch = batch, !.todo = @ \ batch]
          PROVE Phases'
      BY <3>2 DEF DownType
    <3> QED BY <2>3, <3>1, <3>2 DEF ProcessData
  <2>4. ASSUME TakeGeneration PROVE Phases'
    BY <2>4 DEF TakeGeneration, DownType
  <2>5. ASSUME WriteBatch PROVE Phases'
    BY <2>5 DEF WriteBatch, NewFeatures, DownType
  <2>6. ASSUME FeatureReceived PROVE Phases'
    BY <2>6 DEF FeatureReceived, DownType
  <2>7. ASSUME PageComplete PROVE Phases'
    BY <2>7 DEF PageComplete, DownType
  <2>8. ASSUME EndOfDownload PROVE Phases'
    BY <2>8 DEF EndOfDownload, DownType
  <2>9. ASSUME SignalEndOfDownload PROVE Phases'
    BY <2>9 DEF SignalEndOfDownload, NoDownloader
  <2> QED BY <1>2, <2>1, <2>2, <2>3, <2>4, <2>5, <2>6, <2>7, <2>8, <2>9, <2>10 DEF DownloaderStep
<1>3. ASSUME StopDownloader \/ Abort PROVE Phases'
  BY <1>3 DEF StopDownloader, Abort, DownType
<1>4. ASSUME ClearCache PROVE Phases'
  BY <1>4 DEF ClearCache, NoDownloader
<1>5. ASSUME NEW r \in Readers, StartDownloader(r) PROVE Phases'
  BY <1>5 DEF StartDownloader, NoDownloader
<1>6. ASSUME UNCHANGED <<finished, down>> PROVE Phases'
  BY <1>6
<1>7. ASSUME NEW r \in Readers,
             \/ Query(r) \/ Fetch(r) \/ Exhausted(r) \/ Rewind(r) \/ Close(r)
             \/ \E want \in AllRects, lim \in BOOLEAN : Register(r, want, lim) \/ Replace(r, want, lim)
      PROVE  UNCHANGED <<finished, down>>
  BY <1>7 DEF Query, Fetch, Exhausted, Rewind, Close, Register, Replace, OnlyReaders
<1>8. Invalidate \/ UNCHANGED vars => UNCHANGED <<finished, down>>
  BY DEF Invalidate, vars
<1> QED BY <1>2, <1>3, <1>4, <1>5, <1>6, <1>7, <1>8, Steps

\* One reader moves on.
LEMMA ReaderMoves ==
    ASSUME Types, NEW r \in Readers,
           Query(r) \/ Fetch(r) \/ Exhausted(r) \/ Rewind(r) \/ Close(r)
    PROVE  /\ readers[r].pc # "stopping" /\ readers'[r].pc # "stopping"
           /\ \A q \in Readers \ {r} : readers'[q] = readers[q]
<1> readers[r] \in ReaderType /\ readers \in [Readers -> ReaderType]
  BY DEF Types
<1>1. CASE Query(r)
  BY <1>1 DEF Query, Becomes, ReaderType
<1>2. CASE Fetch(r)
  BY <1>2 DEF Fetch, Becomes, ReaderType
<1>3. CASE Exhausted(r)
  BY <1>3 DEF Exhausted, Becomes, ReaderType
<1>4. CASE Rewind(r)
  BY <1>4 DEF Rewind, Becomes, ReaderType
<1>5. CASE Close(r)
  BY <1>5 DEF Close, Becomes, Idle
<1> QED BY <1>1, <1>2, <1>3, <1>4, <1>5

LEMMA NextRegistration ==
    ASSUME Types, Registration, [Next]_vars
    PROVE  Registration'
<1>1. down \in DownType /\ readers \in [Readers -> ReaderType] /\ limited \in BOOLEAN
  BY DEF Types
<1> USE <1>1 DEF Registration, OnlyDownloader, download, Running
<1>2. ASSUME DownloaderStep PROVE Registration'
  <2>0. ASSUME UNCHANGED <<rect, limited, readers, reloading>>,
               down'.for = down.for, Running' => Running,
               Running' /\ down'.pc # "start" =>
                  down'.limited = IF down.pc = "start" THEN limited ELSE down.limited
        PROVE  Registration'
    BY <2>0
  <2>1. ASSUME ReadLimit PROVE Registration'
    BY <2>0, <2>1 DEF ReadLimit, DownType
  <2>8. ASSUME SendRequest PROVE Registration'
    BY <2>0, <2>8, SendRequestDown DEF SendRequest
  <2>2. ASSUME Interrupted \/ RequestFails PROVE Registration'
    BY <2>0, <2>2, FailureDown DEF Interrupted, RequestFails
  <2>3. ASSUME ProcessData PROVE Registration'
    <3>1. \A batch : [down EXCEPT !.pc = "serialize", !.batch = batch, !.todo = @ \ batch].for = down.for
                     /\ [down EXCEPT !.pc = "serialize", !.batch = batch, !.todo = @ \ batch].limited = down.limited
      BY DEF DownType
    <3>2. down'.for = down.for /\ down'.limited = down.limited
      <4>1. CASE down.todo = {}
        BY <2>3, <4>1 DEF ProcessData, DownType
      <4>2. CASE down.todo # {}
        BY <2>3, <3>1, <4>2 DEF ProcessData
      <4> QED BY <4>1, <4>2
    <3>3. down.pc = "read"
      BY <2>3 DEF ProcessData
    <3>4. UNCHANGED <<rect, limited, readers, reloading>>
      BY <2>3 DEF ProcessData
    <3> QED BY <2>0, <3>2, <3>3, <3>4
  <2>4. ASSUME TakeGeneration \/ PageComplete PROVE Registration'
    BY <2>0, <2>4 DEF TakeGeneration, PageComplete, DownType
  <2>5. ASSUME WriteBatch \/ FeatureReceived \/ EndOfDownload \/ SignalEndOfDownload
        PROVE  Registration'
    <3>1. UNCHANGED <<rect, limited, reloading>>
      BY <2>5 DEF WriteBatch, FeatureReceived, EndOfDownload, SignalEndOfDownload
    <3>2. /\ down'.for = down.for /\ down'.limited = down.limited /\ Running
          /\ down.pc # "start" /\ down'.pc # "start"
          \/ ~Running'
      <4>1. ASSUME WriteBatch \/ FeatureReceived \/ EndOfDownload
            PROVE  /\ down'.for = down.for /\ down'.limited = down.limited
                   /\ down.pc \in {"write", "emit", "end"} /\ down'.pc # "start"
        BY <4>1 DEF WriteBatch, FeatureReceived, EndOfDownload, DownType
      <4>2. ASSUME SignalEndOfDownload PROVE ~Running'
        BY <4>2 DEF SignalEndOfDownload, NoDownloader
      <4> QED BY <2>5, <4>1, <4>2
    <3>3. \A r \in Readers : readers'[r].pc = readers[r].pc
             /\ readers'[r].want = readers[r].want /\ readers'[r].limited = readers[r].limited
      BY <2>5, KeepRequests
    <3> QED BY <3>1, <3>2, <3>3
  <2> QED BY <1>2, <2>1, <2>2, <2>3, <2>4, <2>5, <2>8 DEF DownloaderStep
<1>3. ASSUME StopDownloader \/ Abort PROVE Registration'
  BY <1>3 DEF StopDownloader, Abort, DownType
<1>4. ASSUME ClearCache PROVE Registration'
  <2>1. \A r \in Readers : readers'[r].pc = readers[r].pc
    BY <1>4 DEF ClearCache, ReaderType
  <2> QED BY <1>4, <2>1 DEF ClearCache, NoDownloader
<1>5. ASSUME NEW r \in Readers, StartDownloader(r) PROVE Registration'
  <2>1. /\ readers'[r].pc = "query"
        /\ \A q \in Readers \ {r} : readers'[q] = readers[q]
    BY <1>5 DEF StartDownloader, Connected, Idle
  <2> QED BY <1>5, <2>1 DEF StartDownloader, NoDownloader
<1>6. ASSUME NEW r \in Readers, NEW want \in AllRects, NEW lim \in BOOLEAN, Replace(r, want, lim)
      PROVE  Registration'
  <2>1. /\ readers'[r].pc = "stopping" /\ readers'[r].want = want /\ readers'[r].limited = lim
        /\ \A q \in Readers \ {r} : readers'[q] = readers[q]
    BY <1>6 DEF Replace, Idle
  <2>2. Running => rect' # rect \/ limited' # limited
    BY <1>6 DEF Replace, NewDownloadNeeded, NewRectNeeded
  <2> QED BY <1>6, <2>1, <2>2 DEF Replace, RegisterFree
<1>7. ASSUME NEW r \in Readers, NEW want \in AllRects, NEW lim \in BOOLEAN, Register(r, want, lim)
      PROVE  Registration'
  <2>1. /\ readers'[r].pc = "query"
        /\ \A q \in Readers \ {r} : readers'[q] = readers[q]
    BY <1>7 DEF Register, Connected, Idle
  <2> QED BY <1>7, <2>1 DEF Register
<1>8. ASSUME NEW r \in Readers, Query(r) \/ Fetch(r) \/ Exhausted(r) \/ Rewind(r) \/ Close(r)
      PROVE  Registration'
  <2>1. /\ readers[r].pc # "stopping" /\ readers'[r].pc # "stopping"
        /\ \A q \in Readers \ {r} : readers'[q] = readers[q]
    BY <1>8, ReaderMoves
  <2>2. OnlyReaders
    BY <1>8 DEF Query, Fetch, Exhausted, Rewind, Close
  <2> QED BY <2>1, <2>2 DEF OnlyReaders
<1>9. ASSUME Invalidate PROVE Registration'
  BY <1>9 DEF Invalidate, RegisterFree
<1>10. ASSUME UNCHANGED vars PROVE Registration'
  BY <1>10 DEF vars
<1> QED BY <1>2, <1>3, <1>4, <1>5, <1>6, <1>7, <1>8, <1>9, <1>10, Steps

-----------------------------------------------------------------------------
(* Connections and the count. *)

\* How far the downloader is, and whether it runs.
LEMMA DownloaderRuns ==
    ASSUME Types, Phases, DownloaderStep
    PROVE  /\ Running
           /\ ~SignalEndOfDownload => Running'
           /\ SignalEndOfDownload => ~Running'
<1> down \in DownType
  BY DEF Types
<1> USE DEF Running
<1>1. ASSUME ReadLimit PROVE Running /\ Running' /\ ~SignalEndOfDownload
  BY <1>1 DEF ReadLimit, DownType, SignalEndOfDownload
<1>2. ASSUME SendRequest PROVE Running /\ Running' /\ ~SignalEndOfDownload
  BY <1>2, SendRequestDown DEF SignalEndOfDownload
<1>3. ASSUME Interrupted \/ RequestFails PROVE Running /\ Running' /\ ~SignalEndOfDownload
  BY <1>3, FailureDown DEF SignalEndOfDownload
<1>4. ASSUME ProcessData PROVE Running /\ Running' /\ ~SignalEndOfDownload
  BY <1>4 DEF ProcessData, DownType, SignalEndOfDownload
<1>5. ASSUME TakeGeneration \/ WriteBatch PROVE Running /\ Running' /\ ~SignalEndOfDownload
  BY <1>5 DEF TakeGeneration, WriteBatch, DownType, SignalEndOfDownload
<1>6. ASSUME FeatureReceived PROVE Running /\ Running' /\ ~SignalEndOfDownload
  BY <1>6 DEF FeatureReceived, DownType, SignalEndOfDownload
<1>7. ASSUME PageComplete PROVE Running /\ Running' /\ ~SignalEndOfDownload
  BY <1>7 DEF PageComplete, DownType, SignalEndOfDownload
<1>8. ASSUME EndOfDownload PROVE Running /\ Running' /\ ~SignalEndOfDownload
  BY <1>8 DEF EndOfDownload, DownType, SignalEndOfDownload
<1>9. ASSUME SignalEndOfDownload PROVE Running /\ ~Running'
  BY <1>9 DEF SignalEndOfDownload, NoDownloader
<1> QED BY <1>1, <1>2, <1>3, <1>4, <1>5, <1>6, <1>7, <1>8, <1>9 DEF DownloaderStep

\* Most steps of the downloader do not touch the readers.
LEMMA DownloaderLeavesReaders ==
    ASSUME DownloaderStep
    PROVE  \/ WriteBatch \/ FeatureReceived \/ EndOfDownload \/ SignalEndOfDownload
           \/ UNCHANGED readers
BY DEF DownloaderStep, ReadLimit, SendRequest, Interrupted, RequestFails, ProcessData,
       TakeGeneration, PageComplete, OnlyDownloader

LEMMA NextConnections ==
    ASSUME Types, Phases, Connections, [Next]_vars
    PROVE  Connections'
<1> USE DEF Connections
<1>0. down \in DownType /\ readers \in [Readers -> ReaderType]
  BY DEF Types
<1>1. ASSUME DownloaderStep PROVE Connections'
  <2>1. CASE UNCHANGED readers /\ ~SignalEndOfDownload
    BY <1>1, <2>1, DownloaderRuns
  <2>2. CASE WriteBatch
    <3>1. Running' BY <1>1, <2>2, DownloaderRuns DEF WriteBatch, SignalEndOfDownload
    <3> QED BY <3>1, <2>2, KeepRequests, WriteBatchFields
  <2>3. CASE FeatureReceived
    <3>1. Running' BY <1>1, <2>3, DownloaderRuns DEF FeatureReceived, SignalEndOfDownload
    <3> QED BY <3>1, <2>3, KeepRequests, FeatureReceivedFields
  <2>4. CASE EndOfDownload
    <3>1. Running' BY <1>1, <2>4, DownloaderRuns DEF EndOfDownload, SignalEndOfDownload
    <3> QED BY <3>1, <2>4, KeepRequests, EndOfDownloadFields
  <2>5. CASE SignalEndOfDownload
    <3>1. ASSUME NEW r \in Readers
          PROVE  /\ readers'[r].connected = FALSE /\ readers'[r].pc = readers[r].pc
                 /\ readers'[r].ended <=> readers[r].ended \/ readers[r].connected
                 /\ readers'[r].buffer = readers[r].buffer /\ readers'[r].twice = readers[r].twice
      BY <2>5, KeepRequests, SignalEndOfDownloadFields
    <3> QED BY <3>1
  <2> QED BY <1>1, <2>1, <2>2, <2>3, <2>4, <2>5, DownloaderLeavesReaders
<1>2. ASSUME StopDownloader \/ Abort PROVE Connections'
  BY <1>0, <1>2 DEF StopDownloader, Abort, OnlyDownloader, Running, DownType
<1>3. ASSUME ClearCache PROVE Connections'
  <2>1. ASSUME NEW r \in Readers
        PROVE  /\ readers'[r].connected = readers[r].connected /\ readers'[r].pc = readers[r].pc
               /\ readers'[r].ended = readers[r].ended
               /\ readers'[r].buffer = readers[r].buffer /\ readers'[r].twice = readers[r].twice
    BY <1>3, KeepRequests, ClearCacheFields
  <2>2. ~Running
    BY <1>3 DEF ClearCache
  <2> QED BY <2>1, <2>2
<1>4. ASSUME Invalidate \/ UNCHANGED vars PROVE Connections'
  BY <1>4 DEF Invalidate, vars, Running
<1>5. ASSUME NEW r \in Readers, NEW want \in AllRects, NEW lim \in BOOLEAN, Register(r, want, lim)
      PROVE  Connections'
  <2>1. /\ readers'[r].pc = "query" /\ readers'[r].connected = ~finished
        /\ readers'[r].ended = finished /\ readers'[r].twice = {}
        /\ \A q \in Readers \ {r} : readers'[q] = readers[q]
    BY <1>0, <1>5 DEF Register, Connected, Idle
  <2>2. ~finished => Running /\ Running'
    BY <1>0, <1>5 DEF Register, Running, Phases
  <2>3. Running' = Running /\ finished \in BOOLEAN
    BY <1>5 DEF Register, Running, Types
  <2> QED BY <2>1, <2>2, <2>3
<1>6. ASSUME NEW r \in Readers, NEW want \in AllRects, NEW lim \in BOOLEAN, Replace(r, want, lim)
      PROVE  Connections'
  <2>1. /\ readers'[r].pc = "stopping" /\ readers'[r].connected = FALSE /\ readers'[r].twice = {}
        /\ \A q \in Readers \ {r} : readers'[q] = readers[q]
    BY <1>0, <1>6 DEF Replace, Idle
  <2>2. Running' = Running
    BY <1>6 DEF Replace, Running
  <2> QED BY <2>1, <2>2
<1>7. ASSUME NEW r \in Readers, StartDownloader(r) PROVE Connections'
  <2>1. /\ readers'[r].pc = "query" /\ readers'[r].connected = TRUE /\ readers'[r].ended = FALSE
        /\ readers'[r].twice = {}
        /\ \A q \in Readers \ {r} : readers'[q] = readers[q]
    BY <1>0, <1>7 DEF StartDownloader, Connected, Idle
  <2>2. Running'
    BY <1>7 DEF StartDownloader, Running, NoDownloader
  <2> QED BY <2>1, <2>2
<1>8. ASSUME NEW r \in Readers, Query(r) \/ Fetch(r) \/ Exhausted(r) \/ Rewind(r) \/ Close(r)
      PROVE  Connections'
  <2>1. \A q \in Readers \ {r} : readers'[q] = readers[q]
    BY <1>8, ReaderMoves
  <2>2. Running' = Running
    BY <1>8 DEF Query, Fetch, Exhausted, Rewind, Close, OnlyReaders, Running
  <2>3. readers[r] \in ReaderType
    BY <1>0
  <2>4. CASE Query(r)
    BY <1>0, <2>1, <2>2, <2>3, <2>4 DEF Query, Becomes, ReaderType
  <2>5. CASE Fetch(r)
    BY <1>0, <2>1, <2>2, <2>3, <2>5 DEF Fetch, Becomes, ReaderType
  <2>6. CASE Exhausted(r)
    BY <1>0, <2>1, <2>2, <2>3, <2>6 DEF Exhausted, Becomes, ReaderType
  <2>7. CASE Rewind(r)
    BY <1>0, <2>1, <2>2, <2>3, <2>7 DEF Rewind, Becomes, ReaderType
  <2>8. CASE Close(r)
    BY <1>0, <2>1, <2>2, <2>8 DEF Close, Becomes, Idle
  <2> QED BY <1>8, <2>4, <2>5, <2>6, <2>7, <2>8
<1> QED BY <1>1, <1>2, <1>3, <1>4, <1>5, <1>6, <1>7, <1>8, Steps

LEMMA NextCountBound ==
    ASSUME Types, CountBound, [Next]_vars
    PROVE  CountBound'
<1> DEFINE C == Cardinality(Features)
<1>0. /\ C \in Nat /\ events \in Nat /\ count \in Nat
      /\ \A S \in SUBSET Features : IsFiniteSet(S) /\ Cardinality(S) \in Nat /\ Cardinality(S) <= C
  BY FeaturesAssumption, FS_Subset, FS_CardinalityType, BoundsAssumption DEF Types
<1>1. ASSUME WriteBatch PROVE CountBound'
  <2>1. NewFeatures \in SUBSET Features /\ Cached \in SUBSET Features
    BY DEF Types, DownType, NewFeatures
  <2>2. count' <= count + Cardinality(NewFeatures)
    BY <1>0, <1>1, <2>1 DEF WriteBatch, Counted
  <2>3. CASE Store /\ UNCHANGED events
    <3>1. Cached' = Cached \union NewFeatures
      BY <2>3 DEF Store, Cached
    <3>2. Cached \intersect NewFeatures = {}
      BY DEF NewFeatures
    <3>3. Cardinality(Cached') = Cardinality(Cached) + Cardinality(NewFeatures)
      <4>1. Cardinality(Cached \union NewFeatures) =
               Cardinality(Cached) + Cardinality(NewFeatures) - Cardinality(Cached \intersect NewFeatures)
        BY <1>0, <2>1, FS_Union
      <4>2. Cardinality(Cached \intersect NewFeatures) = 0
        BY <3>2, FS_EmptySet
      <4> QED BY <1>0, <2>1, <3>1, <4>1, <4>2
    <3>4. events' * C = events * C /\ events * C \in Nat
      BY <1>0, <2>3
    <3>5. count' \in Nat
      BY <1>0, <1>1, <2>1 DEF WriteBatch, Counted
    <3> DEFINE e == events * C
               n == Cardinality(Cached)
    <3>6. count <= n + e /\ n \in Nat
      BY <1>0, <2>1 DEF CountBound
    <3>7. count' <= (n + Cardinality(NewFeatures)) + e
      <4> HIDE DEF e, n
      <4> QED BY <1>0, <2>1, <2>2, <3>4, <3>5, <3>6 DEF e
    <3> QED BY <3>3, <3>4, <3>7 DEF CountBound
  <2>4. CASE UNCHANGED cached /\ Event
    <3>1. events' * C = events * C + C /\ events * C \in Nat
      BY <1>0, <2>4 DEF Event
    <3> DEFINE e == events * C
               n == Cardinality(Cached)
    <3>2. count <= n + e /\ n \in Nat
      BY <1>0, <2>1 DEF CountBound
    <3>3. count' \in Nat /\ Cardinality(NewFeatures) <= C /\ Cardinality(NewFeatures) \in Nat
      BY <1>0, <1>1, <2>1 DEF WriteBatch, Counted
    <3>4. count' <= n + (e + C)
      <4> HIDE DEF e, n, C
      <4> QED BY <1>0, <2>2, <3>1, <3>2, <3>3 DEF e
    <3>5. Cached' = Cached
      BY <2>4 DEF Cached
    <3> QED BY <3>1, <3>4, <3>5 DEF CountBound
  <2> QED BY <1>1, <2>3, <2>4 DEF WriteBatch
<1>2. ASSUME ClearCache PROVE CountBound'
  <2>1. count' = 0 /\ Cached' = {} /\ events' = events
    BY <1>2 DEF ClearCache, Cached
  <2>2. Cardinality(Cached') = 0
    BY <2>1, FS_EmptySet
  <2>3. events * C \in Nat
    BY <1>0
  <2> QED BY <2>1, <2>2, <2>3 DEF CountBound
<1>3. ASSUME UNCHANGED <<count, cached>>, Event \/ UNCHANGED events PROVE CountBound'
  <2>1. events' * C >= events * C /\ events * C \in Nat /\ events' * C \in Nat
    BY <1>0, <1>3 DEF Event
  <2>2. Cached' = Cached /\ Cardinality(Cached) \in Nat
    BY <1>0, <1>3 DEF Cached, Types
  <2> DEFINE e == events * C
             f == events' * C
             n == Cardinality(Cached)
  <2>3. count <= n + e
    BY DEF CountBound
  <2>4. count <= n + f
    <3> HIDE DEF e, f, n
    <3>1. e <= f /\ e \in Nat /\ f \in Nat
      BY <2>1 DEF e, f
    <3>2. n \in Nat
      BY <2>2 DEF n
    <3> QED BY <1>0, <2>3, <3>1, <3>2
  <2> QED BY <1>3, <2>2, <2>4 DEF CountBound
<1>4. ASSUME DownloaderStep, ~WriteBatch
      PROVE  UNCHANGED <<count, cached>> /\ (Event \/ UNCHANGED events)
  BY <1>4 DEF DownloaderStep, ReadLimit, SendRequest, Interrupted, RequestFails, ProcessData,
       TakeGeneration, PageComplete, FeatureReceived, EndOfDownload, SignalEndOfDownload,
       OnlyDownloader, contents
<1>5. ASSUME StopDownloader \/ Abort \/ Invalidate \/ UNCHANGED vars
      PROVE  UNCHANGED <<count, cached>> /\ (Event \/ UNCHANGED events)
  BY <1>5 DEF StopDownloader, Abort, Invalidate, vars, OnlyDownloader, contents
<1>6. ASSUME NEW r \in Readers,
             \/ Query(r) \/ Fetch(r) \/ Exhausted(r) \/ StartDownloader(r) \/ Rewind(r) \/ Close(r)
             \/ \E want \in AllRects, lim \in BOOLEAN : Register(r, want, lim) \/ Replace(r, want, lim)
      PROVE  UNCHANGED <<count, cached>> /\ (Event \/ UNCHANGED events)
  BY <1>6 DEF Query, Fetch, Exhausted, StartDownloader, Rewind, Close, Register, Replace,
              OnlyReaders, contents
<1> QED BY <1>1, <1>2, <1>3, <1>4, <1>5, <1>6, Steps

-----------------------------------------------------------------------------
(* What the steps do to the cache and to the readers; bounds. *)

\* What a batch does to the cache; the batch that is handed over is the new part.
LEMMA WriteBatchCache ==
    ASSUME Types, WriteBatch
    PROVE  /\ down.pc = "write" /\ down'.pc = "emit" /\ down'.batch = NewFeatures
           /\ down'.sent = down.sent /\ down'.page = down.page /\ down'.todo = down.todo
           /\ NewFeatures \intersect Cached = {} /\ down.batch \subseteq Cached \union NewFeatures
           /\ NewFeatures \subseteq down.batch
           /\ lost \subseteq lost' /\ (AllStored' => AllStored)
           /\ \/ ~AllStored' /\ UNCHANGED cached
              \/ /\ Cached' = Cached \union NewFeatures
                 /\ \A f \in Cached : cached'[f] = cached[f]
                 /\ \A f \in NewFeatures : cached'[f] = down.gen
<1> down \in DownType
  BY DEF Types
<1>1. /\ down.pc = "write" /\ down'.pc = "emit" /\ down'.batch = NewFeatures
      /\ down'.sent = down.sent /\ down'.page = down.page /\ down'.todo = down.todo
  BY DEF WriteBatch, DownType
<1>2. /\ NewFeatures \intersect Cached = {} /\ down.batch \subseteq Cached \union NewFeatures
      /\ NewFeatures \subseteq down.batch
  BY DEF NewFeatures
<1>3. CASE Store /\ lost' = IF limited /\ NewFeatures # {} THEN lost \union {"uncounted"} ELSE lost
  BY <1>1, <1>2, <1>3 DEF Store, Cached, AllStored
<1>4. CASE UNCHANGED cached /\ lost' = lost \union {"unstored"}
  BY <1>1, <1>2, <1>4 DEF AllStored
<1> QED BY <1>3, <1>4 DEF WriteBatch

LEMMA FeatureReceivedDown ==
    ASSUME Types, FeatureReceived
    PROVE  /\ down.pc = "emit" /\ down'.pc \in {"page", "read"} /\ down'.batch = {}
           /\ (down'.pc = "page" => down.todo = {})
           /\ down'.sent = down.sent /\ down'.page = down.page /\ down'.todo = down.todo
           /\ UNCHANGED <<cached, lost, gen, finished>>
BY DEF FeatureReceived, Types, DownType, contents, history, download

LEMMA EndOfDownloadDown ==
    ASSUME Types, EndOfDownload
    PROVE  /\ down.pc = "end" /\ down'.pc = "signal" /\ finished'
           /\ down'.sent = down.sent /\ down'.page = down.page /\ down'.todo = down.todo
           /\ down'.batch = down.batch /\ down'.for = down.for
           /\ UNCHANGED <<rect, limited, cached, gen, count>> /\ lost \subseteq lost'
           /\ (AllStored' <=> AllStored)
BY DEF EndOfDownload, Types, DownType, AllStored

\* The downloader works on its own.
Silent ==
    \/ ReadLimit \/ SendRequest \/ Interrupted \/ RequestFails \/ ProcessData
    \/ TakeGeneration \/ PageComplete \/ StopDownloader \/ Abort

LEMMA SilentSteps ==
    ASSUME Types, Silent
    PROVE  /\ UNCHANGED <<rect, limited, finished, cached, lost, gen, readers, regions, failed, exact>>
           /\ UNCHANGED <<count>>
           /\ down.pc = "emit" <=> down'.pc = "emit"
           /\ down.pc = "emit" => down'.batch = down.batch
           /\ down'.for = down.for
           /\ down'.gen = IF TakeGeneration THEN gen ELSE down.gen
           /\ down.pc # "write" /\ down'.pc = "write" => TakeGeneration
<1>0. UNCHANGED <<rect, limited, finished, cached, lost, gen, readers, regions, count, failed, exact>>
  BY DEF Silent, ReadLimit, SendRequest, Interrupted, RequestFails, ProcessData, TakeGeneration,
         PageComplete, StopDownloader, Abort, OnlyDownloader, contents, history, download
<1> down \in DownType
  BY DEF Types
<1>1. CASE ReadLimit
  BY <1>0, <1>1 DEF ReadLimit, DownType, TakeGeneration
<1>2. CASE SendRequest
  BY <1>0, <1>2, SendRequestDown DEF TakeGeneration
<1>3. CASE Interrupted \/ RequestFails
  BY <1>0, <1>3, FailureDown DEF TakeGeneration
<1>4. CASE ProcessData
  BY <1>0, <1>4 DEF ProcessData, DownType, TakeGeneration
<1>5. CASE TakeGeneration
  BY <1>0, <1>5 DEF TakeGeneration, DownType
<1>6. CASE PageComplete
  BY <1>0, <1>6 DEF PageComplete, DownType, TakeGeneration
<1>7. CASE StopDownloader
  <2>1. down' = [down EXCEPT !.stop = TRUE]
    BY <1>7 DEF StopDownloader
  <2> QED BY <1>0, <2>1 DEF DownType, TakeGeneration
<1>8. CASE Abort
  <2>1. down' = [down EXCEPT !.stop = TRUE]
    BY <1>8 DEF Abort
  <2> QED BY <1>0, <2>1 DEF DownType, TakeGeneration
<1> QED BY <1>1, <1>2, <1>3, <1>4, <1>5, <1>6, <1>7, <1>8 DEF Silent

LEMMA DownloaderSteps ==
    ASSUME [Next]_vars
    PROVE  \/ Silent \/ WriteBatch \/ FeatureReceived \/ EndOfDownload \/ SignalEndOfDownload
           \/ ClearCache \/ Invalidate \/ UNCHANGED vars
           \/ \E r \in Readers :
                \/ Query(r) \/ Fetch(r) \/ Exhausted(r) \/ StartDownloader(r) \/ Rewind(r) \/ Close(r)
                \/ \E want \in AllRects, lim \in BOOLEAN :
                      Register(r, want, lim) \/ Replace(r, want, lim)
BY Steps DEF DownloaderStep, Silent

\* What one reader does leaves the others, the cache and the downloader as they are.
LEMMA OneReader ==
    ASSUME Types, NEW r \in Readers,
           \/ Query(r) \/ Fetch(r) \/ Exhausted(r) \/ Rewind(r) \/ Close(r)
           \/ \E want \in AllRects, lim \in BOOLEAN : Register(r, want, lim) \/ Replace(r, want, lim)
    PROVE  /\ \A q \in Readers \ {r} : readers'[q] = readers[q]
           /\ UNCHANGED <<finished, contents, down, history>>
           /\ gen' \in {gen, gen + 1}
<1>1. readers \in [Readers -> ReaderType]
  BY DEF Types
<1>2. ASSUME Query(r) \/ Fetch(r) \/ Exhausted(r) \/ Rewind(r) \/ Close(r)
      PROVE  \A q \in Readers \ {r} : readers'[q] = readers[q]
  BY <1>2, ReaderMoves
<1>3. ASSUME NEW want \in AllRects, NEW lim \in BOOLEAN, Register(r, want, lim) \/ Replace(r, want, lim)
      PROVE  \A q \in Readers \ {r} : readers'[q] = readers[q]
  BY <1>1, <1>3 DEF Register, Replace
<1>4. UNCHANGED <<finished, contents, down, history>> /\ gen' \in {gen, gen + 1}
  BY DEF Query, Fetch, Exhausted, Rewind, Close, Register, Replace, OnlyReaders, download
<1> QED BY <1>2, <1>3, <1>4

LEMMA StartDownloaderFields ==
    ASSUME Types, Connections, NEW r \in Readers, StartDownloader(r)
    PROVE  /\ \A q \in Readers \ {r} : readers'[q] = readers[q] /\ ~readers[q].connected
           /\ readers[r].pc = "stopping"
           /\ readers'[r].pc = "query" /\ readers'[r].want = readers[r].want
           /\ readers'[r].counter = gen /\ readers'[r].connected /\ ~readers'[r].ended
           /\ readers'[r].must = Cached \intersect In(readers[r].want)
           /\ readers'[r].buffer = {} /\ readers'[r].got = {} /\ readers'[r].twice = {}
           /\ readers'[r].told = readers[r].limited /\ readers'[r].covered = FALSE
           /\ gen' = gen + 1 /\ UNCHANGED <<cached, lost, rect, limited, regions, count, exact>>
           /\ down' = [NoDownloader EXCEPT !.pc = "start", !.for = <<rect, limited>>]
           /\ finished' = FALSE /\ ~Running
<1>1. readers \in [Readers -> ReaderType]
  BY DEF Types
<1>2. /\ readers[r].pc = "stopping" /\ ~Running
      /\ finished' = FALSE /\ gen' = gen + 1
      /\ UNCHANGED <<cached, lost, rect, limited, regions, count, exact>>
      /\ down' = [NoDownloader EXCEPT !.pc = "start", !.for = <<rect, limited>>]
      /\ \A q \in Readers \ {r} : readers'[q] = readers[q]
  BY <1>1 DEF StartDownloader, contents
<1>3. \A q \in Readers : ~readers[q].connected
  BY <1>2 DEF Connections
<1> DEFINE lim == readers[r].limited
           want == readers[r].want
<1>4. readers'[r] = [Connected(r, want, lim, FALSE) EXCEPT !.told = lim, !.raced = FALSE]
  BY <1>1 DEF StartDownloader
<1> HIDE DEF lim, want
<1>5. /\ readers'[r].pc = "query" /\ readers'[r].want = want
      /\ readers'[r].counter = gen /\ readers'[r].connected /\ ~readers'[r].ended
      /\ readers'[r].must = Cached \intersect In(want)
      /\ readers'[r].buffer = {} /\ readers'[r].got = {} /\ readers'[r].twice = {}
      /\ readers'[r].told = lim /\ readers'[r].covered = FALSE
  <2> DEFINE i == Connected(r, want, lim, FALSE)
  <2>1. i \in ReaderType
    <3>1. want \in AllRects /\ lim \in BOOLEAN
      BY <1>1 DEF lim, want, ReaderType
    <3> QED BY <3>1, IdleWith
  <2>2. /\ i.pc = "query" /\ i.want = want /\ i.counter = gen /\ i.connected /\ ~i.ended
        /\ i.must = Cached \intersect In(want)
        /\ i.buffer = {} /\ i.got = {} /\ i.twice = {} /\ i.covered = FALSE
    BY DEF Connected, Idle
  <2> HIDE DEF i
  <2>3. readers'[r] = [i EXCEPT !.told = lim, !.raced = FALSE]
    BY <1>4 DEF i
  <2> QED BY <2>1, <2>2, <2>3 DEF ReaderType
<1> QED BY <1>2, <1>3, <1>5 DEF lim, want

LEMMA RegisterFields ==
    ASSUME Types, NEW r \in Readers, NEW want \in AllRects, NEW lim \in BOOLEAN,
           Register(r, want, lim)
    PROVE  /\ readers'[r].pc = "query" /\ readers'[r].want = want
           /\ readers'[r].counter = (IF finished THEN -1 ELSE gen)
           /\ readers'[r].connected = ~finished /\ readers'[r].ended = finished
           /\ readers'[r].must = Cached \intersect In(want)
           /\ readers'[r].buffer = {} /\ readers'[r].got = {} /\ readers'[r].twice = {}
           /\ readers'[r].raced = BatchUnderWay
           /\ readers'[r].told = (lim \/ ToldBefore(want))
           /\ readers'[r].covered = (NewRectNeeded(want) /\ CoveredInFull(want))
           /\ gen' = (IF finished THEN gen ELSE gen + 1)
           /\ RegisterFree /\ gen < MaxGen /\ down.pc # "none" /\ ~NewDownloadNeeded(want, lim)
<1> DEFINE told == lim \/ ToldBefore(want)
           covered == NewRectNeeded(want) /\ CoveredInFull(want)
<1>1. readers'[r] = [Connected(r, want, lim, finished) EXCEPT !.told = told, !.covered = covered]
  BY DEF Register, Types
<1> HIDE DEF told, covered
<1>2. /\ readers'[r].pc = "query" /\ readers'[r].want = want
      /\ readers'[r].counter = (IF finished THEN -1 ELSE gen)
      /\ readers'[r].connected = ~finished /\ readers'[r].ended = finished
      /\ readers'[r].must = Cached \intersect In(want)
      /\ readers'[r].buffer = {} /\ readers'[r].got = {} /\ readers'[r].twice = {}
      /\ readers'[r].raced = BatchUnderWay
      /\ readers'[r].told = told /\ readers'[r].covered = covered
  BY <1>1 DEF Connected, Idle
<1> QED BY <1>2 DEF Register, told, covered

LEMMA NextBounds ==
    ASSUME Types, Phases, Registration, Connections, Bounds, [Next]_vars
    PROVE  Bounds'
<1> USE DEF Bounds
<1>0. /\ gen \in Nat /\ MaxGen \in Nat /\ readers \in [Readers -> ReaderType] /\ down \in DownType
      /\ cached \in [Cached -> Nat]
  BY BoundsAssumption DEF Types
<1>1. CASE Silent
  BY <1>0, <1>1, SilentSteps DEF Cached
<1>2. CASE WriteBatch
  <2>1. \A f \in Cached' : cached'[f] <= gen
    <3>1. down.gen \in Nat
      BY <1>0 DEF DownType
    <3> QED BY <1>0, <1>2, <3>1, WriteBatchCache DEF Cached
  <2>2. down'.gen = 0 /\ gen' = gen
    BY <1>0, <1>2 DEF WriteBatch, DownType
  <2> QED BY <1>0, <1>2, <2>1, <2>2, KeepRequests
<1>3. CASE FeatureReceived \/ EndOfDownload \/ SignalEndOfDownload
  <2>1. UNCHANGED <<gen, cached>>
    BY <1>3 DEF FeatureReceived, EndOfDownload, SignalEndOfDownload, contents
  <2>2. down'.gen <= gen
    <3>1. CASE FeatureReceived
      BY <1>0, <3>1 DEF FeatureReceived, DownType
    <3>2. CASE EndOfDownload
      BY <1>0, <3>2 DEF EndOfDownload, DownType
    <3>3. CASE SignalEndOfDownload
      <4>1. down'.gen = 0 /\ gen' = gen
        BY <3>3 DEF SignalEndOfDownload, NoDownloader
      <4> QED BY <1>0, <4>1
    <3> QED BY <1>3, <3>1, <3>2, <3>3
  <2> QED BY <1>0, <1>3, <2>1, <2>2, KeepRequests DEF Cached
<1>4. CASE ClearCache
  <2>1. gen' = 0 /\ Cached' = {} /\ down'.gen = 0
    BY <1>4 DEF ClearCache, Cached, NoDownloader
  <2> QED BY <1>0, <1>4, <2>1, KeepRequests
<1>5. CASE Invalidate \/ UNCHANGED vars
  BY <1>5 DEF Invalidate, vars, contents, Cached
<1>6. ASSUME NEW r \in Readers, StartDownloader(r) PROVE Bounds'
  <2>1. /\ readers[r].pc = "stopping" /\ readers'[r].pc = "query"
        /\ \A q \in Readers \ {r} : readers'[q] = readers[q]
        /\ readers'[r].counter = gen /\ readers'[r].got = {} /\ readers'[r].twice = {}
        /\ gen' = gen + 1 /\ UNCHANGED cached
    BY <1>6, StartDownloaderFields
  <2>2. gen <= MaxGen
    BY <2>1
  <2>3. \A q \in Readers : readers'[q].pc # "stopping"
    <3>1. \A q \in Readers : readers[q].pc = "stopping" => q = r
      BY <2>1 DEF Registration
    <3> QED BY <2>1, <3>1
  <2>4. down'.gen = 0
    BY <1>6 DEF StartDownloader, NoDownloader
  <2>5. \A q \in Readers : /\ readers'[q].counter <= MaxGen + 1
                          /\ readers'[q].twice \subseteq readers'[q].got
                          /\ readers'[q].got \subseteq In(readers'[q].want)
    BY <1>0, <2>1, <2>2
  <2>6. \A f \in Cached : cached[f] <= gen + 1
    BY <1>0
  <2> QED BY <1>0, <2>1, <2>2, <2>3, <2>4, <2>5, <2>6 DEF Cached
<1>7. ASSUME NEW r \in Readers, NEW want \in AllRects, NEW lim \in BOOLEAN, Register(r, want, lim)
      PROVE  Bounds'
  <2>1. /\ readers'[r].pc = "query" /\ readers'[r].counter \in {-1, gen}
        /\ readers'[r].got = {} /\ readers'[r].twice = {}
        /\ gen' \in {gen, gen + 1} /\ gen < MaxGen
    BY <1>7, RegisterFields
  <2>2. /\ \A q \in Readers \ {r} : readers'[q] = readers[q]
        /\ UNCHANGED <<cached, down>>
    BY <1>7, OneReader DEF contents
  <2>3. \A q \in Readers : /\ readers'[q].counter <= MaxGen + 1
                          /\ readers'[q].twice \subseteq readers'[q].got
                          /\ readers'[q].got \subseteq In(readers'[q].want)
    BY <1>0, <2>1, <2>2
  <2>4. \A f \in Cached : cached[f] <= gen'
    BY <1>0, <2>1
  <2>5. down.gen <= gen'
    <3>1. down.gen \in Nat
      BY <1>0 DEF DownType
    <3> QED BY <1>0, <2>1, <3>1
  <2> QED BY <1>0, <2>1, <2>2, <2>3, <2>4, <2>5 DEF Cached
<1>8. ASSUME NEW r \in Readers, NEW want \in AllRects, NEW lim \in BOOLEAN, Replace(r, want, lim)
      PROVE  Bounds'
  <2>1. /\ readers'[r].counter = -1 /\ readers'[r].twice = {} /\ readers'[r].got = {}
        /\ gen < MaxGen /\ gen' = gen
    BY <1>0, <1>8 DEF Replace, Idle
  <2> QED BY <1>0, <1>8, <2>1, OneReader DEF contents, Cached
<1>9. ASSUME NEW r \in Readers, Query(r) \/ Fetch(r) \/ Exhausted(r) \/ Rewind(r) \/ Close(r)
      PROVE  Bounds'
  <2>1. /\ \A q \in Readers \ {r} : readers'[q] = readers[q]
        /\ UNCHANGED <<cached, down>>
        /\ readers[r].pc # "stopping" /\ readers'[r].pc # "stopping"
    BY <1>9, OneReader, ReaderMoves DEF contents
  <2>2. readers[r] \in ReaderType
    BY <1>0
  <2>3. gen <= gen' /\ gen' <= MaxGen + 1 /\ (gen > MaxGen => gen' = gen)
        /\ ((\E q \in Readers : readers[q].pc = "stopping") => gen' <= MaxGen)
    BY <1>0, <1>9 DEF Query, Fetch, Exhausted, Rewind, Close
  <2>4. /\ readers'[r].counter <= MaxGen + 1
        /\ readers'[r].twice \subseteq readers'[r].got
        /\ readers'[r].got \subseteq In(readers'[r].want)
    <3>1. CASE Query(r)
      <4>1. readers[r].pc = "query" /\ readers[r].twice = {}
        BY <3>1 DEF Query, Connections
      <4> QED BY <1>0, <2>2, <3>1, <4>1 DEF Query, Becomes, ReaderType
    <3>2. CASE Fetch(r)
      BY <1>0, <2>2, <3>2 DEF Fetch, Becomes, ReaderType
    <3>3. CASE Exhausted(r)
      BY <1>0, <2>2, <3>3 DEF Exhausted, Becomes, ReaderType
    <3>4. CASE Rewind(r)
      BY <1>0, <2>2, <3>4 DEF Rewind, Becomes, ReaderType
    <3>5. CASE Close(r)
      BY <1>0, <3>5 DEF Close, Becomes, Idle
    <3> QED BY <1>9, <3>1, <3>2, <3>3, <3>4, <3>5
  <2>5. \A f \in Cached : cached[f] <= gen'
    BY <1>0, <1>9, OneReader
  <2>6. down.gen <= gen'
    <3>1. down.gen \in Nat
      BY <1>0 DEF DownType
    <3> QED BY <1>0, <2>3, <3>1, <1>9, OneReader
  <2> QED BY <1>0, <2>1, <2>3, <2>4, <2>5, <2>6 DEF Cached
<1> QED BY <1>1, <1>2, <1>3, <1>4, <1>5, <1>6, <1>7, <1>8, <1>9, DownloaderSteps

-----------------------------------------------------------------------------
(* What a reader must get. *)

\* A reader that the step leaves alone keeps what it is due.
LEMMA KeepsDue ==
    ASSUME NEW r \in Readers, readers'[r] = readers[r], UNCHANGED cached,
           readers[r].connected =>
              (down.pc = "emit" <=> down'.pc = "emit") /\ (down.pc = "emit" => down'.batch = down.batch),
           GetsAll(readers[r])
    PROVE  GetsAll(readers[r])'
BY DEF GetsAll, Have, Emitted, Cached

LEMMA NextMustCome ==
    ASSUME Types, Phases, Connections, Bounds, MustCome, [Next]_vars
    PROVE  MustCome'
<1>0. readers \in [Readers -> ReaderType] /\ down \in DownType
  BY DEF Types
<1> SUFFICES ASSUME AllStored', NEW r \in Readers, Reads(readers[r])'
             PROVE  GetsAll(readers[r])'
  BY DEF MustCome
<1>t. readers[r] \in ReaderType
  BY <1>0
<1>1. CASE Silent
  BY <1>1, SilentSteps, KeepsDue DEF MustCome, AllStored, Reads
<1>2. CASE WriteBatch
  <2>1. AllStored /\ GetsAll(readers[r])
    BY <1>2, WriteBatchCache, KeepRequests DEF MustCome, Reads
  <2>2. /\ Cached' = Cached \union NewFeatures /\ \A f \in Cached : cached'[f] = cached[f]
        /\ down.pc = "write" /\ down'.pc = "emit" /\ down'.batch = NewFeatures
        /\ down.batch \subseteq Cached \union NewFeatures /\ NewFeatures \subseteq down.batch
    BY <1>2, WriteBatchCache
  <2>3. /\ readers'[r].pc = readers[r].pc /\ readers'[r].want = readers[r].want
        /\ readers'[r].counter = readers[r].counter /\ readers'[r].got = readers[r].got
        /\ readers'[r].connected = readers[r].connected /\ readers'[r].buffer = readers[r].buffer
        /\ readers'[r].must = readers[r].must \union
              (IF readers[r].connected THEN down.batch \intersect In(readers[r].want) ELSE {})
    BY <1>2, KeepRequests, WriteBatchFields
  <2>4. /\ readers'[r].must \subseteq Cached' \intersect In(readers'[r].want)
        /\ readers'[r].connected => Cached' \intersect In(readers'[r].want) \subseteq readers'[r].must
    BY <2>1, <2>2, <2>3 DEF GetsAll
  <2>5. Have(readers[r]) \subseteq Have(readers[r])'
    BY <2>2, <2>3 DEF Have
  <2>6. Emitted(readers[r]) = {} /\ Emitted(readers[r])' = IF readers[r].connected THEN NewFeatures ELSE {}
    BY <2>2, <2>3 DEF Emitted
  <2>7. readers'[r].must \subseteq Have(readers[r])' \union readers'[r].buffer \union Emitted(readers[r])'
    <3>1. CASE ~readers[r].connected
      BY <2>1, <2>3, <2>5, <2>6, <3>1 DEF GetsAll
    <3>2. CASE readers[r].connected
      BY <2>1, <2>2, <2>3, <2>5, <2>6, <3>2 DEF GetsAll
    <3> QED BY <3>1, <3>2
  <2> QED BY <2>4, <2>7 DEF GetsAll
<1>3. CASE FeatureReceived
  <2>1. AllStored /\ GetsAll(readers[r])
    BY <1>3, FeatureReceivedDown, KeepRequests DEF MustCome, Reads, AllStored
  <2>2. Have(readers[r])' = Have(readers[r]) /\ Cached' = Cached
    BY <1>3, FeatureReceivedDown, KeepRequests DEF Have, Cached
  <2>3. readers'[r].buffer = readers[r].buffer \union Emitted(readers[r])
    BY <1>3, FeatureReceivedDown, FeatureReceivedFields DEF Emitted
  <2> QED BY <1>3, <2>1, <2>2, <2>3, KeepRequests, FeatureReceivedFields DEF GetsAll
<1>4. CASE EndOfDownload \/ SignalEndOfDownload
  <2>0. UNCHANGED cached /\ (AllStored' <=> AllStored) /\ down.pc # "emit" /\ down'.pc # "emit"
    BY <1>4, EndOfDownloadDown DEF SignalEndOfDownload, contents, history, AllStored, NoDownloader
  <2>1. AllStored /\ GetsAll(readers[r])
    BY <1>4, <2>0, KeepRequests DEF MustCome, Reads
  <2>2. /\ readers'[r].pc = readers[r].pc /\ readers'[r].want = readers[r].want
        /\ readers'[r].counter = readers[r].counter /\ readers'[r].got = readers[r].got
        /\ readers'[r].connected => readers[r].connected
        /\ readers'[r].buffer = readers[r].buffer
        /\ readers'[r].must = readers[r].must
    BY <1>4, KeepRequests, EndOfDownloadFields, SignalEndOfDownloadFields
  <2>3. /\ Have(readers[r])' = Have(readers[r]) /\ Cached' = Cached
        /\ Emitted(readers[r])' = {} /\ Emitted(readers[r]) = {}
    BY <2>0, <2>2 DEF Have, Emitted, Cached
  <2> QED BY <2>1, <2>2, <2>3 DEF GetsAll
<1>5. CASE ClearCache
  <2>1. readers[r].pc # "out" /\ ~Running
    BY <1>5, KeepRequests DEF Reads, ClearCache
  <2>2. readers'[r].must = {} /\ ~readers'[r].connected
    BY <1>5, <2>1, ClearCacheFields DEF Connections
  <2> QED BY <2>2 DEF GetsAll
<1>6. CASE Invalidate \/ UNCHANGED vars
  <2>1. UNCHANGED <<cached, lost, down, readers>>
    BY <1>6 DEF Invalidate, vars, contents, history
  <2> QED BY <2>1, KeepsDue DEF MustCome, AllStored, Reads
<1>7. ASSUME NEW q \in Readers, StartDownloader(q) PROVE GetsAll(readers[r])'
  <2>1. CASE q # r
    <3>1. readers'[r] = readers[r] /\ ~readers[r].connected /\ UNCHANGED <<cached, lost>>
      BY <1>7, <2>1, StartDownloaderFields
    <3> QED BY <3>1, KeepsDue DEF MustCome, AllStored, Reads
  <2>2. CASE q = r
    <3>1. /\ readers'[r].pc = "query" /\ readers'[r].counter = gen /\ UNCHANGED <<cached, lost>>
          /\ readers'[r].want = readers[r].want
          /\ readers'[r].must = Cached \intersect In(readers[r].want)
      BY <1>7, <2>2, StartDownloaderFields
    <3>2. Have(readers[r])' = Cached \intersect In(readers[r].want) /\ Cached' = Cached
      BY <3>1 DEF Have, Bounds, Cached
    <3> QED BY <3>1, <3>2 DEF GetsAll
  <2> QED BY <2>1, <2>2
<1>8. ASSUME NEW q \in Readers, NEW want \in AllRects, NEW lim \in BOOLEAN, Register(q, want, lim)
      PROVE  GetsAll(readers[r])'
  <2>0. UNCHANGED <<cached, lost, down>>
    BY <1>8 DEF Register, contents, history
  <2>1. CASE q # r
    <3>1. readers'[r] = readers[r]
      BY <1>8, <2>1, OneReader
    <3> QED BY <2>0, <3>1, KeepsDue DEF MustCome, AllStored, Reads
  <2>2. CASE q = r
    <3>1. /\ readers'[r].pc = "query" /\ readers'[r].counter \in {-1, gen}
          /\ readers'[r].want = want /\ readers'[r].must = Cached \intersect In(want)
      BY <1>8, <2>2, RegisterFields
    <3>2. Have(readers[r])' = Cached \intersect In(want) /\ Cached' = Cached
      BY <2>0, <3>1 DEF Have, Bounds, Cached
    <3> QED BY <3>1, <3>2 DEF GetsAll
  <2> QED BY <2>1, <2>2
<1>9. ASSUME NEW q \in Readers, NEW want \in AllRects, NEW lim \in BOOLEAN, Replace(q, want, lim)
      PROVE  GetsAll(readers[r])'
  <2>0. UNCHANGED <<cached, lost, down>>
    BY <1>9 DEF Replace, contents, history
  <2>1. readers'[q].pc = "stopping"
    BY <1>0, <1>9 DEF Replace, Idle
  <2>2. readers'[r] = readers[r]
    BY <1>9, <2>1, OneReader DEF Reads
  <2> QED BY <2>0, <2>2, KeepsDue DEF MustCome, AllStored, Reads
<1>10. ASSUME NEW q \in Readers, Query(q) \/ Fetch(q) \/ Exhausted(q) \/ Rewind(q) \/ Close(q)
       PROVE  GetsAll(readers[r])'
  <2>0. UNCHANGED <<cached, lost, down>>
    BY <1>10, OneReader DEF contents, history
  <2>1. CASE q # r
    <3>1. readers'[r] = readers[r]
      BY <1>10, <2>1, OneReader
    <3> QED BY <2>0, <3>1, KeepsDue DEF MustCome, AllStored, Reads
  <2>2. CASE q = r
    <3>1. Cached' = Cached /\ AllStored
      BY <2>0 DEF Cached, AllStored
    <3>2. CASE Query(r)
      <4>1. GetsAll(readers[r])
        BY <3>1, <3>2 DEF MustCome, Query, Reads
      <4>2. /\ readers'[r].pc = "fetch" /\ readers'[r].got = Have(readers[r])
            /\ readers'[r].buffer = readers[r].buffer /\ readers'[r].must = readers[r].must
            /\ readers'[r].want = readers[r].want /\ readers'[r].connected = readers[r].connected
        BY <1>0, <1>t, <3>2 DEF Query, Becomes, ReaderType, Have
      <4> QED BY <2>0, <3>1, <4>1, <4>2 DEF GetsAll, Have, Emitted
    <3>3. CASE Fetch(r)
      <4>1. GetsAll(readers[r])
        BY <3>1, <3>3 DEF MustCome, Fetch, Reads
      <4>2. /\ readers[r].pc = "fetch" /\ readers'[r].pc = "fetch"
            /\ readers'[r].got = readers[r].got \union (readers[r].buffer \intersect In(readers[r].want))
            /\ readers'[r].must = readers[r].must
            /\ readers'[r].want = readers[r].want /\ readers'[r].connected = readers[r].connected
        BY <1>0, <1>t, <3>3 DEF Fetch, Becomes, ReaderType
      <4> QED BY <2>0, <3>1, <4>1, <4>2 DEF GetsAll, Have, Emitted
    <3>4. CASE Exhausted(r)
      <4>1. GetsAll(readers[r])
        BY <3>1, <3>4 DEF MustCome, Exhausted, Reads
      <4>2. /\ readers[r].pc = "fetch" /\ readers'[r].pc = "done"
            /\ readers'[r].got = readers[r].got /\ readers'[r].buffer = readers[r].buffer
            /\ readers'[r].must = readers[r].must
            /\ readers'[r].want = readers[r].want /\ readers'[r].connected = readers[r].connected
        BY <1>0, <1>t, <3>4 DEF Exhausted, Becomes, ReaderType
      <4> QED BY <2>0, <3>1, <4>1, <4>2 DEF GetsAll, Have, Emitted
    <3>5. CASE Rewind(r)
      <4>1. GetsAll(readers[r])
        BY <3>1, <3>5 DEF MustCome, Rewind, Reads
      <4>2. /\ readers'[r].pc = "query" /\ readers'[r].counter = gen
            /\ readers'[r].must = readers[r].must \union (Cached \intersect In(readers[r].want))
            /\ readers'[r].want = readers[r].want /\ readers'[r].connected = readers[r].connected
        BY <1>0, <1>t, <3>5 DEF Rewind, Becomes, ReaderType
      <4>3. Have(readers[r])' = Cached \intersect In(readers[r].want)
        BY <2>0, <3>1, <4>2 DEF Have, Bounds
      <4> QED BY <2>0, <3>1, <4>1, <4>2, <4>3 DEF GetsAll
    <3>6. ~Close(r)
      BY <1>0 DEF Close, Becomes, Idle, Reads
    <3> QED BY <1>10, <2>2, <3>2, <3>3, <3>4, <3>5, <3>6
  <2> QED BY <2>1, <2>2
<1> QED BY <1>1, <1>2, <1>3, <1>4, <1>5, <1>6, <1>7, <1>8, <1>9, <1>10, DownloaderSteps

-----------------------------------------------------------------------------
(* What a reader gets once. *)

LEMMA KeepsOnce ==
    ASSUME NEW r \in Readers, readers'[r] = readers[r], UNCHANGED cached, gen \in Nat, gen' \in Nat,
           readers[r].counter \in Int,
           readers[r].connected =>
              /\ down.pc = "emit" <=> down'.pc = "emit"
              /\ down.pc = "emit" => down'.batch = down.batch
              /\ finished' = finished /\ gen <= gen'
              /\ down'.pc = "write" => down.pc = "write" /\ down'.gen = down.gen,
           GetsOnce(readers[r])
    PROVE  GetsOnce(readers[r])'
BY DEF GetsOnce, Emitted, Cached

LEMMA NextNoneTwice ==
    ASSUME Types, Phases, Connections, Bounds, NoneTwice, [Next]_vars
    PROVE  NoneTwice'
<1>0. readers \in [Readers -> ReaderType] /\ down \in DownType /\ gen \in Nat /\ gen' \in Nat
  BY NextTypes DEF Types
<1> SUFFICES ASSUME AllStored', NEW r \in Readers, Reads(readers[r])', ~readers'[r].raced
             PROVE  GetsOnce(readers[r])'
  BY DEF NoneTwice
<1>t. readers[r] \in ReaderType /\ readers[r].counter \in Int
  BY <1>0 DEF ReaderType
<1>1. CASE Silent
  <2>1. GetsOnce(readers[r])
    BY <1>1, SilentSteps DEF NoneTwice, AllStored, Reads
  <2>2. CASE TakeGeneration /\ readers[r].connected /\ readers[r].pc = "query"
    <3>1. ~finished /\ gen > readers[r].counter /\ down'.gen = gen
      BY <1>1, <2>1, <2>2, SilentSteps DEF TakeGeneration, Phases, GetsOnce
    <3> QED BY <1>0, <1>1, <2>1, <2>2, <3>1, SilentSteps DEF GetsOnce, Emitted, Cached
  <2>3. CASE ~(TakeGeneration /\ readers[r].connected /\ readers[r].pc = "query")
    BY <1>0, <1>1, <2>1, <2>3, SilentSteps DEF GetsOnce, Emitted, Cached
  <2> QED BY <2>2, <2>3
<1>2. CASE WriteBatch
  <2>2. /\ Cached' = Cached \union NewFeatures /\ \A f \in Cached : cached'[f] = cached[f]
        /\ \A f \in NewFeatures : cached'[f] = down.gen
        /\ NewFeatures \intersect Cached = {}
        /\ down.pc = "write" /\ down'.pc = "emit" /\ down'.batch = NewFeatures
        /\ gen' = gen /\ finished' = finished
    BY <1>2, WriteBatchCache DEF WriteBatch, download
  <2>3. /\ readers'[r].pc = readers[r].pc
        /\ readers'[r].counter = readers[r].counter /\ readers'[r].got = readers[r].got
        /\ readers'[r].twice = readers[r].twice /\ readers'[r].raced = readers[r].raced
        /\ readers'[r].connected = readers[r].connected /\ readers'[r].buffer = readers[r].buffer
    BY <1>2, KeepRequests, WriteBatchFields
  <2>1. GetsOnce(readers[r])
    BY <1>2, <2>3, WriteBatchCache DEF NoneTwice, Reads
  <2>4. Emitted(readers[r]) = {} /\ Emitted(readers[r])' = IF readers[r].connected THEN NewFeatures ELSE {}
    BY <2>2, <2>3 DEF Emitted
  <2>5. readers'[r].pc = "query" => \A f \in readers'[r].buffer \union Emitted(readers[r])' :
                                      cached'[f] > readers'[r].counter
    BY <2>1, <2>2, <2>3, <2>4 DEF GetsOnce
  <2>6. readers'[r].got \union readers'[r].buffer \subseteq Cached
    BY <2>1, <2>3 DEF GetsOnce
  <2>7. /\ readers'[r].twice = {}
        /\ readers'[r].got \union readers'[r].buffer \union Emitted(readers[r])' \subseteq Cached'
        /\ readers'[r].buffer \intersect Emitted(readers[r])' = {}
        /\ readers'[r].pc # "query" =>
             readers'[r].got \intersect (readers'[r].buffer \union Emitted(readers[r])') = {}
    BY <2>1, <2>2, <2>3, <2>4, <2>6 DEF GetsOnce
  <2>8. readers'[r].pc = "query" =>
           /\ readers'[r].counter < 0 => ~readers'[r].connected /\ readers'[r].buffer = {}
           /\ readers'[r].connected /\ ~finished' => gen' > readers'[r].counter
    BY <2>1, <2>2, <2>3 DEF GetsOnce
  <2> QED BY <2>2, <2>5, <2>7, <2>8 DEF GetsOnce
<1>3. CASE FeatureReceived
  <2>1. GetsOnce(readers[r])
    BY <1>3, FeatureReceivedDown, FeatureReceivedFields, KeepRequests DEF NoneTwice, Reads, AllStored
  <2>2. /\ Cached' = Cached /\ UNCHANGED <<cached, gen, finished>>
        /\ Emitted(readers[r])' = {} /\ down'.pc # "write"
    BY <1>3, FeatureReceivedDown DEF Emitted, Cached
  <2>3. /\ readers'[r].buffer = readers[r].buffer \union Emitted(readers[r])
        /\ readers'[r].pc = readers[r].pc
        /\ readers'[r].counter = readers[r].counter /\ readers'[r].got = readers[r].got
        /\ readers'[r].twice = readers[r].twice /\ readers'[r].connected = readers[r].connected
    BY <1>3, FeatureReceivedDown, FeatureReceivedFields, KeepRequests DEF Emitted
  <2>4. ~readers[r].connected => Emitted(readers[r]) = {}
    BY DEF Emitted
  <2> QED BY <2>1, <2>2, <2>3, <2>4 DEF GetsOnce
<1>4. CASE EndOfDownload \/ SignalEndOfDownload
  <2>0. /\ UNCHANGED <<cached, gen>> /\ (AllStored' <=> AllStored) /\ finished'
        /\ down.pc # "emit" /\ down'.pc \notin {"emit", "write"}
    BY <1>4, EndOfDownloadDown DEF SignalEndOfDownload, contents, history, download, AllStored,
                                   NoDownloader, Phases
  <2>2. /\ readers'[r].pc = readers[r].pc /\ readers'[r].raced = readers[r].raced
        /\ readers'[r].counter = readers[r].counter /\ readers'[r].got = readers[r].got
        /\ readers'[r].twice = readers[r].twice
        /\ readers'[r].connected => readers[r].connected
        /\ readers'[r].buffer = readers[r].buffer
    BY <1>4, KeepRequests, EndOfDownloadFields, SignalEndOfDownloadFields
  <2>1. GetsOnce(readers[r])
    BY <2>0, <2>2 DEF NoneTwice, Reads
  <2>3. Cached' = Cached /\ Emitted(readers[r])' = {} /\ Emitted(readers[r]) = {}
    BY <2>0, <2>2 DEF Emitted, Cached
  <2> QED BY <2>0, <2>1, <2>2, <2>3 DEF GetsOnce
<1>5. CASE ClearCache
  <2>1. readers[r].pc # "out"
    BY <1>5, KeepRequests DEF Reads, ClearCache
  <2> QED BY <1>5, <2>1, ClearCacheFields
<1>6. CASE Invalidate \/ UNCHANGED vars
  <2>1. UNCHANGED <<cached, lost, down, readers, gen, finished>>
    BY <1>6 DEF Invalidate, vars, contents, history, download
  <2> QED BY <1>0, <1>t, <2>1, KeepsOnce DEF NoneTwice, AllStored, Reads
<1>7. ASSUME NEW q \in Readers, StartDownloader(q) PROVE GetsOnce(readers[r])'
  <2>1. CASE q # r
    <3>1. readers'[r] = readers[r] /\ ~readers[r].connected /\ UNCHANGED <<cached, lost>>
      BY <1>7, <2>1, StartDownloaderFields
    <3> QED BY <1>0, <1>t, <3>1, KeepsOnce DEF NoneTwice, AllStored, Reads
  <2>2. CASE q = r
    <3>1. /\ readers'[r].pc = "query" /\ readers'[r].counter = gen /\ gen' = gen + 1
          /\ readers'[r].buffer = {} /\ readers'[r].got = {} /\ readers'[r].twice = {}
          /\ down' = [NoDownloader EXCEPT !.pc = "start", !.for = <<rect, limited>>]
      BY <1>7, <2>2, StartDownloaderFields
    <3>2. down'.pc = "start"
      BY <3>1 DEF NoDownloader
    <3> QED BY <1>0, <3>1, <3>2 DEF GetsOnce, Emitted
  <2> QED BY <2>1, <2>2
<1>8. ASSUME NEW q \in Readers, NEW want \in AllRects, NEW lim \in BOOLEAN, Register(q, want, lim)
      PROVE  GetsOnce(readers[r])'
  <2>0. UNCHANGED <<cached, lost, down, finished>> /\ gen <= gen'
    BY <1>0, <1>8, OneReader DEF contents, history
  <2>1. CASE q # r
    <3>1. readers'[r] = readers[r]
      BY <1>8, <2>1, OneReader
    <3> QED BY <1>0, <1>t, <2>0, <3>1, KeepsOnce DEF NoneTwice, AllStored, Reads
  <2>2. CASE q = r
    <3>1. /\ readers'[r].pc = "query" /\ readers'[r].counter = (IF finished THEN -1 ELSE gen)
          /\ readers'[r].connected = ~finished
          /\ gen' = (IF finished THEN gen ELSE gen + 1)
          /\ readers'[r].buffer = {} /\ readers'[r].got = {} /\ readers'[r].twice = {}
      BY <1>8, <2>2, RegisterFields
    <3>2. down'.pc \notin {"write", "emit"}
      <4>1. readers'[r].raced = BatchUnderWay
        BY <1>8, <2>2, RegisterFields
      <4>2. ~BatchUnderWay
        BY <4>1
      <4> QED BY <2>0, <4>2 DEF BatchUnderWay
    <3>3. Emitted(readers[r])' = {}
      BY <3>2 DEF Emitted
    <3>5. CASE finished
      BY <1>0, <2>0, <3>1, <3>2, <3>3, <3>5 DEF GetsOnce
    <3>6. CASE ~finished
      BY <1>0, <2>0, <3>1, <3>2, <3>3, <3>6 DEF GetsOnce
    <3> QED BY <3>5, <3>6
  <2> QED BY <2>1, <2>2
<1>9. ASSUME NEW q \in Readers, NEW want \in AllRects, NEW lim \in BOOLEAN, Replace(q, want, lim)
      PROVE  GetsOnce(readers[r])'
  <2>0. UNCHANGED <<cached, lost, down, gen, finished>>
    BY <1>9 DEF Replace, contents, history
  <2>1. readers'[q].pc = "stopping"
    BY <1>0, <1>9 DEF Replace, Idle
  <2>2. readers'[r] = readers[r]
    BY <1>9, <2>1, OneReader DEF Reads
  <2> QED BY <1>0, <1>t, <2>0, <2>2, KeepsOnce DEF NoneTwice, AllStored, Reads
<1>10. ASSUME NEW q \in Readers, Query(q) \/ Fetch(q) \/ Exhausted(q) \/ Rewind(q) \/ Close(q)
       PROVE  GetsOnce(readers[r])'
  <2>0. UNCHANGED <<cached, lost, down, finished>> /\ gen <= gen'
    BY <1>0, <1>10, OneReader DEF contents, history
  <2>1. CASE q # r
    <3>1. readers'[r] = readers[r]
      BY <1>10, <2>1, OneReader
    <3> QED BY <1>0, <1>t, <2>0, <3>1, KeepsOnce DEF NoneTwice, AllStored, Reads
  <2>2. CASE q = r
    <3>1. Cached' = Cached /\ AllStored
      BY <2>0 DEF Cached, AllStored
    <3>2. CASE Query(r)
      <4>1. /\ readers'[r].pc = "fetch" /\ readers'[r].got = Have(readers[r])
            /\ readers'[r].buffer = readers[r].buffer /\ readers'[r].twice = readers[r].twice
            /\ readers'[r].connected = readers[r].connected /\ readers[r].pc = "query"
            /\ readers'[r].raced = readers[r].raced
        BY <1>0, <1>t, <3>2 DEF Query, Becomes, ReaderType, Have
      <4>2. GetsOnce(readers[r])
        BY <3>1, <3>2, <4>1 DEF NoneTwice, Query, Reads
      <4>3. Emitted(readers[r])' = Emitted(readers[r])
        BY <2>0, <4>1 DEF Emitted
      <4>4. Have(readers[r]) \intersect (readers[r].buffer \union Emitted(readers[r])) = {}
        <5>1. ASSUME NEW f \in Have(readers[r]), f \in readers[r].buffer \union Emitted(readers[r])
              PROVE  FALSE
          <6>1. cached[f] > readers[r].counter /\ cached[f] \in Nat
            BY <4>1, <4>2, <5>1 DEF GetsOnce, Have, Types
          <6>2. readers[r].counter >= 0
            BY <1>t, <4>1, <4>2, <5>1 DEF GetsOnce, Emitted
          <6>3. cached[f] <= readers[r].counter
            BY <4>1, <5>1, <6>2 DEF Have
          <6> QED BY <1>t, <6>1, <6>3
        <5> QED BY <5>1
      <4>5. Have(readers[r]) \subseteq Cached
        BY <4>1 DEF Have
      <4> QED BY <3>1, <4>1, <4>2, <4>3, <4>4, <4>5 DEF GetsOnce
    <3>3. CASE Fetch(r)
      <4>1. /\ readers[r].pc = "fetch" /\ readers'[r].pc = "fetch"
            /\ readers'[r].got = readers[r].got \union (readers[r].buffer \intersect In(readers[r].want))
            /\ readers'[r].buffer = {}
            /\ readers'[r].twice = readers[r].twice \union
                  (readers[r].got \intersect (readers[r].buffer \intersect In(readers[r].want)))
            /\ readers'[r].connected = readers[r].connected /\ readers'[r].raced = readers[r].raced
        BY <1>0, <1>t, <3>3 DEF Fetch, Becomes, ReaderType
      <4>2. GetsOnce(readers[r])
        BY <3>1, <4>1 DEF NoneTwice, Reads
      <4>3. Emitted(readers[r])' = Emitted(readers[r])
        BY <2>0, <4>1 DEF Emitted
      <4> QED BY <3>1, <4>1, <4>2, <4>3 DEF GetsOnce
    <3>4. CASE Exhausted(r)
      <4>1. /\ readers[r].pc = "fetch" /\ readers'[r].pc = "done"
            /\ readers'[r].got = readers[r].got /\ readers'[r].buffer = readers[r].buffer
            /\ readers'[r].twice = readers[r].twice
            /\ readers'[r].connected = readers[r].connected /\ readers'[r].raced = readers[r].raced
        BY <1>0, <1>t, <3>4 DEF Exhausted, Becomes, ReaderType
      <4>2. GetsOnce(readers[r])
        BY <3>1, <4>1 DEF NoneTwice, Reads
      <4>3. Emitted(readers[r])' = Emitted(readers[r])
        BY <2>0, <4>1 DEF Emitted
      <4> QED BY <3>1, <4>1, <4>2, <4>3 DEF GetsOnce
    <3>5. CASE Rewind(r)
      <4>1. /\ readers'[r].pc = "query" /\ readers'[r].counter = gen
            /\ readers'[r].got = {} /\ readers'[r].twice = {}
            /\ readers'[r].buffer = readers[r].buffer
            /\ readers'[r].connected = readers[r].connected
            /\ readers[r].buffer = {}
            /\ ~(readers[r].connected /\ BatchUnderWay)
            /\ gen' = (IF finished THEN gen ELSE gen + 1)
        BY <1>0, <1>t, <3>5 DEF Rewind, Becomes, ReaderType
      <4>2. Emitted(readers[r])' = {} /\ (readers[r].connected => down'.pc # "write")
        BY <2>0, <4>1 DEF Emitted, BatchUnderWay
      <4> QED BY <1>0, <2>0, <4>1, <4>2 DEF GetsOnce
    <3>6. ~Close(r)
      BY <1>0 DEF Close, Becomes, Idle, Reads
    <3> QED BY <1>10, <2>2, <3>2, <3>3, <3>4, <3>5, <3>6
  <2> QED BY <2>1, <2>2
<1> QED BY <1>1, <1>2, <1>3, <1>4, <1>5, <1>6, <1>7, <1>8, <1>9, <1>10, DownloaderSteps

-----------------------------------------------------------------------------
(* What the cache says of itself. *)

LEMMA NextSentCached ==
    ASSUME Types, Phases, SentCached, [Next]_vars
    PROVE  SentCached'
<1>0. down \in DownType
  BY DEF Types
<1> SUFFICES ASSUME AllStored'
             PROVE  /\ down'.sent \subseteq Cached'
                    /\ down'.page \subseteq Cached' \union down'.todo
                         \union (IF down'.pc \in {"serialize", "write"} THEN down'.batch ELSE {})
  BY DEF SentCached
<1>1. CASE Silent
  <2>0. AllStored /\ Cached' = Cached
    BY <1>1, SilentSteps DEF AllStored, Cached
  <2>1. CASE ReadLimit
    BY <1>0, <2>0, <2>1 DEF ReadLimit, DownType, SentCached
  <2>2. CASE SendRequest
    BY <2>0, <2>2, SendRequestDown DEF SentCached
  <2>3. CASE Interrupted \/ RequestFails
    BY <2>0, <2>3, FailureDown DEF SentCached
  <2>4. CASE ProcessData
    <3>1. CASE down.todo = {}
      BY <1>0, <2>0, <2>4, <3>1 DEF ProcessData, DownType, SentCached
    <3>2. ASSUME NEW batch \in SUBSET down.todo, down.pc = "read",
                 down' = [down EXCEPT !.pc = "serialize", !.batch = batch, !.todo = @ \ batch]
          PROVE  /\ down'.pc = "serialize" /\ down'.batch = batch /\ down'.todo = down.todo \ batch
                 /\ down'.sent = down.sent /\ down'.page = down.page
      BY <1>0, <3>2 DEF DownType
    <3>3. CASE down.todo # {}
      <4>1. PICK batch \in SUBSET down.todo :
                down' = [down EXCEPT !.pc = "serialize", !.batch = batch, !.todo = @ \ batch]
        BY <2>4, <3>3 DEF ProcessData
      <4>2. down.pc = "read"
        BY <2>4 DEF ProcessData
      <4>3. /\ down'.pc = "serialize" /\ down'.batch = batch /\ down'.todo = down.todo \ batch
            /\ down'.sent = down.sent /\ down'.page = down.page
        BY <3>2, <4>1, <4>2
      <4>4. down.page \subseteq Cached \union down.todo
        BY <2>0, <4>2 DEF SentCached
      <4> QED BY <2>0, <4>3, <4>4 DEF SentCached
    <3> QED BY <3>1, <3>3
  <2>5. CASE TakeGeneration
    BY <1>0, <2>0, <2>5 DEF TakeGeneration, DownType, SentCached
  <2>6. CASE PageComplete
    <3>1. /\ down.pc = "page" /\ down'.sent = down.sent \union down.page /\ down'.page = {}
      BY <1>0, <2>6 DEF PageComplete, DownType
    <3>2. down.todo = {}
      BY <3>1 DEF Phases
    <3> QED BY <2>0, <3>1, <3>2 DEF SentCached
  <2>7. CASE StopDownloader \/ Abort
    <3>1. down' = [down EXCEPT !.stop = TRUE]
      BY <2>7 DEF StopDownloader, Abort
    <3> QED BY <1>0, <2>0, <3>1 DEF DownType, SentCached
  <2> QED BY <1>1, <2>1, <2>2, <2>3, <2>4, <2>5, <2>6, <2>7 DEF Silent
<1>2. CASE WriteBatch
  BY <1>2, WriteBatchCache DEF SentCached
<1>3. CASE FeatureReceived
  BY <1>3, FeatureReceivedDown DEF SentCached, AllStored, Cached
<1>4. CASE EndOfDownload
  BY <1>4, EndOfDownloadDown DEF SentCached, Cached
<1>5. CASE SignalEndOfDownload \/ ClearCache \/ \E r \in Readers : StartDownloader(r)
  <2>1. down'.sent = {} /\ down'.page = {}
    <3>1. CASE SignalEndOfDownload
      BY <3>1 DEF SignalEndOfDownload, NoDownloader
    <3>2. CASE ClearCache
      BY <3>2 DEF ClearCache, NoDownloader
    <3>3. CASE \E r \in Readers : StartDownloader(r)
      BY <3>3 DEF StartDownloader, NoDownloader
    <3> QED BY <1>5, <3>1, <3>2, <3>3
  <2> QED BY <2>1
<1>6. ASSUME UNCHANGED <<cached, lost, down>>
      PROVE  /\ down'.sent \subseteq Cached'
             /\ down'.page \subseteq Cached' \union down'.todo
                  \union (IF down'.pc \in {"serialize", "write"} THEN down'.batch ELSE {})
  BY <1>6 DEF SentCached, AllStored, Cached
<1>7. ASSUME NEW q \in Readers, NEW want \in AllRects, NEW lim \in BOOLEAN,
             Register(q, want, lim) \/ Replace(q, want, lim)
      PROVE  UNCHANGED <<cached, lost, down>>
  BY <1>7 DEF Register, Replace, contents, history
<1>8. ASSUME NEW q \in Readers, Query(q) \/ Fetch(q) \/ Exhausted(q) \/ Rewind(q) \/ Close(q)
      PROVE  UNCHANGED <<cached, lost, down>>
  BY <1>8 DEF Query, Fetch, Exhausted, Rewind, Close, OnlyReaders, contents, history
<1>9. Invalidate \/ UNCHANGED vars => UNCHANGED <<cached, lost, down>>
  BY DEF Invalidate, vars, contents, history
<1> QED BY <1>1, <1>2, <1>3, <1>4, <1>5, <1>6, <1>7, <1>8, <1>9, DownloaderSteps

\* A download that ends well has brought its rectangle, and that is still mRect.
LEMMA EndedWell ==
    ASSUME Types, Registration, SentCached, EndOfDownload, Truthful'
    PROVE  /\ Short <=> ~down.success \/ down.truncated
           /\ ~Short => /\ down.for = <<rect, limited>>
                        /\ \A r \in Readers : readers[r].pc # "stopping"
                        /\ limited \/ In(rect) \subseteq Cached
<1>1. /\ down.success => down.for = <<rect, limited>>
      /\ down.success /\ ~down.truncated => ~Unsent(down.sent)
      /\ down.pc = "end" /\ AllStored
  BY DEF EndOfDownload, Truthful, AllStored
<1>2. Short <=> ~down.success \/ down.truncated
  BY <1>1 DEF Short
<1>3. ASSUME ~Short
      PROVE  /\ down.for = <<rect, limited>>
             /\ \A r \in Readers : readers[r].pc # "stopping"
             /\ limited \/ In(rect) \subseteq Cached
  <2>1. down.success /\ ~down.truncated /\ down.for = <<rect, limited>> /\ ~Unsent(down.sent)
    BY <1>1, <1>2, <1>3
  <2>2. Running
    BY <1>1 DEF Running
  <2>3. down.limited = limited /\ \A r \in Readers : readers[r].pc # "stopping"
    BY <1>1, <2>1, <2>2 DEF Registration
  <2>4. limited \/ In(rect) \subseteq down.sent
    <3>1. down.for[1] = rect
      BY <2>1
    <3> QED BY <2>1, <2>3, <3>1 DEF Unsent
  <2> QED BY <1>1, <2>1, <2>3, <2>4 DEF SentCached
<1> QED BY <1>2, <1>3

\* Only these steps change what the cache says of itself.
LEMMA Unchanged ==
    ASSUME Types, [Next]_vars, ~WriteBatch, ~EndOfDownload, ~ClearCache
    PROVE  UNCHANGED <<cached, lost, regions, count, exact>>
<1>1. CASE Silent
  BY <1>1, SilentSteps
<1>2. CASE FeatureReceived \/ SignalEndOfDownload \/ Invalidate \/ UNCHANGED vars
  BY <1>2 DEF FeatureReceived, SignalEndOfDownload, Invalidate, vars, contents, history
<1>3. ASSUME NEW q \in Readers, NEW want \in AllRects, NEW lim \in BOOLEAN,
             Register(q, want, lim) \/ Replace(q, want, lim)
      PROVE  UNCHANGED <<cached, lost, regions, count, exact>>
  BY <1>3 DEF Register, Replace, contents, history
<1>4. ASSUME NEW q \in Readers,
             Query(q) \/ Fetch(q) \/ Exhausted(q) \/ Rewind(q) \/ Close(q) \/ StartDownloader(q)
      PROVE  UNCHANGED <<cached, lost, regions, count, exact>>
  BY <1>4 DEF Query, Fetch, Exhausted, Rewind, Close, StartDownloader, OnlyReaders, contents, history
<1> QED BY <1>1, <1>2, <1>3, <1>4, DownloaderSteps

LEMMA NextRegionsCached ==
    ASSUME Types, Registration, SentCached, RegionsCached, [Next]_vars
    PROVE  RegionsCached'
<1>1. CASE WriteBatch
  <2>1. Truthful' => Truthful /\ Cached \subseteq Cached'
    BY <1>1, WriteBatchCache DEF Truthful, AllStored
  <2>2. regions' = regions
    BY <1>1 DEF WriteBatch, Counted
  <2> QED BY <2>1, <2>2 DEF RegionsCached
<1>2. CASE EndOfDownload
  <2> SUFFICES ASSUME Truthful', NEW g \in regions', g.full PROVE g.rect \subseteq Cached'
    BY DEF RegionsCached
  <2>0. Truthful /\ Cached' = Cached /\ regions' = Remembered
    BY <1>2, EndOfDownloadDown DEF Truthful, Cached, EndOfDownload
  <2>1. CASE g \in regions
    BY <2>0, <2>1 DEF RegionsCached
  <2>2. CASE g \notin regions
    <3>1. g = [rect |-> rect, full |-> ~down.truncated] /\ down.success /\ rect # Whole /\ ~limited
      BY <2>0, <2>2 DEF Remembered
    <3>2. g.rect = rect /\ ~down.truncated
      BY <3>1
    <3>3. In(rect) \subseteq Cached
      BY <1>2, <3>1, <3>2, EndedWell
    <3> QED BY <2>0, <3>1, <3>2, <3>3 DEF In
  <2> QED BY <2>1, <2>2
<1>3. CASE ClearCache
  BY <1>3 DEF ClearCache, RegionsCached
<1>4. CASE ~WriteBatch /\ ~EndOfDownload /\ ~ClearCache
  BY <1>4, Unchanged DEF RegionsCached, Truthful, Cached
<1> QED BY <1>1, <1>2, <1>3, <1>4

LEMMA NextFinishedCached ==
    ASSUME Types, Phases, Registration, Connections, SentCached, FinishedCached, [Next]_vars
    PROVE  FinishedCached'
<1>0. readers \in [Readers -> ReaderType]
  BY DEF Types
<1> SUFFICES ASSUME Truthful', finished', ~failed', \A r \in Readers : readers'[r].pc # "stopping"
             PROVE  limited' \/ In(rect') \subseteq Cached'
  BY DEF FinishedCached
<1>1. CASE EndOfDownload
  BY <1>1, EndedWell, EndOfDownloadDown DEF EndOfDownload, Cached
<1>2. CASE WriteBatch
  BY <1>2, WriteBatchCache DEF WriteBatch, Phases, download
<1>3. CASE ClearCache
  BY <1>3 DEF ClearCache
<1>4. ASSUME NEW r \in Readers, StartDownloader(r) PROVE FALSE
  BY <1>4 DEF StartDownloader
<1>5. ASSUME NEW r \in Readers, NEW want \in AllRects, NEW lim \in BOOLEAN, Replace(r, want, lim)
      PROVE  FALSE
  BY <1>0, <1>5 DEF Replace, Idle
<1>6. ASSUME UNCHANGED <<rect, limited, finished, failed, cached, lost>>,
             \A r \in Readers : readers[r].pc = "stopping" => readers'[r].pc = "stopping"
      PROVE  limited' \/ In(rect') \subseteq Cached'
  BY <1>6 DEF FinishedCached, Truthful, Cached
<1>7. CASE Silent
  BY <1>6, <1>7, SilentSteps
<1>8. CASE FeatureReceived \/ SignalEndOfDownload
  <2>1. UNCHANGED <<rect, limited, finished, failed, cached, lost>>
    BY <1>8 DEF FeatureReceived, SignalEndOfDownload, download, contents, history
  <2> QED BY <1>6, <1>8, <2>1, KeepRequests
<1>9. CASE Invalidate \/ UNCHANGED vars
  BY <1>6, <1>9 DEF Invalidate, vars, download, contents, history
<1>10. ASSUME NEW r \in Readers,
              \/ Query(r) \/ Fetch(r) \/ Exhausted(r) \/ Rewind(r) \/ Close(r)
              \/ \E want \in AllRects, lim \in BOOLEAN : Register(r, want, lim)
       PROVE  limited' \/ In(rect') \subseteq Cached'
  <2>1. UNCHANGED <<rect, limited, finished, failed, cached, lost>>
    BY <1>10 DEF Query, Fetch, Exhausted, Rewind, Close, Register, OnlyReaders, download, contents,
                 history
  <2>2. readers[r].pc # "stopping"
    BY <1>10, ReaderMoves DEF Register
  <2>3. \A q \in Readers \ {r} : readers'[q] = readers[q]
    BY <1>10, OneReader
  <2> QED BY <1>6, <2>1, <2>2, <2>3
<1> QED BY <1>1, <1>2, <1>3, <1>4, <1>5, <1>7, <1>8, <1>9, <1>10, DownloaderSteps

LEMMA NextCounts ==
    ASSUME Types, Registration, SentCached, Counts, [Next]_vars
    PROVE  Counts'
<1>0. /\ count \in Nat /\ Cached \subseteq Features /\ down.batch \subseteq Features
      /\ rect \in AllRects
      /\ \A S \in SUBSET Features : IsFiniteSet(S) /\ Cardinality(S) \in Nat
  BY FeaturesAssumption, FS_Subset, FS_CardinalityType DEF Types, DownType
<1> SUFFICES ASSUME lost' = {}
             PROVE  count' = Cardinality(Cached') /\ (exact' => Cached' = Features)
  BY DEF Counts
<1>1. CASE WriteBatch
  <2>1. lost = {} /\ Cached' = Cached \union NewFeatures /\ NewFeatures \intersect Cached = {}
        /\ NewFeatures \subseteq Features
    BY <1>0, <1>1, WriteBatchCache DEF AllStored
  <2>2. ~(limited /\ NewFeatures # {}) /\ exact' = exact
    BY <1>1 DEF WriteBatch, Counted
  <2>3. count = Cardinality(Cached) /\ (exact => Cached = Features)
    BY <2>1 DEF Counts
  <2>4. CASE NewFeatures = {}
    <3>1. Cardinality(NewFeatures) = 0
      BY <2>4, FS_EmptySet
    <3>2. count' = count
      BY <1>0, <1>1, <3>1 DEF WriteBatch, Counted
    <3> QED BY <2>1, <2>2, <2>3, <2>4, <3>2
  <2>5. CASE NewFeatures # {}
    <3>1. ~limited /\ ~exact
      BY <2>1, <2>2, <2>3, <2>5
    <3>2. count' = count + Cardinality(NewFeatures)
      BY <1>1, <3>1 DEF WriteBatch, Counted
    <3>3. Cardinality(Cached \union NewFeatures) =
             Cardinality(Cached) + Cardinality(NewFeatures) - Cardinality(Cached \intersect NewFeatures)
      BY <1>0, <2>1, FS_Union
    <3>4. Cardinality(Cached \intersect NewFeatures) = 0
      BY <2>1, FS_EmptySet
    <3> QED BY <1>0, <2>1, <2>2, <2>3, <3>1, <3>2, <3>3, <3>4
  <2> QED BY <2>4, <2>5
<1>2. CASE EndOfDownload
  <2>1. lost = {} /\ Cached' = Cached /\ count' = count /\ Truthful'
    BY <1>2, EndOfDownloadDown DEF Cached, Truthful
  <2>2. CASE exact
    BY <2>1, <2>2 DEF Counts
  <2>3. CASE CountIsExact
    <3>1. In(rect) \subseteq Cached /\ rect = Whole
      BY <1>2, <2>1, <2>3, EndedWell DEF CountIsExact
    <3>2. Cached = Features
      BY <1>0, <3>1 DEF In
    <3> QED BY <2>1, <3>2 DEF Counts
  <2>4. CASE ~exact /\ ~CountIsExact
    BY <1>2, <2>1, <2>4 DEF Counts, EndOfDownload
  <2> QED BY <2>2, <2>3, <2>4
<1>3. CASE ClearCache
  <2>1. count' = 0 /\ Cached' = {} /\ ~exact'
    BY <1>3 DEF ClearCache, Cached
  <2> QED BY <2>1, FS_EmptySet
<1>4. CASE ~WriteBatch /\ ~EndOfDownload /\ ~ClearCache
  BY <1>4, Unchanged DEF Counts, Cached
<1> QED BY <1>1, <1>2, <1>3, <1>4

\* What a reader is due is known when it registers, or when its download ends.
LEMMA NextServed ==
    ASSUME Types, Phases, Registration, Connections, MustCome, SentCached, RegionsCached,
           FinishedCached, Served, [Next]_vars
    PROVE  Served'
<1>0. readers \in [Readers -> ReaderType] /\ down \in DownType
  BY DEF Types
<1> SUFFICES ASSUME Truthful', NEW r \in Readers, Reads(readers[r])', ~readers'[r].told
             PROVE  Due(readers[r])'
  BY DEF Served
<1>t. readers[r] \in ReaderType
  BY <1>0
\* A reader that the step leaves alone.
<1>a. ASSUME Truthful, UNCHANGED finished, down'.for = down.for, readers'[r] = readers[r]
      PROVE  Due(readers[r])'
  BY <1>a DEF Served, Due, Reads
<1>1. CASE Silent
  BY <1>1, <1>a, SilentSteps DEF Truthful
<1>2. CASE WriteBatch
  <2>1. Truthful /\ finished' = finished /\ down'.for = down.for
    BY <1>0, <1>2, WriteBatchCache DEF Truthful, WriteBatch, DownType, download
  <2>2. Reads(readers[r]) /\ ~readers[r].told
    BY <1>2, KeepRequests, WriteBatchFields DEF Reads
  <2>3. Due(readers[r])
    BY <2>1, <2>2 DEF Served
  <2> QED BY <1>2, <2>1, <2>3, KeepRequests, WriteBatchFields DEF Due
<1>3. CASE FeatureReceived
  <2>1. Truthful /\ finished' = finished /\ down'.for = down.for
    BY <1>0, <1>3, FeatureReceivedDown DEF Truthful, FeatureReceived, DownType
  <2>2. Reads(readers[r]) /\ ~readers[r].told
    BY <1>3, KeepRequests, FeatureReceivedFields DEF Reads
  <2>3. Due(readers[r])
    BY <2>1, <2>2 DEF Served
  <2> QED BY <1>3, <2>1, <2>3, KeepRequests, FeatureReceivedFields DEF Due
<1>4. CASE EndOfDownload
  <2>1. Truthful /\ UNCHANGED cached /\ Cached' = Cached
    BY <1>4, EndOfDownloadDown DEF Truthful, Cached
  <2>2. /\ readers'[r].pc = readers[r].pc /\ readers'[r].want = readers[r].want
        /\ readers'[r].must = readers[r].must
        /\ ~readers[r].told /\ ~(readers[r].connected /\ ~readers[r].covered /\ Short)
    BY <1>4, KeepRequests, EndOfDownloadFields
  <2>3. Due(readers[r])
    BY <2>1, <2>2 DEF Served, Reads
  <2>4. CASE In(readers[r].want) \subseteq readers[r].must
    BY <2>2, <2>4 DEF Due
  <2>5. CASE /\ readers[r].connected /\ ~finished /\ ~readers[r].covered
             /\ In(readers[r].want) \subseteq In(down.for[1]) /\ ~down.for[2]
    <3>1. down.for = <<rect, limited>> /\ (limited \/ In(rect) \subseteq Cached)
      BY <1>4, <2>2, <2>5, EndedWell
    <3>2. In(readers[r].want) \subseteq Cached
      BY <2>5, <3>1
    <3>3. Cached \intersect In(readers[r].want) \subseteq readers[r].must
      BY <2>1, <2>2, <2>5 DEF MustCome, GetsAll, Truthful, AllStored, Reads
    <3> QED BY <2>2, <3>2, <3>3 DEF Due
  <2> QED BY <2>3, <2>4, <2>5 DEF Due
<1>5. CASE SignalEndOfDownload
  <2>1. Truthful /\ finished
    BY <1>5 DEF Truthful, SignalEndOfDownload, history, Phases
  <2>2. /\ Reads(readers[r]) /\ readers'[r].want = readers[r].want
        /\ readers'[r].must = readers[r].must /\ ~readers[r].told
    BY <1>5, KeepRequests, SignalEndOfDownloadFields DEF Reads
  <2>3. Due(readers[r])
    BY <2>1, <2>2 DEF Served
  <2> QED BY <2>1, <2>2, <2>3 DEF Due
<1>6. ~ClearCache
  <2>1. ClearCache => readers[r].pc # "out"
    BY KeepRequests DEF Reads
  <2> QED BY <2>1, ClearCacheFields
<1>7. CASE Invalidate \/ UNCHANGED vars
  <2>1. UNCHANGED <<lost, down, finished, readers>>
    BY <1>7 DEF Invalidate, vars, download, history
  <2> QED BY <1>a, <2>1 DEF Truthful
<1>8. ASSUME NEW q \in Readers, StartDownloader(q) PROVE Due(readers[r])'
  <2>0. Truthful
    BY <1>8, StartDownloaderFields DEF Truthful
  <2>1. CASE q # r
    <3>1. readers'[r] = readers[r] /\ ~readers[r].connected
      BY <1>8, <2>1, StartDownloaderFields
    <3>2. In(readers[r].want) \subseteq readers[r].must
      BY <2>0, <3>1 DEF Served, Due, Reads
    <3> QED BY <3>1, <3>2 DEF Due
  <2>2. CASE q = r
    <3>1. /\ readers[r].pc = "stopping" /\ readers'[r].want = readers[r].want
          /\ readers'[r].connected /\ readers'[r].covered = FALSE /\ finished' = FALSE
          /\ readers'[r].told = readers[r].limited
          /\ down' = [NoDownloader EXCEPT !.pc = "start", !.for = <<rect, limited>>]
      BY <1>8, <2>2, StartDownloaderFields
    <3>2. readers[r].want = rect /\ readers[r].limited = limited
      BY <3>1 DEF Registration
    <3>3. down'.for = <<rect, limited>>
      BY <3>1 DEF NoDownloader
    <3>4. down'.for[1] = rect /\ down'.for[2] = limited
      BY <3>3
    <3> QED BY <3>1, <3>2, <3>4 DEF Due
  <2> QED BY <2>1, <2>2
<1>9. ASSUME NEW q \in Readers, NEW want \in AllRects, NEW lim \in BOOLEAN, Register(q, want, lim)
      PROVE  Due(readers[r])'
  <2>0. UNCHANGED <<cached, lost, down, finished>> /\ Truthful
    BY <1>9, OneReader DEF contents, history, Truthful
  <2>1. CASE q # r
    <3>1. readers'[r] = readers[r]
      BY <1>9, <2>1, OneReader
    <3> QED BY <1>a, <2>0, <3>1
  <2>2. CASE q = r
    <3>1. /\ readers'[r].want = want /\ readers'[r].connected = ~finished
          /\ readers'[r].must = Cached \intersect In(want)
          /\ readers'[r].told = (lim \/ ToldBefore(want))
          /\ readers'[r].covered = (NewRectNeeded(want) /\ CoveredInFull(want))
          /\ RegisterFree /\ down.pc # "none" /\ ~NewDownloadNeeded(want, lim)
      BY <1>9, <2>2, RegisterFields
    <3>2. ~lim /\ ~ToldBefore(want)
      BY <3>1
    <3>3. \A p \in Readers : readers[p].pc # "stopping"
      BY <3>1 DEF RegisterFree
    <3>4. CASE NewRectNeeded(want)
      <4>1. CoveredInFull(want) /\ want # Whole
        BY <3>2, <3>4 DEF ToldBefore, NewRectNeeded
      <4>2. want \subseteq Cached
        BY <2>0, <4>1 DEF CoveredInFull, RegionsCached
      <4> QED BY <3>1, <4>1, <4>2 DEF In, Due
    <3>5. CASE ~NewRectNeeded(want)
      <4>1. ~limited /\ (want = Whole => rect = Whole) /\ (want = Whole \/ rect = want \/ rect = Whole)
        BY <3>1, <3>2, <3>5 DEF NewDownloadNeeded, NewRectNeeded
      <4>2. In(want) \subseteq In(rect)
        <5>1. CASE rect = want
          BY <5>1
        <5>2. CASE rect = Whole
          BY <5>2, Inside DEF In
        <5> QED BY <4>1, <5>1, <5>2
      <4>3. CASE finished
        <5>1. ~failed
          BY <3>2, <3>5, <4>3 DEF ToldBefore
        <5>2. In(rect) \subseteq Cached
          BY <2>0, <3>3, <4>1, <4>3, <5>1 DEF FinishedCached
        <5> QED BY <3>1, <4>2, <5>2 DEF Due
      <4>4. CASE ~finished
        <5>1. Running
          BY <1>0, <3>1, <4>4 DEF Phases, Running
        <5>2. down.for = <<rect, limited>>
          BY <3>3, <5>1 DEF Registration
        <5>3. down'.for[1] = rect /\ down'.for[2] = limited
          BY <2>0, <5>2
        <5>4. readers'[r].connected /\ ~readers'[r].covered
          BY <3>1, <3>5, <4>4
        <5> QED BY <2>0, <3>1, <4>1, <4>2, <4>4, <5>3, <5>4 DEF Due
      <4> QED BY <4>3, <4>4
    <3> QED BY <3>4, <3>5
  <2> QED BY <2>1, <2>2
<1>10. ASSUME NEW q \in Readers, NEW want \in AllRects, NEW lim \in BOOLEAN, Replace(q, want, lim)
       PROVE  Due(readers[r])'
  <2>0. UNCHANGED <<lost, down, finished>> /\ Truthful
    BY <1>10 DEF Replace, history, Truthful
  <2>1. readers'[q].pc = "stopping"
    BY <1>0, <1>10 DEF Replace, Idle
  <2>2. readers'[r] = readers[r]
    BY <1>10, <2>1, OneReader DEF Reads
  <2> QED BY <1>a, <2>0, <2>2
<1>11. ASSUME NEW q \in Readers, Query(q) \/ Fetch(q) \/ Exhausted(q) \/ Rewind(q) \/ Close(q)
       PROVE  Due(readers[r])'
  <2>0. UNCHANGED <<lost, down, finished>> /\ Truthful
    BY <1>11, OneReader DEF history, Truthful
  <2>1. CASE q # r
    <3>1. readers'[r] = readers[r]
      BY <1>11, <2>1, OneReader
    <3> QED BY <1>a, <2>0, <3>1
  <2>2. CASE q = r
    <3>1. ~Close(r)
      BY <1>0 DEF Close, Becomes, Idle, Reads
    <3>2. /\ Reads(readers[r]) /\ readers'[r].want = readers[r].want
          /\ readers[r].must \subseteq readers'[r].must
          /\ readers'[r].connected = readers[r].connected
          /\ readers'[r].told = readers[r].told /\ readers'[r].covered = readers[r].covered
      <4>1. CASE Query(r)
        BY <1>0, <1>t, <4>1 DEF Query, Becomes, ReaderType, Reads
      <4>2. CASE Fetch(r)
        BY <1>0, <1>t, <4>2 DEF Fetch, Becomes, ReaderType, Reads
      <4>3. CASE Exhausted(r)
        BY <1>0, <1>t, <4>3 DEF Exhausted, Becomes, ReaderType, Reads
      <4>4. CASE Rewind(r)
        BY <1>0, <1>t, <4>4 DEF Rewind, Becomes, ReaderType, Reads
      <4> QED BY <1>11, <2>2, <3>1, <4>1, <4>2, <4>3, <4>4
    <3>3. Due(readers[r])
      BY <2>0, <3>2 DEF Served
    <3> QED BY <2>0, <3>2, <3>3 DEF Due
  <2> QED BY <2>1, <2>2
<1> QED BY <1>1, <1>2, <1>3, <1>4, <1>5, <1>6, <1>7, <1>8, <1>9, <1>10, <1>11, DownloaderSteps

-----------------------------------------------------------------------------
(* The inductive invariant. *)

LEMMA InitIInv == Init => IInv
<1> SUFFICES ASSUME Init PROVE IInv
  OBVIOUS
<1>1. Types
  BY InitTypes
<1>2. /\ down.pc = "none" /\ down.batch = {} /\ down.todo = {} /\ down.page = {} /\ down.sent = {}
      /\ down.gen = 0 /\ \A r \in Readers : readers[r] = Idle
  BY DEF Init, NoDownloader
<1>3. /\ Cached = {} /\ count = 0 /\ gen = 0 /\ regions = {} /\ ~finished /\ ~exact
  BY DEF Init, Cached
<1>4. Phases /\ Registration /\ Connections
  BY <1>2, <1>3 DEF Phases, Registration, Connections, Running, Idle
<1>5. Bounds
  BY <1>2, <1>3, BoundsAssumption DEF Bounds, Idle
<1>6. CountBound /\ Counts
  <2>1. Cardinality(Cached) = 0
    BY <1>3, FS_EmptySet
  <2>2. events * Cardinality(Features) \in Nat
    BY <1>1, FeaturesAssumption, FS_CardinalityType DEF Types
  <2> QED BY <1>3, <2>1, <2>2 DEF CountBound, Counts
<1>7. \A r \in Readers : ~Reads(readers[r])
  BY <1>2 DEF Reads, Idle
<1>8. MustCome /\ NoneTwice /\ Served /\ SentCached /\ RegionsCached /\ FinishedCached
  BY <1>2, <1>3, <1>7 DEF MustCome, NoneTwice, Served, SentCached, RegionsCached, FinishedCached
<1> QED BY <1>1, <1>4, <1>5, <1>6, <1>8 DEF IInv

LEMMA NextIInv == IInv /\ [Next]_vars => IInv'
<1> SUFFICES ASSUME IInv, [Next]_vars PROVE IInv'
  OBVIOUS
<1>1. Types' /\ Phases' /\ Registration' /\ Connections' /\ Bounds' /\ CountBound'
  BY NextTypes, NextPhases, NextRegistration, NextConnections, NextBounds, NextCountBound DEF IInv
<1>2. MustCome' /\ NoneTwice' /\ SentCached'
  BY NextMustCome, NextNoneTwice, NextSentCached DEF IInv
<1>3. RegionsCached' /\ FinishedCached' /\ Served' /\ Counts'
  BY NextRegionsCached, NextFinishedCached, NextServed, NextCounts DEF IInv
<1> QED BY <1>1, <1>2, <1>3 DEF IInv

LEMMA AlwaysIInv == Spec => []IInv
BY InitIInv, NextIInv, PTL DEF Spec

-----------------------------------------------------------------------------
\* The variables keep their types; the feature count is bounded, as each feature is
\* counted once unless its batch could not be stored (serializeFeatures()).
THEOREM TypeCorrect == Spec => []TypeOK
<1>1. IInv => TypeOK
  <2> SUFFICES ASSUME IInv PROVE TypeOK
    OBVIOUS
  <2>1. Types /\ Phases /\ Bounds /\ CountBound
    BY DEF IInv
  <2>2. count \in 0..((MaxEvents + 1) * Cardinality(Features))
    <3> DEFINE C == Cardinality(Features)
               n == Cardinality(Cached)
    <3>1. /\ C \in Nat /\ n \in Nat /\ n <= C /\ events \in Nat /\ count \in Nat
          /\ MaxEvents \in Nat /\ events <= MaxEvents /\ count <= n + events * C
      BY <2>1, FeaturesAssumption, FS_Subset, FS_CardinalityType, BoundsAssumption
         DEF Types, CountBound
    <3> HIDE DEF C, n
    <3>2. events * C <= MaxEvents * C /\ (MaxEvents + 1) * C = MaxEvents * C + C
          /\ events * C \in Nat /\ MaxEvents * C \in Nat
      BY <3>1
    <3> DEFINE e == events * C
               m == MaxEvents * C
    <3>3. count <= m + C
      <4>1. count <= n + e /\ e <= m /\ e \in Nat /\ m \in Nat
        BY <3>1, <3>2
      <4> HIDE DEF e, m
      <4> QED BY <3>1, <4>1
    <3>4. count \in 0..((MaxEvents + 1) * C)
      BY <3>1, <3>2, <3>3
    <3> QED BY <3>4 DEF C
  <2>3. gen \in 0..MaxGen + 1 /\ \A f \in Cached : cached[f] \in 0..gen
    BY <2>1, BoundsAssumption DEF Types, Bounds
  <2>4. ASSUME NEW r \in Readers
        PROVE  /\ readers[r].pc \in {"out", "stopping", "query", "fetch", "done"}
               /\ readers[r].want \in AllRects
               /\ readers[r].counter \in -1..MaxGen + 1
               /\ readers[r].twice \subseteq readers[r].got
               /\ readers[r].got \subseteq In(readers[r].want)
    <3>1. readers[r] \in ReaderType /\ MaxGen \in Nat
      BY <2>1, BoundsAssumption DEF Types
    <3> QED BY <2>1, <3>1 DEF Bounds, ReaderType
  <2>5. down.pc \in {"none", "start", "request", "read", "serialize", "write", "emit",
                     "page", "end", "signal", "over"}
    BY <2>1 DEF Types, DownType
  <2> QED BY <2>1, <2>2, <2>3, <2>4, <2>5 DEF TypeOK, Types, Phases
<1> QED BY <1>1, AlwaysIInv, PTL

\* A reader that is done has returned what was in the cache when it registered and what
\* was downloaded while it was connected: the generation it gets under mMutex splits the
\* features between the query of the cache and the signals.
THEOREM ReadersMissNothing == Spec => []NothingMissed
<1>1. IInv => NothingMissed
  BY DEF IInv, NothingMissed, MustCome, GetsAll, Have, Emitted, Connections, AllStored, Reads
<1> QED BY <1>1, AlwaysIInv, PTL

\* A reader that no limit, failure or truncated answer concerns gets every feature of its
\* rectangle, whether it is served from a cached region, joins a download, finds it
\* finished or starts its own in registerToCache().
THEOREM ReadersServedCompletely == Spec => []ServedCompletely
<1>1. IInv => ServedCompletely
  <2> SUFFICES ASSUME IInv, NEW r \in Readers, readers[r].pc = "done", ~readers[r].told,
                      lost \subseteq {"uncounted"}
               PROVE  readers[r].got = In(readers[r].want)
    BY DEF ServedCompletely
  <2>1. AllStored /\ Truthful /\ Reads(readers[r])
    BY DEF AllStored, Truthful, Reads
  <2>2. ~readers[r].connected /\ readers[r].buffer = {}
    BY DEF IInv, Connections
  <2>3. In(readers[r].want) \subseteq readers[r].must
    BY <2>1, <2>2 DEF IInv, Served, Due
  <2>4. readers[r].must \subseteq readers[r].got
    BY <2>1, <2>2 DEF IInv, MustCome, GetsAll, Have, Emitted
  <2>5. readers[r].got \subseteq In(readers[r].want)
    BY DEF IInv, Bounds
  <2> QED BY <2>3, <2>4, <2>5
<1> QED BY <1>1, AlwaysIInv, PTL

\* A reader gets a feature twice only when a batch had its generation and was not yet
\* handed over when the reader got its counter.
THEOREM DuplicatesOnlyInRace == Spec => []TwiceOnlyInRace
<1>1. IInv => TwiceOnlyInRace
  <2> SUFFICES ASSUME IInv, NEW r \in Readers, readers[r].twice # {}, AllStored
               PROVE  readers[r].raced
    BY DEF TwiceOnlyInRace, AllStored
  <2>1. readers[r].pc \in {"out", "stopping", "query", "fetch", "done"}
    BY DEF IInv, Types, ReaderType
  <2>2. Reads(readers[r])
    BY <2>1 DEF IInv, Connections, Reads
  <2> QED BY <2>2 DEF IInv, NoneTwice, GetsOnce
<1> QED BY <1>1, AlwaysIInv, PTL

\* What getFeatureCount() takes for exact is the number of features.
THEOREM ExactCount == Spec => []CountExact
<1>1. IInv => CountExact
  BY DEF IInv, CountExact, Counts
<1> QED BY <1>1, AlwaysIInv, PTL

\* A reader that is not told the end is connected to a downloader that runs.
THEOREM NoVainWait == Spec => []NobodyWaitsInVain
<1>1. IInv => NobodyWaitsInVain
  BY DEF IInv, NobodyWaitsInVain, Connections
<1> QED BY <1>1, AlwaysIInv, PTL
=============================================================================
