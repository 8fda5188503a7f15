---------------------------- MODULE TuiView_proofs ----------------------------
(***************************************************************************)
(* The terminal front end: what it has settled on is complete, for every   *)
(* number of binaries and rows and every interleaving of worker and frame. *)
(***************************************************************************)
EXTENDS TuiView, TLAPS

\* The generation the view has settled on, and the one symbols were collected for, are
\* never ahead of the session's.
GensFollow ==
    /\ refreshedGen <= gen
    /\ symbolsGen <= gen \/ symbolsGen = NoGen
    /\ ui = "start" => gen = 0 /\ ~running
    /\ ui # "start" => gen > 0

\* A frame refreshes only a view that has not settled.
FrameNeeded ==
    /\ ui \in {"done", "throw", "stopped", "count"} => refreshedGen # gen
    /\ gen > 0 /\ refreshedGen = gen => ~running

\* Everything there is to show is shown.
ShowsAll ==
    /\ note # "changed"
    /\ IF ready > 0
         THEN real /\ shown = ready /\ (banner = "stopped" <=> note = "error")
         ELSE ~real /\ fallback /\ (banner = "note" <=> note = "error")

\* `done' stays true for the rest of the frame that read it, so what is read after it is
\* final; and the rows read are those of the binary.
DoneIsFinal ==
    /\ doneSeen => ~running /\ ui \in {"throw", "stopped", "count", "finish", "gone"}
    /\ doneSeen /\ ui \in {"stopped", "count", "finish"} => note # "changed"
    /\ doneSeen /\ ui = "count" => doneInside
    /\ doneInside /\ ui = "count" => ~running
    /\ doneSeen /\ ui = "finish" => ShowsAll
    /\ gen > 0 /\ refreshedGen = gen => ShowsAll
    /\ shown <= ready

IInv == TypeOK /\ GensFollow /\ FrameNeeded /\ DoneIsFinal /\ SymbolsComplete

LEMMA InitHolds ==
    ASSUME Init
    PROVE  IInv
<1>1. MaxOpens \in Nat /\ MaxRows \in Nat
  BY FeedAssumption
<1>2. /\ doneSeen \in BOOLEAN /\ doneInside \in BOOLEAN /\ real \in BOOLEAN
      /\ fallback \in BOOLEAN /\ ticking \in BOOLEAN /\ first \in BOOLEAN
      /\ event \in BOOLEAN /\ running \in BOOLEAN
  BY DEF Init, FeedInit
<1>3. TypeOK
  BY <1>1, <1>2
  DEF Init, FeedInit, TypeOK, FeedTypeOK, Notes, UiLabels, Banners, NotScanned, NoGen
<1>4. GensFollow /\ FrameNeeded /\ DoneIsFinal /\ SymbolsComplete
  BY <1>1
  DEF Init, FeedInit, GensFollow, FrameNeeded, DoneIsFinal, SymbolsComplete, NoGen
<1>. QED
  BY <1>3, <1>4 DEF IInv

LEMMA ConstructKeeps ==
    ASSUME IInv, Construct
    PROVE  IInv'
<1>. USE FeedAssumption DEF IInv
<1>1. TypeOK'
  <2>1. FeedTypeOK'
    <3>1. running' \in BOOLEAN
      BY DEF Construct, OpenFeed
    <3>. QED
      BY <3>1 DEF TypeOK, FeedTypeOK, Notes, Construct, OpenFeed
  <2>2. real' \in BOOLEAN /\ fallback' \in BOOLEAN /\ event' \in BOOLEAN
    BY DEF TypeOK, Construct, OnDecodeStarted, loopVars
  <2>. QED
    BY <2>1, <2>2
    DEF TypeOK, UiLabels, Banners, NotScanned, NoGen, Construct, OnDecodeStarted, frameVars,
        loopVars
<1>2. GensFollow'
  BY DEF GensFollow, TypeOK, FeedTypeOK, NoGen, Construct, OpenFeed, OnDecodeStarted,
         frameVars, rowVars, symbolVars, loopVars, feed
<1>3. FrameNeeded'
  BY DEF GensFollow, FrameNeeded, TypeOK, FeedTypeOK, Construct, OpenFeed, OnDecodeStarted,
         frameVars, rowVars, symbolVars, loopVars, feed
<1>4. DoneIsFinal'
  BY DEF GensFollow, FrameNeeded, DoneIsFinal, ShowsAll, TypeOK, FeedTypeOK, Notes, Banners,
         Construct, OpenFeed, OnDecodeStarted, frameVars, rowVars, symbolVars, loopVars, feed
<1>5. SymbolsComplete'
  BY DEF GensFollow, FrameNeeded, DoneIsFinal, SymbolsComplete, TypeOK, FeedTypeOK, NoGen,
         NotScanned, Construct, OpenFeed, OnDecodeStarted, frameVars, rowVars, symbolVars,
         loopVars, feed
<1>. QED
  BY <1>1, <1>2, <1>3, <1>4, <1>5

LEMMA OpenKeeps ==
    ASSUME IInv, Open
    PROVE  IInv'
<1>. USE FeedAssumption DEF IInv
<1>1. TypeOK'
  <2>1. FeedTypeOK'
    <3>1. running' \in BOOLEAN
      BY DEF Open, OpenFeed
    <3>. QED
      BY <3>1 DEF TypeOK, FeedTypeOK, Notes, Open, OpenFeed
  <2>2. real' \in BOOLEAN /\ fallback' \in BOOLEAN /\ event' \in BOOLEAN
    BY DEF TypeOK, Open, OnDecodeStarted, loopVars
  <2>. QED
    BY <2>1, <2>2
    DEF TypeOK, UiLabels, Banners, NotScanned, NoGen, Open, OnDecodeStarted, frameVars, loopVars
<1>2. GensFollow'
  BY DEF GensFollow, TypeOK, FeedTypeOK, NoGen, Open, OpenFeed, OnDecodeStarted, frameVars,
         rowVars, symbolVars, loopVars, feed
<1>3. FrameNeeded'
  BY DEF GensFollow, FrameNeeded, TypeOK, FeedTypeOK, Open, OpenFeed, OnDecodeStarted,
         frameVars, rowVars, symbolVars, loopVars, feed
<1>4. DoneIsFinal'
  BY DEF GensFollow, FrameNeeded, DoneIsFinal, ShowsAll, TypeOK, FeedTypeOK, Notes, Banners,
         Open, OpenFeed, OnDecodeStarted, frameVars, rowVars, symbolVars, loopVars, feed
<1>5. SymbolsComplete'
  BY DEF GensFollow, FrameNeeded, DoneIsFinal, SymbolsComplete, TypeOK, FeedTypeOK, NoGen,
         NotScanned, Open, OpenFeed, OnDecodeStarted, frameVars, rowVars, symbolVars, loopVars,
         feed
<1>. QED
  BY <1>1, <1>2, <1>3, <1>4, <1>5

LEMMA UserEventKeeps ==
    ASSUME IInv, UserEvent
    PROVE  IInv'
<1>. USE FeedAssumption DEF IInv
<1>1. TypeOK'
  BY DEF TypeOK, FeedTypeOK, Notes, UiLabels, Banners, NotScanned, NoGen, UserEvent, frameVars,
         rowVars, symbolVars, loopVars, feed
<1>2. GensFollow'
  BY DEF GensFollow, TypeOK, FeedTypeOK, NoGen, UserEvent, frameVars, rowVars, symbolVars,
         loopVars, feed
<1>3. FrameNeeded'
  BY DEF GensFollow, FrameNeeded, TypeOK, FeedTypeOK, UserEvent, frameVars, rowVars,
         symbolVars, loopVars, feed
<1>4. DoneIsFinal'
  BY DEF GensFollow, FrameNeeded, DoneIsFinal, ShowsAll, TypeOK, FeedTypeOK, Notes, Banners,
         UserEvent, frameVars, rowVars, symbolVars, loopVars, feed
<1>5. SymbolsComplete'
  BY DEF GensFollow, FrameNeeded, DoneIsFinal, SymbolsComplete, TypeOK, FeedTypeOK, NoGen,
         NotScanned, UserEvent, frameVars, rowVars, symbolVars, loopVars, feed
<1>. QED
  BY <1>1, <1>2, <1>3, <1>4, <1>5

LEMMA OpenThrowsKeeps ==
    ASSUME IInv, OpenThrows
    PROVE  IInv'
<1>. USE FeedAssumption DEF IInv
<1>1. TypeOK'
  BY DEF TypeOK, FeedTypeOK, Notes, UiLabels, Banners, NotScanned, NoGen, OpenThrows,
         frameVars, rowVars, symbolVars, loopVars, feed
<1>2. GensFollow'
  BY DEF GensFollow, TypeOK, FeedTypeOK, NoGen, OpenThrows, frameVars, rowVars, symbolVars,
         loopVars, feed
<1>3. FrameNeeded'
  BY DEF GensFollow, FrameNeeded, TypeOK, FeedTypeOK, OpenThrows, frameVars, rowVars,
         symbolVars, loopVars, feed
<1>4. DoneIsFinal'
  BY DEF GensFollow, FrameNeeded, DoneIsFinal, ShowsAll, TypeOK, FeedTypeOK, Notes, Banners,
         OpenThrows, frameVars, rowVars, symbolVars, loopVars, feed
<1>5. SymbolsComplete'
  BY DEF GensFollow, FrameNeeded, DoneIsFinal, SymbolsComplete, TypeOK, FeedTypeOK, NoGen,
         NotScanned, OpenThrows, frameVars, rowVars, symbolVars, loopVars, feed
<1>. QED
  BY <1>1, <1>2, <1>3, <1>4, <1>5

LEMMA StartFrameKeeps ==
    ASSUME IInv, StartFrame
    PROVE  IInv'
<1>. USE FeedAssumption DEF IInv
<1>1. TypeOK'
  <2>1. FeedTypeOK' /\ UNCHANGED <<rowVars, symbolVars>>
    BY DEF TypeOK, FeedTypeOK, StartFrame, feed
  <2>2. /\ ui' \in UiLabels /\ doneSeen' \in BOOLEAN /\ doneInside' \in BOOLEAN
        /\ refreshedGen' \in 0 .. MaxOpens
        /\ ticking' \in BOOLEAN /\ first' \in BOOLEAN /\ event' \in BOOLEAN
    BY DEF TypeOK, FeedTypeOK, UiLabels, StartFrame, frameVars
  <2>3. /\ real' \in BOOLEAN /\ shown' \in 0 .. MaxRows /\ fallback' \in BOOLEAN
        /\ banner' \in Banners /\ scanned' \in 0 .. NotScanned
        /\ symbolsGen' \in 0 .. NoGen
    BY <2>1 DEF TypeOK, rowVars, symbolVars, NotScanned, NoGen
  <2>. QED
    BY <2>1, <2>2, <2>3 DEF TypeOK
<1>2. GensFollow'
  BY DEF GensFollow, TypeOK, FeedTypeOK, NoGen, StartFrame, frameVars, rowVars, symbolVars,
         loopVars, feed
<1>3. FrameNeeded'
  BY DEF GensFollow, FrameNeeded, TypeOK, FeedTypeOK, StartFrame, frameVars, rowVars,
         symbolVars, loopVars, feed
<1>4. DoneIsFinal'
  BY DEF GensFollow, FrameNeeded, DoneIsFinal, ShowsAll, TypeOK, FeedTypeOK, Notes, Banners,
         StartFrame, frameVars, rowVars, symbolVars, loopVars, feed
<1>5. SymbolsComplete'
  BY DEF GensFollow, FrameNeeded, DoneIsFinal, SymbolsComplete, TypeOK, FeedTypeOK, NoGen,
         NotScanned, StartFrame, frameVars, rowVars, symbolVars, loopVars, feed
<1>. QED
  BY <1>1, <1>2, <1>3, <1>4, <1>5

LEMMA ReadDoneKeeps ==
    ASSUME IInv, ReadDone
    PROVE  IInv'
<1>. USE FeedAssumption DEF IInv
<1>1. TypeOK'
  BY DEF TypeOK, FeedTypeOK, Notes, UiLabels, Banners, NotScanned, NoGen, ReadDone, frameVars,
         rowVars, symbolVars, loopVars, feed
<1>2. GensFollow'
  BY DEF GensFollow, TypeOK, FeedTypeOK, NoGen, ReadDone, frameVars, rowVars, symbolVars,
         loopVars, feed
<1>3. FrameNeeded'
  BY DEF GensFollow, FrameNeeded, TypeOK, FeedTypeOK, ReadDone, frameVars, rowVars, symbolVars,
         loopVars, feed
<1>4. DoneIsFinal'
  BY DEF GensFollow, FrameNeeded, DoneIsFinal, ShowsAll, TypeOK, FeedTypeOK, Notes, Banners,
         ReadDone, frameVars, rowVars, symbolVars, loopVars, feed
<1>5. SymbolsComplete'
  BY DEF GensFollow, FrameNeeded, DoneIsFinal, SymbolsComplete, TypeOK, FeedTypeOK, NoGen,
         NotScanned, ReadDone, frameVars, rowVars, symbolVars, loopVars, feed
<1>. QED
  BY <1>1, <1>2, <1>3, <1>4, <1>5

LEMMA ThrowIfFileChangedKeeps ==
    ASSUME IInv, ThrowIfFileChanged
    PROVE  IInv'
<1>. USE FeedAssumption DEF IInv
<1>1. TypeOK'
  BY DEF TypeOK, FeedTypeOK, Notes, UiLabels, Banners, NotScanned, NoGen, ThrowIfFileChanged,
         frameVars, rowVars, symbolVars, loopVars, feed
<1>2. GensFollow'
  BY DEF GensFollow, TypeOK, FeedTypeOK, NoGen, ThrowIfFileChanged, frameVars, rowVars,
         symbolVars, loopVars, feed
<1>3. FrameNeeded'
  BY DEF GensFollow, FrameNeeded, TypeOK, FeedTypeOK, ThrowIfFileChanged, frameVars, rowVars,
         symbolVars, loopVars, feed
<1>4. DoneIsFinal'
  BY DEF GensFollow, FrameNeeded, DoneIsFinal, ShowsAll, TypeOK, FeedTypeOK, Notes, Banners,
         ThrowIfFileChanged, frameVars, rowVars, symbolVars, loopVars, feed
<1>5. SymbolsComplete'
  BY DEF GensFollow, FrameNeeded, DoneIsFinal, SymbolsComplete, TypeOK, FeedTypeOK, NoGen,
         NotScanned, ThrowIfFileChanged, frameVars, rowVars, symbolVars, loopVars, feed
<1>. QED
  BY <1>1, <1>2, <1>3, <1>4, <1>5

LEMMA ReadStoppedKeeps ==
    ASSUME IInv, ReadStopped
    PROVE  IInv'
<1>. USE FeedAssumption DEF IInv
<1>1. TypeOK'
  BY DEF TypeOK, FeedTypeOK, Notes, UiLabels, Banners, NotScanned, NoGen, ReadStopped,
         frameVars, rowVars, symbolVars, loopVars, feed
<1>2. GensFollow'
  BY DEF GensFollow, TypeOK, FeedTypeOK, NoGen, ReadStopped, frameVars, rowVars, symbolVars,
         loopVars, feed
<1>3. FrameNeeded'
  BY DEF GensFollow, FrameNeeded, TypeOK, FeedTypeOK, ReadStopped, frameVars, rowVars,
         symbolVars, loopVars, feed
<1>4. DoneIsFinal'
  BY DEF GensFollow, FrameNeeded, DoneIsFinal, ShowsAll, TypeOK, FeedTypeOK, Notes, Banners,
         ReadStopped, frameVars, rowVars, symbolVars, loopVars, feed
<1>5. SymbolsComplete'
  BY DEF GensFollow, FrameNeeded, DoneIsFinal, SymbolsComplete, TypeOK, FeedTypeOK, NoGen,
         NotScanned, ReadStopped, frameVars, rowVars, symbolVars, loopVars, feed
<1>. QED
  BY <1>1, <1>2, <1>3, <1>4, <1>5

LEMMA ReadCountKeeps ==
    ASSUME IInv, ReadCount
    PROVE  IInv'
<1>. USE FeedAssumption DEF IInv
<1>1. TypeOK'
  <2>1. /\ real' \in BOOLEAN /\ fallback' \in BOOLEAN
        /\ shown' \in 0 .. MaxRows /\ banner' \in Banners
    BY DEF TypeOK, FeedTypeOK, Banners, ReadCount, ShowRows
  <2>2. scanned' \in 0 .. NotScanned /\ symbolsGen' \in 0 .. NoGen
    BY <2>1
    DEF TypeOK, FeedTypeOK, NotScanned, NoGen, ReadCount, CollectSymbols, symbolVars
  <2>. QED
    BY <2>1, <2>2
    DEF TypeOK, FeedTypeOK, UiLabels, ReadCount, frameVars, loopVars, feed
<1>2. GensFollow'
  BY DEF GensFollow, TypeOK, FeedTypeOK, NoGen, ReadCount, ShowRows, CollectSymbols, frameVars,
         rowVars, symbolVars, loopVars, feed
<1>3. FrameNeeded'
  BY DEF GensFollow, FrameNeeded, TypeOK, FeedTypeOK, ReadCount, ShowRows, CollectSymbols,
         frameVars, rowVars, symbolVars, loopVars, feed
<1>4. DoneIsFinal'
  BY DEF GensFollow, FrameNeeded, DoneIsFinal, ShowsAll, TypeOK, FeedTypeOK, Notes, Banners,
         ReadCount, ShowRows, CollectSymbols, frameVars, rowVars, symbolVars, loopVars, feed
<1>5. SymbolsComplete'
  BY DEF GensFollow, FrameNeeded, DoneIsFinal, SymbolsComplete, TypeOK, FeedTypeOK, NoGen,
         NotScanned, ReadCount, ShowRows, CollectSymbols, frameVars, rowVars, symbolVars,
         loopVars, feed
<1>. QED
  BY <1>1, <1>2, <1>3, <1>4, <1>5

LEMMA ReadThrowsKeeps ==
    ASSUME IInv, ReadThrows
    PROVE  IInv'
<1>. USE FeedAssumption DEF IInv
<1>1. TypeOK'
  BY DEF TypeOK, FeedTypeOK, Notes, UiLabels, Banners, NotScanned, NoGen, ReadThrows,
         frameVars, rowVars, symbolVars, loopVars, feed
<1>2. GensFollow'
  BY DEF GensFollow, TypeOK, FeedTypeOK, NoGen, ReadThrows, frameVars, rowVars, symbolVars,
         loopVars, feed
<1>3. FrameNeeded'
  BY DEF GensFollow, FrameNeeded, TypeOK, FeedTypeOK, ReadThrows, frameVars, rowVars,
         symbolVars, loopVars, feed
<1>4. DoneIsFinal'
  BY DEF GensFollow, FrameNeeded, DoneIsFinal, ShowsAll, TypeOK, FeedTypeOK, Notes, Banners,
         ReadThrows, frameVars, rowVars, symbolVars, loopVars, feed
<1>5. SymbolsComplete'
  BY DEF GensFollow, FrameNeeded, DoneIsFinal, SymbolsComplete, TypeOK, FeedTypeOK, NoGen,
         NotScanned, ReadThrows, frameVars, rowVars, symbolVars, loopVars, feed
<1>. QED
  BY <1>1, <1>2, <1>3, <1>4, <1>5

LEMMA FinishFrameKeeps ==
    ASSUME IInv, FinishFrame
    PROVE  IInv'
<1>. USE FeedAssumption DEF IInv
<1>1. TypeOK'
  <2>1. FeedTypeOK' /\ UNCHANGED <<rowVars, symbolVars>>
    BY DEF TypeOK, FeedTypeOK, FinishFrame, feed
  <2>2. /\ ui' \in UiLabels /\ doneSeen' \in BOOLEAN /\ doneInside' \in BOOLEAN
        /\ refreshedGen' \in 0 .. MaxOpens
        /\ ticking' \in BOOLEAN /\ first' \in BOOLEAN /\ event' \in BOOLEAN
    BY DEF TypeOK, FeedTypeOK, UiLabels, FinishFrame, frameVars
  <2>3. /\ real' \in BOOLEAN /\ shown' \in 0 .. MaxRows /\ fallback' \in BOOLEAN
        /\ banner' \in Banners /\ scanned' \in 0 .. NotScanned
        /\ symbolsGen' \in 0 .. NoGen
    BY <2>1 DEF TypeOK, rowVars, symbolVars, NotScanned, NoGen
  <2>. QED
    BY <2>1, <2>2, <2>3 DEF TypeOK
<1>2. GensFollow'
  BY DEF GensFollow, TypeOK, FeedTypeOK, NoGen, FinishFrame, frameVars, rowVars, symbolVars,
         loopVars, feed
<1>3. FrameNeeded'
  BY DEF GensFollow, FrameNeeded, DoneIsFinal, TypeOK, FeedTypeOK, FinishFrame, frameVars,
         rowVars, symbolVars, loopVars, feed
<1>4. DoneIsFinal'
  BY DEF GensFollow, FrameNeeded, DoneIsFinal, ShowsAll, TypeOK, FeedTypeOK, Notes, Banners,
         FinishFrame, frameVars, rowVars, symbolVars, loopVars, feed
<1>5. SymbolsComplete'
  BY DEF GensFollow, FrameNeeded, DoneIsFinal, SymbolsComplete, TypeOK, FeedTypeOK, NoGen,
         NotScanned, FinishFrame, frameVars, rowVars, symbolVars, loopVars, feed
<1>. QED
  BY <1>1, <1>2, <1>3, <1>4, <1>5

LEMMA PostEventKeeps ==
    ASSUME IInv, PostEvent
    PROVE  IInv'
<1>. USE FeedAssumption DEF IInv
<1>1. TypeOK'
  <2>1. FeedTypeOK'
    BY DEF TypeOK, FeedTypeOK, Notes, PostEvent, feed
  <2>2. first' \in BOOLEAN /\ event' \in BOOLEAN
    BY DEF PostEvent
  <2>3. UNCHANGED <<ui, frameVars, rowVars, symbolVars, refreshedGen, ticking>>
    BY DEF PostEvent
  <2>. QED
    BY <2>1, <2>2, <2>3, Zenon DEF TypeOK, frameVars, rowVars, symbolVars
<1>2. GensFollow'
  BY DEF GensFollow, TypeOK, FeedTypeOK, NoGen, PostEvent, frameVars, rowVars, symbolVars,
         loopVars, feed
<1>3. FrameNeeded'
  BY DEF GensFollow, FrameNeeded, TypeOK, FeedTypeOK, PostEvent, frameVars, rowVars,
         symbolVars, loopVars, feed
<1>4. DoneIsFinal'
  BY DEF GensFollow, FrameNeeded, DoneIsFinal, ShowsAll, TypeOK, FeedTypeOK, Notes, Banners,
         PostEvent, frameVars, rowVars, symbolVars, loopVars, feed
<1>5. SymbolsComplete'
  BY DEF GensFollow, FrameNeeded, DoneIsFinal, SymbolsComplete, TypeOK, FeedTypeOK, NoGen,
         NotScanned, PostEvent, frameVars, rowVars, symbolVars, loopVars, feed
<1>. QED
  BY <1>1, <1>2, <1>3, <1>4, <1>5

LEMMA WorkerKeeps ==
    ASSUME IInv, Worker
    PROVE  IInv'
<1>. USE FeedAssumption DEF IInv
<1>1. TypeOK'
  <2>1. CASE PublishRow
    BY <2>1
    DEF TypeOK, FeedTypeOK, Worker, PublishRow, tuiVars, frameVars, rowVars, symbolVars, loopVars
  <2>2. CASE EndDecode
    <3>1. running' \in BOOLEAN
      BY <2>2 DEF EndDecode
    <3>. QED
      BY <2>2, <3>1
      DEF TypeOK, FeedTypeOK, Worker, EndDecode, tuiVars, frameVars, rowVars, symbolVars,
          loopVars
  <2>. QED
    BY <2>1, <2>2 DEF Worker, FeedWorker
<1>2. GensFollow'
  BY DEF GensFollow, TypeOK, FeedTypeOK, NoGen, Worker, FeedWorker, PublishRow, EndDecode,
         tuiVars, frameVars, rowVars, symbolVars, loopVars, feed
<1>3. FrameNeeded'
  BY DEF GensFollow, FrameNeeded, TypeOK, FeedTypeOK, Worker, FeedWorker, PublishRow,
         EndDecode, tuiVars, frameVars, rowVars, symbolVars, loopVars, feed
<1>4. DoneIsFinal'
  BY DEF GensFollow, FrameNeeded, DoneIsFinal, ShowsAll, TypeOK, FeedTypeOK, Notes, Banners,
         Worker, FeedWorker, PublishRow, EndDecode, tuiVars, frameVars, rowVars, symbolVars,
         loopVars, feed
<1>5. SymbolsComplete'
  BY DEF GensFollow, FrameNeeded, DoneIsFinal, SymbolsComplete, TypeOK, FeedTypeOK, NoGen,
         NotScanned, Worker, FeedWorker, PublishRow, EndDecode, tuiVars, frameVars, rowVars,
         symbolVars, loopVars, feed
<1>. QED
  BY <1>1, <1>2, <1>3, <1>4, <1>5

LEMMA NextKeeps ==
    ASSUME IInv, [Next]_vars
    PROVE  IInv'
<1>1. CASE UNCHANGED vars
  BY <1>1
  DEF IInv, TypeOK, FeedTypeOK, GensFollow, FrameNeeded, DoneIsFinal, ShowsAll, SymbolsComplete,
      vars, tuiVars, frameVars, rowVars, symbolVars, loopVars, feed
<1>2. CASE Construct
  BY <1>2, ConstructKeeps
<1>3. CASE Open
  BY <1>3, OpenKeeps
<1>4. CASE UserEvent
  BY <1>4, UserEventKeeps
<1>5. CASE OpenThrows
  BY <1>5, OpenThrowsKeeps
<1>6. CASE Frame
  BY <1>6, StartFrameKeeps, ReadDoneKeeps, ThrowIfFileChangedKeeps, ReadStoppedKeeps,
     ReadCountKeeps, ReadThrowsKeeps, FinishFrameKeeps DEF Frame
<1>7. CASE PostEvent
  BY <1>7, PostEventKeeps
<1>8. CASE Worker
  BY <1>8, WorkerKeeps
<1>. QED
  BY <1>1, <1>2, <1>3, <1>4, <1>5, <1>6, <1>7, <1>8 DEF Next, Gone

\* What holds between any two steps of the three threads.
THEOREM ViewInvariant == Spec => []IInv
<1>1. Init => IInv
  BY InitHolds
<1>2. IInv /\ [Next]_vars => IInv'
  BY NextKeeps
<1>. QED
  BY <1>1, <1>2, PTL DEF Spec

\* AppView's and tui::Session's fields keep their types, whatever is opened and however the
\* worker interleaves with a frame.
THEOREM ViewTypeCorrect == Spec => []TypeOK
<1>1. IInv => TypeOK
  BY DEF IInv
<1>. QED
  BY <1>1, ViewInvariant, PTL

\* A view that has stopped refreshing shows everything: `done' is read before refresh(), so
\* whatever it vouches for is read after it (ui.cpp:142-148).
THEOREM NothingMissedWhenSettled == Spec => []SettledShowsAll
<1>1. IInv => SettledShowsAll
  BY DEF IInv, FrameNeeded, DoneIsFinal, ShowsAll, SettledShowsAll, Settled
<1>. QED
  BY <1>1, ViewInvariant, PTL

\* Symbols are never those of half a sweep, nor of an earlier binary (session.cpp:104-110).
THEOREM SymbolsAreOfTheWholeSweep == Spec => []SymbolsComplete
<1>1. IInv => SymbolsComplete
  BY DEF IInv
<1>. QED
  BY <1>1, ViewInvariant, PTL

\* The view implements ProgressiveView: a row once shown stays until another binary is opened,
\* and a settled view does not move.
THEOREM RowsAreNeverTakenBack == Spec => KeepsView
<1>1. Init => View!Init
  BY DEF Init, FeedInit, View!Init, Settled
<1>2. IInv /\ [Next]_vars => [View!Next]_(View!vars)
  <2>. SUFFICES ASSUME IInv, [Next]_vars
                PROVE  [View!Next]_(View!vars)
    OBVIOUS
  <2>. USE DEF IInv
  <2>1. CASE UNCHANGED vars \/ Gone
    BY <2>1
    DEF Gone, vars, tuiVars, rowVars, loopVars, feed, View!vars, Settled
  <2>2. CASE Construct \/ Open
    BY <2>2, FeedAssumption
    DEF Construct, Open, OpenFeed, OnDecodeStarted, loopVars, GensFollow, TypeOK, FeedTypeOK,
        View!Next, View!Replace, Settled
  <2>3. CASE \/ UserEvent \/ OpenThrows \/ StartFrame \/ ReadDone \/ ThrowIfFileChanged
             \/ ReadStopped \/ ReadThrows \/ PostEvent
    BY <2>3
    DEF UserEvent, OpenThrows, StartFrame, ReadDone, ThrowIfFileChanged, ReadStopped, ReadThrows,
        PostEvent, rowVars, loopVars, feed, View!vars, Settled
  <2>4. CASE ReadCount
    BY <2>4
    DEF ReadCount, ShowRows, loopVars, feed, FrameNeeded, DoneIsFinal, TypeOK, FeedTypeOK,
        View!vars, View!Next, View!Grow, Settled
  <2>5. CASE FinishFrame
    BY <2>5
    DEF FinishFrame, rowVars, feed, View!vars, View!Next, View!Settle, Settled
  <2>6. CASE Worker
    BY <2>6
    DEF Worker, FeedWorker, PublishRow, EndDecode, tuiVars, rowVars, loopVars, View!vars, Settled
  <2>. QED
    BY <2>1, <2>2, <2>3, <2>4, <2>5, <2>6 DEF Next, Frame
<1>. QED
  BY <1>1, <1>2, ViewInvariant, PTL DEF Spec, KeepsView, View!Spec
=============================================================================
