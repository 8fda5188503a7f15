---------------------------- MODULE GuiView_proofs ----------------------------
(***************************************************************************)
(* The Qt front end: its poll, its rows, its edits and its panes, for      *)
(* every number of binaries and rows and every interleaving of worker and  *)
(* slot.                                                                   *)
(***************************************************************************)
EXTENDS GuiView, TLAPS

\* Where the UI thread is says which slot it is in, and what that slot found of the worker.
SlotInv ==
    /\ ui = "idle" => slot = "none"
    /\ ui = "opened" => slot = "open"
    /\ ui \in {"throw", "count", "stub"} => slot \in {"tick", "pulled"}
    /\ ui = "ticked" => slot = "tick"
    /\ ui = "disasm" => slot \in {"polled", "pulled", "growing", "final"}
    /\ ui = "symbols" => slot \in {"polled", "pulled", "final"}
    /\ slot \in {"final", "pulled"} => ~running
    /\ gen = 0 => ~running

\* A decode that is going on is polled, from the moment openPath() has looked at it.
PollInv ==
    /\ running => timer \/ ui = "opened"
    /\ scanning => timer
    /\ slot \in {"none", "tick", "growing", "final"} => memoryGen = gen
    /\ ui = "symbols" /\ slot = "polled" /\ running => timer

\* The session's rows, and the model's once DisassemblyPane has refreshed.
RowInv ==
    /\ real => shown <= ready
    /\ ui \in {"idle", "symbols"} => modelGen = gen /\ modelRows = RowCount
    /\ ui = "stub" /\ slot = "pulled" => ready = 0
    /\ ui \in {"count", "stub"} => Loaded

IInv == TypeOK /\ SlotInv /\ PollInv /\ RowInv /\ EditsCurrent /\ PullShowsAll

LEMMA OpenPathKeeps ==
    ASSUME IInv, OpenPath
    PROVE  IInv'
<1>. USE FeedAssumption, FallbackAssumption DEF IInv, Loaded, RowCount
<1>1. TypeOK'
  <2>1. FeedTypeOK'
    <3>1. running' \in BOOLEAN
      BY DEF OpenPath, OpenFeed
    <3>. QED
      BY <3>1 DEF TypeOK, FeedTypeOK, Notes, OpenPath, OpenFeed
  <2>2. real' \in BOOLEAN /\ recompile' \in BOOLEAN
    BY DEF OpenPath, OnDecodeStarted, ClearEdits
  <2>. QED
    BY <2>1, <2>2
    DEF TypeOK, UiLabels, Slots, OpenPath, OnDecodeStarted, ClearEdits, Continue, paneVars,
        sideVars
<1>2. SlotInv'
  BY DEF SlotInv, TypeOK, FeedTypeOK, OpenPath, OpenFeed, OnDecodeStarted, ClearEdits,
         Continue, sessionVars, paneVars, editVars, sideVars, feed
<1>3. PollInv'
  BY DEF SlotInv, PollInv, TypeOK, FeedTypeOK, OpenPath, OpenFeed, OnDecodeStarted, ClearEdits,
         Continue, sessionVars, paneVars, editVars, sideVars, feed
<1>4. RowInv'
  BY DEF SlotInv, RowInv, TypeOK, FeedTypeOK, OpenPath, OpenFeed, OnDecodeStarted, ClearEdits,
         Continue, sessionVars, paneVars, editVars, sideVars, feed
<1>5. EditsCurrent'
  BY DEF EditsCurrent, TypeOK, FeedTypeOK, OpenPath, OpenFeed, OnDecodeStarted, ClearEdits,
         Continue, sessionVars, paneVars, editVars, sideVars, feed
<1>6. PullShowsAll'
  BY DEF SlotInv, RowInv, PullShowsAll, TypeOK, FeedTypeOK, OpenPath, OpenFeed,
         OnDecodeStarted, ClearEdits, Continue, sessionVars, paneVars, editVars, sideVars, feed
<1>. QED
  BY <1>1, <1>2, <1>3, <1>4, <1>5, <1>6

LEMMA OpenPathFailsKeeps ==
    ASSUME IInv, OpenPathFails
    PROVE  IInv'
<1>. USE FeedAssumption, FallbackAssumption DEF IInv, Loaded, RowCount
<1>1. TypeOK'
  BY DEF SlotInv, RowInv, TypeOK, FeedTypeOK, Notes, UiLabels, Slots, OpenPathFails, Continue,
         sessionVars, paneVars, editVars, sideVars, feed
<1>2. SlotInv'
  BY DEF SlotInv, TypeOK, FeedTypeOK, OpenPathFails, Continue, sessionVars, paneVars, editVars,
         sideVars, feed
<1>3. PollInv'
  BY DEF SlotInv, PollInv, TypeOK, FeedTypeOK, OpenPathFails, Continue, sessionVars, paneVars,
         editVars, sideVars, feed
<1>4. RowInv'
  BY DEF SlotInv, RowInv, TypeOK, FeedTypeOK, OpenPathFails, Continue, sessionVars, paneVars,
         editVars, sideVars, feed
<1>5. EditsCurrent'
  BY DEF EditsCurrent, TypeOK, FeedTypeOK, OpenPathFails, Continue, sessionVars, paneVars,
         editVars, sideVars, feed
<1>6. PullShowsAll'
  BY DEF SlotInv, RowInv, PullShowsAll, TypeOK, FeedTypeOK, OpenPathFails, Continue,
         sessionVars, paneVars, editVars, sideVars, feed
<1>. QED
  BY <1>1, <1>2, <1>3, <1>4, <1>5, <1>6

LEMMA OpenPathThrowsKeeps ==
    ASSUME IInv, OpenPathThrows
    PROVE  IInv'
<1>. USE FeedAssumption, FallbackAssumption DEF IInv, Loaded, RowCount
<1>1. TypeOK'
  BY DEF SlotInv, RowInv, TypeOK, FeedTypeOK, Notes, UiLabels, Slots, OpenPathThrows, Goto,
         sessionVars, paneVars, editVars, sideVars, feed
<1>2. SlotInv'
  BY DEF SlotInv, TypeOK, FeedTypeOK, OpenPathThrows, Goto, sessionVars, paneVars, editVars,
         sideVars, feed
<1>3. PollInv'
  BY DEF SlotInv, PollInv, TypeOK, FeedTypeOK, OpenPathThrows, Goto, sessionVars, paneVars,
         editVars, sideVars, feed
<1>4. RowInv'
  BY DEF SlotInv, RowInv, TypeOK, FeedTypeOK, OpenPathThrows, Goto, sessionVars, paneVars,
         editVars, sideVars, feed
<1>5. EditsCurrent'
  BY DEF EditsCurrent, TypeOK, FeedTypeOK, OpenPathThrows, Goto, sessionVars, paneVars,
         editVars, sideVars, feed
<1>6. PullShowsAll'
  BY DEF SlotInv, RowInv, PullShowsAll, TypeOK, FeedTypeOK, OpenPathThrows, Goto, sessionVars,
         paneVars, editVars, sideVars, feed
<1>. QED
  BY <1>1, <1>2, <1>3, <1>4, <1>5, <1>6

LEMMA PollOrPullKeeps ==
    ASSUME IInv, PollOrPull
    PROVE  IInv'
<1>. USE FeedAssumption, FallbackAssumption DEF IInv, Loaded, RowCount
<1>1. TypeOK'
  BY DEF SlotInv, RowInv, TypeOK, FeedTypeOK, Notes, UiLabels, Slots, PollOrPull, Continue,
         sessionVars, paneVars, editVars, sideVars, feed
<1>2. SlotInv'
  BY DEF SlotInv, TypeOK, FeedTypeOK, PollOrPull, Continue, sessionVars, paneVars, editVars,
         sideVars, feed
<1>3. PollInv'
  BY DEF SlotInv, PollInv, TypeOK, FeedTypeOK, PollOrPull, Continue, sessionVars, paneVars,
         editVars, sideVars, feed
<1>4. RowInv'
  BY DEF SlotInv, RowInv, TypeOK, FeedTypeOK, PollOrPull, Continue, sessionVars, paneVars,
         editVars, sideVars, feed
<1>5. EditsCurrent'
  BY DEF EditsCurrent, TypeOK, FeedTypeOK, PollOrPull, Continue, sessionVars, paneVars,
         editVars, sideVars, feed
<1>6. PullShowsAll'
  BY DEF SlotInv, RowInv, PullShowsAll, TypeOK, FeedTypeOK, PollOrPull, Continue, sessionVars,
         paneVars, editVars, sideVars, feed
<1>. QED
  BY <1>1, <1>2, <1>3, <1>4, <1>5, <1>6

LEMMA ThrowIfFileChangedKeeps ==
    ASSUME IInv, ThrowIfFileChanged
    PROVE  IInv'
<1>. USE FeedAssumption, FallbackAssumption DEF IInv, Loaded, RowCount
<1>1. TypeOK'
  <2>1. \/ real' = FALSE /\ shown' = 0 /\ fallback' = 0
        \/ real' = real /\ shown' = shown /\ fallback' = fallback
    BY DEF ThrowIfFileChanged, OnDecodeStarted, sessionVars
  <2>2. real' \in BOOLEAN /\ shown' \in 0 .. MaxRows /\ fallback' \in 0 .. FallbackRows
    <3>1. real' \in BOOLEAN
      BY <2>1 DEF TypeOK
    <3>. QED
      BY <2>1, <3>1 DEF TypeOK
  <2>3. ui' \in UiLabels /\ slot' \in Slots
    BY DEF TypeOK, UiLabels, ThrowIfFileChanged, Goto, Refreshed
  <2>. QED
    BY <2>2, <2>3
    DEF TypeOK, FeedTypeOK, ThrowIfFileChanged, paneVars, editVars, sideVars, feed
<1>2. SlotInv'
  BY DEF SlotInv, TypeOK, FeedTypeOK, ThrowIfFileChanged, Goto, Refreshed, OnDecodeStarted,
         sessionVars, paneVars, editVars, sideVars, feed
<1>3. PollInv'
  BY DEF SlotInv, PollInv, TypeOK, FeedTypeOK, ThrowIfFileChanged, Goto, Refreshed,
         OnDecodeStarted, sessionVars, paneVars, editVars, sideVars, feed
<1>4. RowInv'
  BY DEF SlotInv, RowInv, TypeOK, FeedTypeOK, ThrowIfFileChanged, Goto, Refreshed,
         OnDecodeStarted, sessionVars, paneVars, editVars, sideVars, feed
<1>5. EditsCurrent'
  BY DEF EditsCurrent, TypeOK, FeedTypeOK, ThrowIfFileChanged, Goto, Refreshed,
         OnDecodeStarted, sessionVars, paneVars, editVars, sideVars, feed
<1>6. PullShowsAll'
  BY DEF SlotInv, RowInv, PullShowsAll, TypeOK, FeedTypeOK, ThrowIfFileChanged, Goto,
         Refreshed, OnDecodeStarted, sessionVars, paneVars, editVars, sideVars, feed
<1>. QED
  BY <1>1, <1>2, <1>3, <1>4, <1>5, <1>6

LEMMA ReadCountKeeps ==
    ASSUME IInv, ReadCount
    PROVE  IInv'
<1>. USE FeedAssumption, FallbackAssumption DEF IInv, Loaded, RowCount
<1>1. TypeOK'
  <2>1. FeedTypeOK' /\ UNCHANGED <<fallback, timer, paneVars, editVars, sideVars, slot>>
    BY DEF TypeOK, FeedTypeOK, ReadCount, Goto, Refreshed, feed
  <2>2. ui' \in UiLabels /\ real' \in BOOLEAN /\ shown' \in 0 .. MaxRows
    BY DEF TypeOK, FeedTypeOK, UiLabels, ReadCount, Goto, Refreshed
  <2>. QED
    BY <2>1, <2>2 DEF TypeOK, paneVars, editVars, sideVars
<1>2. SlotInv'
  BY DEF SlotInv, TypeOK, FeedTypeOK, ReadCount, Goto, Refreshed, sessionVars, paneVars,
         editVars, sideVars, feed
<1>3. PollInv'
  BY DEF SlotInv, PollInv, TypeOK, FeedTypeOK, ReadCount, Goto, Refreshed, sessionVars,
         paneVars, editVars, sideVars, feed
<1>4. RowInv'
  BY DEF SlotInv, RowInv, TypeOK, FeedTypeOK, ReadCount, Goto, Refreshed, sessionVars,
         paneVars, editVars, sideVars, feed
<1>5. EditsCurrent'
  BY DEF EditsCurrent, TypeOK, FeedTypeOK, ReadCount, Goto, Refreshed, sessionVars, paneVars,
         editVars, sideVars, feed
<1>6. PullShowsAll'
  BY DEF SlotInv, RowInv, PullShowsAll, TypeOK, FeedTypeOK, ReadCount, Goto, Refreshed,
         sessionVars, paneVars, editVars, sideVars, feed
<1>. QED
  BY <1>1, <1>2, <1>3, <1>4, <1>5, <1>6

LEMMA ReadStoppedKeeps ==
    ASSUME IInv, ReadStopped
    PROVE  IInv'
<1>. USE FeedAssumption, FallbackAssumption DEF IInv, Loaded, RowCount
<1>1. TypeOK'
  <2>1. shown' = shown /\ (real' = FALSE \/ real' = real)
        /\ fallback' \in {FallbackRows, fallback}
    BY DEF ReadStopped, sessionVars
  <2>2. real' \in BOOLEAN /\ shown' \in 0 .. MaxRows /\ fallback' \in 0 .. FallbackRows
    <3>1. real' \in BOOLEAN
      BY <2>1 DEF TypeOK
    <3>. QED
      BY <2>1, <3>1 DEF TypeOK
  <2>. QED
    BY <2>2
    DEF TypeOK, FeedTypeOK, UiLabels, ReadStopped, Goto, Refreshed, paneVars,
        editVars, sideVars, feed
<1>2. SlotInv'
  BY DEF SlotInv, TypeOK, FeedTypeOK, ReadStopped, Goto, Refreshed, sessionVars, paneVars,
         editVars, sideVars, feed
<1>3. PollInv'
  BY DEF SlotInv, PollInv, TypeOK, FeedTypeOK, ReadStopped, Goto, Refreshed, sessionVars,
         paneVars, editVars, sideVars, feed
<1>4. RowInv'
  BY DEF SlotInv, RowInv, TypeOK, FeedTypeOK, ReadStopped, Goto, Refreshed, sessionVars,
         paneVars, editVars, sideVars, feed
<1>5. EditsCurrent'
  BY DEF EditsCurrent, TypeOK, FeedTypeOK, ReadStopped, Goto, Refreshed, sessionVars, paneVars,
         editVars, sideVars, feed
<1>6. PullShowsAll'
  BY DEF SlotInv, RowInv, PullShowsAll, TypeOK, FeedTypeOK, ReadStopped, Goto, Refreshed,
         sessionVars, paneVars, editVars, sideVars, feed
<1>. QED
  BY <1>1, <1>2, <1>3, <1>4, <1>5, <1>6

LEMMA TickKeeps ==
    ASSUME IInv, Tick
    PROVE  IInv'
<1>. USE FeedAssumption, FallbackAssumption DEF IInv, Loaded, RowCount
<1>1. TypeOK'
  BY DEF SlotInv, RowInv, TypeOK, FeedTypeOK, Notes, UiLabels, Slots, Tick, Continue,
         sessionVars, paneVars, editVars, sideVars, feed
<1>2. SlotInv'
  BY DEF SlotInv, TypeOK, FeedTypeOK, Tick, Continue, sessionVars, paneVars, editVars,
         sideVars, feed
<1>3. PollInv'
  BY DEF SlotInv, PollInv, TypeOK, FeedTypeOK, Tick, Continue, sessionVars, paneVars, editVars,
         sideVars, feed
<1>4. RowInv'
  BY DEF SlotInv, RowInv, TypeOK, FeedTypeOK, Tick, Continue, sessionVars, paneVars, editVars,
         sideVars, feed
<1>5. EditsCurrent'
  BY DEF EditsCurrent, TypeOK, FeedTypeOK, Tick, Continue, sessionVars, paneVars, editVars,
         sideVars, feed
<1>6. PullShowsAll'
  BY DEF SlotInv, RowInv, PullShowsAll, TypeOK, FeedTypeOK, Tick, Continue, sessionVars,
         paneVars, editVars, sideVars, feed
<1>. QED
  BY <1>1, <1>2, <1>3, <1>4, <1>5, <1>6

LEMMA TickedKeeps ==
    ASSUME IInv, Ticked
    PROVE  IInv'
<1>. USE FeedAssumption, FallbackAssumption DEF IInv, Loaded, RowCount
<1>1. TypeOK'
  BY DEF SlotInv, RowInv, TypeOK, FeedTypeOK, Notes, UiLabels, Slots, Ticked, Continue,
         sessionVars, paneVars, editVars, sideVars, feed
<1>2. SlotInv'
  BY DEF SlotInv, TypeOK, FeedTypeOK, Ticked, Continue, sessionVars, paneVars, editVars,
         sideVars, feed
<1>3. PollInv'
  BY DEF SlotInv, PollInv, TypeOK, FeedTypeOK, Ticked, Continue, sessionVars, paneVars,
         editVars, sideVars, feed
<1>4. RowInv'
  BY DEF SlotInv, RowInv, TypeOK, FeedTypeOK, Ticked, Continue, sessionVars, paneVars,
         editVars, sideVars, feed
<1>5. EditsCurrent'
  BY DEF EditsCurrent, TypeOK, FeedTypeOK, Ticked, Continue, sessionVars, paneVars, editVars,
         sideVars, feed
<1>6. PullShowsAll'
  BY DEF SlotInv, RowInv, PullShowsAll, TypeOK, FeedTypeOK, Ticked, Continue, sessionVars,
         paneVars, editVars, sideVars, feed
<1>. QED
  BY <1>1, <1>2, <1>3, <1>4, <1>5, <1>6

LEMMA RefreshDisasmKeeps ==
    ASSUME IInv, RefreshDisasm
    PROVE  IInv'
<1>. USE FeedAssumption, FallbackAssumption DEF IInv, Loaded, RowCount
<1>1. TypeOK'
  BY DEF SlotInv, RowInv, TypeOK, FeedTypeOK, Notes, UiLabels, Slots, RefreshDisasm, Continue,
         Goto, sessionVars, paneVars, editVars, sideVars, feed
<1>2. SlotInv'
  BY DEF SlotInv, TypeOK, FeedTypeOK, RefreshDisasm, Continue, Goto, sessionVars, paneVars,
         editVars, sideVars, feed
<1>3. PollInv'
  BY DEF SlotInv, PollInv, TypeOK, FeedTypeOK, RefreshDisasm, Continue, Goto, sessionVars,
         paneVars, editVars, sideVars, feed
<1>4. RowInv'
  BY DEF SlotInv, RowInv, TypeOK, FeedTypeOK, RefreshDisasm, Continue, Goto, sessionVars,
         paneVars, editVars, sideVars, feed
<1>5. EditsCurrent'
  BY DEF EditsCurrent, TypeOK, FeedTypeOK, RefreshDisasm, Continue, Goto, sessionVars,
         paneVars, editVars, sideVars, feed
<1>6. PullShowsAll'
  BY DEF SlotInv, RowInv, PullShowsAll, TypeOK, FeedTypeOK, RefreshDisasm, Continue, Goto,
         sessionVars, paneVars, editVars, sideVars, feed
<1>. QED
  BY <1>1, <1>2, <1>3, <1>4, <1>5, <1>6

LEMMA RefreshSidesKeeps ==
    ASSUME IInv, RefreshSides
    PROVE  IInv'
<1>. USE FeedAssumption, FallbackAssumption DEF IInv, Loaded, RowCount
<1>1. TypeOK'
  BY DEF SlotInv, RowInv, TypeOK, FeedTypeOK, Notes, UiLabels, Slots, RefreshSides, Continue,
         sessionVars, paneVars, editVars, sideVars, feed
<1>2. SlotInv'
  BY DEF SlotInv, TypeOK, FeedTypeOK, RefreshSides, Continue, sessionVars, paneVars, editVars,
         sideVars, feed
<1>3. PollInv'
  BY DEF SlotInv, PollInv, TypeOK, FeedTypeOK, RefreshSides, Continue, sessionVars, paneVars,
         editVars, sideVars, feed
<1>4. RowInv'
  BY DEF SlotInv, RowInv, TypeOK, FeedTypeOK, RefreshSides, Continue, sessionVars, paneVars,
         editVars, sideVars, feed
<1>5. EditsCurrent'
  BY DEF EditsCurrent, TypeOK, FeedTypeOK, RefreshSides, Continue, sessionVars, paneVars,
         editVars, sideVars, feed
<1>6. PullShowsAll'
  BY DEF SlotInv, RowInv, PullShowsAll, TypeOK, FeedTypeOK, RefreshSides, Continue,
         sessionVars, paneVars, editVars, sideVars, feed
<1>. QED
  BY <1>1, <1>2, <1>3, <1>4, <1>5, <1>6

LEMMA ReadThrowsKeeps ==
    ASSUME IInv, ReadThrows
    PROVE  IInv'
<1>. USE FeedAssumption, FallbackAssumption DEF IInv, Loaded, RowCount
<1>1. TypeOK'
  BY DEF SlotInv, RowInv, TypeOK, FeedTypeOK, Notes, UiLabels, Slots, ReadThrows, Goto,
         sessionVars, paneVars, editVars, sideVars, feed
<1>2. SlotInv'
  BY DEF SlotInv, TypeOK, FeedTypeOK, ReadThrows, Goto, sessionVars, paneVars, editVars,
         sideVars, feed
<1>3. PollInv'
  BY DEF SlotInv, PollInv, TypeOK, FeedTypeOK, ReadThrows, Goto, sessionVars, paneVars,
         editVars, sideVars, feed
<1>4. RowInv'
  BY DEF SlotInv, RowInv, TypeOK, FeedTypeOK, ReadThrows, Goto, sessionVars, paneVars,
         editVars, sideVars, feed
<1>5. EditsCurrent'
  BY DEF EditsCurrent, TypeOK, FeedTypeOK, ReadThrows, Goto, sessionVars, paneVars, editVars,
         sideVars, feed
<1>6. PullShowsAll'
  BY DEF SlotInv, RowInv, PullShowsAll, TypeOK, FeedTypeOK, ReadThrows, Goto, sessionVars,
         paneVars, editVars, sideVars, feed
<1>. QED
  BY <1>1, <1>2, <1>3, <1>4, <1>5, <1>6

LEMMA EditRowKeeps ==
    ASSUME IInv, EditRow
    PROVE  IInv'
<1>. USE FeedAssumption, FallbackAssumption DEF IInv, Loaded, RowCount
<1>1. TypeOK'
  BY DEF SlotInv, RowInv, TypeOK, FeedTypeOK, Notes, UiLabels, Slots, EditRow, sessionVars,
         paneVars, editVars, sideVars, feed
<1>2. SlotInv'
  BY DEF SlotInv, TypeOK, FeedTypeOK, EditRow, sessionVars, paneVars, editVars, sideVars, feed
<1>3. PollInv'
  BY DEF SlotInv, PollInv, TypeOK, FeedTypeOK, EditRow, sessionVars, paneVars, editVars,
         sideVars, feed
<1>4. RowInv'
  BY DEF SlotInv, RowInv, TypeOK, FeedTypeOK, EditRow, sessionVars, paneVars, editVars,
         sideVars, feed
<1>5. EditsCurrent'
  <2>1. PICK edit : edits' = edits \cup {edit} /\ edit.gen = gen
    <3>1. PICK r \in 0 .. modelRows - 1 : edits' = edits \cup {[row |-> r, gen |-> gen]}
      BY DEF EditRow
    <3>2. [row |-> r, gen |-> gen].gen = gen
      OBVIOUS
    <3>. QED
      BY <3>1, <3>2
  <2>2. recompile' = TRUE /\ edits' # {}
    BY <2>1 DEF EditRow
  <2>3. \A e \in edits' : e.gen = gen'
    BY <2>1 DEF EditRow, EditsCurrent, feed
  <2>. QED
    BY <2>2, <2>3 DEF EditsCurrent
<1>6. PullShowsAll'
  BY DEF SlotInv, RowInv, PullShowsAll, TypeOK, FeedTypeOK, EditRow, sessionVars, paneVars,
         editVars, sideVars, feed
<1>. QED
  BY <1>1, <1>2, <1>3, <1>4, <1>5, <1>6

LEMMA WorkerKeeps ==
    ASSUME IInv, Worker
    PROVE  IInv'
<1>. USE FeedAssumption, FallbackAssumption DEF IInv, Loaded, RowCount
<1>1. TypeOK'
  <2>1. FeedTypeOK'
    <3>1. CASE PublishRow
      BY <3>1 DEF TypeOK, FeedTypeOK, PublishRow
    <3>2. CASE EndDecode
      <4>1. running' \in BOOLEAN
        BY <3>2 DEF EndDecode
      <4>. QED
        BY <3>2, <4>1 DEF TypeOK, FeedTypeOK, EndDecode
    <3>. QED
      BY <3>1, <3>2 DEF Worker, FeedWorker
  <2>2. UNCHANGED guiVars
    BY DEF Worker
  <2>. QED
    BY <2>1, <2>2 DEF TypeOK, guiVars, sessionVars, paneVars, editVars, sideVars
<1>2. SlotInv'
  BY DEF SlotInv, TypeOK, FeedTypeOK, Worker, FeedWorker, PublishRow, EndDecode, guiVars,
         sessionVars, paneVars, editVars, sideVars, feed
<1>3. PollInv'
  BY DEF SlotInv, PollInv, TypeOK, FeedTypeOK, Worker, FeedWorker, PublishRow, EndDecode,
         guiVars, sessionVars, paneVars, editVars, sideVars, feed
<1>4. RowInv'
  BY DEF SlotInv, RowInv, TypeOK, FeedTypeOK, Worker, FeedWorker, PublishRow, EndDecode,
         guiVars, sessionVars, paneVars, editVars, sideVars, feed
<1>5. EditsCurrent'
  BY DEF EditsCurrent, TypeOK, FeedTypeOK, Worker, FeedWorker, PublishRow, EndDecode, guiVars,
         sessionVars, paneVars, editVars, sideVars, feed
<1>6. PullShowsAll'
  BY DEF SlotInv, RowInv, PullShowsAll, TypeOK, FeedTypeOK, Worker, FeedWorker, PublishRow,
         EndDecode, guiVars, sessionVars, paneVars, editVars, sideVars, feed
<1>. QED
  BY <1>1, <1>2, <1>3, <1>4, <1>5, <1>6

LEMMA InitHolds ==
    ASSUME Init
    PROVE  IInv
<1>. USE FeedAssumption, FallbackAssumption DEF Init, FeedInit
<1>1. TypeOK
  <2>1. /\ running \in BOOLEAN /\ real \in BOOLEAN /\ timer \in BOOLEAN /\ recompile \in BOOLEAN
        /\ scanning \in BOOLEAN
    OBVIOUS
  <2>. QED
    BY <2>1 DEF TypeOK, FeedTypeOK, Notes, UiLabels, Slots
<1>2. SlotInv /\ PollInv /\ RowInv
  BY DEF SlotInv, PollInv, RowInv, RowCount, Loaded
<1>3. EditsCurrent /\ PullShowsAll
  BY DEF EditsCurrent, PullShowsAll
<1>. QED
  BY <1>1, <1>2, <1>3 DEF IInv

LEMMA NextKeeps ==
    ASSUME IInv, [Next]_vars
    PROVE  IInv'
<1>1. CASE UNCHANGED vars
  <2>1. UNCHANGED <<feed, ui, slot, sessionVars, timer, paneVars, editVars, sideVars>>
    BY <1>1 DEF vars, guiVars
  <2>2. TypeOK'
    BY <2>1 DEF IInv, TypeOK, FeedTypeOK, feed, sessionVars, paneVars, editVars, sideVars
  <2>3. SlotInv' /\ PollInv' /\ RowInv' /\ EditsCurrent' /\ PullShowsAll'
    BY <2>1
    DEF IInv, SlotInv, PollInv, RowInv, EditsCurrent, PullShowsAll, RowCount, Loaded, feed,
        sessionVars, paneVars, editVars, sideVars
  <2>. QED
    BY <2>2, <2>3 DEF IInv
<1>2. CASE OpenPath
  BY <1>2, OpenPathKeeps
<1>3. CASE OpenPathFails
  BY <1>3, OpenPathFailsKeeps
<1>4. CASE OpenPathThrows
  BY <1>4, OpenPathThrowsKeeps
<1>5. CASE InSlot
  BY <1>5, PollOrPullKeeps, ThrowIfFileChangedKeeps, ReadCountKeeps, ReadStoppedKeeps,
     TickedKeeps, RefreshDisasmKeeps, RefreshSidesKeeps, ReadThrowsKeeps DEF InSlot
<1>6. CASE Tick
  BY <1>6, TickKeeps
<1>7. CASE EditRow
  BY <1>7, EditRowKeeps
<1>8. CASE Worker
  BY <1>8, WorkerKeeps
<1>. QED
  BY <1>1, <1>2, <1>3, <1>4, <1>5, <1>6, <1>7, <1>8 DEF Next, Gone

\* What holds between any two steps of the UI thread and the worker.
THEOREM WindowInvariant == Spec => []IInv
<1>1. Init => IInv
  BY InitHolds
<1>2. IInv /\ [Next]_vars => IInv'
  BY NextKeeps
<1>. QED
  BY <1>1, <1>2, PTL DEF Spec

\* gui::Session's, MainWindow's and the panes' fields keep their types, whatever is opened,
\* edited or polled.
THEOREM WindowTypeCorrect == Spec => []TypeOK
<1>1. IInv => TypeOK
  BY DEF IInv
<1>. QED
  BY <1>1, WindowInvariant, PTL

\* The table never asks the disassembler for a row it has not published, and between slots its
\* model is the loaded binary's (disassembler.hpp:97-99, gui/session.cpp:197-202).
THEOREM OnlyPublishedRows == Spec => []RowsPublished
<1>1. IInv => RowsPublished
  BY DEF IInv, RowInv, RowsPublished, Idle
<1>. QED
  BY <1>1, WindowInvariant, PTL

\* No edit outlives the binary it was made in, and Recompile is live exactly when there is one
\* (main_window.cpp:360-363, 459-461).
THEOREM EditsAreOfThisBinary == Spec => []EditsCurrent
<1>1. IInv => EditsCurrent
  BY DEF IInv
<1>. QED
  BY <1>1, WindowInvariant, PTL

\* However the worker's end falls between openPath()'s look at it and the slot's end, a decode
\* that goes on between slots is polled (main_window.cpp:367-371).
THEOREM NoDecodeIsForgotten == Spec => []PollsWhileDecoding
<1>1. IInv => PollsWhileDecoding
  BY DEF IInv, PollInv, PollsWhileDecoding, Idle
<1>. QED
  BY <1>1, WindowInvariant, PTL

\* A decode that was over when openPath() looked is on the screen whole (main_window.cpp:367-371).
THEOREM PullsAreComplete == Spec => []PullShowsAll
<1>1. IInv => PullShowsAll
  BY DEF IInv
<1>. QED
  BY <1>1, WindowInvariant, PTL

\* The poll does not stop on a symbol scan that was put off (symbols_pane.cpp:122-129).
THEOREM ScansAreMadeUp == Spec => []ScanNotForgotten
<1>1. IInv => ScanNotForgotten
  BY DEF IInv, SlotInv, PollInv, ScanNotForgotten, Idle
<1>. QED
  BY <1>1, WindowInvariant, PTL
=============================================================================
