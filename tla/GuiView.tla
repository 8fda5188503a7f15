------------------------------- MODULE GuiView -------------------------------
(***************************************************************************)
(* The Qt front end over a DecodeFeed: gui::Session (src/src/gui/          *)
(* session.cpp), MainWindow (main_window.cpp) and the panes it refreshes.  *)
(*                                                                         *)
(* Everything happens on the UI thread, one slot at a time: opening a      *)
(* path, a tick of the 100 ms poll timer, an edit of an Instruction cell.  *)
(* Inside a slot the worker goes on, so every read of its state is a step  *)
(* of its own.                                                             *)
(***************************************************************************)
EXTENDS DecodeFeed

CONSTANT FallbackRows    \* rows of raw bytes shown for a stub decoder

ASSUME FallbackAssumption == FallbackRows \in Nat

VARIABLES
    ui,          \* where the UI thread is in a slot
    slot,        \* which slot it is in
    real,        \* decodedForReal_
    shown,       \* shownRows_
    fallback,    \* fallbackRows_.size()
    timer,       \* decodeTimer_ is active
    modelGen,    \* DisassemblyPane's lastGen_
    modelRows,   \* DisasmModel's rows_
    banner,      \* the pane's banner
    edits,       \* DisasmModel's edits_: rows, with the generation they were made in
    recompile,   \* recompileAct_ is enabled
    scanning,    \* SymbolsPane's scanning_
    scanned,     \* rows the symbols were collected over
    memoryGen    \* MemoryPane's lastGen_

sessionVars == <<real, shown, fallback>>
paneVars    == <<modelGen, modelRows, banner>>
editVars    == <<edits, recompile>>
sideVars    == <<scanning, scanned, memoryGen>>
guiVars     == <<ui, slot, sessionVars, timer, paneVars, editVars, sideVars>>
vars        == <<feed, guiVars>>

UiLabels == {"idle", "opened", "throw", "count", "stub", "ticked", "disasm",
             "symbols", "gone"}

\* "polled": openPath() found the decode running; "pulled": it did not; "growing"
\* and "final": the two branches of onDecodeTick().
Slots == {"none", "open", "polled", "pulled", "tick", "growing", "final"}

TypeOK ==
    /\ FeedTypeOK
    /\ ui \in UiLabels
    /\ slot \in Slots
    /\ real \in BOOLEAN /\ shown \in 0 .. MaxRows /\ fallback \in 0 .. FallbackRows
    /\ timer \in BOOLEAN
    /\ modelGen \in 0 .. MaxOpens
    /\ modelRows \in (0 .. MaxRows) \cup (0 .. FallbackRows)
    /\ banner \in {"none", "note", "stub"}
    /\ edits \subseteq [row : Nat, gen : 1 .. MaxOpens]
    /\ recompile \in BOOLEAN
    /\ scanning \in BOOLEAN
    /\ scanned \in 0 .. MaxRows
    /\ memoryGen \in 0 .. MaxOpens

Init ==
    /\ FeedInit
    /\ ui = "idle" /\ slot = "none"
    /\ real = FALSE /\ shown = 0 /\ fallback = 0
    /\ timer = FALSE
    /\ modelGen = 0 /\ modelRows = 0 /\ banner = "none"
    /\ edits = {} /\ recompile = FALSE
    /\ scanning = FALSE /\ scanned = 0
    /\ memoryGen = 0

Loaded == gen > 0

\* gui::Session::rowCount()
RowCount == IF ~Loaded THEN 0 ELSE IF real THEN shown ELSE fallback

Goto(label) == ui' = label /\ UNCHANGED slot
Continue(label, as) == ui' = label /\ slot' = as

-----------------------------------------------------------------------------
(* MainWindow::openPath()                                                  *)

\* Mutant: the rows of the previous sweep are left behind.
OnDecodeStartedKeepingRows == UNCHANGED sessionVars

OnDecodeStarted == real' = FALSE /\ shown' = 0 /\ fallback' = 0

\* Mutant: Recompile is disabled and the edits are kept.
ClearEditsNot == recompile' = FALSE /\ UNCHANGED edits

\* clearPendingEdits() and the action that depends on it.
ClearEdits == edits' = {} /\ recompile' = FALSE

\* open() succeeds, once the previous worker has been joined: the edits of the
\* previous binary are dropped with it.
OpenPath ==
    /\ ui = "idle"
    /\ OpenFeed
    /\ OnDecodeStarted
    /\ ClearEdits
    /\ Continue("opened", "open")
    /\ UNCHANGED <<timer, paneVars, sideVars>>

\* open() fails: the previous binary stays, and what follows is the same.
OpenPathFails ==
    /\ ui = "idle"
    /\ Continue("opened", "open")
    /\ UNCHANGED <<feed, sessionVars, timer, paneVars, editVars, sideVars>>

\* A FileChanged inside open(), or in a paint event that reads the mapping, leaves
\* through App::notify().
OpenPathThrows ==
    /\ ui = "idle"
    /\ Goto("gone")
    /\ UNCHANGED <<feed, sessionVars, timer, paneVars, editVars, sideVars>>

\* Mutant: rows already there are taken for a finished decode.
PollOrPullByRows ==
    /\ ui = "opened"
    /\ IF running /\ ready = 0
         THEN timer' = TRUE /\ Continue("disasm", "polled")
         ELSE Continue("throw", "pulled") /\ UNCHANGED timer
    /\ UNCHANGED <<feed, sessionVars, paneVars, editVars, sideVars>>

\* Mutant: a finished decode is not pulled.
PollOnly ==
    /\ ui = "opened"
    /\ IF running
         THEN timer' = TRUE /\ Continue("disasm", "polled")
         ELSE Continue("disasm", "pulled") /\ UNCHANGED timer
    /\ UNCHANGED <<feed, sessionVars, paneVars, editVars, sideVars>>

\* Poll a decode that is going on; pull the rows of one that is not.
PollOrPull ==
    /\ ui = "opened"
    /\ IF running
         THEN timer' = TRUE /\ Continue("disasm", "polled")
         ELSE Continue("throw", "pulled") /\ UNCHANGED timer
    /\ UNCHANGED <<feed, sessionVars, paneVars, editVars, sideVars>>

-----------------------------------------------------------------------------
(* gui::Session::refresh(), from openPath() and from onDecodeTick().       *)

Refreshed == Goto(IF slot = "tick" THEN "ticked" ELSE "disasm")

ThrowIfFileChanged ==
    /\ ui = "throw"
    /\ IF Loaded /\ ~running /\ note = "changed"
         THEN Goto("gone") /\ UNCHANGED sessionVars
         ELSE IF Loaded THEN Goto("count") /\ UNCHANGED sessionVars
                        ELSE Refreshed /\ OnDecodeStarted
    /\ UNCHANGED <<feed, timer, paneVars, editVars, sideVars>>

\* Mutant: one row more than was published.
ReadCountBeyond ==
    /\ ui = "count"
    /\ IF ready > 0
         THEN real' = TRUE /\ shown' = ready + 1 /\ Refreshed
         ELSE Goto("stub") /\ UNCHANGED <<real, shown>>
    /\ UNCHANGED <<feed, fallback, timer, paneVars, editVars, sideVars>>

ReadCount ==
    /\ ui = "count"
    /\ IF ready > 0
         THEN real' = TRUE /\ shown' = ready /\ Refreshed
         ELSE Goto("stub") /\ UNCHANGED <<real, shown>>
    /\ UNCHANGED <<feed, fallback, timer, paneVars, editVars, sideVars>>

\* No rows were there a moment ago: still decoding, or a stub.
ReadStopped ==
    /\ ui = "stub"
    /\ Refreshed
    /\ IF running THEN UNCHANGED sessionVars
                  ELSE real' = FALSE /\ fallback' = FallbackRows /\ UNCHANGED shown
    /\ UNCHANGED <<feed, timer, paneVars, editVars, sideVars>>

-----------------------------------------------------------------------------
(* The poll timer and the panes.                                           *)

\* The timer fires between slots.
Tick ==
    /\ ui = "idle"
    /\ timer
    /\ Continue("throw", "tick")
    /\ UNCHANGED <<feed, sessionVars, timer, paneVars, editVars, sideVars>>

\* onDecodeTick() asks whether the decode runs only after it has refreshed.
Ticked ==
    /\ ui = "ticked"
    /\ Continue("disasm", IF running THEN "growing" ELSE "final")
    /\ UNCHANGED <<feed, sessionVars, timer, paneVars, editVars, sideVars>>

\* Mutant: the final tick refreshes the disassembly alone, like the others.
RefreshDisasmAlone ==
    /\ ui = "disasm"
    /\ banner' = IF ~Loaded \/ real \/ running THEN "none"
                 ELSE IF note # "none" THEN "note" ELSE "stub"
    /\ modelGen' = gen
    /\ modelRows' = RowCount
    /\ timer' = (timer /\ slot # "final")
    /\ IF slot \in {"growing", "final"} THEN Continue("idle", "none") ELSE Goto("symbols")
    /\ UNCHANGED <<feed, sessionVars, editVars, sideVars>>

\* DisassemblyPane::refresh(): the banner, then the model follows the row count.
RefreshDisasm ==
    /\ ui = "disasm"
    /\ banner' = IF ~Loaded \/ real \/ running THEN "none"
                 ELSE IF note # "none" THEN "note" ELSE "stub"
    /\ modelGen' = gen
    /\ modelRows' = RowCount
    /\ IF slot = "growing" THEN Continue("idle", "none") ELSE Goto("symbols")
    /\ UNCHANGED <<feed, sessionVars, timer, editVars, sideVars>>

\* Mutant: the final tick leaves the timer on.
RefreshSidesOnly ==
    /\ ui = "symbols"
    /\ scanning' = (Loaded /\ running)
    /\ scanned' = IF Loaded /\ ~running /\ real THEN shown ELSE 0
    /\ memoryGen' = gen
    /\ Continue("idle", "none")
    /\ UNCHANGED <<feed, sessionVars, timer, paneVars, editVars>>

\* The rest of refreshAll(): SymbolsPane::refresh() scans the rows of a finished
\* decode, MemoryPane::refresh() reloads for a new generation.  The final tick then
\* stops the timer.
RefreshSides ==
    /\ ui = "symbols"
    /\ scanning' = (Loaded /\ running)
    /\ scanned' = IF Loaded /\ ~running /\ real THEN shown ELSE 0
    /\ memoryGen' = gen
    /\ timer' = (timer /\ slot # "final")
    /\ Continue("idle", "none")
    /\ UNCHANGED <<feed, sessionVars, paneVars, editVars>>

\* Raw bytes and strings are read from the mapping: a shrunk file throws.
ReadThrows ==
    /\ ui \in {"stub", "symbols"}
    /\ Loaded /\ ~running
    /\ Goto("gone")
    /\ UNCHANGED <<feed, sessionVars, timer, paneVars, editVars, sideVars>>

\* DisasmModel::setData(): one override per row; editsChanged() enables Recompile.
EditRow ==
    /\ ui = "idle"
    /\ \E row \in 0 .. modelRows - 1 :
         edits' = edits \cup {[row |-> row, gen |-> gen]}
    /\ recompile' = TRUE
    /\ UNCHANGED <<feed, ui, slot, sessionVars, timer, paneVars, sideVars>>

-----------------------------------------------------------------------------

InSlot == \/ PollOrPull \/ ThrowIfFileChanged \/ ReadCount \/ ReadStopped \/ Ticked
          \/ RefreshDisasm \/ RefreshSides \/ ReadThrows

Worker == FeedWorker /\ UNCHANGED guiVars

Gone == ui = "gone" /\ ~running /\ UNCHANGED vars

Next == \/ OpenPath \/ OpenPathFails \/ OpenPathThrows
        \/ InSlot \/ Tick \/ EditRow \/ Worker \/ Gone

Spec == Init /\ [][Next]_vars

\* The worker is scheduled, a slot that has begun goes on, and an active timer fires
\* whatever else the event loop has to do.
FairSpec == /\ Spec
            /\ WF_vars(Worker)
            /\ WF_vars(InSlot)
            /\ SF_vars(Tick)

-----------------------------------------------------------------------------
(* What is shown.                                                          *)

Idle == ui = "idle"

\* No row beyond the published count of the binary on the screen is ever asked for
\* (disassembler.hpp:97-99, gui/session.cpp:197-202).
RowsPublished ==
    /\ real => shown <= ready
    /\ Idle => modelGen = gen /\ modelRows = RowCount

\* A pending edit is of the binary on the screen, and Recompile is live exactly when
\* there is one (main_window.cpp:360-363, 459-461).  Its row need not be there any
\* more: raw bytes shown by an early final tick may outnumber the rows of the decode.
EditsCurrent ==
    /\ \A edit \in edits : edit.gen = gen
    /\ recompile <=> edits # {}

\* Between slots, a decode that is going on is being polled.
PollsWhileDecoding == Idle /\ running => timer

\* When openPath() finds the decode over, its refresh() sees every row
\* (main_window.cpp:367-371).
PullShowsAll ==
    slot = "pulled" /\ ui \in {"disasm", "symbols"} /\ Loaded =>
      IF ready > 0 THEN real /\ shown = ready ELSE ~real /\ fallback = FallbackRows

\* A symbol scan that was put off is done before the polling stops, and the memory
\* pane is the loaded binary's (symbols_pane.cpp:122-129).
ScanNotForgotten == Idle => /\ ~timer => ~scanning
                            /\ memoryGen = gen

\* The polling costs nothing when idle: it stops (main_window.cpp:97-100).
PollingStops == []<>(~timer \/ ui = "gone")

\* "Stops itself on the first tick that sees the decode finished (that tick shows
\* the full result)" (main_window.cpp:98-100).
FinalTickShowsAll == (Idle /\ Loaded /\ ~timer /\ ready > 0) => (real /\ shown = ready)
=============================================================================
