------------------------------- MODULE TuiView -------------------------------
(***************************************************************************)
(* The terminal front end over a DecodeFeed: tui::Session                  *)
(* (src/src/tui/session.cpp), AppView::OnRender() and the ticker thread    *)
(* (src/src/tui/ui.cpp).                                                   *)
(*                                                                         *)
(* The UI thread draws a frame for every event.  A frame reads isDecoding()*)
(* up to three times and the row count once, and the worker may publish or *)
(* finish between any two of those reads, so each read is a step.  Nothing *)
(* but an event draws a frame; the ticker posts one every 100 ms while     *)
(* AppView says the decode is unfinished.                                  *)
(***************************************************************************)
EXTENDS DecodeFeed

VARIABLES
    ui,            \* where the UI thread is in a frame
    doneSeen,      \* OnRender()'s local `done'
    doneInside,    \* refresh()'s local `done'
    real,          \* real_
    shown,         \* shown_
    fallback,      \* fallback_ holds the raw bytes
    banner,        \* which banner_ is set
    scanned,       \* rows collectSymbols() walked, or NotScanned
    symbolsGen,    \* symbolsGen_
    refreshedGen,  \* refreshedGen_
    ticking,       \* ticking_
    first,         \* the ticker has not posted yet
    event          \* an event waits for the UI thread

frameVars  == <<doneSeen, doneInside>>
rowVars    == <<real, shown, fallback, banner>>
symbolVars == <<scanned, symbolsGen>>
loopVars   == <<refreshedGen, ticking, first, event>>
tuiVars    == <<ui, frameVars, rowVars, symbolVars, loopVars>>
vars       == <<feed, tuiVars>>

NotScanned == MaxRows + 1

\* symbolsGen_ starts as ~0ull, no generation.
NoGen == MaxOpens + 1

UiLabels == {"start", "idle", "done", "throw", "stopped", "count", "finish", "gone"}

Banners == {"none", "decoding", "stopped", "note", "stub"}

TypeOK ==
    /\ FeedTypeOK
    /\ ui \in UiLabels
    /\ doneSeen \in BOOLEAN /\ doneInside \in BOOLEAN
    /\ real \in BOOLEAN /\ shown \in 0 .. MaxRows /\ fallback \in BOOLEAN
    /\ banner \in Banners
    /\ scanned \in 0 .. NotScanned
    /\ symbolsGen \in 0 .. NoGen
    /\ refreshedGen \in 0 .. MaxOpens
    /\ ticking \in BOOLEAN /\ first \in BOOLEAN /\ event \in BOOLEAN

Init ==
    /\ FeedInit
    /\ ui = "start"
    /\ doneSeen = FALSE /\ doneInside = FALSE
    /\ real = FALSE /\ shown = 0 /\ fallback = FALSE /\ banner = "none"
    /\ scanned = NotScanned /\ symbolsGen = NoGen
    /\ refreshedGen = 0 /\ ticking = TRUE /\ first = TRUE /\ event = TRUE

-----------------------------------------------------------------------------
(* Opening a binary.                                                       *)

\* Mutant: the row count of the previous sweep is left behind.
OnDecodeStartedKeepingRows ==
    /\ banner' = "none"
    /\ scanned' = NotScanned
    /\ UNCHANGED <<real, shown, fallback, symbolsGen>>

\* onDecodeStarted(): nothing of the previous sweep's view is left.
OnDecodeStarted ==
    /\ real' = FALSE /\ shown' = 0 /\ fallback' = FALSE
    /\ banner' = "none"
    /\ scanned' = NotScanned
    /\ UNCHANGED symbolsGen

\* The session's constructor adopts the binary named on the command line and
\* refreshes once, outside of any frame.
Construct ==
    /\ ui = "start"
    /\ OpenFeed
    /\ OnDecodeStarted
    /\ ui' = "throw"
    /\ UNCHANGED <<frameVars, loopVars>>

\* submitOpen(): a successful open(); the event that caused it draws a frame.
Open ==
    /\ ui = "idle"
    /\ OpenFeed
    /\ OnDecodeStarted
    /\ event' = TRUE
    /\ UNCHANGED <<ui, frameVars, refreshedGen, ticking, first>>

\* Any other key or click, an open() that failed among them.
UserEvent ==
    /\ ui = "idle"
    /\ ~event
    /\ event' = TRUE
    /\ UNCHANGED <<feed, ui, frameVars, rowVars, symbolVars, refreshedGen, ticking, first>>

\* A file that shrinks inside open() ends the program.
OpenThrows ==
    /\ ui = "idle"
    /\ ui' = "gone"
    /\ UNCHANGED <<feed, frameVars, rowVars, symbolVars, loopVars>>

-----------------------------------------------------------------------------
(* One frame: OnRender() and, inside it, Session::refresh().               *)

\* Is there anything to refresh?
StartFrame ==
    /\ ui = "idle"
    /\ event
    /\ event' = FALSE
    /\ ui' = IF running \/ refreshedGen # gen THEN "done" ELSE "finish"
    /\ UNCHANGED <<feed, frameVars, rowVars, symbolVars, refreshedGen, ticking, first>>

\* `done' is read before refresh(), so that what it vouches for is refreshed after.
ReadDone ==
    /\ ui = "done"
    /\ doneSeen' = ~running
    /\ ui' = "throw"
    /\ UNCHANGED <<feed, doneInside, rowVars, symbolVars, loopVars>>

\* throwIfFileChanged(), then the banner is dropped.
ThrowIfFileChanged ==
    /\ ui = "throw"
    /\ IF ~running /\ note = "changed"
         THEN ui' = "gone" /\ UNCHANGED banner
         ELSE ui' = "stopped" /\ banner' = "none"
    /\ UNCHANGED <<feed, frameVars, real, shown, fallback, symbolVars, loopVars>>

ReadStopped ==
    /\ ui = "stopped"
    /\ doneInside' = ~running
    /\ ui' = "count"
    /\ UNCHANGED <<feed, doneSeen, rowVars, symbolVars, loopVars>>

\* Mutant: one row more than was published.
ShowRowsBeyond ==
    \/ /\ ready > 0
       /\ real' = TRUE /\ shown' = ready + 1
       /\ banner' = IF doneInside /\ note # "none" THEN "stopped" ELSE "none"
       /\ UNCHANGED fallback
    \/ /\ ready = 0 /\ ~doneInside
       /\ banner' = "decoding"
       /\ UNCHANGED <<real, shown, fallback>>
    \/ /\ ready = 0 /\ doneInside
       /\ real' = FALSE /\ fallback' = TRUE
       /\ banner' = IF note # "none" THEN "note" ELSE "stub"
       /\ UNCHANGED shown

ShowRows ==
    \/ /\ ready > 0
       /\ real' = TRUE /\ shown' = ready
       /\ banner' = IF doneInside /\ note # "none" THEN "stopped" ELSE "none"
       /\ UNCHANGED fallback
    \/ /\ ready = 0 /\ ~doneInside
       /\ banner' = "decoding"
       /\ UNCHANGED <<real, shown, fallback>>
    \/ /\ ready = 0 /\ doneInside
       /\ real' = FALSE /\ fallback' = TRUE
       /\ banner' = IF note # "none" THEN "note" ELSE "stub"
       /\ UNCHANGED shown

\* Mutant: symbols are collected as soon as there are rows.
CollectSymbolsEarly ==
    IF symbolsGen # gen
      THEN /\ scanned' = IF real' THEN shown' ELSE 0
           /\ symbolsGen' = gen
      ELSE UNCHANGED symbolVars

\* collectSymbols(), once per generation and only when the sweep is over.
CollectSymbols ==
    IF doneInside /\ symbolsGen # gen
      THEN /\ scanned' = IF real' THEN shown' ELSE 0
           /\ symbolsGen' = gen
      ELSE UNCHANGED symbolVars

ReadCount ==
    /\ ui = "count"
    /\ ShowRows
    /\ CollectSymbols
    /\ ui' = "finish"
    /\ UNCHANGED <<feed, frameVars, loopVars>>

\* The fallback rows and the strings are read from the mapping: a shrunk file
\* throws out of the frame.
ReadThrows ==
    /\ ui = "count"
    /\ doneInside
    /\ ready = 0 \/ symbolsGen # gen
    /\ ui' = "gone"
    /\ UNCHANGED <<feed, frameVars, rowVars, symbolVars, loopVars>>

\* Mutant: `done' is read after refresh() instead of before.
FinishFrameRereads ==
    /\ ui = "finish"
    /\ refreshedGen' = IF ~running THEN gen ELSE refreshedGen
    /\ ticking' = (refreshedGen' # gen)
    /\ doneSeen' = FALSE
    /\ ui' = "idle"
    /\ UNCHANGED <<feed, doneInside, rowVars, symbolVars, first, event>>

\* Mutant: the ticker follows the worker, not the view.
FinishFrameTicksWorker ==
    /\ ui = "finish"
    /\ refreshedGen' = IF doneSeen THEN gen ELSE refreshedGen
    /\ ticking' = running
    /\ doneSeen' = FALSE
    /\ ui' = "idle"
    /\ UNCHANGED <<feed, doneInside, rowVars, symbolVars, first, event>>

\* The rest of OnRender(): what is settled, and whether the ticker is needed.
FinishFrame ==
    /\ ui = "finish"
    /\ refreshedGen' = IF doneSeen THEN gen ELSE refreshedGen
    /\ ticking' = (refreshedGen' # gen)
    /\ doneSeen' = FALSE
    /\ ui' = "idle"
    /\ UNCHANGED <<feed, doneInside, rowVars, symbolVars, first, event>>

Frame == \/ StartFrame \/ ReadDone \/ ThrowIfFileChanged \/ ReadStopped
         \/ ReadCount \/ ReadThrows \/ FinishFrame

-----------------------------------------------------------------------------
(* The ticker thread: one event at once, then one per 100 ms while needed. *)

PostEvent ==
    /\ ui \notin {"start", "gone"}
    /\ first \/ ticking
    /\ ~event
    /\ event' = TRUE
    /\ first' = FALSE
    /\ UNCHANGED <<feed, ui, frameVars, rowVars, symbolVars, refreshedGen, ticking>>

Worker == FeedWorker /\ UNCHANGED tuiVars

Gone == ui = "gone" /\ ~running /\ UNCHANGED vars

Next == Construct \/ Open \/ UserEvent \/ OpenThrows \/ Frame \/ PostEvent \/ Worker \/ Gone

Spec == Init /\ [][Next]_vars

\* Three threads are scheduled: the worker, the UI thread in the middle of a frame
\* or with an event waiting, and the ticker.
FairSpec == /\ Spec
            /\ WF_vars(Construct)
            /\ WF_vars(Worker)
            /\ WF_vars(Frame)
            /\ WF_vars(PostEvent)

-----------------------------------------------------------------------------
(* What is shown.                                                          *)

Settled == refreshedGen = gen

\* Once the view has stopped refreshing a binary, everything there is to know of
\* its decode is on the screen: all rows or the raw bytes, and the note; and a
\* FileChanged has not been swallowed (ui.cpp:142-148, session.cpp:89-110).
SettledShowsAll ==
    Settled /\ gen > 0 =>
      /\ ~running
      /\ note # "changed"
      /\ IF ready > 0
           THEN real /\ shown = ready /\ (banner = "stopped" <=> note = "error")
           ELSE ~real /\ fallback /\ (banner = "note" <=> note = "error")

\* Symbols are collected over the complete sweep of the binary on the screen.
SymbolsComplete == symbolsGen = gen => ~running /\ scanned = ready

\* Rows are added and never taken back until the view is replaced or settles.
View == INSTANCE ProgressiveView WITH settled <- Settled
KeepsView == View!Spec

\* Left alone, every decode ends up settled on the screen (or ends the program).
EventuallySettled == []<>(Settled \/ ui = "gone")
=============================================================================
