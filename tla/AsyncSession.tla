---------------------------- MODULE AsyncSession ----------------------------
(***************************************************************************)
(* voidwalk::Session (src/src/analysis_session.cpp): a UI thread that      *)
(* opens, polls, compacts and closes, and one decode worker per            *)
(* generation, each with its own DecodeState.                              *)
(*                                                                         *)
(* Every successful open() creates one AddressSpace, one Disassembler and  *)
(* one DecodeState; all three are named by the generation they belong to.  *)
(* `refs' counts the shared_ptr owners of that pair: the Session, open()'s *)
(* local variables and the worker's captured copies.                       *)
(*                                                                         *)
(* What the sweep decodes is DecodeSweep's; here a line is a step that     *)
(* publishes a row, ends the sweep, or throws.                             *)
(***************************************************************************)
EXTENDS Naturals, FiniteSets

CONSTANTS
    MaxOpens,    \* bound: successful open() calls
    MaxRows      \* bound: rows of one sweep

ASSUME SessionAssumption == MaxOpens \in Nat /\ MaxRows \in Nat

Gens == 1 .. MaxOpens

VARIABLES
    ui,          \* where the UI thread is
    openResult,  \* how the last open() ended
    binary,      \* the pair held in space_ and disassembler_, 0 for none
    gen,         \* decodeGeneration_; decodeState_ is the state of this generation
    refs,        \* owners of each pair
    shrunk,      \* pairs whose stores were compacted
    work,        \* where each generation's worker is
    rows,        \* its Disassembler's readyCount
    stop,        \* its stop token
    state        \* its DecodeState

uiVars     == <<ui, openResult, binary, gen, shrunk>>
workerVars == <<work, rows, state>>
vars       == <<uiVars, refs, stop, workerVars>>

\* "idle": in the event loop, or wherever no member function is running.
UiLabels == {"idle", "detecting", "joining", "closing", "gone"}

\* The worker's lambda: decode() at its stop check or inside a line, the two
\* exceptions in flight, the catch blocks, and the thread's end.
WorkLabels == {"none", "check", "line", "changed", "error", "flag", "ending",
               "exiting", "over"}

Decoding == {"check", "line"}
Live     == WorkLabels \ {"none", "over"}

\* DecodeState, default-initialised.
FreshState == [running |-> FALSE, note |-> "none", fileChanged |-> FALSE]

\* As runDecode() leaves it before the thread starts.
RunningState == [running |-> TRUE, note |-> "none", fileChanged |-> FALSE]

States == [running : BOOLEAN, note : {"none", "error", "changed"}, fileChanged : BOOLEAN]

TypeOK ==
    /\ ui \in UiLabels
    /\ openResult \in {"none", "loaded", "failed", "threw"}
    /\ binary \in 0 .. MaxOpens
    /\ gen \in 0 .. MaxOpens
    /\ refs \in [Gens -> Nat]
    /\ shrunk \subseteq Gens
    /\ work \in [Gens -> WorkLabels]
    /\ rows \in [Gens -> 0 .. MaxRows]
    /\ stop \in [Gens -> BOOLEAN]
    /\ state \in [Gens -> States]

Init ==
    /\ ui = "idle"
    /\ openResult = "none"
    /\ binary = 0 /\ gen = 0
    /\ refs = [g \in Gens |-> 0]
    /\ shrunk = {}
    /\ work = [g \in Gens |-> "none"]
    /\ rows = [g \in Gens |-> 0]
    /\ stop = [g \in Gens |-> FALSE]
    /\ state = [g \in Gens |-> FreshState]

-----------------------------------------------------------------------------
(* The UI thread.                                                          *)

IsDecoding == gen > 0 /\ state[gen].running

\* Mutant: nobody waits for the previous worker.
JoinedAtOnce == TRUE

\* The current worker's thread has ended, or there never was one.
Joined == gen > 0 => work[gen] = "over"

\* The Session lets go of the pair it holds.
Released == [g \in Gens |-> IF g = binary THEN refs[g] - 1 ELSE refs[g]]

\* decodeThread_'s destruction or replacement asks its worker to stop.
StopRequested == [g \in Gens |-> stop[g] \/ g = gen]

\* Anything thrown while the file is mapped and parsed is caught: the status says
\* so, open() returns false, and what was loaded stays.
OpenFails ==
    /\ ui = "idle"
    /\ openResult' = "failed"
    /\ UNCHANGED <<ui, binary, gen, shrunk, refs, stop, workerVars>>

\* The file is mapped and a disassembler made; both are still local to open().
OpenLoads ==
    /\ ui = "idle"
    /\ gen < MaxOpens
    /\ refs' = [refs EXCEPT ![gen + 1] = 1]
    /\ ui' = "detecting"
    /\ UNCHANGED <<openResult, binary, gen, shrunk, stop, workerVars>>

\* determine_filetype() reads the file again, outside the try block: a file that
\* has shrunk since then throws through open() and out of the event loop.
DetectThrows ==
    /\ ui = "detecting"
    /\ ui' = "closing"
    /\ openResult' = "threw"
    /\ refs' = [refs EXCEPT ![gen + 1] = 0]
    /\ stop' = StopRequested
    /\ UNCHANGED <<binary, gen, shrunk, workerVars>>

\* adopt(): the pair is replaced, then runDecode() starts to join.
Adopt ==
    /\ ui = "detecting"
    /\ refs' = Released
    /\ binary' = gen + 1
    /\ stop' = StopRequested
    /\ ui' = "joining"
    /\ UNCHANGED <<openResult, gen, shrunk, workerVars>>

\* Mutant: the lambda captures `this', so the worker owns nothing.
LaunchUncaptured ==
    /\ ui = "joining"
    /\ Joined
    /\ gen' = gen + 1
    /\ state' = [state EXCEPT ![gen + 1] = RunningState]
    /\ work' = [work EXCEPT ![gen + 1] = "check"]
    /\ ui' = "idle"
    /\ openResult' = "loaded"
    /\ UNCHANGED <<binary, shrunk, rows, refs, stop>>

\* Mutant: running is left for the worker to set.
LaunchNotRunning ==
    /\ ui = "joining"
    /\ Joined
    /\ gen' = gen + 1
    /\ state' = [state EXCEPT ![gen + 1] = FreshState]
    /\ work' = [work EXCEPT ![gen + 1] = "check"]
    /\ refs' = [refs EXCEPT ![gen + 1] = @ + 1]
    /\ ui' = "idle"
    /\ openResult' = "loaded"
    /\ UNCHANGED <<binary, shrunk, rows, stop>>

\* The previous worker has been joined: a fresh state, the next generation, and a
\* worker that owns the pair as well.
Launch ==
    /\ ui = "joining"
    /\ Joined
    /\ gen' = gen + 1
    /\ state' = [state EXCEPT ![gen + 1] = RunningState]
    /\ work' = [work EXCEPT ![gen + 1] = "check"]
    /\ refs' = [refs EXCEPT ![gen + 1] = @ + 1]
    /\ ui' = "idle"
    /\ openResult' = "loaded"
    /\ UNCHANGED <<binary, shrunk, rows, stop>>

\* Mutant: compact() does not look.
CompactAnytime ==
    /\ ui = "idle"
    /\ binary # 0
    /\ shrunk' = shrunk \cup {binary}
    /\ UNCHANGED <<ui, openResult, binary, gen, refs, stop, workerVars>>

\* compact() does nothing while the sweep runs.
Compact ==
    /\ ui = "idle"
    /\ binary # 0
    /\ ~IsDecoding
    /\ shrunk' = shrunk \cup {binary}
    /\ UNCHANGED <<ui, openResult, binary, gen, refs, stop, workerVars>>

\* throwIfFileChanged(): a refresh finds that the worker hit a FileChanged, and the
\* exception ends the program through the event loop.
PollThrows ==
    /\ ui = "idle"
    /\ gen > 0
    /\ ~IsDecoding
    /\ state[gen].fileChanged
    /\ stop' = StopRequested
    /\ ui' = "closing"
    /\ UNCHANGED <<openResult, binary, gen, shrunk, refs, workerVars>>

\* The Session is destroyed: decodeThread_ first, so that it is joined before the
\* rest goes.
Close ==
    /\ ui = "idle"
    /\ stop' = StopRequested
    /\ ui' = "closing"
    /\ UNCHANGED <<openResult, binary, gen, shrunk, refs, workerVars>>

Closed ==
    /\ ui = "closing"
    /\ Joined
    /\ refs' = Released
    /\ binary' = 0
    /\ ui' = "gone"
    /\ UNCHANGED <<openResult, gen, shrunk, stop, workerVars>>

Ui == \/ OpenFails \/ OpenLoads \/ DetectThrows \/ Adopt \/ Launch
      \/ Compact \/ PollThrows \/ Close \/ Closed

-----------------------------------------------------------------------------
(* The worker of generation g: the lambda passed to std::jthread.          *)

At(g, label) == work[g] = label

WorkerGoto(g, label) == work' = [work EXCEPT ![g] = label] /\ UNCHANGED <<uiVars, stop>>

\* The stop token is polled once per line.
StartLine(g) ==
    /\ At(g, "check")
    /\ ~stop[g]
    /\ rows[g] < MaxRows
    /\ WorkerGoto(g, "line")
    /\ UNCHANGED <<refs, rows, state>>

\* decode() returns: asked to, or at the end of the sections.
DecodeReturns(g) ==
    /\ At(g, "check")
    /\ WorkerGoto(g, "ending")
    /\ UNCHANGED <<refs, rows, state>>

PublishLine(g) ==
    /\ At(g, "line")
    /\ rows' = [rows EXCEPT ![g] = @ + 1]
    /\ WorkerGoto(g, "check")
    /\ UNCHANGED <<refs, state>>

DecodeThrows(g) ==
    /\ At(g, "line")
    /\ \E exception \in {"changed", "error"} : WorkerGoto(g, exception)
    /\ UNCHANGED <<refs, rows, state>>

\* Mutant: the note and running are written together, before the flag.
WriteNoteAndStop(g) ==
    /\ work[g] \in {"changed", "error"}
    /\ state' = [state EXCEPT ![g] = [@ EXCEPT !.note = work[g], !.running = FALSE]]
    /\ WorkerGoto(g, IF At(g, "changed") THEN "flag" ELSE "ending")
    /\ UNCHANGED <<refs, rows>>

\* Mutant: FileChanged is not caught on the worker.
WriteNoteOfErrors(g) ==
    /\ At(g, "error")
    /\ state' = [state EXCEPT ![g].note = "error"]
    /\ WorkerGoto(g, "ending")
    /\ UNCHANGED <<refs, rows>>

\* Both catch blocks write the note; the FileChanged one also raises the flag.
WriteNote(g) ==
    /\ work[g] \in {"changed", "error"}
    /\ state' = [state EXCEPT ![g].note = work[g]]
    /\ WorkerGoto(g, IF At(g, "changed") THEN "flag" ELSE "ending")
    /\ UNCHANGED <<refs, rows>>

RaiseFlag(g) ==
    /\ At(g, "flag")
    /\ state' = [state EXCEPT ![g].fileChanged = TRUE]
    /\ WorkerGoto(g, "ending")
    /\ UNCHANGED <<refs, rows>>

\* running.store(false, release): from here on the UI may read the note.
ClearRunning(g) ==
    /\ At(g, "ending")
    /\ state' = [state EXCEPT ![g].running = FALSE]
    /\ WorkerGoto(g, "exiting")
    /\ UNCHANGED <<refs, rows>>

\* The thread ends and its copies of the shared_ptrs are destroyed.
ThreadEnds(g) ==
    /\ At(g, "exiting")
    /\ refs' = [refs EXCEPT ![g] = @ - 1]
    /\ WorkerGoto(g, "over")
    /\ UNCHANGED <<rows, state>>

Worker(g) == \/ StartLine(g) \/ DecodeReturns(g) \/ PublishLine(g) \/ DecodeThrows(g)
             \/ WriteNote(g) \/ RaiseFlag(g) \/ ClearRunning(g) \/ ThreadEnds(g)

Gone == ui = "gone" /\ UNCHANGED vars

Next == Ui \/ (\E g \in Gens : Worker(g)) \/ Gone

Spec == Init /\ [][Next]_vars

\* Threads are scheduled; a call the UI thread is inside of goes on.  Nothing makes
\* the user open, compact or close.
FairSpec ==
    /\ Spec
    /\ WF_vars(DetectThrows \/ Adopt \/ Launch \/ Closed)
    /\ \A g \in Gens : WF_vars(Worker(g))

-----------------------------------------------------------------------------
(* What is shown.                                                          *)

\* Never two decode threads, and the one there is belongs to the generation the
\* front end asks about (analysis_session.cpp:47-53).
OneWorker == \A g \in Gens : work[g] \in Live => g = gen

\* Whoever sees running == false sees the note and the flag the worker wrote
\* (analysis_session.cpp:82): they agree and will not be written again.
NoteIsFinal ==
    \A g \in 1 .. gen :
      ~state[g].running =>
        /\ work[g] \in {"exiting", "over"}
        /\ state[g].fileChanged <=> state[g].note = "changed"

\* A generation that is decoding still owns its mapping and its disassembler,
\* whatever the Session has replaced in the meantime; one that neither the Session
\* nor a worker holds is freed.
PairsOwned ==
    /\ \A g \in Gens : work[g] \in Live => refs[g] > 0
    /\ binary # 0 => refs[binary] > 0
    /\ \A g \in 1 .. gen : g # binary /\ work[g] = "over" => refs[g] = 0

\* The stores are reallocated by compact() only after the sweep has let go of them
\* (analysis_session.cpp:110).
CompactAlone == \A g \in shrunk : work[g] \in {"exiting", "over"}

\* A re-open or a close never waits for ever on the worker it joins.
JoinReturns ==
    /\ (ui = "joining") ~> (ui = "idle")
    /\ (ui = "closing") ~> (ui = "gone")

\* "Returns false and leaves the previous binary in place on failure, with the
\* reason in status()" (analysis_session.hpp:43-44).
OpenReportsFailure == openResult # "threw"

\* The front ends' view of all this: one generation after another, nothing of an
\* older sweep landing on a newer one.
Feed == INSTANCE DecodeFeed WITH
    gen     <- gen,
    ready   <- IF gen = 0 THEN 0 ELSE rows[gen],
    running <- IsDecoding,
    note    <- IF gen = 0 \/ IsDecoding THEN "none" ELSE state[gen].note

KeepsFeed == Feed!FeedSpec
=============================================================================
