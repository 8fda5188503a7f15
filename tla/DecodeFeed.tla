----------------------------- MODULE DecodeFeed -----------------------------
(***************************************************************************)
(* What a Session promises the front end that polls it                     *)
(* (src/src/analysis_session.hpp:42-101): every successful open() starts a *)
(* new generation with no rows; rows of that generation are then published *)
(* one at a time while isDecoding() holds; when it stops holding, the row  *)
(* count and decodeNote() are final.                                       *)
(*                                                                         *)
(* AsyncSession implements it; the front ends' views are built on it.      *)
(***************************************************************************)
EXTENDS Naturals

CONSTANTS
    MaxOpens,    \* bound: successful open() calls
    MaxRows      \* bound: rows of one sweep

ASSUME FeedAssumption == MaxOpens \in Nat /\ MaxRows \in Nat

VARIABLES
    gen,         \* decodeGeneration(), 0 before the first open
    ready,       \* readyInstructions() of the loaded binary
    running,     \* isDecoding()
    note         \* decodeNote() once running is FALSE

feed == <<gen, ready, running, note>>

\* "none": the sweep ran clean.  "changed" is a FileChanged waiting to be rethrown.
Notes == {"none", "error", "changed"}

FeedTypeOK ==
    /\ gen \in 0 .. MaxOpens
    /\ ready \in 0 .. MaxRows
    /\ running \in BOOLEAN
    /\ note \in Notes

FeedInit == gen = 0 /\ ready = 0 /\ running = FALSE /\ note = "none"

\* open() stops and joins the previous sweep first, so it finds none running.
OpenFeed ==
    /\ ~running
    /\ gen < MaxOpens
    /\ gen' = gen + 1
    /\ ready' = 0
    /\ running' = TRUE
    /\ note' = "none"

PublishRow ==
    /\ running
    /\ ready < MaxRows
    /\ ready' = ready + 1
    /\ UNCHANGED <<gen, running, note>>

EndDecode ==
    /\ running
    /\ running' = FALSE
    /\ note' \in Notes
    /\ UNCHANGED <<gen, ready>>

FeedWorker == PublishRow \/ EndDecode

FeedNext == OpenFeed \/ FeedWorker

FeedSpec == FeedInit /\ [][FeedNext]_feed
=============================================================================
