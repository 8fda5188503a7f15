--------------------------- MODULE ProgressiveView ---------------------------
(***************************************************************************)
(* What someone at the screen is promised while a binary is decoded in the *)
(* background (README "disassembly appears while the sweep runs"; the      *)
(* comments at src/src/gui/main_window.cpp:97 and src/src/tui/ui.cpp:142): *)
(* a new binary starts with no rows, rows are added and none is taken      *)
(* back, and once the view has settled it stays as it is.                  *)
(***************************************************************************)
EXTENDS Naturals

VARIABLES
    gen,       \* the binary shown
    shown,     \* its decoded rows on the screen
    settled    \* the view will not change until another binary is opened

vars == <<gen, shown, settled>>

Init == gen = 0 /\ shown = 0 /\ settled = TRUE

Replace ==
    /\ gen' = gen + 1
    /\ shown' = 0
    /\ settled' = FALSE

Grow ==
    /\ ~settled
    /\ shown' \in Nat /\ shown' > shown
    /\ UNCHANGED <<gen, settled>>

Settle ==
    /\ ~settled
    /\ settled' = TRUE
    /\ UNCHANGED <<gen, shown>>

Next == Replace \/ Grow \/ Settle

Spec == Init /\ [][Next]_vars
=============================================================================
