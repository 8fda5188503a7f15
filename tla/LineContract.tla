----------------------------- MODULE LineContract -----------------------------
(***************************************************************************)
(* What Decoder::decodeLine() promises whoever asks for one line           *)
(* (src/src/arch/decoder.hpp:17-30, x86_64_decoder.cpp:12-14): one row of  *)
(* 1 to 15 bytes, or no row and the offset it was given, or FileChanged    *)
(* and no row.  This is all DecodeSweep assumes of its "x86" decoder.      *)
(***************************************************************************)
EXTENDS Naturals

VARIABLES
    bytes,     \* the row's length, 0 while there is no row
    outcome    \* "none" while the line is being decoded, then how it ended

vars == <<bytes, outcome>>

LongestLine == 15

Init == bytes = 0 /\ outcome = "none"

AppendRow ==
    /\ outcome = "none"
    /\ outcome' = "row"
    /\ bytes' \in 1 .. LongestLine

NoRow ==
    /\ outcome = "none"
    /\ outcome' \in {"short", "changed"}
    /\ UNCHANGED bytes

Next == AppendRow \/ NoRow

Spec == Init /\ [][Next]_vars
=============================================================================
