---------------------------- MODULE MCDecodeSweep ----------------------------
(***************************************************************************)
(* Instances of DecodeSweep for TLC: a six-byte file, three-byte           *)
(* instructions, four-bit words and blocks of two rows.                    *)
(***************************************************************************)
EXTENDS DecodeSweep

Section(off, len, va) == [offset |-> off, size |-> len, vaddr |-> va]

\* Two sections with a gap, overlapping sections, a section whose size runs past
\* the file, one whose end wraps (nothing of it is swept), one too large to reserve
\* for, two whose sizes add up to zero, and none at all.
MCLayouts == {
    <<>>,
    <<Section(0, 2, 8), Section(3, 2, 1)>>,
    <<Section(2, 3, 4), Section(0, 4, 14)>>,
    <<Section(4, 9, 0)>>,
    <<Section(5, 12, 0), Section(1, 3, 3)>>,
    <<Section(0, 15, 0)>>,
    <<Section(4, 8, 0), Section(3, 8, 9)>> }

\* Sizes that add up to 16: the total wraps to zero.
MCWrappingLayouts == { <<Section(0, 8, 0), Section(1, 8, 0)>> }
=============================================================================
