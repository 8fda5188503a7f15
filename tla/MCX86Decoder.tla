---------------------------- MODULE MCX86Decoder ----------------------------
(***************************************************************************)
(* Instances of X86Decoder for TLC.                                        *)
(***************************************************************************)
EXTENDS X86Decoder

\* REX.W and the prefixes that change a length, the escapes, and for every kind of row an
\* opcode that has it in some map; the same bytes are tried in all of them.
MCBytes == {\h48, \h66, \h67, \hF2, \hF3, \h0F, \h38, \h3A, \hC4, \hC5,
            \h06, \h63, \h68, \h69, \h70, \h77, \h84, \h9A, \hA1, \hB8, \hC7, \hC8,
            \hD9, \hE8, \hF0, \hF7, \hFF}

\* MOV from a control register, NOP, CLTS, WRMSR, and PUSH FS.
MCBareBytes == {\h0F, \h48, \h66, \h06, \h20, \h1F, \h30, \hA0}

\* Every mod, rm of 4 (SIB), 5 and 6, and the /reg values the groups tell apart.
MCModRMs == {\h00, \h04, \h05, \h06, \h10, \h44, \h84, \hF8}
=============================================================================
