----------------------------- MODULE X86Tables -----------------------------
(***************************************************************************)
(* The opcode tables of src/src/arch/x86_64 and the lookups that turn an   *)
(* opcode, a ModRM byte and a prefix column into one row.                  *)
(*                                                                         *)
(* A row keeps what decides how many bytes the instruction takes and       *)
(* whether it is one at all: whether a ModRM byte follows, the operands    *)
(* that eat bytes of their own, the group ModRM.reg selects from, the      *)
(* long-mode default operand size, the prefix that is part of the opcode,  *)
(* and whether the row has a name.  Names, registers and operands that eat *)
(* nothing only print and are left out.                                    *)
(***************************************************************************)
EXTENDS Integers, Sequences

Byte == 0 .. 255

\* ADDRESSING and SIZE of the operands that eat bytes: an I, J, O, A or L slot
\* and its size.  Every moffs is "O" and every far pointer "Ap".
ImmediateKinds == {"Ib", "Ibs", "Iw", "Iz", "Iv", "Jb", "Jz", "Jv", "O", "Ap", "Lb"}

\* OpcodeInfo.  group is 0 for the code's -1.
Row(modRM, eats) ==
    [modRM |-> modRM, eats |-> eats, group |-> 0, default64 |-> "none",
     mandatory |-> 0, named |-> TRUE]

\* A value-initialised OpcodeInfo: no name, no ModRM, no operands.
NoRow == [Row(FALSE, <<>>) EXCEPT !.named = FALSE]

(***************************************************************************)
(* The legacy prefixes.                                                    *)
(***************************************************************************)
prefixTable == {\h26, \h2E, \h36, \h3E, \h64, \h65, \h66, \h67, \hF0, \hF2, \hF3}

isPrefix(byte) == byte \in prefixTable

(***************************************************************************)
(* The one-byte map, in the four blocks buildOpcodes() writes it in.       *)
(***************************************************************************)

\* 00-3F: eight arithmetic operations of eight bytes each.
ArithmeticRow(op) ==
    CASE op % 8 < 4 -> Row(TRUE, <<>>)
      [] op % 8 = 4 -> Row(FALSE, <<"Ib">>)
      [] op % 8 = 5 -> Row(FALSE, <<"Iz">>)
      [] OTHER      -> Row(FALSE, <<>>)

\* 40-8F: INC, DEC, PUSH, POP, the short jumps, group 1, MOV and LEA.
StackBranchEats(op) ==
    CASE op \in {\h68, \h69, \h81} -> <<"Iz">>
      [] op \in {\h6A, \h6B, \h83} -> <<"Ibs">>
      [] op \in \h70 .. \h7F       -> <<"Jb">>
      [] op \in {\h80, \h82}       -> <<"Ib">>
      [] OTHER                     -> <<>>

StackBranchRow(op) ==
    [Row(op \in {\h62, \h63, \h69, \h6B} \cup \h80 .. \h8F, StackBranchEats(op)) EXCEPT
        !.group = IF op \in \h80 .. \h83 THEN 1 ELSE 0]

\* 90-BF: XCHG, the string operations, MOV to and from a fixed address, MOV r, imm.
MoveRow(op) ==
    Row(FALSE, CASE op = \h9A              -> <<"Ap">>
                 [] op \in \hA0 .. \hA3    -> <<"O">>
                 [] op \in {\hA8} \cup \hB0 .. \hB7 -> <<"Ib">>
                 [] op = \hA9              -> <<"Iz">>
                 [] op \in \hB8 .. \hBF    -> <<"Iv">>
                 [] OTHER                  -> <<>>)

\* C0-FF: shifts, returns, x87, loops, calls and groups 2 to 5.
ControlEats(op) ==
    CASE op \in {\hC0, \hC1, \hC6, \hCD, \hD4, \hD5} \cup \hE4 .. \hE7 -> <<"Ib">>
      [] op \in {\hC2, \hCA}              -> <<"Iw">>
      [] op = \hC7                        -> <<"Iz">>
      [] op = \hC8                        -> <<"Iw", "Ib">>
      [] op \in {\hEB} \cup \hE0 .. \hE3  -> <<"Jb">>
      [] op \in {\hE8, \hE9}              -> <<"Jv">>
      [] op = \hEA                        -> <<"Ap">>
      [] OTHER                            -> <<>>

ControlGroup(op) ==
    CASE op \in {\hC0, \hC1} \cup \hD0 .. \hD3 -> 2
      [] op \in {\hF6, \hF7} -> 3
      [] op = \hFE -> 4
      [] op = \hFF -> 5
      [] OTHER -> 0

ControlRow(op) ==
    LET modRM == op \in {\hC0, \hC1, \hF6, \hF7, \hFE, \hFF}
                        \cup \hC4 .. \hC7 \cup \hD0 .. \hD3 \cup \hD8 .. \hDF
    IN  [Row(modRM, ControlEats(op)) EXCEPT !.group = ControlGroup(op)]

\* isInvalid: encodings long mode removed.
GoneInLongMode ==
    {\h06, \h07, \h0E, \h16, \h17, \h1E, \h1F, \h27, \h2F, \h37, \h82, \h9A, \hC4, \hC5,
     \hCE, \hD4, \hD5, \hD6, \hEA} \cup \h3F .. \h4F \cup \h60 .. \h62

\* The long-mode default operand size: d64 gives way to a 66 prefix, f64 does not.
Default64Of(op) ==
    CASE op \in {\h68, \h6A, \h8F, \h9C, \h9D, \hC8, \hC9} \cup \h50 .. \h5F -> "d64"
      [] op \in {\hE8, \hE9, \hEB} \cup \hE0 .. \hE3 \cup \h70 .. \h7F       -> "f64"
      [] OTHER -> "none"

opcodeTable(op) ==
    LET row == CASE op < \h40 -> ArithmeticRow(op)
                 [] op \in \h40 .. \h8F -> StackBranchRow(op)
                 [] op \in \h90 .. \hBF -> MoveRow(op)
                 [] OTHER -> ControlRow(op)
    IN  [row EXCEPT !.default64 = Default64Of(op)]

(***************************************************************************)
(* Groups 1 to 5, and the row ModRM.reg selects.                           *)
(***************************************************************************)
Reg(modRM) == (modRM \div 8) % 8

\* Groups 1 and 2 name every /reg and add nothing.
Entry == Row(TRUE, <<>>)

\* Group 3: TEST, the first two, adds an immediate of the outer row's size.
grp3Entry(op, reg) ==
    IF reg < 2 THEN Row(TRUE, IF op = \hF6 THEN <<"Ib">> ELSE <<"Iz">>) ELSE Entry

grp4Entry(reg) == IF reg < 2 THEN Entry ELSE NoRow

\* Group 5: near CALL and JMP are forced to 64 bits, PUSH defaults to them.
grp5Entry(reg) ==
    CASE reg \in {2, 4} -> [Entry EXCEPT !.default64 = "f64"]
      [] reg = 6        -> [Entry EXCEPT !.default64 = "d64"]
      [] reg = 7        -> NoRow
      [] OTHER          -> Entry

groupEntryOf(op, reg) ==
    CASE opcodeTable(op).group = 3 -> grp3Entry(op, reg)
      [] opcodeTable(op).group = 4 -> grp4Entry(reg)
      [] opcodeTable(op).group = 5 -> grp5Entry(reg)
      [] OTHER                     -> Entry

\* The outer row, with what the entry adds; an illegal /reg keeps nothing of it.
merge(outer, entry) ==
    IF ~entry.named THEN entry
    ELSE [outer EXCEPT
             !.eats      = outer.eats \o entry.eats,
             !.default64 = IF entry.default64 = "none" THEN outer.default64
                                                       ELSE entry.default64]

(***************************************************************************)
(* x87: by reg below C0, by the whole ModRM byte from there on.            *)
(***************************************************************************)
x87MemNamed(escape, reg) == <<escape, reg>> \notin {<<1, 1>>, <<3, 4>>, <<3, 6>>, <<5, 5>>}

x87RegNamed(escape, reg, rm) ==
    CASE escape = 0 -> TRUE
      [] escape = 1 -> \/ reg \in {0, 1, 6, 7}
                       \/ reg = 2 /\ rm = 0
                       \/ reg = 4 /\ rm \in {0, 1, 4, 5}
                       \/ reg = 5 /\ rm # 7
      [] escape = 2 -> reg < 4 \/ <<reg, rm>> = <<5, 1>>
      [] escape = 3 -> reg \in {0, 1, 2, 3, 5, 6} \/ (reg = 4 /\ rm \in {2, 3})
      [] escape = 4 -> reg \in {0, 1, 4, 5, 6, 7}
      [] escape = 5 -> reg \in {0, 2, 3, 4, 5}
      [] escape = 6 -> reg \in {0, 1, 4, 5, 6, 7} \/ <<reg, rm>> = <<3, 1>>
      [] escape = 7 -> reg \in {5, 6} \/ <<reg, rm>> = <<4, 0>>

x87ResolvedInfo(op, modRM) ==
    LET escape == op - \hD8
        named == IF modRM < \hC0 THEN x87MemNamed(escape, Reg(modRM))
                                 ELSE x87RegNamed(escape, Reg(modRM), modRM % 8)
    IN  IF named THEN Row(TRUE, <<>>) ELSE NoRow

isX87(op) == op \in \hD8 .. \hDF

resolvedInfo(op, modRM, is64Bit) ==
    CASE isX87(op)                  -> x87ResolvedInfo(op, modRM)
      [] is64Bit /\ op = \h63       -> Row(TRUE, <<>>)         \* MOVSXD
      [] modRM = \hF8 /\ op = \hC6  -> Row(TRUE, <<"Ib">>)     \* XABORT
      [] modRM = \hF8 /\ op = \hC7  -> Row(TRUE, <<"Jz">>)     \* XBEGIN
      [] OTHER -> IF opcodeTable(op).group = 0 THEN opcodeTable(op)
                  ELSE merge(opcodeTable(op), groupEntryOf(op, Reg(modRM)))

(***************************************************************************)
(* 0F: the plain rows, the rows a 66, F3 or F2 selects, and their groups.  *)
(***************************************************************************)

\* Named rows without a ModRM byte.
BareTwoByte ==
    {\h05, \h07, \h0B, \h0E, \h31, \h34, \h35, \h77, \hA2} \cup \h80 .. \h8F \cup \hC8 .. \hCF

\* Rows without a name: a ModRM byte and nothing more.
UnnamedTwoByte ==
    {\h06, \h0C, \h30, \h32, \h33, \h6C, \h6D, \hA0, \hA1, \hB2, \hB4, \hB5, \hB8, \hB9,
     \hC7, \hD0, \hD6, \hE6, \hF0, \hFF}
    \cup \h00 .. \h04 \cup \h08 .. \h0A \cup \h19 .. \h1D \cup \h20 .. \h27
    \cup \h36 .. \h3F \cup \h78 .. \h7D \cup \hA6 .. \hAA

TwoByteEats(op) ==
    CASE op \in \h80 .. \h8F -> <<"Jz">>
      [] op \in {\hA4, \hAC, \hBA, \hC2, \hC4, \hC5, \hC6} \cup \h70 .. \h73 -> <<"Ib">>
      [] OTHER -> <<>>

TwoByteGroup(op) ==
    CASE op = \hBA -> 8   [] op = \h71 -> 12  [] op = \h72 -> 13  [] op = \h73 -> 14
      [] op = \hAE -> 15  [] op = \h18 -> 16  [] op = \h0D -> 18  [] OTHER -> 0

\* Rows with an MMX operand.
MmxTwoByte ==
    {\h0F, \h2A, \h2C, \h2D, \h7E, \h7F, \hC4, \hC5, \hD7, \hE7}
    \cup \h60 .. \h6B \cup \h6E .. \h76 \cup \hD1 .. \hD5 \cup \hD8 .. \hE5
    \cup \hE8 .. \hEF \cup \hF1 .. \hFE

twoByteTable(op) ==
    [Row(op \notin BareTwoByte, TwoByteEats(op)) EXCEPT
        !.group = TwoByteGroup(op),
        !.named = op \notin UnnamedTwoByte]

\* prefixTable's column of a mandatory prefix: 1 = 66, 2 = F3, 3 = F2.
SlotPrefix == <<\h66, \hF3, \hF2>>

PrefixedNames(pp) ==
    CASE pp = 1 -> {\h50, \h51, \h6C, \h6D, \h6F, \h70, \h7C, \h7D, \h7F, \hC2, \hC6, \hD0,
                    \hD6, \hE6, \hE7, \hF7}
                   \cup \h10 .. \h17 \cup \h28 .. \h2F \cup \h54 .. \h5F
      [] pp = 2 -> {\h16, \h2A, \h2C, \h2D, \h6F, \h70, \h7E, \h7F, \hB8, \hBC, \hBD, \hC2,
                    \hD6, \hE6}
                   \cup \h10 .. \h12 \cup \h51 .. \h53 \cup \h58 .. \h5F
      [] pp = 3 -> {\h2A, \h2C, \h2D, \h51, \h70, \h7C, \h7D, \hC2, \hD0, \hD6, \hE6, \hF0}
                   \cup \h10 .. \h12 \cup \h58 .. \h5A \cup \h5C .. \h5F
      [] OTHER  -> {}

prefixedTable(pp, op) ==
    [Row(TRUE, IF op \in {\h70, \hC2, \hC6} THEN <<"Ib">> ELSE <<>>) EXCEPT
        !.mandatory = SlotPrefix[pp]]

\* The /reg values each 0F or VEX group names.
TwoByteGroupNames(group) ==
    CASE group = 8              -> 4 .. 7
      [] group \in {12, 13, 19, 20} -> {2, 4, 6}
      [] group \in {14, 21}     -> {2, 3, 6, 7}
      [] group \in {15, 16, 18} -> 0 .. 7
      [] group = 17             -> 5 .. 7
      [] group = 22             -> {2, 3}
      [] group = 23             -> 1 .. 3
      [] OTHER                  -> {}

MergeTwoByte(outer, group, modRM) ==
    merge(outer, IF Reg(modRM) \in TwoByteGroupNames(group) THEN Entry ELSE NoRow)

twoByteResolvedInfo(op, modRM, pp) ==
    LET tabulated == IF op \in PrefixedNames(pp) THEN prefixedTable(pp, op) ELSE twoByteTable(op)
        outer == [tabulated EXCEPT !.mandatory =      \* an MMX row under 66 is its SSE2 twin
                     IF pp = 1 /\ @ = 0 /\ op \in MmxTwoByte THEN \h66 ELSE @]
        group == IF outer.group = 15 /\ modRM >= \hC0 THEN 17 ELSE outer.group
    IN  CASE op = \h1E /\ pp = 2 /\ modRM \in {\hFA, \hFB} ->    \* ENDBR64, ENDBR32
                 [Row(TRUE, <<>>) EXCEPT !.mandatory = \hF3]
          [] op = \h01 /\ modRM \in {\hC8, \hC9} -> Row(TRUE, <<>>)    \* MONITOR, MWAIT
          [] OTHER -> IF group = 0 THEN outer ELSE MergeTwoByte(outer, group, modRM)

(***************************************************************************)
(* 0F 38 and 0F 3A.                                                        *)
(***************************************************************************)
threeByteNames(map, pp) ==
    CASE map = 2 /\ pp = 0 -> \h00 .. \h0B \cup \h1C .. \h1E
      [] map = 2 /\ pp = 1 -> {\h10, \h14, \h15, \h17} \cup \h20 .. \h25 \cup \h28 .. \h2B
                              \cup \h30 .. \h35 \cup \h37 .. \h41
      [] map = 3 /\ pp = 0 -> {\h0F}
      [] map = 3 /\ pp = 1 -> \h08 .. \h0E \cup \h14 .. \h17 \cup \h20 .. \h22
                              \cup \h40 .. \h42 \cup \h60 .. \h63
      [] OTHER -> {}

threeByteTable(map, pp) ==
    [Row(TRUE, IF map = 3 THEN <<"Ib">> ELSE <<>>) EXCEPT
        !.mandatory = IF pp = 1 THEN \h66 ELSE 0]

\* Mutant: the imm8 of the unnamed 0F 3A rows is forgotten.
threeByteRowNoImm(hasImm8) == [Row(TRUE, <<>>) EXCEPT !.named = FALSE]

\* A row nobody named: its ModRM, and an imm8 in 0F 3A.
threeByteRow(hasImm8) ==
    [Row(TRUE, IF hasImm8 THEN <<"Ib">> ELSE <<>>) EXCEPT !.named = FALSE]

threeByteResolvedInfo(op, map, pp) ==
    CASE map = 2 /\ pp = 3 /\ op \in {\hF0, \hF1} ->             \* CRC32
             [Row(TRUE, <<>>) EXCEPT !.mandatory = \hF2]
      [] op \in threeByteNames(map, pp) -> threeByteTable(map, pp)
      [] OTHER -> threeByteRow(map = 3)

threeDNowNames ==
    {\h0C, \h0D, \h1C, \h1D, \h8A, \h8E, \h90, \h94, \h96, \h97, \h9A, \h9E, \hA0,
     \hA4, \hA6, \hA7, \hAA, \hAE, \hB0, \hB4, \hB6, \hB7, \hBB, \hBF}

threeDNowTable(op) == IF op \in threeDNowNames THEN Row(TRUE, <<>>) ELSE NoRow

(***************************************************************************)
(* VEX.                                                                    *)
(***************************************************************************)
VexNames0F(pp) ==
    CASE pp = 0 -> {\h28, \h29, \h2B, \h2E, \h2F, \h77, \hAE, \hC2, \hC6}
                   \cup \h10 .. \h17 \cup \h50 .. \h5F
      [] pp = 1 -> {\h28, \h29, \h2B, \h2E, \h2F, \h50, \h51, \hC2}
                   \cup \h10 .. \h17 \cup \h54 .. \h76 \cup \h7C .. \h7F \cup \hC4 .. \hC6
                   \cup \hD0 .. \hEF \cup \hF1 .. \hFE
      [] pp = 2 -> {\h16, \h2A, \h2C, \h2D, \h6F, \h70, \h7E, \h7F, \hC2, \hE6}
                   \cup \h10 .. \h12 \cup \h51 .. \h53 \cup \h58 .. \h5F
      [] pp = 3 -> {\h2A, \h2C, \h2D, \h51, \h70, \h7C, \h7D, \hC2, \hD0, \hE6, \hF0}
                   \cup \h10 .. \h12 \cup \h58 .. \h5A \cup \h5C .. \h5F

VexNames0F38(pp) ==
    CASE pp = 0 -> {\hF2, \hF3, \hF5, \hF7}
      [] pp = 1 -> {\h45, \h46, \h47, \h78, \h79, \h8C, \h8E, \hF7}
                   \cup \h00 .. \h0F \cup \h16 .. \h1A \cup \h1C .. \h1E \cup \h20 .. \h25
                   \cup \h28 .. \h41 \cup \h58 .. \h5A \cup \h90 .. \h93
                   \cup \h96 .. \h9F \cup \hA6 .. \hAF \cup \hB6 .. \hBF
      [] pp = 2 -> {\hF5, \hF7}
      [] pp = 3 -> {\hF5, \hF6, \hF7}

VexNames0F3A(pp) ==
    CASE pp = 1 -> {\h38, \h39, \h46} \cup \h00 .. \h02 \cup \h04 .. \h06 \cup \h08 .. \h0F
                   \cup \h14 .. \h19 \cup \h20 .. \h22 \cup \h40 .. \h42 \cup \h4A .. \h4C
                   \cup \h60 .. \h63
      [] pp = 3 -> {\hF0}
      [] OTHER  -> {}

VexNames(map, pp) ==
    CASE map = 1 -> VexNames0F(pp)
      [] map = 2 -> VexNames0F38(pp)
      [] map = 3 -> VexNames0F3A(pp)

VexEats(map, op) ==
    CASE map = 3 -> IF op \in \h4A .. \h4C THEN <<"Lb">> ELSE <<"Ib">>
      [] map = 1 /\ op \in {\hC2, \hC4, \hC5, \hC6} \cup \h70 .. \h73 -> <<"Ib">>
      [] OTHER -> <<>>

VexGroup(map, pp, op) ==
    CASE <<map, pp, op>> = <<1, 1, \h71>> -> 19
      [] <<map, pp, op>> = <<1, 1, \h72>> -> 20
      [] <<map, pp, op>> = <<1, 1, \h73>> -> 21
      [] <<map, pp, op>> = <<1, 0, \hAE>> -> 22
      [] <<map, pp, op>> = <<2, 0, \hF3>> -> 23
      [] OTHER -> 0

vexResolvedInfo(op, modRM, map, pp) ==
    LET info  == Row(~(map = 1 /\ op = \h77), VexEats(map, op))
        group == VexGroup(map, pp, op)
    IN  CASE op \notin VexNames(map, pp) -> threeByteRow(map = 3)
          [] op \in VexNames(map, pp)    -> IF group = 0 THEN info
                                            ELSE MergeTwoByte(info, group, modRM)

=============================================================================
