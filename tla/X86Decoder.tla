----------------------------- MODULE X86Decoder -----------------------------
(***************************************************************************)
(* X86Decoder::decodeLine(): one instruction eaten byte by byte, with the  *)
(* row X86Tables resolves.                                                 *)
(*                                                                         *)
(* The byte that comes next is whatever the file holds, so it is chosen;   *)
(* it is held only as far as a later step looks at it.  Before any byte    *)
(* the file may end (read_u8 throws length_error) or turn out to have been *)
(* truncated (FileChanged).  LOCK, segment overrides, register numbers,    *)
(* SIB fields other than base, the values of displacements and immediates, *)
(* and VEX's vvvv and L only print, and are left out.                      *)
(***************************************************************************)
EXTENDS X86Tables

CONSTANTS
    Bytes,     \* the values considered for prefix and opcode bytes
    ModRMs     \* the values considered for ModRM bytes

ASSUME X86Assumption == Bytes \subseteq Byte /\ ModRMs \subseteq Byte

VARIABLES
    is64Bit,          \* the decoder's mode
    pc,               \* what decodeLine() reads next
    length,           \* fields.length
    last,             \* history: the byte before the next; from the opcode on, only if a REX
    rex,              \* fields.rexPrefix
    opSizePrefix,     \* hasOpSizePrefix
    addrSizePrefix,   \* hasAddrSizePrefix
    rep,              \* fields.repPrefix
    vex,              \* simd.vex
    map,              \* simd.map
    pp,               \* simd.pp
    opcode,           \* fields.opcode
    row,              \* fields.info
    opSize,           \* fields.opSize
    addrSize,         \* fields.addrSize
    displacement,     \* displacement bytes still to be read
    operand,          \* immIndex: operands that have eaten their bytes
    immediates,       \* bytes those operands have eaten
    relativeTo,       \* the length a relative target was counted from, 0 for none
    isInvalid,        \* fields.isInvalid
    result            \* how decodeLine() ended, "none" until it has

prefixVars == <<rex, opSizePrefix, addrSizePrefix, rep>>
opcodeVars == <<vex, map, pp, opcode>>
widthVars  == <<row, opSize, addrSize>>
tailVars   == <<displacement, operand, immediates, relativeTo>>
endVars    == <<isInvalid, result>>
vars       == <<is64Bit, pc, length, last, prefixVars, opcodeVars, widthVars, tailVars, endVars>>

Labels == {"prefix", "peek", "escape", "map", "vex1", "vex2", "opcode", "modrm",
           "sib", "disp", "3dnow", "imm", "done"}

Rows == [modRM : BOOLEAN, eats : Seq(ImmediateKinds), group : 0 .. 23,
         default64 : {"none", "d64", "f64"}, mandatory : {0, \h66, \hF2, \hF3},
         named : BOOLEAN]

TypeOK ==
    /\ is64Bit \in BOOLEAN
    /\ pc \in Labels
    /\ length \in 0 .. 15
    /\ last \in Byte
    /\ rex \in {0} \cup \h40 .. \h4F
    /\ opSizePrefix \in BOOLEAN
    /\ addrSizePrefix \in BOOLEAN
    /\ rep \in {0, \hF2, \hF3}
    /\ vex \in {0, \hC4, \hC5}
    /\ map \in 0 .. 4
    /\ pp \in 0 .. 3
    /\ opcode \in Byte
    /\ row \in Rows
    /\ opSize \in {16, 32, 64}
    /\ addrSize \in {16, 32, 64}
    /\ displacement \in {0, 1, 2, 4}
    /\ operand \in 0 .. 2
    /\ immediates \in 0 .. 8
    /\ relativeTo \in 0 .. 15
    /\ isInvalid \in BOOLEAN
    /\ result \in {"none", "row", "short", "changed"}

Init ==
    /\ is64Bit \in BOOLEAN
    /\ pc = "prefix"
    /\ length = 0
    /\ last = 0
    /\ rex = 0
    /\ opSizePrefix = FALSE
    /\ addrSizePrefix = FALSE
    /\ rep = 0
    /\ vex = 0
    /\ map = 0
    /\ pp = 0
    /\ opcode = 0
    /\ row = NoRow
    /\ opSize = 32
    /\ addrSize = 32
    /\ displacement = 0
    /\ operand = 0
    /\ immediates = 0
    /\ relativeTo = 0
    /\ isInvalid = FALSE
    /\ result = "none"

(***************************************************************************)
(* Reading bytes, and the ways a read can end the line.                    *)
(***************************************************************************)

\* Mutant: the limit is off by one.
FitsSixteen(n) == length + n <= 16

\* nextByte() throws TooLong once 15 bytes are taken.
Fits(n) == length + n <= 15

Read(n, next) ==
    /\ Fits(n)
    /\ length' = length + n
    /\ pc' = next

\* emit()
Emit(invalid) ==
    /\ pc' = "done"
    /\ result' = "row"
    /\ isInvalid' = invalid

IsRex(byte) == is64Bit /\ byte \in \h40 .. \h4F

\* REX.W, or VEX.W folded into rex.
RexW == rex \in \h48 .. \h4F

HasModRM ==
    CASE vex # 0 -> ~(map = 1 /\ opcode = \h77)
      [] vex = 0 /\ map = 0 -> opcodeTable(opcode).modRM
      [] vex = 0 /\ map = 1 -> twoByteTable(opcode).modRM
      [] OTHER -> TRUE

\* How many bytes an operand eats: the switch over its SIZE.  rex is what is left of it.
ImmediateWidth(kind) ==
    LET zSize == IF opSize = 16 THEN 2 ELSE 4
    IN  CASE kind \in {"Ib", "Ibs", "Jb", "Lb"} -> 1
          [] kind = "Iw"          -> 2
          [] kind \in {"Iv", "Jv"} -> IF RexW THEN 8 ELSE zSize
          [] kind \in {"Iz", "Jz"} -> zSize
          [] kind = "Ap"          -> zSize + 2
          [] kind = "O"           -> addrSize \div 8

\* Two operands of a row may eat bytes; the loop skips any further one.
OperandLeft == operand < Len(row.eats) /\ operand < 2

\* The bytes the next read asks for at once; 0 when none is due.
Wanted ==
    CASE pc = "done" -> 0
      [] pc = "modrm" -> IF HasModRM THEN 1 ELSE 0
      [] pc = "disp" -> displacement
      [] pc = "imm" -> IF OperandLeft THEN ImmediateWidth(row.eats[operand + 1]) ELSE 0
      [] OTHER -> 1

\* A byte past the end of the file, or one the file no longer has: no row.
ReadFails ==
    /\ Wanted > 0
    /\ length < 15 \/ pc = "peek"
    /\ pc' = "done"
    /\ result' \in {"short", "changed"}
    /\ UNCHANGED <<is64Bit, length, last, prefixVars, opcodeVars, widthVars, tailVars, isInvalid>>

\* A sixteenth byte is needed: a "(bad)" row of the 15 there were.
TooLong ==
    /\ pc # "peek"
    /\ ~Fits(Wanted)
    /\ length' = 15
    /\ Emit(TRUE)
    /\ UNCHANGED <<is64Bit, last, prefixVars, opcodeVars, widthVars, tailVars>>

(***************************************************************************)
(* Prefixes.                                                               *)
(***************************************************************************)

\* Mutant: a legacy prefix after a REX leaves the REX in force.
ReadPrefixKeepsRex ==
    \E byte \in Bytes :
        /\ pc = "prefix"
        /\ IsRex(byte) \/ isPrefix(byte)
        /\ Read(1, "prefix")
        /\ last' = byte
        /\ rex' = IF IsRex(byte) THEN byte ELSE rex
        /\ opSizePrefix' = (opSizePrefix \/ byte = \h66)
        /\ addrSizePrefix' = (addrSizePrefix \/ byte = \h67)
        /\ rep' = IF byte \in {\hF2, \hF3} THEN byte ELSE rep
        /\ UNCHANGED <<is64Bit, opcodeVars, widthVars, tailVars, endVars>>

ReadPrefix ==
    \E byte \in Bytes :
        /\ pc = "prefix"
        /\ IsRex(byte) \/ isPrefix(byte)
        /\ Read(1, "prefix")
        /\ last' = byte
        /\ rex' = IF IsRex(byte) THEN byte ELSE 0
        /\ opSizePrefix' = (opSizePrefix \/ byte = \h66)
        /\ addrSizePrefix' = (addrSizePrefix \/ byte = \h67)
        /\ rep' = IF byte \in {\hF2, \hF3} THEN byte ELSE rep
        /\ UNCHANGED <<is64Bit, opcodeVars, widthVars, tailVars, endVars>>

(***************************************************************************)
(* The opcode: one byte, the 0F escapes, or VEX.                           *)
(***************************************************************************)
\* The byte that ends the prefix loop.
FirstByte(byte) ==
    /\ pc = "prefix"
    /\ byte \in Bytes
    /\ ~IsRex(byte) /\ ~isPrefix(byte)
    /\ Fits(1)
    /\ length' = length + 1
    /\ last' = IF IsRex(last) THEN last ELSE 0
    /\ opcode' = byte

OneByteOpcode ==
    \E byte \in Bytes \ {\h0F, \hC4, \hC5} :
        /\ FirstByte(byte)
        /\ ~(is64Bit /\ byte \in GoneInLongMode)
        /\ pc' = "modrm"
        /\ UNCHANGED <<is64Bit, prefixVars, vex, map, pp, widthVars, tailVars, endVars>>

GoneOpcode ==
    \E byte \in Bytes \ {\h0F, \hC4, \hC5} :
        /\ FirstByte(byte)
        /\ is64Bit /\ byte \in GoneInLongMode
        /\ Emit(TRUE)
        /\ UNCHANGED <<is64Bit, prefixVars, vex, map, pp, widthVars, tailVars>>

OpenEscape ==
    /\ FirstByte(\h0F)
    /\ pc' = "escape"
    /\ map' = 1
    /\ UNCHANGED <<is64Bit, prefixVars, vex, pp, widthVars, tailVars, endVars>>

\* Mutant: the prefix byte itself is taken for the column.
PrefixColumnRaw == IF rep # 0 THEN rep ELSE IF opSizePrefix THEN 1 ELSE 0

\* F2 and F3 win over 66.
PrefixColumn ==
    CASE rep = \hF2 -> 3
      [] rep = \hF3 -> 2
      [] OTHER      -> IF opSizePrefix THEN 1 ELSE 0

EscapedOpcode ==
    \E byte \in Bytes :
        /\ pc \in {"escape", "map"}
        /\ Read(1, IF pc = "escape" /\ byte \in {\h38, \h3A} THEN "map" ELSE "modrm")
        /\ opcode' = byte
        /\ map' = CASE pc = "escape" /\ byte = \h38 -> 2
                    [] pc = "escape" /\ byte = \h3A -> 3
                    [] OTHER -> map
        /\ pp' = PrefixColumn
        /\ UNCHANGED <<is64Bit, last, prefixVars, vex, widthVars, tailVars, endVars>>

\* C4 or C5: VEX in long mode; in legacy mode the byte after it decides.
OpenVex ==
    \E byte \in {\hC4, \hC5} :
        /\ FirstByte(byte)
        /\ pc' = IF is64Bit THEN "vex1" ELSE "peek"
        /\ vex' = IF is64Bit THEN byte ELSE 0
        /\ UNCHANGED <<is64Bit, prefixVars, map, pp, widthVars, tailVars, endVars>>

\* A byte of C0 or more cannot be the ModRM of LES or LDS.
PeekModRM ==
    /\ pc = "peek"
    /\ \/ pc' = "vex1" /\ vex' = opcode
       \/ pc' = "modrm" /\ UNCHANGED vex
    /\ UNCHANGED <<is64Bit, length, last, prefixVars, map, pp, opcode, widthVars, tailVars, endVars>>

\* C4's first byte names the map; a map of 4 stands for every one there is no table of.
VexMapByte ==
    /\ pc = "vex1" /\ vex = \hC4
    /\ Read(1, "vex2")
    /\ map' \in 0 .. 4
    /\ UNCHANGED <<is64Bit, last, prefixVars, vex, pp, opcode, widthVars, tailVars, endVars>>

\* The byte with pp and, in C4, W; R, X and B only number registers.
VexPpByte ==
    /\ \/ pc = "vex1" /\ vex = \hC5 /\ map' = 1
       \/ pc = "vex2" /\ UNCHANGED map
    /\ Fits(1)
    /\ length' = length + 1
    /\ pp' \in 0 .. 3
    /\ \E W \in IF vex = \hC4 THEN {0, 1} ELSE {0} :
           rex' = IF is64Bit THEN \h40 + 8 * W ELSE rex
    /\ IF map' \in 1 .. 3 THEN pc' = "opcode" /\ UNCHANGED endVars ELSE Emit(TRUE)
    /\ UNCHANGED <<is64Bit, last, opSizePrefix, addrSizePrefix, rep, vex, opcode, widthVars,
                   tailVars>>

VexOpcode ==
    \E byte \in Bytes :
        /\ pc = "opcode"
        /\ Read(1, "modrm")
        /\ opcode' = byte
        /\ UNCHANGED <<is64Bit, last, prefixVars, vex, map, pp, widthVars, tailVars, endVars>>

(***************************************************************************)
(* ModRM, the row it selects, and the widths.                              *)
(***************************************************************************)
ResolvedRow(modRM) ==
    CASE vex # 0            -> vexResolvedInfo(opcode, modRM, map, pp)
      [] vex = 0 /\ map = 0 -> resolvedInfo(opcode, modRM, is64Bit)
      [] vex = 0 /\ map = 1 -> twoByteResolvedInfo(opcode, modRM, pp)
      [] OTHER              -> threeByteResolvedInfo(opcode, map, pp)

\* A mandatory prefix is part of the opcode: it is no modifier any more.
TakePrefixes(info) ==
    LET mandatory == IF vex # 0 THEN pp # 0 ELSE info.mandatory # 0
    IN  /\ pp' = IF mandatory THEN pp ELSE 0
        /\ opSizePrefix' = (opSizePrefix /\ ~(mandatory /\ pp = 1))
        /\ rep' = IF mandatory /\ pp # 1 THEN 0 ELSE rep

OperandSize(info) ==
    LET default64 == IF is64Bit THEN info.default64 ELSE "none"
    IN  IF RexW \/ default64 = "f64" THEN 64
        ELSE IF opSizePrefix' THEN 16
        ELSE IF default64 = "d64" THEN 64 ELSE 32

AddressSize ==
    IF is64Bit THEN IF addrSizePrefix THEN 32 ELSE 64
               ELSE IF addrSizePrefix THEN 16 ELSE 32

Resolve(info) ==
    /\ TakePrefixes(info)
    /\ row' = info
    /\ opSize' = OperandSize(info)
    /\ addrSize' = AddressSize

DisplacementSize(modRM, sibBase) ==
    LET mod == modRM \div 64
        rm  == modRM % 8
    IN  CASE mod = 3 -> 0
          [] mod = 1 -> 1
          [] mod = 2 -> IF addrSize' = 16 THEN 2 ELSE 4
          [] mod = 0 -> IF addrSize' = 16 THEN IF rm = 6 THEN 2 ELSE 0
                        ELSE IF rm = 5 \/ (rm = 4 /\ sibBase = 5) THEN 4 ELSE 0

\* What follows the addressing bytes: 3DNow!'s real opcode, or the immediates.
Trailing == IF vex = 0 /\ map = 1 /\ opcode = \h0F THEN "3dnow" ELSE "imm"

\* A SIB byte is read next, in the same branch that sets the displacement.
ReadModRM ==
    \E modRM \in ModRMs :
        /\ pc = "modrm"
        /\ HasModRM
        /\ Fits(1)
        /\ length' = length + 1
        /\ Resolve(ResolvedRow(modRM))
        /\ LET hasSIB == modRM < \hC0 /\ addrSize' # 16 /\ modRM % 8 = 4
           IN  \E base \in IF hasSIB THEN {0, 5} ELSE {0} :
                   /\ displacement' = DisplacementSize(modRM, base)
                   /\ pc' = IF hasSIB THEN "sib"
                            ELSE IF displacement' = 0 THEN Trailing ELSE "disp"
        /\ UNCHANGED <<is64Bit, last, rex, addrSizePrefix, vex, map, opcode, operand,
                       immediates, relativeTo, endVars>>

NoModRM ==
    /\ pc = "modrm"
    /\ ~HasModRM
    /\ Resolve(ResolvedRow(0))
    /\ pc' = Trailing
    /\ UNCHANGED <<is64Bit, length, last, rex, addrSizePrefix, vex, map, opcode, tailVars, endVars>>

ReadSib ==
    /\ pc = "sib"
    /\ Read(1, IF displacement = 0 THEN Trailing ELSE "disp")
    /\ UNCHANGED <<is64Bit, last, prefixVars, opcodeVars, widthVars, tailVars, endVars>>

ReadDisplacement ==
    /\ pc = "disp"
    /\ Read(displacement, Trailing)
    /\ displacement' = 0
    /\ UNCHANGED <<is64Bit, last, prefixVars, opcodeVars, widthVars, operand, immediates,
                   relativeTo, endVars>>

\* The byte after the operands of 0F 0F is its opcode.
Read3DNow ==
    \E byte \in Bytes :
        /\ pc = "3dnow"
        /\ Read(1, "imm")
        /\ row' = threeDNowTable(byte)
        /\ UNCHANGED <<is64Bit, last, prefixVars, opcodeVars, opSize, addrSize, tailVars, endVars>>

(***************************************************************************)
(* The immediates, in operand order, and the row.                          *)
(***************************************************************************)
IsRelative(kind) == kind \in {"Jb", "Jz", "Jv"}

\* Mutant: a relative target is counted from where its own bytes begin.
ReadImmediateEarly ==
    /\ pc = "imm"
    /\ OperandLeft
    /\ LET kind == row.eats[operand + 1]
       IN  /\ Read(ImmediateWidth(kind), "imm")
           /\ immediates' = immediates + ImmediateWidth(kind)
           /\ relativeTo' = IF IsRelative(kind) THEN length ELSE relativeTo
    /\ operand' = operand + 1
    /\ UNCHANGED <<is64Bit, last, prefixVars, opcodeVars, widthVars, displacement, endVars>>

ReadImmediate ==
    /\ pc = "imm"
    /\ OperandLeft
    /\ LET kind == row.eats[operand + 1]
       IN  /\ Read(ImmediateWidth(kind), "imm")
           /\ immediates' = immediates + ImmediateWidth(kind)
           /\ relativeTo' = IF IsRelative(kind) THEN length' ELSE relativeTo
    /\ operand' = operand + 1
    /\ UNCHANGED <<is64Bit, last, prefixVars, opcodeVars, widthVars, displacement, endVars>>

Finish ==
    /\ pc = "imm"
    /\ ~OperandLeft
    /\ Emit(FALSE)
    /\ UNCHANGED <<is64Bit, length, last, prefixVars, opcodeVars, widthVars, tailVars>>

Next ==
    \/ ReadPrefix \/ OneByteOpcode \/ GoneOpcode \/ OpenEscape \/ EscapedOpcode
    \/ OpenVex \/ PeekModRM \/ VexMapByte \/ VexPpByte \/ VexOpcode
    \/ ReadModRM \/ NoModRM \/ ReadSib \/ ReadDisplacement \/ Read3DNow
    \/ ReadImmediate \/ Finish \/ TooLong \/ ReadFails

Spec == Init /\ [][Next]_vars

(***************************************************************************)
(* Properties.                                                             *)
(***************************************************************************)

\* The REX in force when the row is looked up is the byte right before the opcode, or
\* none: a legacy prefix after a REX cancels it, and the last of several wins
\* (x86_64_decoder.cpp:55-63).  VEX replaces it.
RexAdjacent == vex = 0 => rex = IF IsRex(last) THEN last ELSE 0

\* A finished 0F 38 line took no immediate and a finished 0F 3A line exactly one byte, with
\* or without VEX, whatever the prefixes were and whether or not the tables name it, so an
\* unknown instruction never costs the sweep its place (x86_64_tables.cpp:1368-1372, 1448).
EscapeShape ==
    result = "row" /\ ~isInvalid =>
        /\ map = 2 => immediates = 0
        /\ map = 3 => immediates = 1

\* A relative target was counted from the end of the instruction: its bytes are the last
\* ones of every line that has any (x86_64_decoder.cpp:184-188).
RelativeToEnd == result = "row" /\ relativeTo # 0 => relativeTo = length

\* Only MOV r, imm (B8-BF) and the fixed addresses of A0-A3 take eight bytes; an immediate
\* otherwise never widens with the operand size (x86_64_tables.cpp:1342-1343).
OnlyMovWidens ==
    result = "row" /\ immediates = 8 => map = 0 /\ opcode \in \hA0 .. \hA3 \cup \hB8 .. \hBF

\* The 0F opcodes that have no ModRM byte on the processor: RDMSR, WRMSR and RDPMC, CLTS,
\* INVD, WBINVD, GETSEC, PUSH and POP of FS and GS, RSM.
CpuBareTwoByte ==
    {\h06, \h08, \h09, \h30, \h32, \h33, \h37, \hA0, \hA1, \hA8, \hA9, \hAA}

\* An unnamed 0F row takes a ModRM because those that genuinely have none are all named
\* (x86_64_tables.cpp:831-835): a finished line of such an opcode ate none.
BareOpcodesNamed ==
    result = "row" /\ ~isInvalid /\ vex = 0 /\ map = 1 /\ opcode \in CpuBareTwoByte
        => ~row.modRM

\* decodeLine() keeps its contract.
Contract == INSTANCE LineContract WITH
                bytes   <- IF result = "row" THEN length ELSE 0,
                outcome <- result

\* Every line ends once, as a row of 1 to 15 bytes or as no row at all, and a line that
\* ended stays as it is (decoder.hpp:17-30, x86_64_decoder.cpp:12-14, 82).
KeepsLine == Contract!Spec
=============================================================================
