------------------------------- MODULE Loader -------------------------------
(***************************************************************************)
(* make_disassembler() and the ELF and PE readers                          *)
(* (src/src/disassembler/format), on the UI thread, reading through a      *)
(* MappedFile that some other program may truncate at any moment, while    *)
(* the decode worker of the binary opened before reads its own mapping.    *)
(*                                                                         *)
(* Every header field is whatever the file says: the values considered are *)
(* constants.  Neighbouring fields that are read one after the other are   *)
(* one read of the bytes they cover.  A section is its table entry and the *)
(* layout the entry was read by; what the entry says of the section is     *)
(* DecodeSweep's.                                                          *)
(***************************************************************************)
EXTENDS MappedFile, Sequences

CONSTANTS
    DWordSize,    \* 2^32
    Offsets64,    \* the values of 64-bit header fields considered
    Offsets32,    \* of 32-bit fields
    NameTables,   \* of the offset of the section that holds the names
    NameOffsets,  \* of sh_name
    Counts,       \* of NumberOfSections, e_shnum and e_shstrndx
    EntrySizes,   \* of e_shentsize and SizeOfOptionalHeader
    WorkerReads,  \* the offsets the decode worker reads at
    MaxOpens      \* bound: opens

ASSUME LoaderAssumption ==
    /\ Threads = {"ui", "worker"}
    /\ Offsets64 \subseteq 0 .. WordSize - 1
    /\ DWordSize \in Nat \ {0}
    /\ Offsets32 \subseteq 0 .. DWordSize - 1
    /\ DWordSize <= WordSize
    /\ NameTables \subseteq 0 .. WordSize - 1
    /\ NameOffsets \subseteq 0 .. DWordSize - 1
    /\ Counts \subseteq 0 .. DWordSize - 1
    /\ EntrySizes \subseteq 0 .. DWordSize - 1
    /\ WorkerReads \subseteq 0 .. WordSize - 1
    /\ MaxOpens \in Nat
    \* A file's size is an off_t, half a word at most, and entry sizes have 16 bits: one
    \* entry past the end of a file is still no wrap.
    /\ DWordSize + 40 <= WordSize
    /\ \A size \in FileSizes, entry \in EntrySizes \cup {0, 40} : size + entry + 40 <= WordSize

VARIABLES
    load,       \* the field read next, or how the load stands
    wide,       \* is64Bit(arch): the 64-bit header layout
    peHeader,   \* peHeaderOffset
    table,      \* sectionTableOffset
    entrySize,  \* sectionEntrySize
    count,      \* sectionCount
    names,      \* namesSectionIndex, then namesOffset
    index,      \* sectionIndex
    pos,        \* offset of the next character of a section's name
    text,       \* commonSections.text: the entries it was made from
    opens       \* successful and failed opens

loadVars == <<load, wide, peHeader, table, entrySize, count, names, index, pos, text>>
vars     == <<fileVars, loadVars, opens>>

Ui == "ui"

ElfReads == {"machine", "elfTable", "elfCounts", "names", "elfEntry", "name", "elfStart"}
PeReads  == {"peHeader", "peMachine", "peCounts", "peImageBase", "peEntry", "peStart"}
Reading  == {"elfMagic", "mzMagic", "lfanew", "signature"} \cup ElfReads \cup PeReads

\* parseSections32() and parseSections64() of ELF, and both of PE, which read an entry alike.
Layouts == {"elf32", "elf64", "pe"}
Entries == [offset : 0 .. WordSize - 1, layout : Layouts]

TypeOK ==
    /\ FileTypeOK
    /\ load \in Reading \cup {"closed", "thrown", "loaded", "failed"}
    /\ wide \in BOOLEAN
    /\ peHeader \in 0 .. DWordSize - 1
    /\ table \in 0 .. WordSize - 1
    /\ entrySize \in EntrySizes \cup {0, 40}
    /\ count \in Counts \cup {0}
    /\ names \in 0 .. WordSize - 1
    /\ index \in 0 .. count
    /\ pos \in 0 .. WordSize - 1
    /\ text \in Seq(Entries)
    /\ opens \in 0 .. MaxOpens

Init ==
    /\ FileInit
    /\ load = "closed"
    /\ wide = FALSE
    /\ peHeader = 0
    /\ table = 0
    /\ entrySize = 0
    /\ count = 0
    /\ names = 0
    /\ index = 0
    /\ pos = 0
    /\ text = <<>>
    /\ opens = 0

(***************************************************************************)
(* Where each field is.                                                    *)
(***************************************************************************)

EntryOffset == (table + entrySize * index) % WordSize

ElfLayout == IF wide THEN "elf64" ELSE "elf32"

Entry(layout) == [offset |-> EntryOffset, layout |-> layout]

\* The bytes of an entry its reader looks at.
ElfEntryBytes == IF wide THEN 40 ELSE 24

\* peHeaderOffset + n, in 32 bits.
PeField(n) == (peHeader + n) % DWordSize

At(offset, size) == [offset |-> offset % WordSize, size |-> size]

Field ==
    CASE load = "elfMagic"    -> At(0, 4)
      [] load = "mzMagic"     -> At(0, 2)
      [] load \in {"lfanew", "peHeader"} -> At(60, 4)
      [] load = "signature"   -> At(peHeader, 4)
      [] load = "machine"     -> At(18, 2)
      [] load = "elfTable"    -> IF wide THEN At(40, 8) ELSE At(32, 4)
      [] load = "elfCounts"   -> IF wide THEN At(58, 6) ELSE At(46, 6)
      [] load = "names"       -> IF wide THEN At(table + names * entrySize + 24, 8)
                                         ELSE At(table + names * entrySize + 16, 4)
      [] load = "elfEntry"    -> At(EntryOffset, ElfEntryBytes)
      [] load = "name"        -> At(pos, 1)
      [] load = "elfStart"    -> IF wide THEN At(24, 8) ELSE At(24, 4)
      [] load = "peMachine"   -> At(PeField(4), 4)
      [] load = "peCounts"    -> At(PeField(6), 16)
      [] load = "peImageBase" -> IF wide THEN At(PeField(48), 8) ELSE At(PeField(52), 4)
      [] load = "peEntry"     -> At(EntryOffset + 12, 28)
      [] load = "peStart"     -> At(PeField(40), 4)

(***************************************************************************)
(* Opening, asking for a field, and failing.                               *)
(***************************************************************************)

\* No reader is under way or has left anything.
NoReader ==
    /\ wide' = FALSE
    /\ peHeader' = 0
    /\ table' = 0
    /\ entrySize' = 0
    /\ count' = 0
    /\ names' = 0
    /\ index' = 0
    /\ pos' = 0
    /\ text' = <<>>

\* determine_filetype() asks for no magic the file is too short for.
Open ==
    /\ load \in {"closed", "loaded", "failed"}
    /\ opens < MaxOpens
    /\ opens' = opens + 1
    /\ \/ /\ Map(Ui)
          /\ load' = CASE disk >= 4      -> "elfMagic"
                       [] disk \in {2, 3} -> "mzMagic"
                       [] OTHER          -> "thrown"
       \/ CannotMap(Ui) /\ load' = "failed"
    /\ NoReader

Ask ==
    /\ load \in Reading
    /\ got[Ui] = "none"
    /\ BeginRead(Ui, Field.offset, Field.size)
    /\ UNCHANGED <<loadVars, opens>>

\* A read or a reader threw: nothing before Session::open() catches, and the mapping is
\* local to it.
Throw ==
    /\ \/ load = "thrown"
       \/ load \in Reading /\ got[Ui] \in {"length", "changed"}
    /\ load' = "failed"
    /\ Unmap(Ui)
    /\ NoReader
    /\ UNCHANGED opens

\* The read at label returned; the loader goes on from its value.
Got(label) ==
    /\ load = label
    /\ got[Ui] = "value"
    /\ got' = [got EXCEPT ![Ui] = "none"]
    /\ UNCHANGED <<disk, alive, handled, fileSize, at, request, jump, blocked, opens>>

(***************************************************************************)
(* determine_filetype()                                                    *)
(***************************************************************************)
GotElfMagic ==
    /\ Got("elfMagic")
    /\ \/ load' = IF fileSize[Ui] < 52 THEN "thrown" ELSE "machine"
       \/ load' = "mzMagic"
    /\ UNCHANGED <<wide, peHeader, table, entrySize, count, names, index, pos, text>>

GotMzMagic ==
    /\ Got("mzMagic")
    /\ load' \in {"lfanew", "thrown"}
    /\ UNCHANGED <<wide, peHeader, table, entrySize, count, names, index, pos, text>>

\* size() - 4 is unsigned, but the read before it needed 64 bytes.
GotLfanew ==
    /\ Got("lfanew")
    /\ peHeader' \in Offsets32
    /\ load' = IF peHeader' <= (fileSize[Ui] - 4) % WordSize THEN "signature" ELSE "thrown"
    /\ UNCHANGED <<wide, table, entrySize, count, names, index, pos, text>>

GotSignature ==
    /\ Got("signature")
    /\ load' \in {"peHeader", "thrown"}
    /\ UNCHANGED <<wide, peHeader, table, entrySize, count, names, index, pos, text>>

(***************************************************************************)
(* ELF.                                                                    *)
(***************************************************************************)

\* The class follows from the machine; an unknown one is read again for the message.
GotMachine ==
    /\ Got("machine")
    /\ \/ load' = "elfTable" /\ wide' \in BOOLEAN
       \/ load' = "thrown" /\ UNCHANGED wide
    /\ UNCHANGED <<peHeader, table, entrySize, count, names, index, pos, text>>

GotElfTable ==
    /\ Got("elfTable")
    /\ table' \in IF wide THEN Offsets64 ELSE Offsets32
    /\ load' = "elfCounts"
    /\ UNCHANGED <<wide, peHeader, entrySize, count, names, index, pos, text>>

\* A 64-bit file without a section table has no sections.
GotElfCounts ==
    /\ Got("elfCounts")
    /\ entrySize' \in EntrySizes
    /\ count' \in Counts
    /\ names' \in Counts
    /\ load' = IF wide /\ table = 0 /\ count' = 0 THEN "elfStart" ELSE "names"
    /\ UNCHANGED <<wide, peHeader, table, index, pos, text>>

\* Mutant: one entry more than the header says.
NextElfEntryOneMore(i) == IF i <= count THEN "elfEntry" ELSE "elfStart"

NextElfEntry(i) == IF i < count THEN "elfEntry" ELSE "elfStart"

\* Mutant: the loop starts after the null section, as most ELF readers do.
GotNamesSkipNull ==
    /\ Got("names")
    /\ names' \in IF wide THEN NameTables ELSE NameTables \cap 0 .. DWordSize - 1
    /\ index' = IF count > 0 THEN 1 ELSE 0
    /\ load' = NextElfEntry(index')
    /\ UNCHANGED <<wide, peHeader, table, entrySize, count, pos, text>>

GotNames ==
    /\ Got("names")
    /\ names' \in IF wide THEN NameTables ELSE NameTables \cap 0 .. DWordSize - 1
    /\ load' = NextElfEntry(0)
    /\ UNCHANGED <<wide, peHeader, table, entrySize, count, index, pos, text>>

GotElfEntry ==
    /\ Got("elfEntry")
    /\ \E nameOffset \in NameOffsets : pos' = (names + nameOffset) % WordSize
    /\ load' = "name"
    /\ UNCHANGED <<wide, peHeader, table, entrySize, count, names, index, text>>

\* Mutant: the name loop does not advance.
GotNameCharStuck ==
    /\ Got("name")
    /\ pos' = pos
    /\ UNCHANGED <<load, wide, peHeader, table, entrySize, count, names, index, text>>

GotNameChar ==
    /\ Got("name")
    /\ pos' = (pos + 1) % WordSize
    /\ UNCHANGED <<load, wide, peHeader, table, entrySize, count, names, index, text>>

\* The name is complete: .text is kept, any other name is some other list or none.
GotNameEnd ==
    /\ Got("name")
    /\ text' \in {text, Append(text, Entry(ElfLayout))}
    /\ index' = index + 1
    /\ load' = NextElfEntry(index')
    /\ UNCHANGED <<wide, peHeader, table, entrySize, count, names, pos>>

GotStart ==
    /\ \/ Got("elfStart")
       \/ Got("peStart")
    /\ load' = "loaded"
    /\ UNCHANGED <<wide, peHeader, table, entrySize, count, names, index, pos, text>>

(***************************************************************************)
(* PE.                                                                     *)
(***************************************************************************)

\* The constructor reads 0x3C again.  A rewrite that changes the field is left out.
GotPeHeader ==
    /\ Got("peHeader")
    /\ load' = "peMachine"
    /\ UNCHANGED <<wide, peHeader, table, entrySize, count, names, index, pos, text>>

GotPeMachine ==
    /\ Got("peMachine")
    /\ \/ load' = "peCounts" /\ wide' \in BOOLEAN
       \/ load' = "thrown" /\ UNCHANGED wide
    /\ UNCHANGED <<peHeader, table, entrySize, count, names, index, pos, text>>

\* The table follows the optional header; the sum is a 32-bit one.
GotPeCounts ==
    /\ Got("peCounts")
    /\ count' \in Counts
    /\ \E optionalHeaderSize \in EntrySizes : table' = PeField(24 + optionalHeaderSize)
    /\ entrySize' = 40
    /\ load' = "peImageBase"
    /\ UNCHANGED <<wide, peHeader, names, index, pos, text>>

NextPeEntry(i) == IF i < count THEN "peEntry" ELSE "peStart"

GotPeImageBase ==
    /\ Got("peImageBase")
    /\ load' = NextPeEntry(0)
    /\ UNCHANGED <<wide, peHeader, table, entrySize, count, names, index, pos, text>>

\* classify(): code is kept, the other kinds are some other list or none.
GotPeEntry ==
    /\ Got("peEntry")
    /\ text' \in {text, Append(text, Entry("pe"))}
    /\ index' = index + 1
    /\ load' = NextPeEntry(index')
    /\ UNCHANGED <<wide, peHeader, table, entrySize, count, names, pos>>

(***************************************************************************)
(* The worker of the binary that was loaded last, reading its mapping.     *)
(***************************************************************************)
StartWorker ==
    /\ load = "loaded"
    /\ at["worker"] = "idle"
    /\ fileSize' = [fileSize EXCEPT !["worker"] = fileSize[Ui]]
    /\ UNCHANGED <<disk, alive, handled, readVars, loadVars, opens>>

WorkerRead ==
    /\ fileSize["worker"] > 0
    /\ \E offset \in WorkerReads : BeginRead("worker", offset, 1)
    /\ UNCHANGED <<loadVars, opens>>

LoadStep ==
    \/ Ask \/ Throw
    \/ GotElfMagic \/ GotMzMagic \/ GotLfanew \/ GotSignature
    \/ GotMachine \/ GotElfTable \/ GotElfCounts \/ GotNames
    \/ GotElfEntry \/ GotNameChar \/ GotNameEnd
    \/ GotPeHeader \/ GotPeMachine \/ GotPeCounts \/ GotPeImageBase \/ GotPeEntry
    \/ GotStart

FileStep(t) == InRead(t) /\ UNCHANGED <<loadVars, opens>>

Next ==
    \/ Open \/ LoadStep \/ StartWorker \/ WorkerRead
    \/ \E t \in Threads : FileStep(t)
    \/ Rewrite /\ UNCHANGED <<loadVars, opens>>

Spec == Init /\ [][Next]_vars

FairSpec == Spec /\ WF_vars(LoadStep) /\ WF_vars(FileStep(Ui))

(***************************************************************************)
(* Properties.                                                             *)
(***************************************************************************)

\* Where the last field of an entry that a reader uses ends: sh_size of Elf32_Shdr and of
\* Elf64_Shdr, Characteristics of a PE section header.
FieldsEnd == [elf32 |-> 24, elf64 |-> 40, pe |-> 40]

\* Every code section comes from a table entry whose fields, up to the last one used, lie
\* inside the file, at or after the table's start and in table order: 64-bit entry arithmetic
\* that wraps never brings an entry back into the file, because entry 0 has to be there first
\* (elf_sections.hpp:61-86, 118-152; pe_sections.hpp:48-98).  The bytes of a 64-bit entry after
\* sh_size, which nothing reads, may be missing.
EntriesInOrder ==
    \A k \in 1 .. Len(text) :
        /\ text[k].offset >= table
        /\ text[k].offset + FieldsEnd[text[k].layout] <= fileSize[Ui]
        /\ \A l \in 1 .. k : text[l].offset <= text[k].offset

\* Loading ends, with a disassembler or with an exception, whatever the headers say: a
\* section name without an end stops at the end of the file, a file too short for its magic
\* or its header is an error (detect.hpp:30-42, elf_disassembler.cpp:24-33).
LoadEnds == load \in Reading \cup {"thrown"} ~> load \in {"loaded", "failed"}
=============================================================================
