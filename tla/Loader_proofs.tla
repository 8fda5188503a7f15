---------------------------- MODULE Loader_proofs ----------------------------
(***************************************************************************)
(* Loader and the MappedFile under it, for every file, page and word size, *)
(* every set of header values and any number of truncations and opens.     *)
(***************************************************************************)
EXTENDS Loader, TLAPS

(***************************************************************************)
(* The inductive invariant.  FileInv is about the mapping and its readers, *)
(* LoadInv about the loader.                                               *)
(***************************************************************************)

\* The handler is there before any mapping is.
HandlerFirst == \A t \in Threads : fileSize[t] > 0 => handled

\* Who is in a read has a mapping and no answer yet.
ReadersMapped == \A t \in Threads : at[t] # "idle" => fileSize[t] > 0 /\ got[t] = "none"

\* Nothing blocks SIGBUS: the handler runs with SA_NODEFER.
Unblocked == \A t \in Threads : ~blocked[t]

FileInv ==
    /\ FileTypeOK
    /\ ReadsInside
    /\ JumpMatchesRead
    /\ HandlerFirst
    /\ ReadersMapped
    /\ Unblocked
    /\ NeverKilled

\* Between two loads the UI thread reads nothing.
QuietUnlessReading == load \notin Reading => at[Ui] = "idle"

InTable == {"elfEntry", "name", "peEntry"}

\* The entry under way is one the header counted.
IndexFollows ==
    /\ load \in InTable => index < count
    /\ load \in Reading \ (InTable \cup {"elfStart", "peStart"}) => index = 0

LoadTypeOK ==
    /\ load \in Reading \cup {"closed", "thrown", "loaded", "failed"}
    /\ wide \in BOOLEAN
    /\ peHeader \in 0 .. DWordSize - 1
    /\ table \in 0 .. WordSize - 1
    /\ entrySize \in EntrySizes \cup {0, 40}
    /\ count \in Counts \cup {0}
    /\ names \in 0 .. WordSize - 1
    /\ index \in 0 .. count
    /\ pos \in 0 .. WordSize - 1
    /\ text \in Seq(Entries)
    /\ opens \in 0 .. MaxOpens

LoadInv == LoadTypeOK /\ QuietUnlessReading /\ IndexFollows

IInv == FileInv /\ LoadInv

LEMMA TypeSplit == TypeOK <=> FileTypeOK /\ LoadTypeOK
BY DEF TypeOK, LoadTypeOK

LEMMA ModRange ==
    ASSUME NEW a \in Int, NEW n \in Nat \ {0}
    PROVE  (a % n) \in 0 .. n - 1
OBVIOUS

LEMMA AppendTyped ==
    ASSUME NEW S, NEW s \in Seq(S), NEW x \in S
    PROVE  Append(s, x) \in Seq(S)
OBVIOUS

LEMMA UiIsAThread == Ui \in Threads /\ "worker" \in Threads /\ Ui # "worker"
BY LoaderAssumption DEF Ui

(***************************************************************************)
(* The mapping: each operation keeps FileInv.                              *)
(***************************************************************************)
LEMMA MapKeepsFile ==
    ASSUME FileInv, NEW t \in Threads, at[t] = "idle", Map(t)
    PROVE  FileInv'
BY MappedAssumption DEF FileInv, FileTypeOK, ReadsInside, JumpMatchesRead, HandlerFirst,
   ReadersMapped, Unblocked, NeverKilled, Map, Requests

LEMMA CannotMapKeepsFile ==
    ASSUME FileInv, NEW t \in Threads, at[t] = "idle", CannotMap(t)
    PROVE  FileInv'
BY MappedAssumption DEF FileInv, FileTypeOK, ReadsInside, JumpMatchesRead, HandlerFirst,
   ReadersMapped, Unblocked, NeverKilled, CannotMap, Requests

LEMMA UnmapKeepsFile ==
    ASSUME FileInv, NEW t \in Threads, Unmap(t)
    PROVE  FileInv'
BY MappedAssumption DEF FileInv, FileTypeOK, ReadsInside, JumpMatchesRead, HandlerFirst,
   ReadersMapped, Unblocked, NeverKilled, Unmap, Requests

LEMMA RewriteKeepsFile ==
    ASSUME FileInv, Rewrite
    PROVE  FileInv'
BY DEF FileInv, FileTypeOK, ReadsInside, JumpMatchesRead, HandlerFirst,
   ReadersMapped, Unblocked, NeverKilled, Rewrite, readVars

\* The bounds check: it subtracts, so no offset is large enough to wrap it.
LEMMA BeginReadKeepsFile ==
    ASSUME FileInv, NEW t \in Threads,
           NEW offset \in 0 .. WordSize - 1, NEW size \in Nat \ {0}, BeginRead(t, offset, size)
    PROVE  FileInv'
<1>1. CASE InBounds(t, offset, size)
  <2>0. fileSize[t] \in Nat
    <3>1. fileSize[t] \in FileSizes \cup {0}
      BY DEF FileInv, FileTypeOK
    <3>2. \A s \in FileSizes : s \in 0 .. WordSize - 1
      BY MappedAssumption
    <3>3. WordSize \in Nat
      BY MappedAssumption
    <3>. QED
      BY <3>1, <3>2, <3>3
  <2>1. offset + size <= fileSize[t] /\ fileSize[t] > 0
    BY <1>1, <2>0, MappedAssumption DEF InBounds
  <2>2. FileTypeOK'
    <3>1. [offset |-> offset, size |-> size] \in Requests
      BY DEF Requests
    <3>2. request' \in [Threads -> Requests]
      BY <1>1, <3>1 DEF FileInv, FileTypeOK, BeginRead
    <3>. QED
      BY <1>1, <3>2 DEF FileInv, FileTypeOK, BeginRead
  <2>3. ReadsInside'
    BY <1>1, <2>1 DEF FileInv, FileTypeOK, ReadsInside, BeginRead, Requests
  <2>4. ReadersMapped'
    BY <1>1, <2>1 DEF FileInv, FileTypeOK, ReadersMapped, BeginRead
  <2>. QED
    BY <1>1, <2>2, <2>3, <2>4 DEF FileInv, FileTypeOK, JumpMatchesRead, HandlerFirst,
       Unblocked, NeverKilled, BeginRead
<1>2. CASE ~InBounds(t, offset, size)
  BY <1>2 DEF FileInv, FileTypeOK, ReadsInside, JumpMatchesRead, HandlerFirst,
     ReadersMapped, Unblocked, NeverKilled, BeginRead
<1>. QED
  BY <1>1, <1>2

\* A fault finds the jump target set, the handler installed and the signal unblocked.
LEMMA SigbusKeepsFile ==
    ASSUME FileInv, NEW t \in Threads, Sigbus(t)
    PROVE  FileInv'
<1>1. handled /\ jump[t] /\ ~blocked[t]
  BY DEF FileInv, Sigbus, JumpMatchesRead, HandlerFirst, ReadersMapped, Unblocked
<1>2. at' = [at EXCEPT ![t] = "jumped"] /\ alive' = alive
  BY <1>1 DEF Sigbus
<1>. QED
  BY <1>2 DEF FileInv, FileTypeOK, ReadsInside, JumpMatchesRead, HandlerFirst,
     ReadersMapped, Unblocked, NeverKilled, Sigbus

LEMMA InReadKeepsFile ==
    ASSUME FileInv, NEW t \in Threads, InRead(t)
    PROVE  FileInv'
<1>. USE DEF FileInv, FileTypeOK, ReadsInside, JumpMatchesRead, HandlerFirst,
             ReadersMapped, Unblocked, NeverKilled
<1>1. CASE Arm(t)
  BY <1>1 DEF Arm
<1>2. CASE Copy(t)
  BY <1>2 DEF Copy
<1>3. CASE Disarm(t)
  BY <1>3 DEF Disarm
<1>4. CASE Sigbus(t)
  <2>. HIDE DEF FileInv
  <2>. QED
    BY <1>4, SigbusKeepsFile
<1>5. CASE Jumped(t)
  BY <1>5 DEF Jumped
<1>. QED
  BY <1>1, <1>2, <1>3, <1>4, <1>5 DEF InRead

LEMMA GotKeepsFile ==
    ASSUME FileInv, NEW label, Got(label)
    PROVE  FileInv'
BY UiIsAThread DEF FileInv, FileTypeOK, ReadsInside, JumpMatchesRead, HandlerFirst,
   ReadersMapped, Unblocked, NeverKilled, Got

LEMMA StartWorkerKeepsFile ==
    ASSUME FileInv, StartWorker
    PROVE  FileInv'
BY UiIsAThread DEF FileInv, FileTypeOK, ReadsInside, JumpMatchesRead, HandlerFirst,
   ReadersMapped, Unblocked, NeverKilled, StartWorker, readVars

(***************************************************************************)
(* Where the loader reads.                                                 *)
(***************************************************************************)
LEMMA Widths ==
    /\ WordSize \in Nat \ {0} /\ DWordSize \in Nat \ {0} /\ DWordSize <= WordSize
    /\ \A x \in EntrySizes \cup {0, 40} : x \in Nat
    /\ \A x \in Counts \cup {0} : x \in Nat
    /\ \A x \in Offsets64 : x \in 0 .. WordSize - 1
    /\ \A x \in Offsets32 : x \in 0 .. DWordSize - 1
    /\ \A x \in NameTables : x \in 0 .. WordSize - 1
    /\ \A x \in NameOffsets : x \in 0 .. DWordSize - 1
    /\ \A x \in WorkerReads : x \in 0 .. WordSize - 1
    /\ \A x \in Counts : x \in 0 .. WordSize - 1
BY LoaderAssumption, MappedAssumption

LEMMA NumbersTyped ==
    ASSUME LoadTypeOK
    PROVE  /\ table \in Nat /\ entrySize \in Nat /\ count \in Nat /\ index \in Nat
           /\ names \in Nat /\ pos \in Nat /\ peHeader \in Nat
           /\ EntryOffset \in 0 .. WordSize - 1
           /\ \A n \in Nat : PeField(n) \in 0 .. DWordSize - 1
<1>1. table \in Nat /\ entrySize \in Nat /\ count \in Nat /\ names \in Nat /\ pos \in Nat
      /\ peHeader \in Nat
  BY Widths DEF LoadTypeOK
<1>2. index \in Nat
  BY <1>1 DEF LoadTypeOK
<1>3. table + entrySize * index \in Int
  BY <1>1, <1>2
<1>4. EntryOffset \in 0 .. WordSize - 1
  BY <1>3, ModRange, Widths DEF EntryOffset
<1>5. ASSUME NEW n \in Nat PROVE PeField(n) \in 0 .. DWordSize - 1
  <2>1. peHeader + n \in Int
    BY <1>1
  <2>. QED
    BY <2>1, ModRange, Widths DEF PeField
<1>. QED
  BY <1>1, <1>2, <1>4, <1>5

LEMMA LayoutsTyped ==
    /\ ElfLayout \in Layouts /\ "pe" \in Layouts
    /\ FieldsEnd[ElfLayout] = ElfEntryBytes /\ FieldsEnd["pe"] = 40
    /\ \A layout \in Layouts : FieldsEnd[layout] \in Nat
BY DEF ElfLayout, Layouts, FieldsEnd, ElfEntryBytes

LEMMA EntryTyped ==
    ASSUME LoadTypeOK, NEW layout \in Layouts
    PROVE  Entry(layout) \in Entries
BY NumbersTyped DEF Entry, Entries

\* The entry loop stays inside its count.
LEMMA IndexSteps ==
    ASSUME IInv, load \in {"name", "peEntry"}, index' = index + 1
    PROVE  index' \in 0 .. count /\ count \in Nat
<1>1. index < count
  BY DEF IInv, LoadInv, IndexFollows, InTable
<1>2. index \in Nat /\ count \in Nat
  BY NumbersTyped DEF IInv, LoadInv
<1>. QED
  BY <1>1, <1>2

LEMMA AtTyped ==
    ASSUME NEW offset \in Int, NEW size
    PROVE  At(offset, size).offset \in 0 .. WordSize - 1 /\ At(offset, size).size = size
<1>1. (offset % WordSize) \in 0 .. WordSize - 1
  BY ModRange, Widths
<1>. QED
  BY <1>1 DEF At

LEMMA FieldTyped ==
    ASSUME LoadTypeOK, load \in Reading
    PROVE  Field.offset \in 0 .. WordSize - 1 /\ Field.size \in Nat \ {0}
<1>. SUFFICES \E offset \in Int, size \in Nat \ {0} : Field = At(offset, size)
  BY AtTyped
<1>1. /\ table \in Nat /\ names * entrySize \in Nat /\ EntryOffset \in Nat /\ pos \in Nat
      /\ peHeader \in Nat
      /\ PeField(4) \in Nat /\ PeField(6) \in Nat /\ PeField(48) \in Nat
      /\ PeField(52) \in Nat /\ PeField(40) \in Nat
  BY NumbersTyped, Widths
<1>2. ElfEntryBytes \in Nat \ {0}
  BY DEF ElfEntryBytes
<1>3. CASE load \in {"elfMagic", "mzMagic", "lfanew", "peHeader", "machine"}
  BY <1>3 DEF Field
<1>4. CASE load \in {"signature", "name"}
  BY <1>1, <1>4 DEF Field
<1>5. CASE load \in {"elfTable", "elfCounts", "elfStart"}
  <2>1. Field \in {At(40, 8), At(32, 4), At(58, 6), At(46, 6), At(24, 8), At(24, 4)}
    BY <1>5 DEF Field
  <2>2. \A o \in Int, z \in Nat \ {0} :
            Field = At(o, z) => \E offset \in Int, size \in Nat \ {0} : Field = At(offset, size)
    OBVIOUS
  <2>. HIDE DEF Field
  <2>. QED
    BY <2>1, <2>2
<1>6. CASE load = "names"
  <2>1. table + names * entrySize + 24 \in Int /\ table + names * entrySize + 16 \in Int
    BY <1>1
  <2>2. CASE wide
    <3>1. Field = At(table + names * entrySize + 24, 8)
      BY <1>6, <2>2 DEF Field
    <3>. QED
      BY <2>1, <3>1
  <2>3. CASE ~wide
    <3>1. Field = At(table + names * entrySize + 16, 4)
      BY <1>6, <2>3 DEF Field
    <3>. QED
      BY <2>1, <3>1
  <2>. QED
    BY <2>2, <2>3
<1>7. CASE load \in {"elfEntry", "peEntry"}
  BY <1>1, <1>2, <1>7 DEF Field
<1>8. CASE load \in {"peMachine", "peCounts", "peImageBase", "peStart"}
  BY <1>1, <1>8 DEF Field
<1>. QED
  BY <1>3, <1>4, <1>5, <1>6, <1>7, <1>8 DEF Reading, ElfReads, PeReads

(***************************************************************************)
(* The loader: each action keeps LoadInv.                                  *)
(***************************************************************************)

\* An answer has been given: the UI thread is in no read.
LEMMA AnsweredIsIdle ==
    ASSUME FileInv, got[Ui] # "none"
    PROVE  at[Ui] = "idle"
BY UiIsAThread DEF FileInv, ReadersMapped

LEMMA GotKeepsQuiet ==
    ASSUME FileInv, NEW label, Got(label)
    PROVE  QuietUnlessReading' /\ UNCHANGED opens
BY AnsweredIsIdle DEF Got, QuietUnlessReading

LEMMA DetectKeepsLoad ==
    ASSUME IInv, GotElfMagic \/ GotMzMagic \/ GotLfanew \/ GotSignature
    PROVE  LoadInv'
<1>. USE DEF IInv, LoadInv, LoadTypeOK, IndexFollows, InTable, Reading, ElfReads, PeReads
<1>1. CASE GotElfMagic
  BY <1>1, GotKeepsQuiet DEF GotElfMagic, Got
<1>2. CASE GotMzMagic
  BY <1>2, GotKeepsQuiet DEF GotMzMagic, Got
<1>3. CASE GotLfanew
  <2>1. peHeader' \in 0 .. DWordSize - 1
    BY <1>3, Widths DEF GotLfanew
  <2>. QED
    BY <1>3, <2>1, GotKeepsQuiet DEF GotLfanew, Got
<1>4. CASE GotSignature
  BY <1>4, GotKeepsQuiet DEF GotSignature, Got
<1>. QED
  BY <1>1, <1>2, <1>3, <1>4

LEMMA ElfKeepsLoad ==
    ASSUME IInv,
           \/ GotMachine \/ GotElfTable \/ GotElfCounts \/ GotNames
           \/ GotElfEntry \/ GotNameChar \/ GotNameEnd
    PROVE  LoadInv'
<1>. USE DEF IInv, LoadInv, LoadTypeOK, IndexFollows, InTable, Reading, ElfReads, PeReads
<1>1. CASE GotMachine
  BY <1>1, GotKeepsQuiet DEF GotMachine, Got
<1>2. CASE GotElfTable
  <2>1. table' \in 0 .. WordSize - 1
    <3>1. \A x \in Offsets32 : x \in 0 .. WordSize - 1
      BY Widths
    <3>. QED
      BY <1>2, <3>1, Widths DEF GotElfTable
  <2>. QED
    BY <1>2, <2>1, GotKeepsQuiet DEF GotElfTable, Got
<1>3. CASE GotElfCounts
  <2>1. names' \in 0 .. WordSize - 1 /\ count' \in Nat
    BY <1>3, Widths DEF GotElfCounts
  <2>2. index' = 0
    BY <1>3 DEF GotElfCounts, Got
  <2>. QED
    BY <1>3, <2>1, <2>2, GotKeepsQuiet DEF GotElfCounts, Got
<1>4. CASE GotNames
  <2>1. names' \in 0 .. WordSize - 1
    BY <1>4, Widths DEF GotNames
  <2>2. index = 0 /\ count \in Nat
    BY <1>4, NumbersTyped DEF GotNames, Got
  <2>. QED
    BY <1>4, <2>1, <2>2, GotKeepsQuiet DEF GotNames, Got, NextElfEntry
<1>5. CASE GotElfEntry
  <2>1. pos' \in 0 .. WordSize - 1
    <3>1. PICK nameOffset \in NameOffsets : pos' = (names + nameOffset) % WordSize
      BY <1>5 DEF GotElfEntry
    <3>2. names + nameOffset \in Int
      BY NumbersTyped, Widths
    <3>. QED
      BY <3>1, <3>2, ModRange, Widths
  <2>. QED
    BY <1>5, <2>1, GotKeepsQuiet DEF GotElfEntry, Got
<1>6. CASE GotNameChar
  <2>1. pos' \in 0 .. WordSize - 1
    <3>1. pos + 1 \in Int
      BY NumbersTyped
    <3>. QED
      BY <1>6, <3>1, ModRange, Widths DEF GotNameChar
  <2>. QED
    BY <1>6, <2>1, GotKeepsQuiet DEF GotNameChar, Got
<1>7. CASE GotNameEnd
  <2>1. text' \in Seq(Entries)
    <3>1. text' \in {text, Append(text, Entry(ElfLayout))}
      BY <1>7 DEF GotNameEnd
    <3>2. text \in Seq(Entries) /\ Entry(ElfLayout) \in Entries
      BY LayoutsTyped, EntryTyped
    <3>. QED
      BY <3>1, <3>2, AppendTyped
  <2>2. index' \in 0 .. count /\ index' = index + 1 /\ count \in Nat
    <3>1. load = "name" /\ index' = index + 1
      BY <1>7 DEF GotNameEnd, Got
    <3>. QED
      BY <3>1, IndexSteps
  <2>. QED
    BY <1>7, <2>1, <2>2, GotKeepsQuiet DEF GotNameEnd, Got, NextElfEntry
<1>. QED
  BY <1>1, <1>2, <1>3, <1>4, <1>5, <1>6, <1>7

LEMMA PeKeepsLoad ==
    ASSUME IInv,
           GotPeHeader \/ GotPeMachine \/ GotPeCounts \/ GotPeImageBase \/ GotPeEntry \/ GotStart
    PROVE  LoadInv'
<1>. USE DEF IInv, LoadInv, LoadTypeOK, IndexFollows, InTable, Reading, ElfReads, PeReads
<1>1. CASE GotPeHeader
  BY <1>1, GotKeepsQuiet DEF GotPeHeader, Got
<1>2. CASE GotPeMachine
  BY <1>2, GotKeepsQuiet DEF GotPeMachine, Got
<1>3. CASE GotPeCounts
  <2>1. table' \in 0 .. WordSize - 1
    <3>1. PICK size \in EntrySizes : table' = PeField(24 + size)
      BY <1>3 DEF GotPeCounts
    <3>2. 24 + size \in Nat
      BY Widths
    <3>3. PeField(24 + size) \in 0 .. DWordSize - 1
      BY <3>2, NumbersTyped
    <3>. QED
      BY <3>1, <3>3, Widths
  <2>2. index' = 0 /\ count' \in Nat
    BY <1>3, Widths DEF GotPeCounts, Got
  <2>. QED
    BY <1>3, <2>1, <2>2, GotKeepsQuiet DEF GotPeCounts, Got
<1>4. CASE GotPeImageBase
  <2>1. index = 0 /\ count \in Nat
    BY <1>4, NumbersTyped DEF GotPeImageBase, Got
  <2>. QED
    BY <1>4, <2>1, GotKeepsQuiet DEF GotPeImageBase, Got, NextPeEntry
<1>5. CASE GotPeEntry
  <2>1. text' \in Seq(Entries)
    <3>1. text' \in {text, Append(text, Entry("pe"))}
      BY <1>5 DEF GotPeEntry
    <3>2. text \in Seq(Entries) /\ Entry("pe") \in Entries
      BY LayoutsTyped, EntryTyped
    <3>. QED
      BY <3>1, <3>2, AppendTyped
  <2>2. index' \in 0 .. count /\ index' = index + 1 /\ count \in Nat
    <3>1. load = "peEntry" /\ index' = index + 1
      BY <1>5 DEF GotPeEntry, Got
    <3>. QED
      BY <3>1, IndexSteps
  <2>. QED
    BY <1>5, <2>1, <2>2, GotKeepsQuiet DEF GotPeEntry, Got, NextPeEntry
<1>6. CASE GotStart
  BY <1>6, GotKeepsQuiet DEF GotStart, Got
<1>. QED
  BY <1>1, <1>2, <1>3, <1>4, <1>5, <1>6

LEMMA NothingTyped ==
    /\ 0 \in 0 .. WordSize - 1 /\ 0 \in 0 .. DWordSize - 1 /\ 0 \in 0 .. MaxOpens
    /\ 0 \in EntrySizes \cup {0, 40} /\ 0 \in Counts \cup {0} /\ 0 \in 0 .. 0
    /\ <<>> \in Seq(Entries)
<1>1. 0 \in 0 .. WordSize - 1 /\ 0 \in 0 .. DWordSize - 1
  BY Widths
<1>2. 0 \in 0 .. MaxOpens
  BY LoaderAssumption
<1>. QED
  BY <1>1, <1>2

LEMMA OpenKeeps ==
    ASSUME IInv, Open
    PROVE  IInv'
<1>1. at[Ui] = "idle"
  BY DEF IInv, LoadInv, QuietUnlessReading, Open, Reading, ElfReads, PeReads
<1>2. FileInv'
  BY <1>1, UiIsAThread, MapKeepsFile, CannotMapKeepsFile DEF IInv, Open
<1>3. at'[Ui] = "idle"
  BY <1>1, UiIsAThread DEF Open, Map, CannotMap
<1>4. /\ load' \in {"elfMagic", "mzMagic", "thrown", "failed"}
      /\ wide' = FALSE /\ peHeader' = 0 /\ table' = 0 /\ entrySize' = 0 /\ count' = 0
      /\ names' = 0 /\ index' = 0 /\ pos' = 0 /\ text' = <<>>
      /\ opens' = opens + 1 /\ opens < MaxOpens
  BY DEF Open, NoReader
<1>5. MaxOpens \in Nat /\ opens' \in 0 .. MaxOpens
  BY <1>4, LoaderAssumption DEF IInv, LoadInv, LoadTypeOK
<1>6. LoadInv'
  BY <1>3, <1>4, <1>5, NothingTyped DEF LoadInv, LoadTypeOK, QuietUnlessReading, IndexFollows,
     InTable, Reading, ElfReads, PeReads
<1>. QED
  BY <1>2, <1>6 DEF IInv

LEMMA ThrowKeeps ==
    ASSUME IInv, Throw
    PROVE  IInv'
<1>1. FileInv'
  BY UiIsAThread, UnmapKeepsFile DEF IInv, Throw
<1>2. at'[Ui] = "idle"
  BY UiIsAThread DEF Throw, Unmap
<1>3. /\ load' = "failed"
      /\ wide' = FALSE /\ peHeader' = 0 /\ table' = 0 /\ entrySize' = 0 /\ count' = 0
      /\ names' = 0 /\ index' = 0 /\ pos' = 0 /\ text' = <<>> /\ opens' = opens
  BY DEF Throw, NoReader
<1>4. LoadInv'
  BY <1>2, <1>3, NothingTyped DEF IInv, LoadInv, LoadTypeOK, QuietUnlessReading, IndexFollows,
     InTable, Reading, ElfReads, PeReads
<1>. QED
  BY <1>1, <1>4 DEF IInv

\* What leaves the loader's own variables and the UI thread's state of reading alone.
LEMMA AsideKeepsLoad ==
    ASSUME LoadInv, UNCHANGED <<loadVars, opens>>, load \in Reading \/ at'[Ui] = at[Ui]
    PROVE  LoadInv'
BY DEF LoadInv, LoadTypeOK, QuietUnlessReading, IndexFollows, InTable, loadVars

LEMMA AskKeeps ==
    ASSUME IInv, Ask
    PROVE  IInv'
<1>1. FileInv'
  BY UiIsAThread, FieldTyped, BeginReadKeepsFile DEF IInv, LoadInv, Ask
<1>2. LoadInv'
  BY AsideKeepsLoad DEF IInv, Ask
<1>. QED
  BY <1>1, <1>2 DEF IInv

LEMMA WorkerKeeps ==
    ASSUME IInv, StartWorker \/ WorkerRead
    PROVE  IInv'
<1>1. CASE StartWorker
  <2>1. at' = at /\ UNCHANGED <<loadVars, opens>>
    BY <1>1 DEF StartWorker, readVars
  <2>. QED
    BY <1>1, <2>1, StartWorkerKeepsFile, AsideKeepsLoad DEF IInv
<1>2. CASE WorkerRead
  <2>1. PICK offset \in WorkerReads : BeginRead("worker", offset, 1)
    BY <1>2 DEF WorkerRead
  <2>2. FileInv'
    BY <2>1, UiIsAThread, Widths, BeginReadKeepsFile DEF IInv
  <2>3. at'[Ui] = at[Ui]
    BY <2>1, UiIsAThread DEF BeginRead, IInv, FileInv, FileTypeOK
  <2>. QED
    BY <1>2, <2>2, <2>3, AsideKeepsLoad DEF IInv, WorkerRead
<1>. QED
  BY <1>1, <1>2

LEMMA FileStepKeeps ==
    ASSUME IInv, NEW t \in Threads, FileStep(t)
    PROVE  IInv'
<1>1. FileInv'
  BY InReadKeepsFile DEF IInv, FileStep
<1>2. load \in Reading \/ at'[Ui] = at[Ui]
  <2>1. CASE t = Ui
    BY <2>1 DEF IInv, LoadInv, QuietUnlessReading, FileStep, InRead, Arm, Copy, Disarm,
       Sigbus, Jumped
  <2>2. CASE t # Ui
    BY <2>2, UiIsAThread DEF IInv, FileInv, FileTypeOK, FileStep, InRead, Arm, Copy, Disarm,
       Sigbus, Jumped
  <2>. QED
    BY <2>1, <2>2
<1>3. LoadInv'
  BY <1>2, AsideKeepsLoad DEF IInv, FileStep
<1>. QED
  BY <1>1, <1>3 DEF IInv

LEMMA GotKeeps ==
    ASSUME IInv,
           \/ GotElfMagic \/ GotMzMagic \/ GotLfanew \/ GotSignature
           \/ GotMachine \/ GotElfTable \/ GotElfCounts \/ GotNames
           \/ GotElfEntry \/ GotNameChar \/ GotNameEnd
           \/ GotPeHeader \/ GotPeMachine \/ GotPeCounts \/ GotPeImageBase \/ GotPeEntry
           \/ GotStart
    PROVE  IInv'
<1>1. \E label \in Reading : Got(label)
  BY DEF GotElfMagic, GotMzMagic, GotLfanew, GotSignature, GotMachine, GotElfTable,
     GotElfCounts, GotNames, GotElfEntry, GotNameChar, GotNameEnd, GotPeHeader, GotPeMachine,
     GotPeCounts, GotPeImageBase, GotPeEntry, GotStart, Reading, ElfReads, PeReads
<1>2. FileInv'
  BY <1>1, GotKeepsFile DEF IInv
<1>3. LoadInv'
  BY DetectKeepsLoad, ElfKeepsLoad, PeKeepsLoad
<1>. QED
  BY <1>2, <1>3 DEF IInv

LEMMA InitHolds == Init => IInv
<1>. SUFFICES ASSUME Init PROVE IInv
  OBVIOUS
<1>1. FileInv
  <2>1. [offset |-> 0, size |-> 1] \in Requests
    BY MappedAssumption DEF Requests
  <2>2. FileTypeOK
    BY <2>1 DEF Init, FileInit, FileTypeOK
  <2>. QED
    BY <2>2 DEF Init, FileInit, FileInv, ReadsInside, JumpMatchesRead,
       HandlerFirst, ReadersMapped, Unblocked, NeverKilled
<1>2. LoadInv
  BY UiIsAThread, NothingTyped DEF Init, FileInit, LoadInv, LoadTypeOK,
     QuietUnlessReading, IndexFollows, InTable, Reading, ElfReads, PeReads
<1>. QED
  BY <1>1, <1>2 DEF IInv

LEMMA StepKeeps == IInv /\ [Next]_vars => IInv'
<1>. SUFFICES ASSUME IInv, [Next]_vars PROVE IInv'
  OBVIOUS
<1>1. CASE Open
  BY <1>1, OpenKeeps
<1>2. CASE LoadStep
  BY <1>2, AskKeeps, ThrowKeeps, GotKeeps DEF LoadStep
<1>3. CASE StartWorker \/ WorkerRead
  BY <1>3, WorkerKeeps
<1>4. ASSUME NEW t \in Threads, FileStep(t) PROVE IInv'
  BY <1>4, FileStepKeeps
<1>5. CASE Rewrite /\ UNCHANGED <<loadVars, opens>>
  <2>1. at' = at
    BY <1>5 DEF Rewrite, readVars
  <2>. QED
    BY <1>5, <2>1, RewriteKeepsFile, AsideKeepsLoad DEF IInv
<1>6. CASE UNCHANGED vars
  <2>1. FileInv'
    BY <1>6 DEF IInv, vars, fileVars, readVars, FileInv, FileTypeOK, ReadsInside,
       JumpMatchesRead, HandlerFirst, ReadersMapped, Unblocked, NeverKilled
  <2>2. LoadInv'
    BY <1>6, AsideKeepsLoad DEF IInv, vars, fileVars, readVars
  <2>. QED
    BY <2>1, <2>2 DEF IInv
<1>. QED
  BY <1>1, <1>2, <1>3, <1>4, <1>5, <1>6 DEF Next

(***************************************************************************)
(* The theorems.                                                           *)
(***************************************************************************)

\* The invariant of loading under truncation: a thread in a read has a mapping, its own
\* jump target and the handler, and the loader is at an entry its header counted.
THEOREM LoaderInvariant == Spec => []IInv
BY InitHolds, StepKeeps, PTL DEF Spec

\* Type correctness of the mapping and the loader, for every header the file may hold: the
\* loader never goes past the number of entries it read (elf_sections.hpp:59-86).
THEOREM LoaderTypeCorrect == Spec => []TypeOK
<1>1. IInv => TypeOK
  BY TypeSplit DEF IInv, FileInv, LoadInv
<1>. QED
  BY <1>1, LoaderInvariant, PTL

\* No truncation kills the process, whatever is read when it comes and however many there
\* are (address_space.cpp:26-35, 92-97, 129-140).
THEOREM TruncationNeverKills == Spec => []NeverKilled
<1>1. IInv => NeverKilled
  BY DEF IInv, FileInv
<1>. QED
  BY <1>1, LoaderInvariant, PTL

\* No read leaves its mapping, whatever offsets the headers hold (address_space.cpp:126).
THEOREM ReadsStayInside == Spec => []ReadsInside
<1>1. IInv => ReadsInside
  BY DEF IInv, FileInv
<1>. QED
  BY <1>1, LoaderInvariant, PTL

\* A jump target is set exactly while its thread is inside the copy it belongs to, so a
\* fault never jumps into a frame that has returned (address_space.cpp:26, 129-141).
THEOREM JumpTargetsLive == Spec => []JumpMatchesRead
<1>1. IInv => JumpMatchesRead
  BY DEF IInv, FileInv
<1>. QED
  BY <1>1, LoaderInvariant, PTL

(***************************************************************************)
(* The sections the loader keeps.                                          *)
(***************************************************************************)

\* The UI thread reads, or has read, the field the loader is at, and has read it inside the
\* mapping.
AskInv ==
    /\ load \in Reading /\ (at[Ui] # "idle" \/ got[Ui] = "value") =>
           request[Ui].offset = Field.offset /\ request[Ui].size = Field.size
    /\ got[Ui] = "value" => request[Ui].offset + request[Ui].size <= fileSize[Ui]

\* Entry arithmetic has not wrapped up to the entry under way, and what was kept of the
\* entries before it is below it.
TableInv ==
    /\ index = 0 => text = <<>>
    /\ load = "peImageBase" => table < DWordSize
    /\ load \in InTable => table + entrySize * index < WordSize
    /\ load = "peEntry" => table + entrySize * index + 40 <= WordSize
    /\ load = "name" => EntryOffset + FieldsEnd[ElfLayout] <= fileSize[Ui]
    /\ EntriesInOrder
    /\ \A k \in 1 .. Len(text) : text[k].offset + entrySize <= table + entrySize * index

EntryInv == IInv /\ AskInv /\ TableInv

LEMMA FieldSame ==
    ASSUME UNCHANGED loadVars
    PROVE  Field' = Field /\ load' = load
BY DEF loadVars, Field, PeField, EntryOffset, ElfEntryBytes, At

LEMMA AskKeepsAsked ==
    ASSUME EntryInv, Ask
    PROVE  AskInv'
<1>1. Field' = Field /\ load' = load /\ load \in Reading /\ got[Ui] = "none"
  BY FieldSame DEF Ask
<1>2. CASE InBounds(Ui, Field.offset, Field.size)
  <2>1. /\ request' = [request EXCEPT ![Ui] = [offset |-> Field.offset, size |-> Field.size]]
        /\ got' = [got EXCEPT ![Ui] = "none"]
    BY <1>2 DEF Ask, BeginRead
  <2>2. /\ request'[Ui] = [offset |-> Field.offset, size |-> Field.size]
        /\ got'[Ui] = "none"
    BY <2>1, UiIsAThread DEF EntryInv, IInv, FileInv, FileTypeOK
  <2>. QED
    BY <1>1, <2>2 DEF AskInv
<1>3. CASE ~InBounds(Ui, Field.offset, Field.size)
  <2>1. got'[Ui] = "length" /\ at'[Ui] = "idle"
    BY <1>3, UiIsAThread DEF Ask, BeginRead, EntryInv, IInv, FileInv, FileTypeOK
  <2>. QED
    BY <2>1 DEF AskInv
<1>. QED
  BY <1>2, <1>3

LEMMA FileStepKeepsAsked ==
    ASSUME EntryInv, NEW t \in Threads, FileStep(t)
    PROVE  AskInv'
<1>1. Field' = Field /\ load' = load
  BY FieldSame DEF FileStep
<1>2. CASE t # Ui
  <2>1. at'[Ui] = at[Ui] /\ got'[Ui] = got[Ui] /\ request' = request /\ fileSize' = fileSize
    BY <1>2, UiIsAThread DEF EntryInv, IInv, FileInv, FileTypeOK, FileStep, InRead, Arm, Copy,
       Disarm, Sigbus, Jumped
  <2>. QED
    BY <1>1, <2>1 DEF EntryInv, AskInv
<1>3. CASE t = Ui
  <2>1. at[Ui] # "idle" /\ request' = request /\ fileSize' = fileSize
    BY <1>3 DEF FileStep, InRead, Arm, Copy, Disarm, Sigbus, Jumped
  <2>2. request[Ui].offset + request[Ui].size <= fileSize[Ui]
    BY <2>1, UiIsAThread DEF EntryInv, IInv, FileInv, ReadsInside
  <2>. QED
    BY <1>1, <2>1, <2>2 DEF EntryInv, AskInv
<1>. QED
  BY <1>2, <1>3

\* An answer is taken or dropped before the next question.
LEMMA NoAnswerIsAsked ==
    ASSUME at[Ui]' = "idle", got[Ui]' # "value"
    PROVE  AskInv'
BY DEF AskInv

LEMMA OthersKeepAsked ==
    ASSUME EntryInv, UNCHANGED loadVars,
           at[Ui]' = at[Ui], got[Ui]' = got[Ui], request[Ui]' = request[Ui],
           fileSize[Ui]' = fileSize[Ui]
    PROVE  AskInv'
BY FieldSame DEF EntryInv, AskInv

LEMMA WorkerLeavesUi ==
    ASSUME IInv, StartWorker \/ WorkerRead
    PROVE  /\ UNCHANGED loadVars
           /\ at[Ui]' = at[Ui] /\ got[Ui]' = got[Ui] /\ request[Ui]' = request[Ui]
           /\ fileSize[Ui]' = fileSize[Ui]
<1>1. CASE StartWorker
  BY <1>1, UiIsAThread DEF StartWorker, readVars, IInv, FileInv, FileTypeOK
<1>2. CASE WorkerRead
  <2>1. PICK offset \in WorkerReads : BeginRead("worker", offset, 1)
    BY <1>2 DEF WorkerRead
  <2>. QED
    BY <1>2, <2>1, UiIsAThread DEF BeginRead, IInv, FileInv, FileTypeOK, WorkerRead
<1>. QED
  BY <1>1, <1>2

LEMMA GotTakesAnswer ==
    ASSUME IInv, NEW label, Got(label)
    PROVE  /\ at[Ui]' = "idle" /\ got[Ui]' = "none" /\ fileSize' = fileSize
           /\ got[Ui] = "value" /\ load = label
BY AnsweredIsIdle, UiIsAThread DEF IInv, FileInv, FileTypeOK, Got

LEMMA AnsweredInside ==
    ASSUME EntryInv, NEW label \in Reading, Got(label)
    PROVE  Field.offset + Field.size <= fileSize[Ui]
BY DEF EntryInv, AskInv, Got

LEMMA NextEntryProduct ==
    ASSUME NEW a \in Nat, NEW b \in Nat
    PROVE  a * (b + 1) = a * b + a
OBVIOUS

\* An entry before it wraps is where it is counted to be.
LEMMA EntryOffsetIs ==
    ASSUME LoadTypeOK, table + entrySize * index < WordSize
    PROVE  EntryOffset = table + entrySize * index
<1>1. table + entrySize * index \in Nat /\ WordSize \in Nat \ {0}
  BY NumbersTyped, Widths
<1>2. \A a \in Nat : a < WordSize => (a % WordSize) = a
  BY <1>1
<1>. QED
  BY <1>1, <1>2 DEF EntryOffset

LEMMA EntryFacts ==
    ASSUME EntryInv
    PROVE  /\ fileSize[Ui] \in FileSizes \cup {0} /\ fileSize[Ui] \in Nat
           /\ fileSize[Ui] + entrySize + 40 <= WordSize
           /\ table \in Nat /\ entrySize \in Nat /\ index \in Nat /\ entrySize * index \in Nat
           /\ \A k \in 1 .. Len(text) : text[k] \in Entries /\ text[k].offset \in Nat
           /\ Len(text) \in Nat
<1>1. fileSize[Ui] \in FileSizes \cup {0}
  BY UiIsAThread DEF EntryInv, IInv, FileInv, FileTypeOK
<1>2. fileSize[Ui] \in Nat
  <2>1. \A s \in FileSizes : s \in Nat
    BY MappedAssumption
  <2>. QED
    BY <1>1, <2>1
<1>3. table \in Nat /\ entrySize \in Nat /\ index \in Nat
  BY NumbersTyped DEF EntryInv, IInv, LoadInv
<1>4. fileSize[Ui] + entrySize + 40 <= WordSize
  <2>1. entrySize \in EntrySizes \cup {0, 40}
    BY DEF EntryInv, IInv, LoadInv, LoadTypeOK
  <2>2. CASE fileSize[Ui] \in FileSizes
    BY <2>1, <2>2, LoaderAssumption
  <2>3. CASE fileSize[Ui] = 0
    <3>1. entrySize + 40 <= WordSize
      <4>1. \A s \in FileSizes : s \in Nat
        BY MappedAssumption
      <4>2. disk \in FileSizes
        BY DEF EntryInv, IInv, FileInv, FileTypeOK
      <4>3. disk + entrySize + 40 <= WordSize
        BY <2>1, <4>2, LoaderAssumption
      <4>. QED
        BY <1>3, <4>1, <4>2, <4>3, Widths
    <3>. QED
      BY <2>3, <3>1, <1>3, Widths
  <2>. QED
    BY <1>1, <2>2, <2>3
<1>5. text \in Seq(Entries) /\ WordSize \in Nat
  BY Widths DEF EntryInv, IInv, LoadInv, LoadTypeOK
<1>6. \A k \in 1 .. Len(text) : text[k] \in Entries /\ text[k].offset \in Nat
  <2>1. \A k \in 1 .. Len(text) : text[k] \in Entries
    BY <1>5
  <2>2. \A e \in Entries : e.offset \in Nat
    BY <1>5 DEF Entries
  <2>. QED
    BY <2>1, <2>2
<1>7. Len(text) \in Nat
  BY <1>5
<1>8. entrySize * index \in Nat
  BY <1>3
<1>. QED
  BY <1>1, <1>2, <1>3, <1>4, <1>5, <1>6, <1>7, <1>8

\* An entry whose fields lie in the file is kept or not, and the next one is next.
LEMMA KeepsEntry ==
    ASSUME EntryInv, NEW layout \in Layouts,
           table + entrySize * index + FieldsEnd[layout] <= fileSize[Ui],
           text' \in {text, Append(text, Entry(layout))}, index' = index + 1,
           table' = table, entrySize' = entrySize, fileSize' = fileSize
    PROVE  /\ EntriesInOrder'
           /\ \A k \in 1 .. Len(text') :
                  text'[k].offset + entrySize' <= table' + entrySize' * index'
           /\ table' + entrySize' * index' + 40 <= WordSize
<1>. DEFINE here == table + entrySize * index
<1>1. /\ fileSize[Ui] \in Nat /\ WordSize \in Nat /\ table \in Nat /\ entrySize \in Nat
      /\ index \in Nat /\ entrySize * index \in Nat /\ Len(text) \in Nat
      /\ fileSize[Ui] + entrySize + 40 <= WordSize
  BY EntryFacts, Widths
<1>. DEFINE needed == FieldsEnd[layout]
<1>2. needed \in Nat
  BY LayoutsTyped DEF needed
<1>. HIDE DEF needed
<1>3. here + needed <= fileSize[Ui]
  BY DEF needed
<1>4. /\ here \in Nat /\ here >= table /\ here + needed <= fileSize[Ui]
      /\ here + entrySize + 40 <= WordSize
  BY <1>1, <1>2, <1>3
<1>5. Entry(layout).offset = here /\ Entry(layout).layout = layout
  <2>1. here < WordSize
    BY <1>1, <1>4
  <2>. QED
    BY <2>1, EntryOffsetIs DEF EntryInv, IInv, LoadInv, Entry
<1>6. table' + entrySize' * index' = here + entrySize
  BY <1>1, NextEntryProduct
<1>7. \A k \in 1 .. Len(text) : text[k].offset \in Nat /\ text[k].offset <= here
  <2>1. \A k \in 1 .. Len(text) : text[k].offset \in Nat
    BY EntryFacts
  <2>2. \A k \in 1 .. Len(text) : text[k].offset + entrySize <= here
    BY DEF EntryInv, TableInv
  <2>3. here \in Nat /\ entrySize \in Nat
    BY <1>1, <1>4
  <2>. HIDE DEF here
  <2>. QED
    BY <2>1, <2>2, <2>3
<1>. HIDE DEF here
<1>8. \A a \in Nat : a <= here => a + entrySize <= here + entrySize
  BY <1>1, <1>4
<1>9. CASE text' = text
  <2>1. EntriesInOrder'
    BY <1>9 DEF EntryInv, TableInv, EntriesInOrder
  <2>2. \A k \in 1 .. Len(text) : text[k].offset + entrySize <= here + entrySize
    BY <1>7, <1>8
  <2>3. \A k \in 1 .. Len(text') :
            text'[k].offset + entrySize' <= table' + entrySize' * index'
    BY <1>6, <1>9, <2>2
  <2>. QED
    BY <1>1, <1>4, <1>6, <2>1, <2>3
<1>10. CASE text' = Append(text, Entry(layout))
  <2>1. /\ Len(text') = Len(text) + 1
        /\ text'[Len(text) + 1] = Entry(layout)
        /\ \A k \in 1 .. Len(text) : text'[k] = text[k]
    BY <1>10 DEF EntryInv, IInv, LoadInv, LoadTypeOK
  <2>2. ASSUME NEW k \in 1 .. Len(text')
        PROVE  /\ text'[k].offset \in Nat /\ text'[k].offset <= here
               /\ text'[k].offset >= table
               /\ text'[k].offset + FieldsEnd[text'[k].layout] <= fileSize[Ui]
    <3>1. CASE k = Len(text) + 1
      BY <1>1, <1>4, <1>5, <2>1, <3>1 DEF needed
    <3>2. CASE k # Len(text) + 1
      <4>1. k \in 1 .. Len(text)
        BY <1>1, <2>1, <3>2
      <4>. QED
        BY <1>7, <2>1, <4>1 DEF EntryInv, TableInv, EntriesInOrder
    <3>. QED
      BY <3>1, <3>2
  <2>3. ASSUME NEW k \in 1 .. Len(text'), NEW l \in 1 .. k
        PROVE  text'[l].offset <= text'[k].offset
    <3>1. CASE k = Len(text) + 1
      <4>1. l \in 1 .. Len(text')
        BY <1>1, <2>1
      <4>. QED
        BY <1>5, <2>1, <2>2, <3>1, <4>1
    <3>2. CASE k # Len(text) + 1
      <4>1. k \in 1 .. Len(text) /\ l \in 1 .. Len(text)
        BY <1>1, <2>1, <3>2
      <4>. QED
        BY <2>1, <4>1 DEF EntryInv, TableInv, EntriesInOrder
    <3>. QED
      BY <3>1, <3>2
  <2>4. EntriesInOrder'
    BY <2>2, <2>3 DEF EntriesInOrder
  <2>5. \A k \in 1 .. Len(text') : text'[k].offset + entrySize <= here + entrySize
    <3>1. \A k \in 1 .. Len(text') : text'[k].offset \in Nat /\ text'[k].offset <= here
      BY <2>2
    <3>. QED
      BY <1>8, <3>1
  <2>6. \A k \in 1 .. Len(text') :
            text'[k].offset + entrySize' <= table' + entrySize' * index'
    BY <1>6, <2>5
  <2>. QED
    BY <1>1, <1>4, <1>6, <2>4, <2>6
<1>. QED
  BY <1>9, <1>10

LEMMA SameTable ==
    ASSUME EntryInv, UNCHANGED <<table, entrySize, index, text>>, fileSize[Ui]' = fileSize[Ui],
           (load' = load /\ wide' = wide) \/ load' \notin InTable \cup {"peImageBase"}
    PROVE  TableInv'
BY DEF EntryInv, TableInv, EntriesInOrder, EntryOffset, ElfLayout, InTable

LEMMA EmptyTable ==
    ASSUME text' = <<>>, load' \notin InTable \cup {"peImageBase"}
    PROVE  TableInv'
BY DEF TableInv, EntriesInOrder, InTable

\* No entry has been read yet where the table's place and shape are.
LEMMA NoEntryYet ==
    ASSUME EntryInv, load \in Reading \ (InTable \cup {"elfStart", "peStart"})
    PROVE  index = 0 /\ text = <<>>
BY DEF EntryInv, IInv, LoadInv, IndexFollows, TableInv

LEMMA DetectKeepsTable ==
    ASSUME EntryInv,
           \/ GotElfMagic \/ GotMzMagic \/ GotLfanew \/ GotSignature \/ GotMachine
           \/ GotPeHeader \/ GotPeMachine \/ GotStart \/ GotNameChar
    PROVE  TableInv'
<1>. USE DEF InTable
<1>1. fileSize' = fileSize /\ UNCHANGED <<table, entrySize, index, text>>
  BY DEF GotElfMagic, GotMzMagic, GotLfanew, GotSignature, GotMachine, GotPeHeader,
     GotPeMachine, GotStart, GotNameChar, Got
<1>2. (load' = load /\ wide' = wide) \/ load' \notin InTable \cup {"peImageBase"}
  BY DEF GotElfMagic, GotMzMagic, GotLfanew, GotSignature, GotMachine, GotPeHeader,
     GotPeMachine, GotStart, GotNameChar, Got
<1>. QED
  BY <1>1, <1>2, SameTable

LEMMA HeaderKeepsTable ==
    ASSUME EntryInv, GotElfTable \/ GotElfCounts \/ GotPeCounts
    PROVE  TableInv'
<1>1. index = 0 /\ text = <<>>
  BY NoEntryYet DEF GotElfTable, GotElfCounts, GotPeCounts, Got, Reading, ElfReads, PeReads,
     InTable
<1>2. CASE GotElfTable \/ GotElfCounts
  BY <1>1, <1>2, EmptyTable DEF GotElfTable, GotElfCounts, InTable
<1>3. CASE GotPeCounts
  <2>1. text' = <<>> /\ index' = 0 /\ load' = "peImageBase"
    BY <1>1, <1>3 DEF GotPeCounts
  <2>2. table' < DWordSize
    <3>1. PICK size \in EntrySizes : table' = PeField(24 + size)
      BY <1>3 DEF GotPeCounts
    <3>2. 24 + size \in Nat
      BY Widths
    <3>3. PeField(24 + size) \in 0 .. DWordSize - 1
      BY <3>2, NumbersTyped DEF EntryInv, IInv, LoadInv
    <3>4. DWordSize \in Nat
      BY Widths
    <3>. QED
      BY <3>1, <3>3, <3>4
  <2>. QED
    BY <2>1, <2>2 DEF TableInv, EntriesInOrder, InTable
<1>. QED
  BY <1>2, <1>3

LEMMA FirstEntryKeepsTable ==
    ASSUME EntryInv, GotNames \/ GotPeImageBase
    PROVE  TableInv'
<1>1. index = 0 /\ text = <<>>
  BY NoEntryYet DEF GotNames, GotPeImageBase, Got, Reading, ElfReads, PeReads, InTable
<1>2. text' = <<>> /\ index' = 0 /\ table' = table /\ entrySize' = entrySize
  BY <1>1 DEF GotNames, GotPeImageBase
<1>3. table \in 0 .. WordSize - 1 /\ table \in Nat /\ entrySize \in Nat /\ WordSize \in Nat
  BY NumbersTyped, Widths DEF EntryInv, IInv, LoadInv, LoadTypeOK
<1>4. table' + entrySize' * index' = table
  BY <1>2, <1>3
<1>5. CASE GotNames
  BY <1>2, <1>3, <1>4, <1>5 DEF GotNames, NextElfEntry, TableInv, EntriesInOrder, InTable
<1>6. CASE GotPeImageBase
  <2>1. table + 40 <= WordSize
    <3>1. table < DWordSize
      BY <1>6 DEF EntryInv, TableInv, GotPeImageBase, Got
    <3>2. DWordSize + 40 <= WordSize /\ DWordSize \in Nat
      BY LoaderAssumption
    <3>. QED
      BY <1>3, <3>1, <3>2
  <2>. QED
    BY <1>2, <1>3, <1>4, <1>6, <2>1 DEF GotPeImageBase, NextPeEntry, TableInv, EntriesInOrder,
       InTable
<1>. QED
  BY <1>5, <1>6

LEMMA EntryKeepsTable ==
    ASSUME EntryInv, GotElfEntry \/ GotNameEnd \/ GotPeEntry
    PROVE  TableInv'
<1>. DEFINE here == table + entrySize * index
<1>0. /\ fileSize[Ui] \in Nat /\ WordSize \in Nat /\ table \in Nat /\ entrySize \in Nat
      /\ index \in Nat /\ here \in Nat
  <2>1. table \in Nat /\ entrySize * index \in Nat
    BY EntryFacts
  <2>2. here \in Nat
    BY <2>1
  <2>. QED
    BY <2>2, EntryFacts, Widths
<1>1. here < WordSize
  BY DEF GotElfEntry, GotNameEnd, GotPeEntry, Got, EntryInv, TableInv, InTable
<1>2. EntryOffset = here
  BY <1>1, EntryOffsetIs DEF EntryInv, IInv, LoadInv
<1>3. fileSize' = fileSize /\ table' = table /\ entrySize' = entrySize
  BY DEF GotElfEntry, GotNameEnd, GotPeEntry, Got
<1>. HIDE DEF here
<1>4. CASE GotElfEntry
  <2>1. Field = At(EntryOffset, ElfEntryBytes)
    BY <1>4 DEF GotElfEntry, Got, Field
  <2>2. Field.offset + Field.size <= fileSize[Ui]
    BY <1>4, AnsweredInside DEF GotElfEntry, Reading, ElfReads
  <2>3. Field.offset = here
    <3>1. (here % WordSize) = here
      BY <1>0, <1>1
    <3>. QED
      BY <1>2, <2>1, <3>1 DEF At
  <2>4. Field.size = FieldsEnd[ElfLayout]
    BY <2>1, LayoutsTyped DEF At
  <2>5. here + FieldsEnd[ElfLayout] <= fileSize[Ui]
    BY <2>2, <2>3, <2>4
  <2>6. load' = "name" /\ UNCHANGED <<wide, table, entrySize, index, text>>
    BY <1>4 DEF GotElfEntry
  <2>7. EntryOffset' = EntryOffset /\ ElfLayout' = ElfLayout
    BY <2>6 DEF EntryOffset, ElfLayout
  <2>. QED
    BY <1>1, <1>2, <1>3, <2>5, <2>6, <2>7 DEF EntryInv, TableInv, EntriesInOrder, InTable, here
<1>5. CASE GotNameEnd
  <2>1. here + FieldsEnd[ElfLayout] <= fileSize[Ui]
    BY <1>2, <1>5 DEF GotNameEnd, Got, EntryInv, TableInv
  <2>2. index' = index + 1 /\ text' \in {text, Append(text, Entry(ElfLayout))}
        /\ load' = NextElfEntry(index')
    BY <1>5 DEF GotNameEnd
  <2>3. /\ EntriesInOrder'
        /\ \A k \in 1 .. Len(text') :
               text'[k].offset + entrySize' <= table' + entrySize' * index'
        /\ table' + entrySize' * index' + 40 <= WordSize
    BY <1>3, <2>1, <2>2, LayoutsTyped, KeepsEntry DEF here
  <2>4. table' + entrySize' * index' \in Nat
    BY <1>0, <1>3, <2>2
  <2>5. table' + entrySize' * index' < WordSize /\ index' # 0
    BY <1>0, <2>2, <2>3, <2>4
  <2>. QED
    BY <2>2, <2>3, <2>5 DEF TableInv, NextElfEntry
<1>6. CASE GotPeEntry
  <2>1. Field = At(EntryOffset + 12, 28)
    BY <1>6 DEF GotPeEntry, Got, Field
  <2>2. Field.offset + Field.size <= fileSize[Ui]
    BY <1>6, AnsweredInside DEF GotPeEntry, Reading, PeReads
  <2>3. here + 40 <= WordSize
    BY <1>6 DEF GotPeEntry, Got, EntryInv, TableInv, here
  <2>4. Field.offset = here + 12 /\ Field.size = 28
    <3>1. here + 12 \in Nat /\ here + 12 < WordSize
      BY <1>0, <2>3
    <3>2. ((here + 12) % WordSize) = here + 12
      BY <1>0, <3>1
    <3>. QED
      BY <1>2, <2>1, <3>2 DEF At
  <2>5. here + FieldsEnd["pe"] <= fileSize[Ui]
    BY <1>0, <2>2, <2>4, LayoutsTyped
  <2>6. index' = index + 1 /\ text' \in {text, Append(text, Entry("pe"))}
        /\ load' = NextPeEntry(index')
    BY <1>6 DEF GotPeEntry
  <2>7. /\ EntriesInOrder'
        /\ \A k \in 1 .. Len(text') :
               text'[k].offset + entrySize' <= table' + entrySize' * index'
        /\ table' + entrySize' * index' + 40 <= WordSize
    BY <1>3, <2>5, <2>6, LayoutsTyped, KeepsEntry DEF here
  <2>8. table' + entrySize' * index' \in Nat
    BY <1>0, <1>3, <2>6
  <2>9. table' + entrySize' * index' < WordSize /\ index' # 0
    BY <1>0, <2>6, <2>7, <2>8
  <2>. QED
    BY <2>6, <2>7, <2>9 DEF TableInv, NextPeEntry
<1>. QED
  BY <1>4, <1>5, <1>6

LEMMA EntryInit == Init => EntryInv
<1>. SUFFICES ASSUME Init PROVE EntryInv
  OBVIOUS
<1>1. IInv
  BY InitHolds
<1>2. AskInv
  BY UiIsAThread DEF Init, FileInit, AskInv, Reading, ElfReads, PeReads
<1>3. TableInv
  BY DEF Init, TableInv, EntriesInOrder, InTable
<1>. QED
  BY <1>1, <1>2, <1>3 DEF EntryInv

LEMMA EntryStep == EntryInv /\ [Next]_vars => EntryInv'
<1>. SUFFICES ASSUME EntryInv, [Next]_vars PROVE AskInv' /\ TableInv'
  BY StepKeeps DEF EntryInv
<1>1. CASE Open
  <2>1. at[Ui]' = "idle" /\ got[Ui]' # "value"
    <3>1. at[Ui] = "idle"
      BY <1>1 DEF EntryInv, IInv, LoadInv, QuietUnlessReading, Open, Reading, ElfReads, PeReads
    <3>2. at' = at /\ (got' = [got EXCEPT ![Ui] = "none"] \/ got' = [got EXCEPT ![Ui] = "length"])
      BY <1>1 DEF Open, Map, CannotMap
    <3>. QED
      BY <3>1, <3>2, UiIsAThread DEF EntryInv, IInv, FileInv, FileTypeOK
  <2>2. text' = <<>> /\ load' \notin InTable \cup {"peImageBase"}
    BY <1>1 DEF Open, NoReader, InTable
  <2>. QED
    BY <2>1, <2>2, NoAnswerIsAsked, EmptyTable
<1>2. CASE Throw
  <2>1. at[Ui]' = "idle" /\ got[Ui]' # "value"
    BY <1>2, UiIsAThread DEF Throw, Unmap, EntryInv, IInv, FileInv, FileTypeOK
  <2>2. text' = <<>> /\ load' \notin InTable \cup {"peImageBase"}
    BY <1>2 DEF Throw, NoReader, InTable
  <2>. QED
    BY <2>1, <2>2, NoAnswerIsAsked, EmptyTable
<1>3. CASE Ask
  <2>1. UNCHANGED <<table, entrySize, index, text, load, wide, fileSize>>
    BY <1>3 DEF Ask, BeginRead, loadVars
  <2>. QED
    BY <1>3, <2>1, AskKeepsAsked, SameTable
<1>4. CASE \/ GotElfMagic \/ GotMzMagic \/ GotLfanew \/ GotSignature
           \/ GotMachine \/ GotElfTable \/ GotElfCounts \/ GotNames
           \/ GotElfEntry \/ GotNameChar \/ GotNameEnd
           \/ GotPeHeader \/ GotPeMachine \/ GotPeCounts \/ GotPeImageBase \/ GotPeEntry
           \/ GotStart
  <2>1. \E label \in Reading : Got(label)
    BY <1>4 DEF GotElfMagic, GotMzMagic, GotLfanew, GotSignature, GotMachine, GotElfTable,
       GotElfCounts, GotNames, GotElfEntry, GotNameChar, GotNameEnd, GotPeHeader, GotPeMachine,
       GotPeCounts, GotPeImageBase, GotPeEntry, GotStart, Reading, ElfReads, PeReads
  <2>2. AskInv'
    BY <2>1, GotTakesAnswer, NoAnswerIsAsked DEF EntryInv
  <2>3. TableInv'
    BY <1>4, DetectKeepsTable, HeaderKeepsTable, FirstEntryKeepsTable, EntryKeepsTable
  <2>. QED
    BY <2>2, <2>3
<1>5. CASE StartWorker \/ WorkerRead
  <2>1. /\ UNCHANGED loadVars
        /\ at[Ui]' = at[Ui] /\ got[Ui]' = got[Ui] /\ request[Ui]' = request[Ui]
        /\ fileSize[Ui]' = fileSize[Ui]
    BY <1>5, WorkerLeavesUi DEF EntryInv
  <2>2. UNCHANGED <<table, entrySize, index, text, load, wide>>
    BY <2>1 DEF loadVars
  <2>. QED
    BY <2>1, <2>2, OthersKeepAsked, SameTable
<1>6. ASSUME NEW t \in Threads, FileStep(t) PROVE AskInv' /\ TableInv'
  <2>1. UNCHANGED <<table, entrySize, index, text, load, wide, fileSize>>
    BY <1>6 DEF FileStep, InRead, Arm, Copy, Disarm, Sigbus, Jumped, loadVars
  <2>. QED
    BY <1>6, <2>1, FileStepKeepsAsked, SameTable
<1>7. CASE (Rewrite /\ UNCHANGED <<loadVars, opens>>) \/ UNCHANGED vars
  <2>1. /\ UNCHANGED loadVars /\ fileSize' = fileSize
        /\ at' = at /\ got' = got /\ request' = request
    BY <1>7 DEF Rewrite, readVars, vars, fileVars
  <2>2. UNCHANGED <<table, entrySize, index, text, load, wide>>
    BY <2>1 DEF loadVars
  <2>. QED
    BY <2>1, <2>2, OthersKeepAsked, SameTable
<1>. QED
  BY <1>1, <1>2, <1>3, <1>4, <1>5, <1>6, <1>7 DEF Next, LoadStep

\* Every code section kept comes from a table entry of which every field the reader uses lies
\* inside the file: the first 24 bytes of a 32-bit ELF entry, 40 of a 64-bit or a PE one.  The
\* entries are in the order of the table, for every table offset, entry size and count
\* (elf_sections.hpp:59-86, 118-152; pe_sections.hpp:48-98).
THEOREM SectionsComeFromTheFile == Spec => []EntriesInOrder
<1>1. Spec => []EntryInv
  BY EntryInit, EntryStep, PTL DEF Spec
<1>2. EntryInv => EntriesInOrder
  BY DEF EntryInv, TableInv
<1>. QED
  BY <1>1, <1>2, PTL

(***************************************************************************)
(* Why loading comes to an end: the reads still to come are counted, and   *)
(* each step of the loading thread lowers the count.  Entries are bounded  *)
(* by the header's number of them, a name by the end of the file.          *)
(***************************************************************************)

\* The header's fields, by the reads that may follow before the first entry.
HeaderRank ==
    [elfMagic |-> 10, mzMagic |-> 9, lfanew |-> 8, signature |-> 7, peHeader |-> 6,
     peMachine |-> 5, peCounts |-> 4, peImageBase |-> 3,
     machine |-> 6, elfTable |-> 5, elfCounts |-> 4, names |-> 3]

Header == {"elfMagic", "mzMagic", "lfanew", "signature", "peHeader", "peMachine", "peCounts",
           "peImageBase", "machine", "elfTable", "elfCounts", "names"}

\* The entry itself, the characters of its name up to the end of any file, and one.
EntryReads == WordSize + 2

\* The characters left in the file, and the read that fails.
NameLeft == IF pos < fileSize[Ui] THEN fileSize[Ui] - pos + 1 ELSE 1

ReadsLeft ==
    CASE load \in Header                  -> DWordSize * EntryReads + HeaderRank[load]
      [] load \in {"elfEntry", "peEntry"} -> (count - index) * EntryReads + 1
      [] load = "name"                    -> (count - index - 1) * EntryReads + 1 + NameLeft
      [] OTHER                            -> 1

\* Of a read: asking, and the steps of readType().
ReadRank ==
    CASE at[Ui] = "arm"                -> 3
      [] at[Ui] = "copy"               -> 2
      [] at[Ui] \in {"disarm", "jumped"} -> 1
      [] OTHER                         -> IF got[Ui] = "none" THEN 4 ELSE 0

\* At most as many steps are left to the load.
LoadLeft ==
    CASE load \in Reading  -> 5 * ReadsLeft + ReadRank
      [] load = "thrown"   -> 1
      [] OTHER             -> 0

\* A step of the loading thread costs at least one; only Open gives it any.
LoaderPays ==
    /\ LoadLeft \in Nat
    /\ LoadLeft = 0 <=> load \in {"closed", "loaded", "failed"}
    /\ LoadStep \/ FileStep(Ui) => LoadLeft' < LoadLeft
    /\ ~(LoadStep \/ FileStep(Ui) \/ Open) => LoadLeft' = LoadLeft

LEMMA EntryTimes ==
    /\ EntryReads \in Nat /\ EntryReads >= 3
    /\ \A n \in Nat : n * EntryReads \in Nat /\ (n + 1) * EntryReads = n * EntryReads + EntryReads
<1>1. EntryReads \in Nat /\ EntryReads >= 3
  BY Widths DEF EntryReads
<1>2. ASSUME NEW b \in Nat, NEW n \in Nat
      PROVE  n * b \in Nat /\ (n + 1) * b = n * b + b
  OBVIOUS
<1>. QED
  BY <1>1, <1>2

LEMMA TimesGrows ==
    ASSUME NEW m \in Nat, NEW n \in Nat, m <= n
    PROVE  m * EntryReads <= n * EntryReads
<1>1. ASSUME NEW b \in Nat
      PROVE  m * b <= n * b
  <2>1. (n - m) * b \in Nat /\ n * b = m * b + (n - m) * b
    OBVIOUS
  <2>2. m * b \in Nat
    OBVIOUS
  <2>. QED
    BY <2>1, <2>2
<1>. QED
  BY <1>1, EntryTimes

LEMMA RanksAre ==
    /\ HeaderRank.elfMagic = 10 /\ HeaderRank.mzMagic = 9 /\ HeaderRank.lfanew = 8
    /\ HeaderRank.signature = 7 /\ HeaderRank.peHeader = 6 /\ HeaderRank.peMachine = 5
    /\ HeaderRank.peCounts = 4 /\ HeaderRank.peImageBase = 3
    /\ HeaderRank.machine = 6 /\ HeaderRank.elfTable = 5 /\ HeaderRank.elfCounts = 4
    /\ HeaderRank.names = 3
    /\ \A label \in Header : HeaderRank[label] \in 3 .. 10
BY DEF HeaderRank, Header

LEMMA ReadingIs == Reading = Header \cup {"elfEntry", "peEntry", "name", "elfStart", "peStart"}
BY DEF Reading, ElfReads, PeReads, Header

\* The sizes that are counted with.
LEMMA CountFacts ==
    ASSUME EntryInv
    PROVE  /\ count \in Nat /\ index \in Nat /\ count < DWordSize /\ DWordSize \in Nat
           /\ load \in InTable => index < count
           /\ pos \in Nat /\ fileSize[Ui] \in Nat /\ fileSize[Ui] < WordSize
           /\ NameLeft \in 1 .. WordSize
<1>1. count \in Nat /\ index \in Nat /\ pos \in Nat
  BY NumbersTyped DEF EntryInv, IInv, LoadInv
<1>2. count < DWordSize /\ DWordSize \in Nat
  <2>1. count \in Counts \cup {0}
    BY DEF EntryInv, IInv, LoadInv, LoadTypeOK
  <2>2. \A c \in Counts : c \in 0 .. DWordSize - 1
    BY LoaderAssumption
  <2>. QED
    BY <2>1, <2>2, Widths
<1>3. load \in InTable => index < count
  BY DEF EntryInv, IInv, LoadInv, IndexFollows
<1>4. fileSize[Ui] \in Nat /\ fileSize[Ui] < WordSize
  BY EntryFacts, Widths
<1>5. NameLeft \in 1 .. WordSize
  BY <1>1, <1>4, Widths DEF NameLeft
<1>. QED
  BY <1>1, <1>2, <1>3, <1>4, <1>5

\* Reads left, field by field.
LEMMA ReadsLeftIs ==
    /\ load \in Header => ReadsLeft = DWordSize * EntryReads + HeaderRank[load]
    /\ load \in {"elfEntry", "peEntry"} => ReadsLeft = (count - index) * EntryReads + 1
    /\ load = "name" => ReadsLeft = (count - index - 1) * EntryReads + 1 + NameLeft
    /\ load \in {"elfStart", "peStart"} => ReadsLeft = 1
BY DEF ReadsLeft, Header

LEMMA ReadsAreCounted ==
    ASSUME EntryInv, load \in Reading
    PROVE  ReadsLeft \in Nat \ {0}
<1>1. CASE load \in Header
  <2>1. DWordSize * EntryReads \in Nat /\ HeaderRank[load] \in 3 .. 10
    BY <1>1, EntryTimes, RanksAre, CountFacts
  <2>. QED
    BY <1>1, <2>1, ReadsLeftIs
<1>2. CASE load \in {"elfEntry", "peEntry"}
  <2>1. count - index \in Nat
    BY <1>2, CountFacts DEF InTable
  <2>2. (count - index) * EntryReads \in Nat
    BY <2>1, EntryTimes
  <2>. QED
    BY <1>2, <2>2, ReadsLeftIs
<1>3. CASE load = "name"
  <2>1. count - index - 1 \in Nat /\ NameLeft \in Nat
    BY <1>3, CountFacts DEF InTable
  <2>2. (count - index - 1) * EntryReads \in Nat
    BY <2>1, EntryTimes
  <2>. QED
    BY <1>3, <2>1, <2>2, ReadsLeftIs
<1>4. CASE load \in {"elfStart", "peStart"}
  BY <1>4, ReadsLeftIs
<1>. QED
  BY <1>1, <1>2, <1>3, <1>4, ReadingIs
\* A read of the header brings the next field of the header, or its first entry, nearer.
LEMMA HeaderPays ==
    ASSUME EntryInv, load \in Header, load' \in Header, HeaderRank[load'] < HeaderRank[load]
    PROVE  ReadsLeft' \in Nat /\ ReadsLeft' < ReadsLeft
<1>1. ReadsLeft = DWordSize * EntryReads + HeaderRank[load]
  BY ReadsLeftIs
<1>2. ReadsLeft' = DWordSize * EntryReads + HeaderRank[load']
  BY DEF ReadsLeft, Header, HeaderRank, EntryReads
<1>3. PICK m \in Nat, a \in Nat, b \in Nat :
          m = DWordSize * EntryReads /\ a = HeaderRank[load] /\ b = HeaderRank[load']
  BY EntryTimes, RanksAre, CountFacts
<1>4. ReadsLeft = m + a /\ ReadsLeft' = m + b /\ b < a
  BY <1>1, <1>2, <1>3
<1>. QED
  BY <1>3, <1>4

LEMMA DetectPays ==
    ASSUME EntryInv,
           \/ GotElfMagic \/ GotMzMagic \/ GotLfanew \/ GotSignature
           \/ GotMachine \/ GotElfTable \/ GotPeHeader \/ GotPeMachine \/ GotPeCounts
    PROVE  load \in Header /\ (load' = "thrown"
           \/ (load' \in Header /\ ReadsLeft' \in Nat /\ ReadsLeft' < ReadsLeft))
<1>1. load \in Header
      /\ (load' = "thrown" \/ (load' \in Header /\ HeaderRank[load'] < HeaderRank[load]))
  <2>1. CASE GotElfMagic \/ GotMzMagic \/ GotLfanew \/ GotSignature
    <3>1. \/ load' = "thrown" /\ load \in Header
          \/ load = "elfMagic" /\ load' \in {"machine", "mzMagic"}
          \/ load = "mzMagic" /\ load' = "lfanew"
          \/ load = "lfanew" /\ load' = "signature"
          \/ load = "signature" /\ load' = "peHeader"
      BY <2>1 DEF GotElfMagic, GotMzMagic, GotLfanew, GotSignature, Got, Header
    <3>. QED
      BY <3>1, RanksAre DEF Header
  <2>2. CASE GotMachine \/ GotElfTable \/ GotPeHeader \/ GotPeMachine \/ GotPeCounts
    <3>1. \/ load' = "thrown" /\ load \in Header
          \/ load = "machine" /\ load' = "elfTable"
          \/ load = "elfTable" /\ load' = "elfCounts"
          \/ load = "peHeader" /\ load' = "peMachine"
          \/ load = "peMachine" /\ load' = "peCounts"
          \/ load = "peCounts" /\ load' = "peImageBase"
      BY <2>2 DEF GotMachine, GotElfTable, GotPeHeader, GotPeMachine, GotPeCounts, Got, Header
    <3>. QED
      BY <3>1, RanksAre DEF Header
  <2>. QED
    BY <2>1, <2>2
<1>. QED
  BY <1>1, HeaderPays

\* The last read of the header: every entry it counted was provided for.
LEMMA FirstEntryPays ==
    ASSUME EntryInv, GotElfCounts \/ GotNames \/ GotPeImageBase
    PROVE  load \in Header /\ load' \in Reading /\ ReadsLeft' \in Nat /\ ReadsLeft' < ReadsLeft
<1>1. load \in {"elfCounts", "names", "peImageBase"} /\ load \in Header
  BY DEF GotElfCounts, GotNames, GotPeImageBase, Got, Header
<1>2. PICK m \in Nat, a \in 3 .. 10 :
          m = DWordSize * EntryReads /\ a = HeaderRank[load] /\ ReadsLeft = m + a
  BY <1>1, EntryTimes, RanksAre, CountFacts, ReadsLeftIs
<1>3. index = 0
  BY <1>1 DEF EntryInv, IInv, LoadInv, IndexFollows, Reading, ElfReads, PeReads, InTable
<1>4. CASE GotElfCounts /\ load' = "names"
  <2>1. HeaderRank[load'] < HeaderRank[load]
    BY <1>4, RanksAre DEF GotElfCounts, Got
  <2>. QED
    BY <1>1, <1>4, <2>1, HeaderPays DEF Header, Reading, ElfReads
<1>5. CASE load' \in {"elfStart", "peStart"}
  <2>1. ReadsLeft' = 1
    BY <1>5 DEF ReadsLeft, Header
  <2>. QED
    BY <1>1, <1>2, <1>5, <2>1 DEF Reading, ElfReads, PeReads
<1>6. CASE (GotNames \/ GotPeImageBase) /\ load' \in {"elfEntry", "peEntry"}
  <2>1. count' = count /\ index' = 0
    BY <1>3, <1>6 DEF GotNames, GotPeImageBase
  <2>2. ReadsLeft' = (count' - index') * EntryReads' + 1 /\ EntryReads' = EntryReads
    BY <1>6 DEF ReadsLeft, Header, EntryReads
  <2>3. count \in Nat /\ DWordSize \in Nat /\ count <= DWordSize
    BY CountFacts
  <2>4. count * EntryReads <= m /\ count * EntryReads \in Nat
    BY <1>2, <2>3, TimesGrows, EntryTimes
  <2>5. ReadsLeft' = count * EntryReads + 1
    <3>1. count' - index' = count
      BY <2>1, <2>3
    <3>. QED
      BY <2>2, <3>1
  <2>6. load' \in Reading
    BY <1>6 DEF Reading, ElfReads, PeReads
  <2>. QED
    BY <1>1, <1>2, <2>4, <2>5, <2>6
<1>7. \/ GotElfCounts /\ load' = "names"
      \/ load' \in {"elfStart", "peStart"}
      \/ (GotNames \/ GotPeImageBase) /\ load' \in {"elfEntry", "peEntry"}
  BY DEF GotElfCounts, GotNames, GotPeImageBase, NextElfEntry, NextPeEntry
<1>. QED
  BY <1>4, <1>5, <1>6, <1>7

\* An entry's reads stay below what was provided for it.
LEMMA EntryPays ==
    ASSUME EntryInv, GotElfEntry \/ GotNameChar \/ GotNameEnd \/ GotPeEntry
    PROVE  load \in Reading /\ load' \in Reading /\ ReadsLeft' \in Nat /\ ReadsLeft' < ReadsLeft
<1>1. /\ load \in InTable /\ load \in Reading /\ count' = count
      /\ fileSize' = fileSize /\ EntryReads' = EntryReads
  BY DEF GotElfEntry, GotNameChar, GotNameEnd, GotPeEntry, Got, InTable, Reading, ElfReads,
     PeReads, EntryReads
<1>2. PICK n \in Nat : n + 1 = count - index
  <2>1. index < count /\ index \in Nat /\ count \in Nat
    BY <1>1, CountFacts
  <2>2. (count - index) - 1 \in Nat /\ ((count - index) - 1) + 1 = count - index
    BY <2>1
  <2>. QED
    BY <2>2
<1>3. /\ count - index - 1 = n /\ count - (index + 1) = n
      /\ count \in Nat /\ index \in Nat /\ index < count
  BY <1>1, <1>2, CountFacts
<1>4. PICK e \in Nat, a \in Nat :
          e = EntryReads /\ a = n * e /\ (n + 1) * e = a + e /\ e = WordSize + 2
  BY <1>2, EntryTimes DEF EntryReads
<1>5. NameLeft \in 1 .. WordSize /\ WordSize \in Nat
  BY CountFacts, Widths
<1>e. e \in Nat /\ a \in Nat /\ e = WordSize + 2 /\ e >= 2
  BY <1>4, <1>5
<1>6. load' = "name" /\ index' = index => ReadsLeft' = a + 1 + NameLeft'
  BY <1>1, <1>3, <1>4 DEF ReadsLeft, Header
<1>7. CASE GotElfEntry
  <2>1. load = "elfEntry" /\ load' = "name" /\ index' = index
    BY <1>7 DEF GotElfEntry, Got
  <2>2. ReadsLeft = a + e + 1
    BY <1>2, <1>4, <2>1, ReadsLeftIs
  <2>3. NameLeft' \in 1 .. WordSize
    <3>1. \A p \in Nat, f \in Nat :
              f < WordSize => (IF p < f THEN f - p + 1 ELSE 1) \in 1 .. WordSize
      BY Widths
    <3>2. pos' \in Nat
      <4>1. PICK nameOffset \in NameOffsets : pos' = (names + nameOffset) % WordSize
        BY <1>7 DEF GotElfEntry
      <4>2. names + nameOffset \in Int
        BY Widths, NumbersTyped DEF EntryInv, IInv, LoadInv
      <4>3. (names + nameOffset) % WordSize \in 0 .. WordSize - 1
        BY <4>2, ModRange, Widths
      <4>4. \A x \in 0 .. WordSize - 1 : x \in Nat
        BY Widths
      <4>. QED
        BY <4>1, <4>3, <4>4
    <3>. QED
      BY <1>1, <3>1, <3>2, CountFacts DEF NameLeft
  <2>4. load' \in Reading
    BY <2>1 DEF Reading, ElfReads
  <2>5. ReadsLeft' = a + 1 + NameLeft'
    BY <1>6, <2>1
  <2>6. ReadsLeft' \in Nat /\ ReadsLeft' < ReadsLeft
    <3>1. \A l \in 1 .. WordSize : a + 1 + l \in Nat /\ a + 1 + l < a + e + 1
      BY <1>e, <1>5
    <3>. QED
      BY <2>2, <2>3, <2>5, <3>1
  <2>. QED
    BY <1>1, <2>4, <2>6
<1>8. CASE GotNameChar
  <2>1. load = "name" /\ load' = "name" /\ index' = index /\ pos' = (pos + 1) % WordSize
    BY <1>8 DEF GotNameChar, Got
  <2>2. pos + 1 <= fileSize[Ui]
    <3>1. Field.offset + Field.size <= fileSize[Ui]
      BY <1>8, AnsweredInside DEF GotNameChar, Reading, ElfReads
    <3>2. Field = At(pos, 1)
      BY <2>1 DEF Field
    <3>3. (pos % WordSize) = pos
      <4>1. \A p \in 0 .. WordSize - 1 : (p % WordSize) = p
        BY Widths
      <4>. QED
        BY <4>1 DEF EntryInv, IInv, LoadInv, LoadTypeOK
    <3>. QED
      BY <3>1, <3>2, <3>3 DEF At
  <2>3. pos' = pos + 1
    <3>1. \A p \in Nat : p < WordSize => (p % WordSize) = p
      BY Widths
    <3>2. pos + 1 \in Nat /\ pos + 1 < WordSize
      BY <2>2, CountFacts, Widths
    <3>. QED
      BY <2>1, <3>1, <3>2
  <2>4. NameLeft' < NameLeft /\ NameLeft' \in Nat
    BY <1>1, <2>2, <2>3, CountFacts DEF NameLeft
  <2>5. ReadsLeft = a + 1 + NameLeft
    BY <1>3, <1>4, <2>1, ReadsLeftIs
  <2>6. ReadsLeft' = a + 1 + NameLeft'
    BY <1>6, <2>1
  <2>7. ReadsLeft' \in Nat /\ ReadsLeft' < ReadsLeft
    <3>1. \A k \in Nat, l \in Nat : k < l => a + 1 + k \in Nat /\ a + 1 + k < a + 1 + l
      OBVIOUS
    <3>2. NameLeft \in Nat
      BY <1>5
    <3>. QED
      BY <2>4, <2>5, <2>6, <3>1, <3>2
  <2>. QED
    BY <1>1, <2>1, <2>7
<1>9. CASE GotNameEnd \/ GotPeEntry
  <2>1. index' = index + 1 /\ load \in {"name", "peEntry"}
        /\ load' \in {"elfEntry", "elfStart", "peEntry", "peStart"}
    BY <1>9 DEF GotNameEnd, GotPeEntry, Got, NextElfEntry, NextPeEntry
  <2>2. ReadsLeft > a + 1
    <3>1. CASE load = "name"
      <4>1. ReadsLeft = a + 1 + NameLeft
        BY <1>3, <1>4, <3>1, ReadsLeftIs
      <4>. QED
        BY <1>e, <1>5, <4>1
    <3>2. CASE load = "peEntry"
      <4>1. ReadsLeft = a + e + 1
        BY <1>2, <1>4, <3>2, ReadsLeftIs
      <4>. QED
        BY <1>e, <4>1
    <3>. QED
      BY <2>1, <3>1, <3>2
  <2>3. ReadsLeft' = a + 1 \/ ReadsLeft' = 1
    BY <1>1, <1>3, <1>4, <2>1 DEF ReadsLeft, Header
  <2>4. load' \in Reading /\ ReadsLeft \in Nat
    BY <1>1, <2>1, ReadsAreCounted DEF Reading, ElfReads, PeReads
  <2>. QED
    BY <1>1, <1>e, <2>2, <2>3, <2>4
<1>. QED
  BY <1>7, <1>8, <1>9

\* The steps of one read.
LEMMA ReadRankIs ==
    /\ ReadRank \in 0 .. 4
    /\ at[Ui] = "idle" /\ got[Ui] = "none" => ReadRank = 4
    /\ at[Ui] = "idle" /\ got[Ui] # "none" => ReadRank = 0
    /\ at[Ui] = "arm" => ReadRank = 3
    /\ at[Ui] = "copy" => ReadRank = 2
    /\ at[Ui] \in {"disarm", "jumped"} => ReadRank = 1
BY DEF ReadRank

LEMMA LoadLeftIs ==
    /\ load \in Reading => LoadLeft = 5 * ReadsLeft + ReadRank
    /\ load = "thrown" => LoadLeft = 1
    /\ load \in {"closed", "loaded", "failed"} => LoadLeft = 0
BY DEF LoadLeft, Reading, ElfReads, PeReads

LEMMA LoadIsCounted ==
    ASSUME EntryInv
    PROVE  LoadLeft \in Nat /\ (LoadLeft = 0 <=> load \in {"closed", "loaded", "failed"})
<1>1. CASE load \in Reading
  <2>1. PICK r \in Nat \ {0}, k \in 0 .. 4 : r = ReadsLeft /\ k = ReadRank
    BY <1>1, ReadsAreCounted, ReadRankIs
  <2>2. LoadLeft = 5 * r + k
    BY <1>1, <2>1, LoadLeftIs
  <2>3. 5 * r + k \in Nat /\ 5 * r + k > 0
    BY <2>1
  <2>4. load \notin {"closed", "loaded", "failed"}
    BY <1>1 DEF Reading, ElfReads, PeReads
  <2>. QED
    BY <2>2, <2>3, <2>4
<1>2. CASE load = "thrown"
  BY <1>2, LoadLeftIs
<1>3. CASE load \in {"closed", "loaded", "failed"}
  BY <1>3, LoadLeftIs
<1>4. load \in Reading \cup {"closed", "thrown", "loaded", "failed"}
  BY DEF EntryInv, IInv, LoadInv, LoadTypeOK
<1>. QED
  BY <1>1, <1>2, <1>3, <1>4

LEMMA ReadsLeftSame ==
    ASSUME UNCHANGED loadVars, fileSize'[Ui] = fileSize[Ui]
    PROVE  ReadsLeft' = ReadsLeft
<1>1. NameLeft' = NameLeft
  BY DEF loadVars, NameLeft
<1>2. HeaderRank' = HeaderRank /\ Header' = Header /\ EntryReads' = EntryReads
  BY DEF HeaderRank, Header, EntryReads
<1>. QED
  BY <1>1, <1>2 DEF ReadsLeft, loadVars

\* Inside readType(): one step nearer to the answer.
LEMMA ReadingPays ==
    ASSUME EntryInv, Ask \/ FileStep(Ui)
    PROVE  LoadLeft' < LoadLeft
<1>1. /\ UNCHANGED loadVars /\ fileSize'[Ui] = fileSize[Ui]
      /\ load' = load
  BY UiIsAThread DEF Ask, BeginRead, FileStep, InRead, Arm, Copy, Disarm, Sigbus, Jumped, loadVars
<1>2. load \in Reading
  BY DEF Ask, FileStep, InRead, Arm, Copy, Disarm, Sigbus, Jumped, EntryInv, IInv, LoadInv,
     QuietUnlessReading
<1>3. PICK r \in Nat \ {0} : r = ReadsLeft
  BY <1>2, ReadsAreCounted
<1>4. ReadsLeft' = r
  BY <1>1, <1>3, ReadsLeftSame
<1>5. LoadLeft = 5 * r + ReadRank /\ LoadLeft' = 5 * r + ReadRank'
  <2>1. LoadLeft' = 5 * ReadsLeft' + ReadRank'
    BY <1>1, <1>2 DEF LoadLeft, Reading, ElfReads, PeReads
  <2>. QED
    BY <1>2, <1>3, <1>4, <2>1, LoadLeftIs
<1>6. /\ at \in [Threads -> {"idle", "arm", "copy", "disarm", "jumped"}]
      /\ got \in [Threads -> {"none", "value", "length", "changed"}]
  BY DEF EntryInv, IInv, FileInv, FileTypeOK
<1>7. \E k \in 0 .. 4, l \in 0 .. 4 : k = ReadRank' /\ l = ReadRank /\ k < l
  <2>1. CASE Ask
    <3>1. at[Ui] = "idle" /\ got[Ui] = "none"
      BY <2>1 DEF Ask, BeginRead
    <3>2. at'[Ui] = "arm" \/ (at'[Ui] = "idle" /\ got'[Ui] = "length")
      BY <1>6, <2>1, <3>1, UiIsAThread DEF Ask, BeginRead
    <3>3. ReadRank' = 3 \/ ReadRank' = 0
      BY <3>2 DEF ReadRank
    <3>. QED
      BY <3>1, <3>3, ReadRankIs
  <2>2. CASE Arm(Ui)
    <3>1. at[Ui] = "arm" /\ at'[Ui] = "copy"
      BY <1>6, <2>2, UiIsAThread DEF Arm
    <3>2. ReadRank' = 2
      BY <3>1 DEF ReadRank
    <3>. QED
      BY <3>1, <3>2, ReadRankIs
  <2>3. CASE Copy(Ui) \/ Sigbus(Ui)
    <3>1. at[Ui] = "copy" /\ at'[Ui] \in {"disarm", "jumped"}
      <4>1. Sigbus(Ui) => at' = [at EXCEPT ![Ui] = "jumped"]
        BY UiIsAThread DEF Sigbus, EntryInv, IInv, FileInv, JumpMatchesRead, HandlerFirst,
           ReadersMapped, Unblocked
      <4>. QED
        BY <1>6, <2>3, <4>1, UiIsAThread DEF Copy, Sigbus
    <3>2. ReadRank' = 1
      BY <3>1 DEF ReadRank
    <3>. QED
      BY <3>1, <3>2, ReadRankIs
  <2>4. CASE Disarm(Ui) \/ Jumped(Ui)
    <3>1. /\ at[Ui] \in {"disarm", "jumped"}
          /\ at'[Ui] = "idle" /\ got'[Ui] \in {"value", "changed"}
      BY <1>6, <2>4, UiIsAThread DEF Disarm, Jumped
    <3>2. ReadRank' = 0
      BY <3>1 DEF ReadRank
    <3>. QED
      BY <3>1, <3>2, ReadRankIs
  <2>. QED
    BY <2>1, <2>2, <2>3, <2>4 DEF FileStep, InRead
<1>8. \A k \in 0 .. 4, l \in 0 .. 4 : k < l => 5 * r + k < 5 * r + l
  OBVIOUS
<1>. QED
  BY <1>5, <1>7, <1>8

\* The value has come: one read less, or the end.
LEMMA GotPays ==
    ASSUME EntryInv,
           \/ GotElfMagic \/ GotMzMagic \/ GotLfanew \/ GotSignature
           \/ GotMachine \/ GotElfTable \/ GotElfCounts \/ GotNames
           \/ GotElfEntry \/ GotNameChar \/ GotNameEnd
           \/ GotPeHeader \/ GotPeMachine \/ GotPeCounts \/ GotPeImageBase \/ GotPeEntry
           \/ GotStart
    PROVE  LoadLeft' < LoadLeft
<1>1. load \in Reading
      /\ (load' \in {"thrown", "loaded"} \/ (load' \in Reading /\ ReadsLeft' \in Nat /\ ReadsLeft' < ReadsLeft))
  <2>1. CASE \/ GotElfMagic \/ GotMzMagic \/ GotLfanew \/ GotSignature
             \/ GotMachine \/ GotElfTable \/ GotPeHeader \/ GotPeMachine \/ GotPeCounts
    BY <2>1, DetectPays, ReadingIs
  <2>2. CASE GotElfCounts \/ GotNames \/ GotPeImageBase
    BY <2>2, FirstEntryPays, ReadingIs
  <2>3. CASE GotElfEntry \/ GotNameChar \/ GotNameEnd \/ GotPeEntry
    BY <2>3, EntryPays
  <2>4. CASE GotStart
    BY <2>4 DEF GotStart, Got, Reading, ElfReads, PeReads
  <2>. QED
    BY <2>1, <2>2, <2>3, <2>4
<1>2. PICK r \in Nat \ {0} : r = ReadsLeft
  BY <1>1, ReadsAreCounted
<1>3. PICK k \in 0 .. 4 : LoadLeft = 5 * r + k
  BY <1>1, <1>2, LoadLeftIs, ReadRankIs
<1>4. CASE load' \in {"thrown", "loaded"}
  <2>1. LoadLeft' = 1 \/ LoadLeft' = 0
    BY <1>4 DEF LoadLeft, Reading, ElfReads, PeReads
  <2>2. 5 * r + k > 1
    BY <1>2
  <2>. QED
    BY <1>3, <2>1, <2>2
<1>5. CASE load' \in Reading /\ ReadsLeft' \in Nat /\ ReadsLeft' < ReadsLeft
  <2>3. ReadRank' \in 0 .. 4
    BY DEF ReadRank
  <2>4. LoadLeft' = 5 * ReadsLeft' + ReadRank'
    BY <1>5 DEF LoadLeft, Reading, ElfReads, PeReads
  <2>5. \A q \in Nat, l \in 0 .. 4 : q < r => 5 * q + l < 5 * r + k
    BY <1>2, <1>3
  <2>. QED
    BY <1>2, <1>3, <1>5, <2>3, <2>4, <2>5
<1>. QED
  BY <1>1, <1>4, <1>5

\* Every other step but an open leaves the loader and its read alone.
LEMMA AsideCostsNothing ==
    ASSUME EntryInv,
           \/ StartWorker \/ WorkerRead \/ FileStep("worker")
           \/ (Rewrite /\ UNCHANGED <<loadVars, opens>>) \/ UNCHANGED vars
    PROVE  LoadLeft' = LoadLeft
<1>1. /\ UNCHANGED loadVars /\ load' = load
      /\ at'[Ui] = at[Ui] /\ got'[Ui] = got[Ui] /\ fileSize'[Ui] = fileSize[Ui]
  <2>1. CASE StartWorker \/ WorkerRead
    BY <2>1, WorkerLeavesUi DEF EntryInv, loadVars
  <2>2. CASE FileStep("worker")
    <3>1. /\ at \in [Threads -> {"idle", "arm", "copy", "disarm", "jumped"}]
          /\ got \in [Threads -> {"none", "value", "length", "changed"}]
      BY DEF EntryInv, IInv, FileInv, FileTypeOK
    <3>2. UNCHANGED loadVars /\ fileSize' = fileSize
      BY <2>2 DEF FileStep, InRead, Arm, Copy, Disarm, Sigbus, Jumped
    <3>3. at'[Ui] = at[Ui] /\ got'[Ui] = got[Ui]
      BY <2>2, <3>1, UiIsAThread DEF FileStep, InRead, Arm, Copy, Disarm, Sigbus, Jumped
    <3>. QED
      BY <3>2, <3>3 DEF loadVars
  <2>3. CASE (Rewrite /\ UNCHANGED <<loadVars, opens>>) \/ UNCHANGED vars
    BY <2>3 DEF Rewrite, readVars, vars, fileVars, loadVars
  <2>. QED
    BY <2>1, <2>2, <2>3
<1>2. ReadsLeft' = ReadsLeft
  BY <1>1, ReadsLeftSame
<1>3. ReadRank' = ReadRank
  BY <1>1 DEF ReadRank
<1>. QED
  BY <1>1, <1>2, <1>3 DEF LoadLeft, Reading, ElfReads, PeReads

\* Loading cannot go on forever: whatever the headers say and however often the file is
\* rewritten under it, each step of the loading thread lowers LoadLeft, a natural number
\* that is zero when no load is under way, and nothing but the next open raises it
\* (elf_sections.hpp:59-86, 118-152; pe_sections.hpp:48-98; address_space.cpp:126-145).
THEOREM LoadRunsDown == Spec => [][LoaderPays]_vars
<1>1. Spec => []EntryInv
  BY EntryInit, EntryStep, PTL DEF Spec
<1>2. ASSUME EntryInv, [Next]_vars
      PROVE  LoaderPays
  <2>1. LoadLeft \in Nat /\ (LoadLeft = 0 <=> load \in {"closed", "loaded", "failed"})
    BY <1>2, LoadIsCounted
  <2>2. LoadStep \/ FileStep(Ui) => LoadLeft' < LoadLeft
    <3>1. Ask \/ FileStep(Ui) => LoadLeft' < LoadLeft
      BY <1>2, ReadingPays
    <3>2. Throw => LoadLeft' < LoadLeft
      <4>1. SUFFICES ASSUME Throw PROVE LoadLeft' < LoadLeft
        OBVIOUS
      <4>2. LoadLeft' = 0
        BY <4>1 DEF Throw, LoadLeft, Reading, ElfReads, PeReads
      <4>3. load \notin {"closed", "loaded", "failed"}
        BY <4>1 DEF Throw, Reading, ElfReads, PeReads
      <4>. QED
        BY <2>1, <4>2, <4>3
    <3>. QED
      BY <1>2, <3>1, <3>2, GotPays DEF LoadStep
  <2>3. ~(LoadStep \/ FileStep(Ui) \/ Open) => LoadLeft' = LoadLeft
    BY <1>2, AsideCostsNothing, LoaderAssumption DEF Next, Ui
  <2>. QED
    BY <2>1, <2>2, <2>3 DEF LoaderPays
<1>. QED
  BY <1>1, <1>2, PTL DEF Spec
=============================================================================
