----------------------------- MODULE DecodeSweep -----------------------------
(***************************************************************************)
(* Disassembler::decode() (src/src/disassembler/disassembler.cpp) on the   *)
(* worker thread, and a front end on the UI thread that reads rows while   *)
(* the sweep is still going.                                               *)
(*                                                                         *)
(* The worker appends every instruction to one ChunkStore and its address  *)
(* to another, then publishes the count with a release store.  The reader  *)
(* acquires the count and indexes both stores below it, in two steps, so   *)
(* that anything the worker does in the middle of a read is seen.          *)
(*                                                                         *)
(* Offsets, sizes and addresses are 64-bit in the code and are kept modulo *)
(* WordSize here; the section table is whatever the file says, so a size   *)
(* may lie.  What one instruction is does not matter to the sweep: a row   *)
(* is the file offset and the length it was decoded from.                  *)
(***************************************************************************)
EXTENDS Integers, Sequences, ChunkStore

CONSTANTS
    WordSize,     \* 2^64: size_t and uint64_t wrap here
    FileSize,     \* bytes mapped
    MaxLength,    \* longest instruction, 15 on x86
    Layouts,      \* the section tables considered
    Decoders,     \* subset of {"x86", "stub", "none"}
    MaxTable,     \* blocks a table can be reserved for before the allocation fails
    None

Sections == [offset : 0 .. WordSize - 1,
             size   : 0 .. WordSize - 1,
             vaddr  : 0 .. WordSize - 1]

ASSUME SweepAssumption ==
    /\ WordSize \in Nat \ {0}
    /\ FileSize \in 0 .. WordSize - 1
    /\ MaxLength \in Nat \ {0}
    /\ Layouts \subseteq Seq(Sections)
    /\ Decoders \subseteq {"x86", "stub", "none"}
    /\ MaxTable \in Nat
    /\ None \notin Int

VARIABLES
    text,        \* commonSections.text, filled before decode() starts
    decoder,     \* which Decoder the container's machine number selected
    pc,          \* the statement of decode() the worker is at
    sums,        \* the running values of totalTextSize, 0 first
    section,     \* index of the section being swept
    offset,      \* currentOffset
    next,        \* nextOffset
    vaddr,
    instrs,      \* decodedInstructions
    addrs,       \* instructionAddresses
    ready,       \* readyCount
    emitted,     \* nextEmitIndex
    outcome,     \* how decode() ended, "none" until it has
    stop,        \* stop_requested()
    stoppedAt,   \* history: instructions stored when the stop was requested
    seen,        \* the row count the front end acquired last
    reading      \* the row it is indexing, None between reads

workerVars == <<pc, sums, section, offset, next, vaddr, instrs, addrs, ready,
                emitted, outcome>>
stopVars   == <<stop, stoppedAt>>
readerVars == <<seen, reading>>
vars       == <<text, decoder, workerVars, stopVars, readerVars>>

Outcomes == {"ran", "error", "changed"}

Labels == {"clear", "sum", "section", "line", "decode", "address",
           "publish", "emit", "done"}

Rows == [offset : 0 .. FileSize, length : 1 .. MaxLength]

TypeOK ==
    /\ text \in Layouts
    /\ decoder \in Decoders
    /\ pc \in Labels
    /\ sums \in Seq(0 .. WordSize - 1)
    /\ section \in 1 .. Len(text) + 1
    /\ offset \in 0 .. WordSize - 1
    /\ next \in 0 .. WordSize - 1
    /\ vaddr \in 0 .. WordSize - 1
    /\ instrs \in StoreOf(Rows)
    /\ addrs \in StoreOf(0 .. WordSize - 1)
    /\ ready \in Nat
    /\ emitted \in Nat
    /\ outcome \in Outcomes \cup {"none"}
    /\ stop \in BOOLEAN
    /\ stoppedAt \in Nat \cup {None}
    /\ seen \in Nat
    /\ reading \in Nat \cup {None}

Init ==
    /\ text \in Layouts
    /\ decoder \in Decoders
    /\ pc = "clear"
    /\ sums = <<>>
    /\ section = 1
    /\ offset = 0 /\ next = 0 /\ vaddr = 0
    /\ instrs = EmptyStore /\ addrs = EmptyStore
    /\ ready = 0
    /\ emitted = 0
    /\ outcome = "none"
    /\ stop = FALSE /\ stoppedAt = None
    /\ seen = 0 /\ reading = None

-----------------------------------------------------------------------------
(* The worker: decode(), one action per statement a reader can tell apart. *)

Goto(label) == pc' = label /\ UNCHANGED <<text, decoder, stopVars, readerVars>>

Ends(how) == Goto("done") /\ outcome' = how

SectionEnd(k) == (text[k].offset + text[k].size) % WordSize

\* Both stores are emptied before anything else.
ClearStores ==
    /\ pc = "clear"
    /\ instrs' = Clear(instrs)
    /\ addrs' = Clear(addrs)
    /\ sums' = <<0>>
    /\ Goto("sum")
    /\ UNCHANGED <<section, offset, next, vaddr, ready, emitted, outcome>>

\* The loop that adds the section sizes up, in a size_t.
SumSize ==
    /\ pc = "sum"
    /\ Len(sums) <= Len(text)
    /\ sums' = Append(sums, (sums[Len(sums)] + text[Len(sums)].size) % WordSize)
    /\ Goto("sum")
    /\ UNCHANGED <<section, offset, next, vaddr, instrs, addrs, ready, emitted, outcome>>

TotalTextSize == sums[Len(sums)]

\* Some section size, or their sum, did not fit the word.
Wrapped == \E k \in 1 .. Len(sums) - 1 : sums[k + 1] # sums[k] + text[k].size

\* A table nobody can allocate throws before the first row; else readyCount is
\* reset, with the tables sized.
Reserve ==
    /\ pc = "sum"
    /\ Len(sums) = Len(text) + 1
    /\ IF BlocksFor(TotalTextSize) > MaxTable
         THEN /\ Ends("error")
              /\ UNCHANGED <<instrs, addrs, ready>>
         ELSE /\ instrs' = ReserveFor(instrs, TotalTextSize)
              /\ addrs' = ReserveFor(addrs, TotalTextSize)
              /\ ready' = 0
              /\ Goto("section")
              /\ UNCHANGED outcome
    /\ UNCHANGED <<sums, section, offset, next, vaddr, emitted>>

\* Mutant: the stores emptied for every section, as if each had its own.
StartSectionCleared ==
    /\ pc = "section"
    /\ section <= Len(text)
    /\ offset' = text[section].offset
    /\ vaddr' = text[section].vaddr
    /\ instrs' = Clear(instrs)
    /\ addrs' = Clear(addrs)
    /\ Goto("line")
    /\ UNCHANGED <<sums, section, next, ready, emitted, outcome>>

StartSection ==
    /\ pc = "section"
    /\ section <= Len(text)
    /\ offset' = text[section].offset
    /\ vaddr' = text[section].vaddr
    /\ Goto("line")
    /\ UNCHANGED <<sums, section, next, instrs, addrs, ready, emitted, outcome>>

SweepOver ==
    /\ pc = "section"
    /\ section > Len(text)
    /\ Ends("ran")
    /\ UNCHANGED <<sums, section, offset, next, vaddr, instrs, addrs, ready, emitted>>

\* Mutant: the stop token is not polled.
CheckLineDeaf ==
    /\ pc = "line"
    /\ IF offset < SectionEnd(section)
         THEN Goto("decode") /\ UNCHANGED section
         ELSE Goto("section") /\ section' = section + 1
    /\ UNCHANGED <<sums, offset, next, vaddr, instrs, addrs, ready, emitted, outcome>>

\* Mutant: the section that ends is swept again.
CheckLineAgain ==
    /\ pc = "line"
    /\ IF offset < SectionEnd(section) /\ ~stop THEN Goto("decode") ELSE Goto("section")
    /\ UNCHANGED <<sums, section, offset, next, vaddr, instrs, addrs, ready, emitted, outcome>>

\* The stop token is looked at once per line; it ends this section's loop, and
\* then every later one at its first line.
CheckLine ==
    /\ pc = "line"
    /\ IF offset < SectionEnd(section) /\ ~stop
         THEN Goto("decode") /\ UNCHANGED section
         ELSE Goto("section") /\ section' = section + 1
    /\ UNCHANGED <<sums, offset, next, vaddr, instrs, addrs, ready, emitted, outcome>>

\* Mutant: the count is published with the instruction, before its address.
DecodeRowPublished ==
    /\ pc = "decode"
    /\ decoder = "x86"
    /\ \E length \in 1 .. MaxLength :
         /\ offset + length <= FileSize
         /\ instrs' = PushBack(instrs, [offset |-> offset, length |-> length])
         /\ next' = offset + length
    /\ ready' = instrs.size + 1
    /\ Goto("address")
    /\ UNCHANGED <<sums, section, offset, vaddr, addrs, emitted, outcome>>

\* decodeLine() found an instruction, or a "(bad)" row, in the bytes at offset.
DecodeRow ==
    /\ pc = "decode"
    /\ decoder = "x86"
    /\ \E length \in 1 .. MaxLength :
         /\ offset + length <= FileSize
         /\ instrs' = PushBack(instrs, [offset |-> offset, length |-> length])
         /\ next' = offset + length
    /\ Goto("address")
    /\ UNCHANGED <<sums, section, offset, vaddr, addrs, ready, emitted, outcome>>

\* Mutant: a truncated instruction is skipped, one byte further on.
DecodeTruncatedSkips ==
    /\ pc = "decode"
    /\ decoder = "x86"
    /\ offset + MaxLength >= FileSize
    /\ next' = (offset + 1) % WordSize
    /\ Goto("address")
    /\ UNCHANGED <<sums, section, offset, vaddr, instrs, addrs, ready, emitted, outcome>>

\* The bytes ran out before the instruction did: nothing is appended and the
\* offset it was given comes back.  The look past a legacy C4 / C5
\* (x86_64_decoder.cpp:82) may want one byte more than the longest instruction.
DecodeTruncated ==
    /\ pc = "decode"
    /\ decoder = "x86"
    /\ offset + MaxLength >= FileSize
    /\ next' = offset
    /\ Goto("address")
    /\ UNCHANGED <<sums, section, offset, vaddr, instrs, addrs, ready, emitted, outcome>>

\* Mutant: the exception takes the rows back.
DecodeThrowsAway ==
    /\ pc = "decode"
    /\ Ends(IF decoder = "x86" THEN "changed" ELSE "error")
    /\ ready' = 0
    /\ UNCHANGED <<sums, section, offset, next, vaddr, instrs, addrs, emitted>>

\* A decoder that is not written yet throws, a missing one is reported, and any
\* read of a file that has shrunk on disk throws FileChanged.
DecodeThrows ==
    /\ pc = "decode"
    /\ Ends(IF decoder = "x86" THEN "changed" ELSE "error")
    /\ UNCHANGED <<sums, section, offset, next, vaddr, instrs, addrs, ready, emitted>>

\* Addresses catch up with the instructions.
PushAddress ==
    /\ pc = "address"
    /\ addrs' = IF addrs.size < instrs.size THEN PushBack(addrs, vaddr) ELSE addrs
    /\ Goto("publish")
    /\ UNCHANGED <<sums, section, offset, next, vaddr, instrs, ready, emitted, outcome>>

\* Mutant: no progress goes round the same line again.
PublishRetries ==
    /\ pc = "publish"
    /\ ready' = instrs.size
    /\ IF next <= offset THEN Goto("line") ELSE Goto("emit")
    /\ UNCHANGED <<sums, section, offset, next, vaddr, instrs, addrs, emitted, outcome>>

\* readyCount.store(release), then the no-progress guard.
Publish ==
    /\ pc = "publish"
    /\ ready' = instrs.size
    /\ IF next <= offset
         THEN Goto("section") /\ section' = section + 1
         ELSE Goto("emit") /\ UNCHANGED section
    /\ UNCHANGED <<sums, offset, next, vaddr, instrs, addrs, emitted, outcome>>

\* Mutant: the address runs past the word.
EmitAndAdvanceUnwrapped ==
    /\ pc = "emit"
    /\ emitted' = emitted + 1
    /\ vaddr' = vaddr + (next - offset)
    /\ offset' = next
    /\ Goto("line")
    /\ UNCHANGED <<sums, section, next, instrs, addrs, ready, outcome>>

\* emitDecodedLine() writes row `emitted' to the streams; then on to the next line.
EmitAndAdvance ==
    /\ pc = "emit"
    /\ emitted' = emitted + 1
    /\ vaddr' = (vaddr + (next - offset)) % WordSize
    /\ offset' = next
    /\ Goto("line")
    /\ UNCHANGED <<sums, section, next, instrs, addrs, ready, outcome>>

Worker ==
    \/ ClearStores \/ SumSize \/ Reserve
    \/ StartSection \/ SweepOver \/ CheckLine
    \/ DecodeRow \/ DecodeTruncated \/ DecodeThrows
    \/ PushAddress \/ Publish \/ EmitAndAdvance

-----------------------------------------------------------------------------
(* The UI thread: it asks for a stop (re-open, close) and reads rows.      *)

RequestStop ==
    /\ ~stop
    /\ stop' = TRUE
    /\ stoppedAt' = instrs.size
    /\ UNCHANGED <<text, decoder, workerVars, readerVars>>

\* readyInstructions(): the acquire that pairs with the release in Publish.
AcquireReady ==
    /\ reading = None
    /\ seen # ready
    /\ seen' = ready
    /\ UNCHANGED <<text, decoder, workerVars, stopVars, reading>>

BeginRead ==
    /\ reading = None
    /\ \E row \in 0 .. seen - 1 : reading' = row
    /\ UNCHANGED <<text, decoder, workerVars, stopVars, seen>>

EndRead ==
    /\ reading # None
    /\ reading' = None
    /\ UNCHANGED <<text, decoder, workerVars, stopVars, seen>>

Reader == AcquireReady \/ BeginRead \/ EndRead

Finished == pc = "done" /\ stop /\ UNCHANGED vars

Next == Worker \/ RequestStop \/ Reader \/ Finished

Spec == Init /\ [][Next]_vars

\* The operating system runs the worker; nothing makes the user do anything.
FairSpec == Spec /\ WF_vars(Worker)

-----------------------------------------------------------------------------
(* What is shown.                                                          *)

\* A row the front end may index is in both stores: the count it holds was
\* published after both appends, and the address store is never more than the
\* row being decoded behind (disassembler.cpp:36-43).
PublishedBacked ==
    /\ seen <= ready
    /\ ready <= addrs.size
    /\ addrs.size <= instrs.size
    /\ instrs.size <= ready + 1
    /\ reading # None =>
         /\ reading < seen
         /\ At(instrs, reading) \in Rows
         /\ At(addrs, reading) \in 0 .. WordSize - 1

\* Published rows are never withdrawn and never change: what the UI drew is still
\* what is stored (disassembler.hpp:97-99).
RowsKept == \A row \in 0 .. ready - 1 :
              /\ row < instrs.size' /\ At(instrs, row)' = At(instrs, row)
              /\ row < addrs.size' /\ At(addrs, row)' = At(addrs, row)

PublishedFrozen == [][RowsKept]_vars

\* "Nothing a reader can reach is ever reallocated" (chunk_store.hpp:12): once a
\* row is published the block tables stay where they are.
TablesStay ==
    [][ready > 0 => UNCHANGED <<instrs.capacity, addrs.capacity>>]_vars

\* The same, for every section table whose sizes add up without wrapping.
TablesStayUnlessWrapped ==
    [][(ready > 0 /\ ~Wrapped) => UNCHANGED <<instrs.capacity, addrs.capacity>>]_vars

InSection(k, row) == row.offset \in text[k].offset .. SectionEnd(k) - 1
Mapped(k, row) == (text[k].vaddr + (row.offset - text[k].offset)) % WordSize

\* With of[j] the section of row j: row i lies in its section, at the section's address
\* for its offset, and either follows the row before it without a gap, in the same
\* section, or opens its section, after rows of earlier sections only.
RowTiles(of, i) ==
    LET row == At(instrs, i) IN
    /\ InSection(of[i], row)
    /\ At(addrs, i) = Mapped(of[i], row)
    /\ \/ /\ i > 0 /\ of[i] = of[i - 1]
          /\ row.offset = At(instrs, i - 1).offset + At(instrs, i - 1).length
       \/ /\ i > 0 => of[i - 1] < of[i]
          /\ row.offset = text[of[i]].offset

\* The published rows are one run per section, in the order of the table
\* (disassembler.cpp:25): each run starts with its section and has neither gaps nor
\* overlaps.  The address searches (navigateTo, rowIndexFor) go through the sections in
\* that order and search one run for each.
RowsTile ==
    \E of \in [0 .. ready - 1 -> 1 .. Len(text)] :
        \A i \in 0 .. ready - 1 : RowTiles(of, i)

\* "decode() polls the stop_token each line" (analysis_session.cpp:65): from the
\* request on, at most the line under way is still added.
StopsPromptly == stop => instrs.size <= stoppedAt + 1

\* Every row written to the output streams is the row just decoded: the emit
\* index and the stores march together.
EmitsLatestRow == pc = "emit" => emitted + 1 = instrs.size /\ addrs.size = instrs.size

\* decode() returns, whatever the section table says.
SweepEnds == <>(pc = "done")

\* Seen from outside, the sweep is the contract the front ends are written to.
Contract == INSTANCE SweepContract
KeepsContract == Contract!Spec
=============================================================================
