# A verification project for voidwalk

TLA+ models of voidwalk, the TLC runs that check them, and TLAPS proofs about
them. voidwalk disassembles ELF and PE files: a worker thread
decodes a binary from end to end (the *sweep*) while a terminal or Qt front end
shows the rows that are already there. What is hard to test in this program happens between those two threads, at the
edges of the numbers a malformed file holds, in what a byte means to the decoder,
or in the terminal between two frames, and that is what is modelled.

Source paths below are relative to `src/src/`.

## 1. Inventory

| Part | State it keeps | Operations | Talks to |
|---|---|---|---|
| `ChunkStore` (`chunk_store.hpp`) | a table of blocks, its capacity, a count | `reserveFor`, `push_back`, `operator[]`, `clear`, `shrinkToFit` | filled by the sweep, indexed by the front ends, no lock |
| `Disassembler` (`disassembler/disassembler.*`) | two stores (instructions, addresses), `readyCount`, `nextEmitIndex`, the section table | `decode`, `decodeLine`, `emitDecodedLine`, `compact` | run on the worker; `readyCount` is the only synchronisation with readers |
| `Session` (`analysis_session.*`) | the address space and disassembler pair, `DecodeState`, `decodeGeneration_`, the `jthread` | `open`, `adopt`, `runDecode`, `compact`, `throwIfFileChanged`, destruction | owns the worker; base class of both front ends' sessions |
| `tui::Session`, `AppView` (`tui/session.*`, `tui/ui.cpp`) | `real_`, `shown_`, fallback rows, banner, symbols, `symbolsGen_`, `refreshedGen_`, `ticking_` | construct, `refresh`, `OnRender`, `submitOpen`, ticker | polls the Session once per frame |
| `gui::Session`, `MainWindow`, panes (`gui/`) | `shownRows_`, `decodedForReal_`, fallback rows, the poll timer, `DisasmModel` rows and edits, `scanning_` | `openPath`, `onDecodeTick`, `refreshAll`, `setData`, `clearEdits` | polls the Session from a 100 ms timer |
| `AddressSpace` (`address_space.*`) | the mapping, its size, the per-thread SIGBUS jump | construct, `read_u8..u64`, `onSigbus` | read by the worker and by the UI thread, of a file any other program may truncate |
| Detection and readers (`disassembler/format/`) | the section table | `determine_filetype`, `make_disassembler`, ELF and PE parsers | run once, inside `open` |
| x86 decoder (`arch/x86_64/`) | constant opcode tables; none between instructions | `decodeLine`, `resolvedInfo` and its siblings | called by the sweep |
| ARM32 and AArch64 decoders | none | `decodeLine`, which throws | called by the sweep |
| Command line (`main.cpp`, `cli/`) | none | `--print`, `--dump-hex`, usage | one thread |
| TUI screen, panes, widgets (`tui/ui.cpp`, `tui/panes/`) | focus, menus, the open dialog; per pane a cursor, a window, what it cached of the session, a filter or a field | `OnEvent`, `onMouse`, `OnRender`, the panes' handlers | read rows, symbols and sections of `tui::Session` |
| AI chat, settings, theme, icons, layout, legacy GUI | presentation | | |

Hard behaviours, and where they bite (all of them, with the properties that would
catch them, are in `PROJECT.json` under "hazards"):

* a reader indexes rows while the worker appends (`disassembler.cpp:36-43`);
* the block table is sized from section sizes that the file may lie about
  (`disassembler.cpp:16-21`), and offsets, sizes and addresses wrap;
* a re-open replaces everything under a running worker and joins it
  (`analysis_session.cpp:32-60`), and a worker may end with an exception it can
  only report through a flag;
* a front end reads the worker's state several times in one pass and the worker
  moves in between (`tui/session.cpp:91-92`, `tui/ui.cpp:144-147`,
  `gui/main_window.cpp:372-377, 394-405`);
* nothing draws a finished decode unless something still ticks;
* the mapped file shrinks under a read (`address_space.cpp:25-36, 128-139`), and the
  reader is on either thread;
* every offset the loader follows is a number from the file (`elf_sections.hpp:60-68`,
  `detect.hpp:30`);
* one opcode row with the wrong length puts the sweep out of step for the rest of a
  section (`x86_64_tables.cpp`, five maps, groups, prefix columns);
* the terminal handles a batch of events before it draws, so a key may act on a pane
  that an earlier key has hidden or on a list that no longer exists
  (`ui.cpp:141-213`).

What makes each part correct: a **store** keeps its elements and does not move
under a reader; the **sweep** publishes complete rows that tile the sections,
stops when asked and always returns; the **Session** runs one worker at a time,
owns what is being decoded and reports its outcome once; a **front end** shows only
what was published, in the end all of it, and then stops polling; the **mapped file**
turns every truncation into an exception; the **loader** ends, and keeps only sections
whose entries are in the file; the **decoder** takes exactly the bytes an instruction
has; the **screen** shows, after any batch of events, cursors that are on rows.

## 2. The modules

| Module | What it is | Code |
|---|---|---|
| `ChunkStore` | the store as operators on a record `[table, capacity, size]` | `chunk_store.hpp` |
| `DecodeSweep` | `decode()` on the worker, one action per statement a reader can tell apart; a reader and a stop request on the UI thread | `disassembler/disassembler.cpp` |
| `SweepContract` | abstract: a growing row count and one outcome; `DecodeSweep` implements it (`KeepsContract`) | `disassembler.hpp:80-105` |
| `AsyncSession` | the Session and one worker per generation | `analysis_session.cpp` |
| `DecodeFeed` | abstract: what polling a Session looks like; `AsyncSession` implements it (`KeepsFeed`) | `analysis_session.hpp:42-101` |
| `TuiView` | the terminal front end, over a `DecodeFeed` | `tui/session.cpp`, `tui/ui.cpp` |
| `ProgressiveView` | abstract: what someone at the screen is promised; `TuiView` implements it (`KeepsView`) | README of the program, comments |
| `GuiView` | the Qt front end, over a `DecodeFeed` | `gui/session.cpp`, `gui/main_window.cpp`, panes |
| `MappedFile` | `AddressSpace` per thread: bounds check, arm, copy page by page, SIGBUS, disarm; another program rewrites the file | `address_space.*` |
| `Loader` | detection and the ELF and PE readers on the UI thread, through `MappedFile`, beside the worker of the binary before | `disassembler/format/` |
| `X86Tables` | what the opcode tables say of an instruction's length, and how a row is resolved | `x86_64_tables.cpp`, `x86_64_mnemonic.hpp` |
| `X86Decoder` | `decodeLine()` byte by byte, over `X86Tables` | `x86_64_decoder.cpp` |
| `LineContract` | abstract: one line is a row of 1 to 15 bytes, no row, or FileChanged; `X86Decoder` implements it (`KeepsLine`) | `arch/decoder.hpp:17-30` |
| `RowList` | the cursor and window arithmetic the panes share, as operators | `tui/widgets.hpp` |
| `TuiPanes` | what each pane keeps, and its handlers as operators from its record to its new record | `tui/panes/` |
| `AppView` | the terminal's screen: who an event reaches, what it does there, what a frame makes of it | `tui/ui.cpp` |
| `MCDecodeSweep`, `MCLoader`, `MCX86Decoder`, `MCAppView` | the section tables, header values, bytes, lists and inputs TLC tries | |
| `*_proofs` | theorems and proofs about the module they extend | |

The stack is compositional: `DecodeSweep` uses `ChunkStore`; the Session's worker is
the sweep seen through its contract; the front ends are built on `DecodeFeed`, which
stands for a Session because `AsyncSession` is proved to implement it. So the
front ends' models need neither the joins nor the worker's own states. `DecodeSweep`'s
decoder is any that keeps `LineContract`, and its section table any that `Loader` may
leave. `AppView` takes of the session what a frame may find: a row count that does not
go back while a decode runs (`ProgressiveView`), and symbols once it has ended.

**`DecodeSweep`.** `pc` is the statement `decode()` is at. `instrs` and `addrs` are
`decodedInstructions` and `instructionAddresses`; `ready` is `readyCount`; `sums`
holds every value `totalTextSize` takes, so that "some addition wrapped" can be said.
An instruction is its file offset and its length: `DecodeRow` picks any length up to
`MaxLength` that is still in the file, `DecodeTruncated` is the decoder running out
of bytes (it returns the offset it got and appends nothing; in legacy mode the look
past a `C4` or `C5` can ask for one byte more than `MaxLength`,
`x86_64_decoder.cpp:82`), `DecodeThrows` an exception. Offsets, sizes and addresses are kept modulo `WordSize` (2^64 in the
code). The reader takes two steps per row, so that a change of the stores between
the start and the end of an indexed read is visible as a property: `TablesStay`.

**`AsyncSession`.** A generation names its address space, disassembler and
`DecodeState`. `refs[g]` counts the `shared_ptr` owners of generation `g`'s pair.
`open()` is three steps of the UI thread (load, detect again, adopt and join), because
the old worker runs on between them; the worker's lambda is one step per write the UI
thread could observe. A Session starts out as the GUI's does, with nothing loaded; the
terminal's constructor calls `adopt()` on a binary loaded before it, which is
`OpenLoads`, `Adopt`, `Launch`. Moving a Session, as `UI` does, moves its owners and
its thread and changes nothing modelled: the worker captures no `this`.

**`TuiView`** and **`GuiView`** have one action per read of the worker's state. In
`TuiView` the local variables `done` of `OnRender()` and `refresh()` are `doneSeen` and
`doneInside`. In `GuiView`, `slot` says which of `openPath()` and `onDecodeTick()` the
UI thread is in and which branch it took. `event` is a flag, not a queue: an event that
waits already draws every frame a second one would.

**`MappedFile`** has one process with two threads. `disk` is how much of the file there is
now, `fileSize[t]` the size of the mapping thread `t` reads, `at[t]` where its read is,
`jump[t]` its `sigbusJump`, `blocked[t]` whether SIGBUS is masked for it. `Copy` succeeds
where the page is still backed by the file, `Sigbus` is the fault elsewhere: it jumps when
a target is armed, and kills the process when there is none or the signal is blocked. A
file cut inside its last page reads as zeros there, which is a value like any other.

**`Loader`.** `load` names the field `make_disassembler()` reads next; `Field` is its offset
and size, computed modulo the width of the code's variables from what has been read before.
`Ask` starts the read, one `Got...` action per field goes on from its value, `Throw` is
every exception on the way to `Session::open()`'s catch. Fields next to each other that are
read in a row are one read of the bytes they cover. A section is its table entry and the
layout it was read by; what the entry says is `DecodeSweep`'s. A rewrite changes the file's
length and makes every value read later arbitrary, except that `0x3C`, which the code reads
twice, holds the same value both times.

**`X86Tables`.** A row is `[modRM, eats, group, default64, mandatory, named]`: whether a
ModRM byte follows, which operands eat bytes of their own, and what the lookups need.
Operands that eat nothing, names and register numbers only print. The tables are written
by ranges and sets of opcodes, in the order `build...()` fills them, with the last write
winning; the lookups follow the source statement by statement.

**`X86Decoder`.** `pc` is what `decodeLine()` reads next. The next byte is chosen when it is
read and held only as far as a later step looks at it. Before any byte the file may end
(`ReadFails`), and the sixteenth is never taken (`TooLong`). `last` is a history variable:
the byte before the next one while prefixes are read.

**`TuiPanes`** and **`AppView`.** A pane is a record (`dis`, `sym`, `reg`, `mem`) with the
binary's generation it was last built for. Handlers synchronise first where the code does
(`sync()`, `rebuild()`) and not where it does not. `Event` is one key or click, `Frame` one
`OnRender()`; any number of events may come between two frames. `Owner` is the order in
which `OnEvent()` hands a key on. `drawn` is `hits_`: what the last frame drew and a click may
hit; it is left empty for a user without a mouse. Viewports have a fixed height (the code's
first frame falls back to 20 rows). The dialog's fields are put back when it closes, since
`beginOpen()` sets them before anything reads them. Return on a symbol before the list
has been drawn again may index past its end (`symbols_pane.cpp:89`): any outcome, a crash
included. Where a go-to lands is any row.

## 3. Runs

| Run | Bounds | What it shows |
|---|---|---|
| `sweep` | 6-byte file, instructions of 1-3 bytes, 4-bit words, blocks of 2 rows, 7 section tables, 3 decoders | `PublishedBacked`, `PublishedFrozen`, `RowsTile`, `TablesStayUnlessWrapped`, `StopsPromptly`, `EmitsLatestRow`, `SweepEnds`, `KeepsContract` |
| `sweep_wrap` | the same, two sections of 8 bytes with 4-bit words | finding: the table moves under a reader |
| `session` | 3 opens, 2 rows each | `OneWorker`, `NoteIsFinal`, `PairsOwned`, `CompactAlone`, `JoinReturns`, `KeepsFeed` |
| `session_open_throws` | 2 opens, 1 row | finding: `open()` throws |
| `tui` | 3 opens, 2 rows each | `SettledShowsAll`, `SymbolsComplete`, `KeepsView`, `EventuallySettled` |
| `gui` | 2 opens, 2 rows each, 3 fallback rows | `RowsPublished`, `EditsCurrent`, `PollsWhileDecoding`, `PullShowsAll`, `ScanNotForgotten`, `PollingStops` |
| `gui_final_tick` | 1 open, 2 rows | finding: the last tick may miss rows |
| `load` | files of 0, 3, 40 or 136 bytes in 64-byte pages, 12-bit words and 9-bit double words, header values on and off the file and next to both word ends, 2 opens | `NeverKilled`, `ReadsInside`, `EntriesInOrder`, `LoadEnds` |
| `x86` | 27 opcode and prefix bytes, 8 ModRM bytes, both modes, every end of the file | `RexAdjacent`, `EscapeShape`, `RelativeToEnd`, `KeepsLine` |
| `x86_rel64` | the same | finding: CALL with REX.W |
| `x86_bare` | 8 bytes with the unnamed opcodes | finding: opcodes given a ModRM byte they do not have |
| `tui_input` | 18 users, windows of 2 rows, 0 or 3 rows, lists of 1 and 3 symbols, 2 binaries | `FrameIsSound`, and a `TypeOK` that says what is indexed unchecked exists |

Each module also has one type invariant, checked in its run. Distinct states: `load`
about 90,000, `x86` 2.7 million, `tui_input` 530,000; the others less.

*Why the bounds are enough.* Six bytes in blocks of two rows fill three blocks, so a row
is read from a block other than the one being filled and the table would grow twice if
it had not been reserved; the section tables hold a gap, an overlap, a size past the end
of the file, an end that wraps, a table nobody could allocate, sizes that add up to
zero, and no section at all. The section whose end wraps is never swept, by the code
either: its first offset is past its end. Three opens let a re-open interrupt a decode
that itself replaced one. Two rows are none, some and all, the three cases the front
ends tell apart; a published row more can happen between any two of their reads.
`FallbackRows` is larger than `MaxRows` so that raw bytes and rows cannot be confused by
their number.

For `load`, 136 bytes in three pages hold an ELF header, a table entry and the first 32
bytes of the next one: enough of it for a 32-bit ELF reader, too little for the others.
A truncation falls before, inside and after what is read next, and a section name runs
into the end of the file; the offsets include ones whose sum with an entry wraps in 64
bits and in 32. The worker reads one offset on a later page, which is enough to fault at
any moment of the loading. For `x86`, the bytes hold every prefix that changes a length,
every escape, and for each kind of row an opcode that has it in some map; the proofs
cover the rest of the 256. For `tui_input`, a window of two rows over three scrolls both
ways and three symbols have three headers between them; the second binary has no section
the memory pane could jump to. `Habits` bounds the inputs: each behaviour's user keeps
to one of 18 sets of keys and mouse actions, chosen so that inputs that touch the same
state occur together (opening, filtering and hiding the sidebar; the wheel and a menu;
the picker and the page keys). All keys at once are out of TLC's reach; the properties
of this run are proved for every set of habits (section 5), the one of all inputs
included.

*Fairness.* The worker is a thread and is scheduled (`WF(Worker)`): its every step is a
few instructions and it waits for nothing. A call the UI thread is inside of goes on,
once what it waits for has happened (`Launch` and `Closed` need the joined thread to have
ended). A frame or slot that has begun is finished, an event that waits is handled.
The ticker is a thread (`WF(PostEvent)`). The Qt timer has strong fairness,
`SF(Tick)`: opens and edits may keep coming and each is a slot of its own, but the
event loop delivers a timer that is due between two of them. Nothing makes the user
do anything. The user is not assumed to stop either: `EventuallySettled` and
`PollingStops` are of the form []<>, with opens bounded by `MaxOpens`. Loading is one thread
that waits for nothing (`WF(LoadStep)`, `WF(FileStep(Ui))`); nothing makes the other program
stop rewriting the file.

`SweepContract`, `LineContract`, `DecodeFeed`, `ProgressiveView`, `X86Decoder` and `AppView` are
safety specifications.

Deadlock is checked in the runs of the sweep, the Session and the front ends' refresh:
`Finished` and `Gone` are the states where the program has ended or has nothing left to do.
It is not in `load` (every open is over), the `x86` runs (a line ends) and `tui_input`
(quitting, or a crash).

## 4. Findings

1. **The size sum wraps** (`sweep_wrap`). `chunk_store.hpp:11-12` promises that nothing
   a reader can reach is reallocated; `disassembler.cpp:16-21` reserves for a sum that
   wraps for section tables with absurd sizes. `TablesStayUnlessWrapped` holds, and is
   proved, for all others.
2. **The final tick of the GUI** (`gui_final_tick`). `main_window.cpp:394-405` refreshes,
   then asks whether the decode is over. Rows published in between are not shown until
   the next open; with none shown before, the stub banner and the raw bytes stay up
   for a binary that did decode. The terminal reads the two in the other order and
   `SettledShowsAll` holds for it. A by-product: an edit made on a raw-byte row may
   have no row any more after the next refresh, which is why `EditsCurrent` does not
   speak of row numbers.
3. **`open()` may throw** (`session_open_throws`). `analysis_session.hpp:43-44` says it
   returns false; the second `determine_filetype()` (`analysis_session.cpp:23-24`) is
   outside the try block.
4. **CALL and JMP with REX.W** (`x86_rel64`). `x86_64_tables.cpp:1342-1343` says that only
   MOV's immediate widens to eight bytes. `x86_64_tables.cpp:351-352` give CALL and JMP rel32
   size v, and `x86_64_decoder.cpp:174` takes eight bytes for it under REX.W. The processor
   takes four, so the sweep is out of step after a `48 E8` or `48 E9`.
5. **Unnamed opcodes without a ModRM** (`x86_bare`). `x86_64_tables.cpp:831-835` says the
   two-byte opcodes that have none are all named. CLTS, INVD, WBINVD, WRMSR, RDMSR, RDPMC,
   GETSEC, PUSH and POP of FS and GS and RSM are not, and each takes one byte or more of the
   instruction after it. Which opcodes have no ModRM on the processor is the one list
   (`CpuBareTwoByte`) that does not come from the repository.

## 5. Proofs

All theorems hold for every value of the constants under the named assumptions of the
modules: `ChunkSizeAssumption` and `SweepAssumption` (positive block, word and instruction
sizes, a file that fits the word, section tables of words), `SessionAssumption`,
`FeedAssumption`, `FallbackAssumption` (bounds are numbers), `MappedAssumption` and
`LoaderAssumption` (two threads, words at least as wide as what is read, a file far from the
end of the address word, as an `off_t` makes it), `X86Assumption` (bytes are bytes),
`PanesAssumption` and `AppAssumption` (a pane has at least one row, there is a binary to open,
a category of registers has rows, lists hold what their parsers put in them).

**`ChunkStore_proofs`.** `PushBackAppends`: `push_back()` puts its element at the old
size and changes nothing below it. `ReservedIsEnough`: a table reserved for n elements
does not move while there are at most n. Both rest on a handful of facts about
quotients and remainders (`DivMod`, `NextSlot`, `DivMonotone`).

**`DecodeSweep_proofs`.** The inductive invariant is
`IInv == TypeOK /\ StoresHold /\ CountsAgree /\ SectionOpen /\ WithinBudget`. `TypeOK`
alone is not inductive: that a row can be read needs `StoresHold` (every index below a
store's size is written), that a reader stays below it needs `CountsAgree` (the three
counts, statement by statement), and that the table suffices needs `WithinBudget`:
unless a sum wrapped, the rows stored are at most the bytes swept, and those at most the
size reserved for. The last needs `SectionOpen` (the offset is in the section, also when
its end wrapped). From it: `SweepTypeCorrect`, `ReaderIsBacked`, `TablesNeverMove`,
`RowsNeverChange`, `StopIsPrompt`, and the refinement `SweepKeepsContract`.
`SweepEmitsLatest` adds `EmitInv`: inside the line under way the row just decoded is the
only one not emitted. `RowsAlwaysTile` adds `TileInv`, in two parts. `LineInv`: inside a
section's loop the address is the section's plus the distance swept (adding it up length
by length wraps as adding it at once does, `WrapTwice`), and the line under way ends
where the next will start, also across the statement that appends the row without its
address. `TilesBy(of)`, for some `of` that gives every row its section: no row is of a
later section than the one being swept, and the offset opens that section or abuts its
last row. Only an address pushed changes `of`, by one row. `SweepRunsDown` is what
`SweepEnds` rests on: `StepsLeft` is zero when the sweep is over, every step of the
worker lowers it and no other step changes it. It counts the sections still to come, and
in one of them the distance to the end of the word, because the offset only grows inside
a section; a line without progress leaves the section.

**`AsyncSession_proofs`.** `IInv == TypeOK /\ OneAfterAnother /\ StateFollows /\ Holds /\
RefsCounted /\ CompactAlone`: every generation but the last has ended, the DecodeState
follows from where the worker is, `binary` from where `open()` is, and `refs` counts
exactly the Session, `open()`'s locals and the worker. `refs \in Nat` already needs
`RefsCounted`. From it: one theorem per invariant of the run, and the refinement
`SessionKeepsFeed`, which is what entitles the front ends' models to `DecodeFeed`.

**`Loader_proofs`** is about `Loader` and the `MappedFile` under it. `NeverKilled` is not
inductive: a fault is survived because a target is armed exactly while a read is in its
copy (`JumpMatchesRead`), the handler is installed before any mapping exists
(`HandlerFirst`, `ReadersMapped`) and a jump out of it leaves nothing blocked (`Unblocked`).
`IInv` is these with `ReadsInside`, and `LoadInv` for the readers (between loads nothing is
read, the entry index stays below the count). From it `TruncationNeverKills`,
`ReadsStayInside`, `JumpTargetsLive`, `LoaderTypeCorrect`. `SectionsComeFromTheFile` adds
`AskInv` (what was read is the field the loader stands at, and it was in bounds) and
`TableInv`: the arithmetic `table + entrySize * index` has not wrapped up to the entry under
way, since the fields of the entry before it were inside the file and one entry is too short
to wrap; what is kept of an entry is kept after its last field was read.
`LoadRunsDown` is what `LoadEnds` rests on: `LoadLeft` counts the reads a load may still need,
so many per entry, and the steps of the read under way. An entry's reads are bounded because a
character of a name that was read was inside the file (`AskInv`), and the file's size is the
one it was mapped with, however often it is rewritten.

**`X86Decoder_proofs`** first proves the lookups: whatever opcode, ModRM byte and prefix
column, each map's resolved row is a table row, and the rows of the escaped maps eat what
their escape says (`OneByteRows`, `TwoByteRows`, `ThreeByteRows`, `VexRows`, `ThreeDNowRows`,
`ResolvedRows`). `IInv == Typed /\ PlaceInv /\ RowInv /\ TailInv /\ RexAdjacent`: what is known at
each place, that the row is its map's, and what the operands have eaten so far (a relative
one is the only one). From it: `DecoderTypeCorrect`, `RexIsAdjacent`, `EscapesKeepTheirLength`,
`TargetsCountFromTheEnd`, and the refinement `DecoderKeepsItsContract`, which is what entitles
`DecodeSweep` to its decoder. All of them hold for all 256 bytes everywhere, where the run
tries a few.

**`TuiView_proofs`.** `IInv == TypeOK /\ GensFollow /\ FrameNeeded /\ DoneIsFinal /\
SymbolsComplete`. `FrameNeeded`: a frame refreshes only a view that has not
settled, and one that has settled has no worker. `DoneIsFinal` is the argument of the code's
comment (`session.cpp:89-91`): once a frame has seen the worker stopped, what it reads after
that is final. From it: one theorem per invariant and the refinement `RowsAreNeverTakenBack`.

**`GuiView_proofs`.** `IInv == TypeOK /\ SlotInv /\ PollInv /\ RowInv /\ EditsCurrent /\
PullShowsAll`: what slot the UI thread is in and what it found, that a decode is polled from
the moment `openPath()` has looked, and that the model's rows are the session's. From it: one
theorem per invariant of the run. `FinalTickShowsAll`, the finding, is what cannot be added.

**`AppView_proofs`** is about `AppView`, `TuiPanes` and `RowList`. The row arithmetic first, for
every list, window and cursor: `moveRows()` stays on the list (`MoveStaysOnList`), `follow()`
puts the cursor on a row in a window in the list (`FollowShowsCursor`) and leaves a window alone
that already shows it (`FollowKeepsWindow`). `TypeOK` (what is indexed unchecked exists) is not
inductive, and `FrameIsSound` needs more than types. In
`IInv == ShellOK /\ MenuOK /\ DialogOK /\ session \in SessionType /\ DisOK /\ SymOK /\ RegOK /\ MemOK`:

- no pane has seen a generation later than the session's. Without it a cursor of a longer
  binary could be taken for one of the binary that is loaded (`DisOK`, `ListOK`);
- a symbol list of this generation either will be rebuilt when the scan ends, or is what its
  filter makes of the symbols there are (`ListOK`): the list is not compared with the
  session's symbols in every frame, only flags and generations are;
- a list that is not empty has an entry for the cursor to rest on (`HasEntry`), so the search
  past a header, which goes one way and then the other, ends on one (`NearestIsEntry`);
- the cursor of the registers is below the rows the open categories fill (`RegOK`), and a
  header keeps its row when its own category opens or closes (`TogglingKeepsRow`): only rows
  after it come and go;
- nothing but a loaded binary is searched, filtered or edited (`ShellOK`, `SymOK`, `MemOK`); a
  menu and the dialog are never open together (`DialogOK`).

`StepKeeps` has one lemma per handler under it. From it: `ScreenInvariant`, `ScreenTypeCorrect`,
`FramesAreSound`, and `RebuiltIsBuilt`, that `rebuild()` leaves a list of its generation and
filter with the cursor on no header. Some of this is about lists of any length: where the
entries are that `SelectSeq` keeps, and which row of `FlattenSeq` is which. `LeastOf`,
`GreatestOf` and `InductionOn` are induction stated for a set of numbers instead of a
predicate, which the provers can apply; `FlattenJoins` is the one that says what the
recursive fold computes.

**Only model-checked.** The five liveness properties (`SweepEnds`, `JoinReturns`,
`EventuallySettled`, `PollingStops`, `LoadEnds`): the prover has no ENABLED. Of `SweepEnds` and
`LoadEnds` it is proved that the thread cannot go on forever (`SweepRunsDown`, `LoadRunsDown`);
that it always has a next step, and so with fairness takes it, is TLC's part. Every other
property of a passing run is stated by a theorem. What the findings refute is refuted by
TLC alone.

## 6. Plan

| Module | Subject | Properties, abstract specification | Theorems |
|---|---|---|---|
| `ChunkStore`, `DecodeSweep`, `SweepContract` | sweep and reader | done | done |
| `AsyncSession`, `DecodeFeed` | Session and worker | done | done |
| `TuiView`, `ProgressiveView` | terminal front end, refresh | done | done |
| `GuiView` | Qt front end | done | done |
| `MappedFile`, `Loader` | the mapped file, detection and readers | done | done |
| `X86Tables`, `X86Decoder`, `LineContract` | the decoder | done | done |
| `RowList`, `TuiPanes`, `AppView` | the terminal's screen | done | done |
| `Navigation` | `navigateTo()`, `rowIndexFor()`: binary search over runs of rows | the row found is the last one at or below the address, for row lists of sections that do not overlap | loop invariant of the search |

## 7. Not modelled

Names and text of instructions (constant data that the repository compares with objdump),
colours, layout, icons, settings, the AI chat (a stub), registers and stack (nothing
executes), the GUI's filters and menus (Qt's state, not the program's), the legacy GUI (not
built), the Windows branch of `AddressSpace`. The command line is one thread that keeps
no state: it decodes to the end and prints, or dumps a range; its counter of emitted
rows is in `DecodeSweep`. The search behind "go to" changes nothing but the selected row.
Memory ordering is taken as the acquire and release pairs the code uses: a count or flag
that is read makes everything written before it visible, and everything else the reader
touches is written before that. Reading `stop_requested()` is one atomic step.
