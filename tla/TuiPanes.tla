------------------------------ MODULE TuiPanes ------------------------------
(***************************************************************************)
(* The terminal's disassembly, symbols, registers and memory panes         *)
(* (tui/panes): what each keeps between two calls, and what a key, a click *)
(* and a frame make of it.  A pane caches what it took from the session    *)
(* and finds out at the start of its next call that another binary has     *)
(* been opened.                                                            *)
(*                                                                         *)
(* Each handler is an operator from the pane's record to its new record;   *)
(* AppView calls them.  Rows, symbols and sections are numbers and kinds:  *)
(* text, colours and layout are left out.  A viewport has Height rows.     *)
(***************************************************************************)
EXTENDS RowList, Sequences, SequencesExt

CONSTANTS
    Height,          \* vp_.rows()
    MaxRows,         \* bound: rows of a disassembly
    FileRows,        \* rows of the memory pane
    SymbolLists,     \* the symbol lists a scan may find
    SectionTables,   \* per binary, the memory row each of its sections starts in
    CategoryRows     \* per category of registers, the rows it opens into

ASSUME PanesAssumption ==
    /\ Height \in Nat \ {0}
    /\ MaxRows \in Nat
    /\ FileRows \in Nat \ {0}
    /\ SymbolLists \subseteq Seq({"function", "import", "string"})
    /\ SectionTables \in Seq(Seq(Nat)) \ {<<>>}
    /\ CategoryRows \in Seq(Nat \ {0}) \ {<<>>}

VARIABLES
    session,   \* what the panes read of the tui::Session
    dis,       \* DisassemblyPane
    sym,       \* SymbolsPane
    reg,       \* RegistersPane
    mem        \* MemoryPane

panes   == <<dis, sym, reg, mem>>

\* No generation has been seen yet (~0ull).
NotBuilt == -1

Generations == NotBuilt .. Len(SectionTables)

SessionType ==
    [gen : 0 .. Len(SectionTables),  \* decodeGeneration(), 0 while nothing is loaded
     rows : 0 .. MaxRows,            \* rowCount()
     scanning : BOOLEAN,             \* scanningSymbols()
     symbols : SymbolLists \union {<<>>}]

gen  == session.gen
rows == session.rows

Loaded == gen > 0

(***************************************************************************)
(* DisassemblyPane.                                                        *)
(***************************************************************************)
DisType == [gen : Generations, cursor : 0 .. MaxRows, top : 0 .. MaxRows]

DisInit == [gen |-> NotBuilt, cursor |-> 0, top |-> 0]

\* now: the session as the call finds it.
DisSynced(d, now) == IF d.gen = now.gen THEN d ELSE [gen |-> now.gen, cursor |-> 0, top |-> 0]

DisClamped(d, now) ==
    [d EXCEPT !.cursor = FollowCursor(d.cursor, now.rows),
              !.top = FollowTop(d.cursor, d.top, now.rows, Height)]

\* navigateTo(): rowIndexFor() finds row, which is then centred.
NavigatedTo(d, row) ==
    LET centred == [gen |-> gen, cursor |-> row,
                    top |-> IF row > Height \div 2 THEN row - Height \div 2 ELSE 0]
    IN  IF rows = 0 THEN DisSynced(d, session) ELSE DisClamped(centred, session)

DisKey(d, key) ==
    LET synced == DisSynced(d, session)
        moved  == [synced EXCEPT !.cursor = MoveRows(key, synced.cursor, rows, Height)]
    IN  IF key \in RowKeys /\ rows > 0 THEN DisClamped(moved, session) ELSE synced

\* render()
DisDrawn(d, now) == DisClamped(DisSynced(d, now), now)

\* A click on screen line y of the pane.
DisClick(d, y) ==
    LET synced == DisSynced(d, session)
        row    == synced.top + y
    IN  IF row < rows THEN [synced EXCEPT !.cursor = row] ELSE synced

(***************************************************************************)
(* SymbolsPane.  A filter keeps the functions and drops the rest, so that  *)
(* it changes the list.                                                    *)
(***************************************************************************)
Filters == {"", "f"}

SymType ==
    [items : Seq({"group", "function", "import", "string"}),
     cursor : Nat, top : Nat,
     filtering : BOOLEAN, filter : Filters,
     gen : Generations, builtFilter : Filters, scanning : BOOLEAN]

SymInit ==
    [items |-> <<>>, cursor |-> 0, top |-> 0, filtering |-> FALSE, filter |-> "",
     gen |-> NotBuilt, builtFilter |-> "", scanning |-> FALSE]

\* One group: a header and its symbols, which are all of its kind, or nothing.
Bucket(kind, filter, now) ==
    LET matches == {i \in DOMAIN now.symbols :
                        now.symbols[i] = kind /\ (filter = "" \/ kind = "function")}
    IN  IF matches = {} THEN <<>>
        ELSE <<"group">> \o [i \in 1 .. Cardinality(matches) |-> kind]

Items(filter, now) ==
    Bucket("function", filter, now) \o Bucket("import", filter, now)
        \o Bucket("string", filter, now)

\* The item nearest to `from` in direction d that is no header, if there is one.
Nearest(items, from, d) ==
    LET ahead == {i \in 0 .. Len(items) - 1 : d * i > d * from /\ items[i + 1] # "group"}
    IN  {i \in ahead : \A j \in ahead : d * i <= d * j}

\* moveCursor(): past the headers; off the end it stays, unless it is on a header.
MovedCursor(items, cursor, d) ==
    LET from == IF cursor >= Len(items) THEN Len(items) - 1 ELSE cursor
        other == IF items[from + 1] = "group" THEN Nearest(items, from, -d) ELSE {}
    IN  CASE Nearest(items, from, d) # {} -> CHOOSE i \in Nearest(items, from, d) : TRUE
          [] Nearest(items, from, d) = {} /\ other # {} -> CHOOSE i \in other : TRUE
          [] OTHER -> from

Moved(s, d) ==
    IF s.items = <<>> THEN s ELSE [s EXCEPT !.cursor = MovedCursor(s.items, s.cursor, d)]

OnHeader(s) ==
    s.items # <<>> /\ s.items[FollowCursor(s.cursor, Len(s.items)) + 1] = "group"

\* rebuild() has nothing to do.
Built(s, now) ==
    s.gen = now.gen /\ s.builtFilter = s.filter /\ s.scanning = now.scanning

\* The new list.  One that is scanned for anew keeps its cursor: the scan empties the items
\* and, when it ends, rebuild() finds the generation and the filter it left.
Listed(s, now) ==
    LET sameList == s.gen = now.gen /\ s.builtFilter = s.filter
        reset    == ~now.scanning /\ ~sameList
    IN  [s EXCEPT
            !.items = IF now.scanning THEN <<>> ELSE Items(s.filter, now),
            !.cursor = IF reset THEN 0 ELSE s.cursor,
            !.top = IF reset THEN 0 ELSE s.top,
            !.gen = now.gen, !.builtFilter = s.filter, !.scanning = now.scanning]

\* Mutant: the cursor stays on a header the new list puts under it.
RebuiltOnHeader(s, now) == IF Built(s, now) THEN s ELSE Listed(s, now)

\* rebuild()
Rebuilt(s, now) ==
    LET listed == Listed(s, now)
    IN  CASE Built(s, now)                        -> s
          [] ~Built(s, now) /\ OnHeader(listed)  -> Moved(listed, 1)
          [] ~Built(s, now) /\ ~OnHeader(listed) -> listed

\* A key of the open filter; typed text is any character.
FilterKey(s, key) ==
    CASE key = "Escape"            -> [s EXCEPT !.filtering = FALSE, !.filter = ""]
      [] key \in {"Return", "Down"} -> [s EXCEPT !.filtering = FALSE]
      [] key = "Backspace"         -> [s EXCEPT !.filter = ""]
      [] key = "x"                 -> [s EXCEPT !.filter = "f"]
      [] OTHER                     -> s

\* Pages of the list are left out: they repeat Up and Down.
ListKey(s, key) ==
    CASE s.items = <<>> -> s
      [] s.items # <<>> /\ key = "Up"   -> Moved(s, -1)
      [] s.items # <<>> /\ key = "Down" -> Moved(s, 1)
      [] s.items # <<>> /\ key = "Home" -> Moved([s EXCEPT !.cursor = 0], 1)
      [] s.items # <<>> /\ key = "End"  ->
             LET end == [s EXCEPT !.cursor = Len(s.items) - 1]
             IN  IF OnHeader(end) THEN Moved(end, -1) ELSE end
      [] OTHER -> s

SymKey(s, key) ==
    IF s.filtering THEN FilterKey(Rebuilt(s, session), key)
                   ELSE ListKey(Rebuilt(s, session), key)

\* What Return finds at the cursor.  Past the end of the list the read is undefined: the
\* remains of an item of an earlier list, or a crash.
Activates(s) ==
    CASE s.items = <<>>               -> {"group"}
      [] s.cursor \in 0 .. Len(s.items) - 1 -> {s.items[s.cursor + 1]}
      [] OTHER                        -> {"group", "function", "string", "crash"}

\* A click on a row selects it; on the row already selected it activates it.
Selectable(s, row) == row < Len(s.items) /\ s.items[row + 1] # "group"

SymFollowed(s) ==
    [s EXCEPT !.cursor = FollowCursor(s.cursor, Len(s.items)),
              !.top = FollowTop(s.cursor, s.top, Len(s.items), Height)]

\* render(): the window follows the cursor unless a scan is under way.
SymDrawn(s, now) ==
    IF now.scanning THEN Rebuilt(s, now) ELSE SymFollowed(Rebuilt(s, now))

(***************************************************************************)
(* RegistersPane: category headers, each followed by its registers while   *)
(* it is open.                                                             *)
(***************************************************************************)
Categories == DOMAIN CategoryRows

\* build(): a category's number is its header, 0 a register.
RegRows(open) ==
    FlattenSeq([c \in Categories |->
        <<c>> \o IF c \in open THEN [i \in 1 .. CategoryRows[c] |-> 0] ELSE <<>>])

\* total_ is what build() last returned.
RegTotal(r) == Len(RegRows(r.open))

Toggled(set, x) == IF x \in set THEN set \ {x} ELSE set \union {x}

\* Left on a register goes up to its header.
RegKey(r, key) ==
    LET listed  == RegRows(r.open)
        at      == listed[r.cursor + 1]
        headers == {i \in 0 .. r.cursor : listed[i + 1] # 0}
    IN  CASE key \in RowKeys ->
                 [r EXCEPT !.cursor = MoveRows(key, r.cursor, Len(listed), Height)]
          [] at # 0 /\ key \in {"Return", "Space"} -> [r EXCEPT !.open = Toggled(r.open, at)]
          [] at # 0 /\ key = "Right"               -> [r EXCEPT !.open = r.open \union {at}]
          [] at # 0 /\ key = "Left"                -> [r EXCEPT !.open = r.open \ {at}]
          [] at = 0 /\ key = "Left"                ->
                 [r EXCEPT !.cursor = CHOOSE i \in headers : \A j \in headers : j <= i]
          [] OTHER                                 -> r

RegClick(r, y) ==
    LET row == r.top + y
    IN  CASE row >= RegTotal(r)         -> r
          [] row < RegTotal(r) /\ RegRows(r.open)[row + 1] = 0 -> [r EXCEPT !.cursor = row]
          [] row < RegTotal(r) /\ RegRows(r.open)[row + 1] # 0 ->
                 [r EXCEPT !.cursor = row, !.open = Toggled(r.open, RegRows(r.open)[row + 1])]

RegDrawn(r) ==
    [r EXCEPT !.cursor = FollowCursor(r.cursor, RegTotal(r)),
              !.top = FollowTop(r.cursor, r.top, RegTotal(r), Height)]

(***************************************************************************)
(* MemoryPane.                                                             *)
(***************************************************************************)
Stops == {"Section", "Offset", "Rows"}

MemType ==
    [gen : Generations, chosen : Nat \union {-1}, picking : BOOLEAN, pick : Nat, pickTop : Nat,
     editing : BOOLEAN, at : Stops, cursor : 0 .. FileRows, top : 0 .. FileRows]

MemInit ==
    [gen |-> NotBuilt, chosen |-> -1, picking |-> FALSE, pick |-> 0, pickTop |-> 0,
     editing |-> FALSE, at |-> "Rows", cursor |-> 0, top |-> 0]

\* sections_: taken from the session by the last sync().
SectionsOf(m) == IF m.gen > 0 THEN SectionTables[m.gen] ELSE <<>>

TotalRows == IF Loaded THEN FileRows ELSE 0

MemSynced(m) ==
    IF m.gen = gen THEN m
    ELSE [MemInit EXCEPT !.gen = gen, !.pick = m.pick, !.pickTop = m.pickTop]

\* gotoOffset(): the row is put at the top.
GotoRow(m, row) ==
    LET at == IF row < TotalRows THEN row ELSE TotalRows - 1
    IN  IF TotalRows = 0 THEN MemSynced(m)
        ELSE [MemSynced(m) EXCEPT !.cursor = at, !.top = at]

PickKey(m, key) ==
    CASE key = "Escape" -> [m EXCEPT !.picking = FALSE]
      [] key = "Up"     -> [m EXCEPT !.pick = IF m.pick > 0 THEN m.pick - 1 ELSE 0]
      [] key = "Down"   -> [m EXCEPT !.pick = IF m.pick + 1 < Len(SectionsOf(m)) THEN m.pick + 1
                                                                               ELSE m.pick]
      [] key = "Return" -> GotoRow([m EXCEPT !.chosen = m.pick, !.picking = FALSE],
                                   SectionsOf(m)[m.pick + 1])
      [] OTHER          -> m

\* Return ends the field; the text it holds is an offset in some row, or not hex (row -1).
OffsetKey(m, key, row) ==
    CASE key = "Escape" -> [m EXCEPT !.editing = FALSE]
      [] key = "Return" -> IF row >= 0 THEN GotoRow([m EXCEPT !.editing = FALSE], row)
                                       ELSE [m EXCEPT !.editing = FALSE]
      [] OTHER          -> m

OpenPicker(m) ==
    IF SectionsOf(m) = <<>> THEN m
    ELSE [m EXCEPT !.at = "Section", !.picking = TRUE,
                   !.pick = IF m.chosen >= 0 THEN m.chosen ELSE 0]

OpenOffset(m) == [m EXCEPT !.at = "Offset", !.editing = TRUE]

MovedRows(m, key) ==
    LET cursor == MoveRows(key, m.cursor, TotalRows, Height)
    IN  [m EXCEPT !.at = "Rows",
                  !.cursor = FollowCursor(cursor, TotalRows),
                  !.top = FollowTop(cursor, m.top, TotalRows, Height)]

\* On a field, Return and space open it, Left and Right swap fields, Down leaves for the rows.
StopKey(m, key) ==
    LET onField == m.at # "Rows"
        other   == IF m.at = "Section" THEN "Offset" ELSE "Section"
        opens   == onField /\ key \in {"Return", "Space"}
    IN  CASE (opens /\ m.at = "Section") \/ key = "s"    -> OpenPicker(m)
          [] (opens /\ m.at = "Offset") \/ key = "f"     -> OpenOffset(m)
          [] onField /\ key \in {"Left", "Right"}        -> [m EXCEPT !.at = other]
          [] onField /\ key = "Down"                     -> [m EXCEPT !.at = "Rows"]
          [] key \in RowKeys /\ ~(onField /\ key = "Down") -> MovedRows(m, key)
          [] OTHER                                       -> m

\* row: see OffsetKey.
MemKey(m, key, row) ==
    LET synced == MemSynced(m)
    IN  CASE synced.picking                        -> PickKey(synced, key)
          [] ~synced.picking /\ synced.editing     -> OffsetKey(synced, key, row)
          [] ~synced.picking /\ ~synced.editing    -> IF Loaded THEN StopKey(synced, key)
                                                                ELSE synced

\* A click on the section field, the offset field, or line y of the rows.
MemClickSection(m) ==
    LET field == [MemSynced(m) EXCEPT !.editing = FALSE, !.at = "Section"]
    IN  IF field.picking THEN [field EXCEPT !.picking = FALSE] ELSE OpenPicker(field)

MemClickOffset(m) == OpenOffset([MemSynced(m) EXCEPT !.picking = FALSE])

MemClickRow(m, y) ==
    LET m1  == [MemSynced(m) EXCEPT !.editing = FALSE]
        row == y + IF m1.picking THEN m1.pickTop ELSE m1.top
    IN  CASE m1.picking /\ row < Len(SectionsOf(m1)) -> PickKey([m1 EXCEPT !.pick = row], "Return")
          [] ~m1.picking /\ row < TotalRows -> [m1 EXCEPT !.at = "Rows", !.cursor = row]
          [] OTHER -> m1

\* tab(): one stop on, or out of the pane.
StopAfter(m, d) ==
    CASE m.at = "Section" /\ d = 1 -> {"Offset"}
      [] m.at = "Offset"           -> IF d = 1 THEN {"Rows"} ELSE {"Section"}
      [] m.at = "Rows" /\ d = -1   -> {"Offset"}
      [] OTHER                     -> {}

MemEntered(m, d) == [m EXCEPT !.at = IF d > 0 THEN "Section" ELSE "Rows"]

\* render(): the section list and the hexdump scroll on their own.
MemDrawn(m) ==
    LET s == MemSynced(m)
        n == Len(SectionsOf(s))
    IN  IF s.picking
        THEN [s EXCEPT !.pick = FollowCursor(s.pick, n),
                       !.pickTop = FollowTop(s.pick, s.pickTop, n, Height)]
        ELSE IF Loaded
        THEN [s EXCEPT !.cursor = FollowCursor(s.cursor, TotalRows),
                       !.top = FollowTop(s.cursor, s.top, TotalRows, Height)]
        ELSE s
=============================================================================
