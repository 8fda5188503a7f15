------------------------------- MODULE AppView -------------------------------
(***************************************************************************)
(* The terminal's whole screen as one component (tui/ui.cpp, AppView):     *)
(* which of the dialog, the menus, the goto field, a pane that captures    *)
(* text, the shortcuts and the focused pane an event reaches, what it does *)
(* there, and what a frame makes of the result.                            *)
(*                                                                         *)
(* FTXUI handles every event that has arrived before it draws the next     *)
(* frame, so a key may act on a pane that an earlier key of the same batch *)
(* has hidden, and a click on what the last frame drew, not on what there  *)
(* is now.  Commands that only set the status line are "status".           *)
(***************************************************************************)
EXTENDS TuiPanes

CONSTANTS
    CompletionLists,  \* what refreshCompletions() may find in a directory
    RowCounts,        \* bound: the numbers of rows a frame may find
    Habits            \* bound: the inputs one user keeps to

ASSUME AppAssumption ==
    /\ CompletionLists \subseteq Seq({"dir", "file"})
    /\ RowCounts \subseteq 0 .. MaxRows
    /\ Habits \subseteq SUBSET STRING

VARIABLES
    running,     \* until ExitLoopClosure()
    user,        \* the habit of this behaviour's user
    focus,       \* focus_
    tab,         \* tab_
    shown,       \* sidebarOn_, regsOn_, stackOn_, memoryOn_
    menu,        \* menuOpen_ + 1
    barSel,      \* barSel_ + 1
    menuSel,     \* menuSel_ + 1
    toolSel,     \* toolSel_ + 1
    gotoActive,  \* gotoActive_
    dialog,      \* showOpen_, openPath_, comps_, compSel_
    drawn        \* hits_: what the last frame drew

menus  == <<menu, barSel, menuSel>>
vars   == <<running, user, focus, tab, shown, menus, toolSel, gotoActive, dialog, drawn,
            session, panes>>

PaneFocus == {"Symbols", "Disassembly", "Right", "Memory"}
Docks     == {"sidebar", "regs", "stack", "memory"}

\* Menus by their items' commands; "-" is a separator.
Menus ==
    << <<"open", "-", "quit">>,
       <<"status", "status", "status", "status", "status", "status">>,
       <<"disabled">>,
       <<"sidebar", "-", "regs", "stack", "memory">>,
       <<"status">> >>

\* Toolbar buttons by their commands; Recompile has none.
Tools ==
    <<"sidebar", "open", "status", "status", "status", "status", "status", "status",
      "disabled", "goto", "status">>

\* What is typed names nothing, a file that can be opened, or anything else.
Paths == {"", "file", "other"}

NoDialog == [open |-> FALSE, path |-> "", comps |-> <<>>, sel |-> 0]

Dialogs(path) == {[open |-> TRUE, path |-> path, comps |-> c, sel |-> 0] : c \in CompletionLists}

\* onDecodeStarted() drops what was shown of an earlier binary.
Fresh(g) == [gen |-> g, rows |-> 0, scanning |-> g > 0, symbols |-> <<>>]

Init ==
    /\ running = TRUE
    /\ user \in Habits
    /\ focus = "Disassembly" /\ tab = "regs"
    /\ shown = Docks
    /\ menu = 0 /\ barSel = 1 /\ menuSel = 1 /\ toolSel = 2
    /\ gotoActive = FALSE
    /\ dialog = NoDialog
    /\ drawn = {}
    \* A file named on the command line is decoding when the screen starts.
    /\ session \in {Fresh(0), Fresh(1)}
    /\ dis = DisInit /\ sym = SymInit /\ mem = MemInit
    /\ reg = [open |-> Categories, cursor |-> 0, top |-> 0]

(***************************************************************************)
(* Focus.                                                                  *)
(***************************************************************************)
Visible(f) ==
    CASE f = "Symbols" -> Loaded /\ "sidebar" \in shown
      [] f = "Right"   -> shown \intersect {"regs", "stack"} # {}
      [] f = "Memory"  -> "memory" \in shown
      [] OTHER         -> TRUE

\* The parts of the screen Tab goes through.
FocusOrder ==
    LET part(f) == IF Visible(f) THEN <<f>> ELSE <<>>
    IN  <<"MenuBar", "Toolbar">> \o part("Symbols") \o <<"Disassembly">> \o part("Right")
            \o part("Memory")

ValidFocus(f) == IF Visible(f) THEN f ELSE "Disassembly"

\* The tab of a dock that is switched off gives way to the other one.
ValidTab(t) ==
    LET other == IF t = "regs" THEN "stack" ELSE "regs"
    IN  IF t \notin shown /\ other \in shown THEN other ELSE t

Capturing ==
    \/ focus = "Symbols" /\ sym.filtering
    \/ focus = "Memory" /\ (mem.picking \/ mem.editing)

\* Who a key goes to, in OnEvent()'s order.
Owner ==
    CASE dialog.open -> "dialog"
      [] ~dialog.open /\ menu > 0 -> "menu"
      [] ~dialog.open /\ menu = 0 /\ gotoActive -> "goto"
      [] ~dialog.open /\ menu = 0 /\ ~gotoActive /\ Capturing -> "pane"
      [] OTHER -> "none"

\* The next entry of a list in direction d that is not skipped, round the end.
NextEntry(list, i, d, skipped) ==
    LET at(k) == ((i - 1 + d * k) % Len(list)) + 1
        k == CHOOSE n \in 1 .. Len(list) :
                 /\ list[at(n)] # skipped
                 /\ \A m \in 1 .. n - 1 : list[at(m)] = skipped
    IN  at(k)

(***************************************************************************)
(* Commands: what a menu item, a button or a shortcut runs.                *)
(***************************************************************************)
BeginOpen(path) == dialog' \in Dialogs(path)

NoCommand == UNCHANGED <<running, shown, gotoActive, dialog>>

\* typing: gotoActive_ as the command finds it.
Command(c, typing) ==
    /\ running' = (c # "quit")
    /\ shown' = IF c \in Docks THEN Toggled(shown, c) ELSE shown
    /\ gotoActive' = (typing \/ (c = "goto" /\ Loaded))
    /\ IF c = "open" THEN BeginOpen("") ELSE UNCHANGED dialog

FirstItem(items) ==
    CHOOSE i \in DOMAIN items : items[i] # "-" /\ \A j \in 1 .. i - 1 : items[j] = "-"

OpenMenu(i) ==
    /\ menu' = i /\ barSel' = i
    /\ menuSel' = FirstItem(Menus[i])

CloseMenu == menu' = 0 /\ UNCHANGED <<barSel, menuSel>>

(***************************************************************************)
(* The open dialog.  Its fields are put back when it closes: beginOpen()   *)
(* sets them before anything reads them.                                   *)
(***************************************************************************)
Close == dialog' = NoDialog /\ UNCHANGED <<focus, session>>

Refresh(path) == dialog' \in Dialogs(path) /\ UNCHANGED <<focus, session>>

Select(i) == dialog' = [dialog EXCEPT !.sel = i] /\ UNCHANGED <<focus, session>>

NothingOpens == UNCHANGED <<dialog, focus, session>>

\* open() succeeds and a decode starts.
Opened ==
    /\ gen < Len(SectionTables)
    /\ session' = Fresh(gen + 1)
    /\ dialog' = NoDialog
    /\ focus' = "Disassembly"

Completion == dialog.comps[dialog.sel + 1]

PathOf(completion) == IF completion = "file" THEN "file" ELSE "other"

\* What is typed is opened if it is a file, else the completion is taken.
SubmitOpen ==
    LET takes(c) == dialog.path # "file" /\ dialog.comps # <<>> /\ Completion = c
    IN  \/ takes("dir") /\ Refresh("other")
        \/ (dialog.path = "file" \/ takes("file")) /\ Opened
        \/ ~takes("dir") /\ NothingOpens

DialogKey(k) ==
    /\ Owner = "dialog"
    /\ \/ k = "Escape" /\ Close
       \/ k = "Return" /\ SubmitOpen
       \/ k = "Tab" /\ IF dialog.comps = <<>> THEN NothingOpens ELSE Refresh(PathOf(Completion))
       \/ k = "Up" /\ dialog.sel > 0 /\ Select(dialog.sel - 1)
       \/ k = "Down" /\ dialog.sel + 1 < Len(dialog.comps) /\ Select(dialog.sel + 1)
       \/ k = "CtrlT" /\ Refresh(dialog.path)
       \/ k = "x" /\ \E p \in Paths : Refresh(p)
    /\ UNCHANGED <<running, tab, shown, menus, toolSel, gotoActive, panes>>

\* The wheel moves the selection; a click on the selected entry opens it.
DialogClicks ==
    \/ dialog.sel > 0 /\ Select(dialog.sel - 1)
    \/ dialog.sel + 1 < Len(dialog.comps) /\ Select(dialog.sel + 1)
    \/ /\ "dialog" \in drawn
       /\ \/ \E i \in (0 .. Len(dialog.comps) - 1) \ {dialog.sel} : Select(i)
          \/ /\ dialog.comps # <<>>
             /\ \/ Refresh(PathOf(Completion))
                \/ Completion = "file" /\ Opened
          \/ SubmitOpen
          \/ Close
          \/ Refresh(dialog.path)

MouseDialog ==
    /\ dialog.open
    /\ DialogClicks
    /\ UNCHANGED <<running, tab, shown, menus, toolSel, gotoActive, panes>>

(***************************************************************************)
(* The menus.                                                              *)
(***************************************************************************)
\* Mutant: the selection stops on separators.
MovedSelectionAny(d) == NextEntry(Menus[menu], menuSel, d, "")

MovedSelection(d) == NextEntry(Menus[menu], menuSel, d, "-")

MenuKey(k) ==
    /\ Owner = "menu"
    /\ \/ k \in {"Escape", "F10"} /\ CloseMenu /\ NoCommand
       \/ k = "Left"  /\ OpenMenu(NextEntry(Menus, menu, -1, <<>>)) /\ NoCommand
       \/ k = "Right" /\ OpenMenu(NextEntry(Menus, menu, 1, <<>>)) /\ NoCommand
       \/ k = "AltV"  /\ OpenMenu(4) /\ NoCommand
       \/ /\ k \in {"Up", "Down"}
          /\ menuSel' = MovedSelection(IF k = "Up" THEN -1 ELSE 1)
          /\ UNCHANGED <<menu, barSel>> /\ NoCommand
       \/ k = "Return" /\ CloseMenu /\ Command(Menus[menu][menuSel], gotoActive)
    /\ UNCHANGED <<focus, tab, toolSel, session, panes>>

\* Titles are there in every frame, a drop-down's items in the frames drawn since it opened.
MouseMenus ==
    /\ ~dialog.open
    /\ \/ /\ drawn # {}
          /\ \E i \in DOMAIN Menus : IF menu = i THEN CloseMenu ELSE OpenMenu(i)
          /\ NoCommand
       \/ /\ menu > 0 /\ "drop" \in drawn
          /\ \E i \in DOMAIN Menus[menu] :
                 /\ Menus[menu][i] # "-"
                 /\ menu' = 0 /\ menuSel' = i /\ UNCHANGED barSel
                 /\ Command(Menus[menu][i], gotoActive)
       \/ menu > 0 /\ CloseMenu /\ NoCommand
    /\ UNCHANGED <<focus, tab, toolSel, session, panes>>

MenuBarKey(k) ==
    /\ Owner = "none" /\ focus = "MenuBar"
    /\ \/ /\ k \in {"Left", "Right"}
          /\ barSel' = NextEntry(Menus, barSel, IF k = "Left" THEN -1 ELSE 1, <<>>)
          /\ UNCHANGED <<menu, menuSel>>
       \/ k \in {"Return", "Space", "Down"} /\ OpenMenu(barSel)
    /\ NoCommand
    /\ UNCHANGED <<focus, tab, toolSel, session, panes>>

(***************************************************************************)
(* The toolbar and its goto field.                                         *)
(***************************************************************************)
ToolbarKey(k) ==
    /\ Owner = "none" /\ focus = "Toolbar"
    /\ \/ /\ k \in {"Left", "Right"}
          /\ toolSel' = NextEntry(Tools, toolSel, IF k = "Left" THEN -1 ELSE 1, "disabled")
          /\ NoCommand
       \/ k \in {"Return", "Space"} /\ Command(Tools[toolSel], gotoActive) /\ UNCHANGED toolSel
    /\ UNCHANGED <<focus, tab, menus, session, panes>>

\* Any press outside the dialog and the menus leaves the goto field first.
MouseTools ==
    /\ ~dialog.open /\ menu = 0 /\ drawn # {}
    /\ \E i \in DOMAIN Tools : Command(Tools[i], FALSE)
    /\ UNCHANGED <<focus, tab, menus, toolSel, session, panes>>

\* submitGoto(): what was typed is some row's address, or no address.
GotoKey(k) ==
    /\ Owner = "goto"
    /\ gotoActive' = FALSE
    /\ \/ k \in {"Escape", "Return"} /\ UNCHANGED <<focus, dis>>
       \/ /\ k = "Return"
          /\ \E row \in 0 .. rows : (row < rows \/ row = 0) /\ dis' = NavigatedTo(dis, row)
          /\ focus' = "Disassembly"
    /\ UNCHANGED <<running, tab, shown, menus, toolSel, dialog, session, sym, reg, mem>>

(***************************************************************************)
(* The panes.                                                              *)
(***************************************************************************)
\* Return on a symbol goes to its row; on a string, to its bytes.  at: the focus it finds.
ActivateSymbol(s, at) ==
    \E what \in Activates(s) :
        /\ sym' = s
        /\ IF what \in {"function", "import"}
           THEN \E row \in 0 .. rows :
                    /\ row < rows \/ row = 0
                    /\ dis' = NavigatedTo(dis, row) /\ focus' = "Disassembly"
           ELSE UNCHANGED dis /\ focus' = at
        /\ IF what = "string"
           THEN /\ \E row \in 0 .. FileRows : mem' = GotoRow(mem, row)
                /\ shown' = shown \union {"memory"}
           ELSE UNCHANGED <<mem, shown>>
        /\ running' = (what # "crash")
        /\ UNCHANGED reg

Quiet == UNCHANGED <<running, focus, shown>>

PaneInput(k) ==
    \/ focus = "Disassembly" /\ dis' = DisKey(dis, k) /\ Quiet /\ UNCHANGED <<sym, reg, mem>>
    \/ focus = "Right" /\ tab = "regs" /\ reg' = RegKey(reg, k) /\ Quiet
       /\ UNCHANGED <<dis, sym, mem>>
    \/ focus = "Right" /\ tab = "stack" /\ Quiet /\ UNCHANGED panes
    \/ /\ focus = "Symbols" /\ ~(k = "Return" /\ ~sym.filtering)
       /\ sym' = SymKey(sym, k) /\ Quiet /\ UNCHANGED <<dis, reg, mem>>
    \/ focus = "Symbols" /\ k = "Return" /\ ~sym.filtering /\ ActivateSymbol(Rebuilt(sym, session), focus)
    \/ /\ focus = "Memory"
       /\ \E row \in -1 .. FileRows : mem' = MemKey(mem, k, row)
       /\ Quiet /\ UNCHANGED <<dis, sym, reg>>

\* A pane that edits text or has a list open takes every key.
CapturedKey(k) ==
    /\ Owner = "pane"
    /\ PaneInput(k)
    /\ UNCHANGED <<tab, menus, toolSel, gotoActive, dialog, session>>

Characters == {"Space", "s", "f", "x", "g", "/"}

ShortcutKeys == {"o", "q", "CtrlB", "F10", "AltV", "Tab", "BackTab", "["}

\* The menu bar and the toolbar take these before the rest is looked at.
BarKeys ==
    CASE focus = "MenuBar" -> {"Left", "Right", "Return", "Space", "Down"}
      [] focus = "Toolbar" -> {"Left", "Right", "Return", "Space"}
      [] OTHER             -> {}

\* Nothing is loaded: Return and anything typed open the dialog.
WelcomeKey(k) ==
    /\ Owner = "none" /\ ~Loaded
    /\ k \notin ShortcutKeys \union BarKeys
    /\ \/ k = "Return" /\ BeginOpen("")
       \/ k \in Characters /\ BeginOpen("other")
    /\ UNCHANGED <<running, focus, tab, shown, menus, toolSel, gotoActive, session, panes>>

StartGoto(k) ==
    /\ Owner = "none" /\ Loaded /\ k = "g"
    /\ gotoActive' = TRUE
    /\ UNCHANGED <<running, focus, tab, shown, menus, toolSel, dialog, session, panes>>

\* beginFilter()
StartFilter(k) ==
    /\ Owner = "none" /\ Loaded /\ k = "/" /\ "sidebar" \in shown
    /\ focus' = "Symbols"
    /\ sym' = [sym EXCEPT !.filtering = TRUE]
    /\ UNCHANGED <<running, tab, shown, menus, toolSel, gotoActive, dialog, session,
                   dis, reg, mem>>

PaneKey(k) ==
    /\ Owner = "none" /\ Loaded
    /\ k \notin ShortcutKeys \union BarKeys \union {"g"}
    /\ ~(k = "/" /\ "sidebar" \in shown)
    /\ PaneInput(k)
    /\ UNCHANGED <<tab, menus, toolSel, gotoActive, dialog, session>>

(***************************************************************************)
(* Shortcuts.                                                              *)
(***************************************************************************)
ShortcutCommand(k) ==
    /\ Owner = "none"
    /\ \/ k = "o" /\ Command("open", gotoActive)
       \/ k = "q" /\ Command("quit", gotoActive)
       \/ k = "CtrlB" /\ Command("sidebar", gotoActive)
    /\ UNCHANGED <<focus, tab, menus, toolSel, session, panes>>

ShortcutMenu(k) ==
    /\ Owner = "none"
    /\ \/ k = "F10" /\ OpenMenu(1)
       \/ k = "AltV" /\ OpenMenu(4)
    /\ NoCommand
    /\ UNCHANGED <<focus, tab, toolSel, session, panes>>

\* cycleFocus(): the pane's own fields first, then the next part of the screen.
CycleFocus(k) ==
    LET d     == IF k = "Tab" THEN 1 ELSE -1
        stops == IF focus = "Memory" THEN StopAfter(mem, d) ELSE {}
        n     == Len(FocusOrder)
        here  == {i \in 1 .. n : FocusOrder[i] = focus}
        at    == IF here = {} THEN 1 ELSE CHOOSE i \in here : TRUE
        next  == FocusOrder[((at - 1 + d) % n) + 1]
    IN  /\ Owner = "none" /\ k \in {"Tab", "BackTab"}
        /\ IF stops # {}
           THEN mem' = [mem EXCEPT !.at = CHOOSE stop \in stops : TRUE] /\ focus' = focus
           ELSE /\ focus' = next
                /\ mem' = IF next = "Memory" THEN MemEntered(mem, d) ELSE mem
        /\ NoCommand
        /\ UNCHANGED <<tab, menus, toolSel, session, dis, sym, reg>>

SwitchTab(k) ==
    /\ Owner = "none" /\ k = "["
    /\ tab' = IF {"regs", "stack"} \subseteq shown THEN (IF tab = "regs" THEN "stack" ELSE "regs")
                                                   ELSE tab
    /\ focus' = IF Visible("Right") THEN "Right" ELSE focus
    /\ NoCommand
    /\ UNCHANGED <<menus, toolSel, session, panes>>

(***************************************************************************)
(* The mouse, outside the dialog and the menus.                            *)
(***************************************************************************)
OnScreen == ~dialog.open /\ menu = 0

\* A tab, the welcome page's button, or nothing at all.
MouseTabs ==
    /\ OnScreen
    /\ gotoActive' = FALSE
    /\ \/ /\ tab' \in drawn \intersect {"regs", "stack"}
          /\ focus' = "Right" /\ UNCHANGED dialog
       \/ "welcome" \in drawn /\ BeginOpen("") /\ UNCHANGED <<focus, tab>>
       \/ UNCHANGED <<focus, tab, dialog>>
    /\ UNCHANGED <<running, shown, menus, toolSel, session, panes>>

Lines == 0 .. Height - 1

ClickedSymbols == focus' = "Symbols" /\ UNCHANGED <<running, shown, dis, reg, mem>>

\* A click on the selected symbol activates it, on another row selects that; a click anywhere
\* in the list ends the filter.
ClickSymbols ==
    \E s \in {Rebuilt(sym, session)}, y \in Lines :
        LET ended == [s EXCEPT !.filtering = FALSE]
        IN  CASE ~Selectable(ended, s.top + y) ->
                     sym' = ended /\ ClickedSymbols
              [] Selectable(ended, s.top + y) /\ s.top + y # s.cursor ->
                     sym' = [ended EXCEPT !.cursor = s.top + y] /\ ClickedSymbols
              [] Selectable(ended, s.top + y) /\ s.top + y = s.cursor ->
                     ActivateSymbol(ended, "Symbols")

ClickFilter == sym' = [Rebuilt(sym, session) EXCEPT !.filtering = TRUE] /\ ClickedSymbols

ClickMemory ==
    /\ mem' \in IF Loaded
                THEN {MemClickSection(mem), MemClickOffset(mem)}
                     \union {MemClickRow(mem, y) : y \in Lines}
                ELSE {MemSynced(mem)}
    /\ UNCHANGED <<running, shown, dis, sym, reg>>

\* Focus goes to the pane before the click does, which may move it on.
MousePanes ==
    /\ OnScreen
    /\ gotoActive' = FALSE
    /\ \/ "Symbols" \in drawn /\ (ClickFilter \/ ClickSymbols)
       \/ /\ "Disassembly" \in drawn /\ \E y \in Lines : dis' = DisClick(dis, y)
          /\ focus' = "Disassembly"
          /\ UNCHANGED <<running, shown, sym, reg, mem>>
       \/ /\ "Right" \in drawn /\ focus' = "Right"
          /\ IF tab = "regs" THEN \E y \in Lines : reg' = RegClick(reg, y) ELSE UNCHANGED reg
          /\ UNCHANGED <<running, shown, dis, sym, mem>>
       \/ "Memory" \in drawn /\ ClickMemory /\ focus' = "Memory"
    /\ UNCHANGED <<tab, menus, toolSel, dialog, session>>

Thrice(Input(_, _), pane, k) == Input(Input(Input(pane, k), k), k)

MemWheel(m, k) == MemKey(m, k, -1)

\* A notch of the wheel is three Ups or Downs.
Wheel ==
    /\ OnScreen
    /\ \E k \in {"Up", "Down"}, f \in PaneFocus \intersect drawn :
           /\ focus' = f
           /\ dis' = IF f = "Disassembly" THEN Thrice(DisKey, dis, k) ELSE dis
           /\ sym' = IF f = "Symbols" THEN Thrice(SymKey, sym, k) ELSE sym
           /\ reg' = IF f = "Right" /\ tab = "regs" THEN Thrice(RegKey, reg, k) ELSE reg
           /\ mem' = IF f = "Memory" THEN Thrice(MemWheel, mem, k) ELSE mem
    /\ UNCHANGED <<running, tab, shown, menus, toolSel, gotoActive, dialog, session>>

(***************************************************************************)
(* A frame: refresh() takes what the worker has published, validateFocus() *)
(* leaves what is not shown, and the panes draw.                           *)
(***************************************************************************)
Grown(r) == [session EXCEPT !.rows = r]

Stopped(r, list) == [session EXCEPT !.rows = r, !.scanning = FALSE, !.symbols = list]

\* What refresh() may find; the symbols once the decode has stopped.
Refreshed ==
    IF session.scanning
    THEN LET more == {r \in RowCounts : r >= rows}
         IN  {Grown(r) : r \in more} \union {Stopped(r, list) : r \in more, list \in SymbolLists}
    ELSE {session}

Keys ==
    {"Escape", "Return", "Backspace", "CtrlT", "Left", "Right"}
    \union RowKeys \union Characters \union ShortcutKeys

\* Left empty for a user without a mouse, who cannot tell.
Drawn ==
    IF user \subseteq Keys THEN {} ELSE
    {f \in PaneFocus : Visible(f)} \union (shown \intersect {"regs", "stack"})
    \union {x \in {"welcome"} : ~Loaded} \union {x \in {"drop"} : menu > 0}
    \union {x \in {"dialog"} : dialog.open}

Frame ==
    /\ running
    /\ focus' = ValidFocus(focus)
    /\ tab' = ValidTab(tab)
    /\ drawn' = Drawn
    /\ \E now \in Refreshed :
           /\ session' = now
           /\ dis' = IF Loaded THEN DisDrawn(dis, now) ELSE dis
           /\ sym' = IF Visible("Symbols") THEN SymDrawn(sym, now) ELSE sym
    /\ mem' = IF Visible("Memory") THEN MemDrawn(mem) ELSE mem
    /\ reg' = IF Visible("Right") /\ tab' = "regs" THEN RegDrawn(reg) ELSE reg
    /\ UNCHANGED <<running, user, shown, menus, toolSel, gotoActive, dialog>>

(***************************************************************************)
(* The program.                                                            *)
(***************************************************************************)
Key(k) ==
    \/ DialogKey(k) \/ MenuKey(k) \/ GotoKey(k) \/ CapturedKey(k)
    \/ ShortcutCommand(k) \/ ShortcutMenu(k) \/ CycleFocus(k) \/ SwitchTab(k)
    \/ MenuBarKey(k) \/ ToolbarKey(k) \/ WelcomeKey(k)
    \/ StartGoto(k) \/ StartFilter(k) \/ PaneKey(k)

Mouse ==
    \/ "mouse dialog" \in user /\ MouseDialog
    \/ "mouse menus" \in user /\ MouseMenus
    \/ "mouse tools" \in user /\ MouseTools
    \/ "mouse tabs" \in user /\ MouseTabs
    \/ "mouse panes" \in user /\ MousePanes
    \/ "wheel" \in user /\ Wheel

Event ==
    /\ running
    /\ (\E k \in Keys \intersect user : Key(k)) \/ Mouse
    /\ UNCHANGED <<user, drawn>>

Next == Event \/ Frame

Spec == Init /\ [][Next]_vars

(***************************************************************************)
(* Properties.                                                             *)
(***************************************************************************)
\* Every field in its range, whatever is pressed between two frames.  The code indexes with
\* these unchecked (ui.cpp:241, 302, 389, 503, 515; memory_pane.cpp:64, 135;
\* registers_pane.cpp:71): the selected menu item is no separator and the selected button is
\* enabled, so that what Return runs is a command; the completion, the section and the
\* register exist; the dialog and a menu are never open at once; and nothing that needs a
\* binary is active without one.
TypeOK ==
    /\ running \in BOOLEAN /\ user \in Habits
    /\ focus \in PaneFocus \union {"MenuBar", "Toolbar"} /\ tab \in {"regs", "stack"}
    /\ shown \subseteq Docks
    /\ barSel \in DOMAIN Menus /\ menu \in {0} \union DOMAIN Menus
    /\ menu > 0 => menuSel \in DOMAIN Menus[menu] /\ Menus[menu][menuSel] # "-"
    /\ toolSel \in DOMAIN Tools /\ Tools[toolSel] # "disabled"
    /\ dialog.path \in Paths /\ (dialog.comps # <<>> => dialog.sel < Len(dialog.comps))
    /\ ~(dialog.open /\ menu > 0)
    /\ session \in SessionType
    /\ dis \in DisType /\ (dis.gen = gen => dis.cursor = 0 \/ dis.cursor < rows)
    /\ sym \in SymType
    /\ reg.open \subseteq Categories /\ reg.cursor < RegTotal(reg)
    /\ mem \in MemType /\ mem.chosen < Len(SectionsOf(mem))
    /\ mem.picking => mem.pick < Len(SectionsOf(mem)) /\ ~mem.editing
    /\ gotoActive \/ sym.filtering \/ mem.picking \/ mem.editing => Loaded

\* What has been drawn shows the binary that is loaded: a pane that is on the screen has its
\* cursor on a row inside its window, the symbols' cursor is on a symbol and no header, the
\* section list is this binary's, and focus is on something drawn.
ScreenSound ==
    /\ Visible(focus)
    /\ tab \in shown \/ ~Visible("Right")
    /\ Loaded => dis.gen = gen /\ InWindow(dis.cursor, dis.top, rows, Height)
    /\ Visible("Symbols") /\ ~session.scanning =>
           /\ InWindow(sym.cursor, sym.top, Len(sym.items), Height)
           /\ sym.items = Items(sym.filter, session)
           /\ ~OnHeader(sym)
    /\ Visible("Right") /\ tab = "regs" => InWindow(reg.cursor, reg.top, RegTotal(reg), Height)
    /\ Visible("Memory") /\ Loaded =>
           /\ mem.gen = gen
           /\ IF mem.picking
              THEN InWindow(mem.pick, mem.pickTop, Len(SectionsOf(mem)), Height)
              ELSE InWindow(mem.cursor, mem.top, TotalRows, Height)

\* After every frame, whatever keys and clicks came before it, hidden panes, switched tabs and
\* binaries opened in the same batch included (ui.cpp:141-165, 414-419; follow(),
\* widgets.hpp:48-59).
FrameIsSound == [][Frame => ScreenSound']_vars

=============================================================================
