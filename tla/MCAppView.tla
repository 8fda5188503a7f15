------------------------------ MODULE MCAppView ------------------------------
(***************************************************************************)
(* The terminal's screen for TLC: windows of two rows over short lists,    *)
(* two binaries to open, and users who each keep to the inputs that share  *)
(* state with one another.                                                 *)
(***************************************************************************)
EXTENDS AppView

SymbolListsValue ==
    {<<"string">>, <<"function", "import", "string">>}

\* The second binary has no section the pane could jump to.
SectionTablesValue == << <<0, 2, 1>>, <<>> >>

CategoryRowsValue == <<2, 1>>

CompletionListsValue == {<<>>, <<"dir", "file">>}

HabitsValue ==
    { {"mouse menus", "Return"},
      {"mouse tools", "mouse tabs", "Return", "Escape", "g"},
      {"F10", "AltV", "Up", "Left", "Return", "Escape"},
      {"Tab", "Left", "Right", "Space", "Escape"},
      {"BackTab", "[", "CtrlB"},
      {"AltV", "Down", "Return"},
      {"o", "Return", "Tab"},
      {"o", "Return", "Down"},
      {"o", "Return", "Up", "CtrlT", "x", "Escape", "q"},
      {"o", "mouse dialog", "mouse tabs"},
      {"/", "x", "Backspace", "Escape", "Return", "Down", "End", "CtrlB", "o"},
      {"mouse panes", "Return"},
      {"wheel", "CtrlB", "/"},
      {"wheel", "s"},
      {"Tab", "s", "Return"},
      {"Tab", "f", "Return", "Escape"},
      {"BackTab", "Space", "Left", "Up"},
      {"BackTab", "PageDown", "End", "s", "Up"} }
=============================================================================
