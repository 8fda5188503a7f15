------------------------------- MODULE RowList -------------------------------
(***************************************************************************)
(* The row arithmetic the terminal's panes share (tui/widgets.hpp): a      *)
(* cursor in a list of `total` rows and a window of `height` rows of it    *)
(* that starts at `top`.  All of them are unsigned in the code, so a       *)
(* subtraction that went below zero would be a row far outside the list.   *)
(***************************************************************************)
EXTENDS Integers

\* The keys moveRows() takes.
RowKeys == {"Up", "Down", "PageUp", "PageDown", "Home", "End"}

\* A page leaves one row of the old one.
Page(height) == IF height > 1 THEN height - 1 ELSE 1

MoveRows(key, cursor, total, height) ==
    CASE key = "Up"       -> IF cursor > 0 THEN cursor - 1 ELSE cursor
      [] key = "Down"     -> IF cursor + 1 < total THEN cursor + 1 ELSE cursor
      [] key = "PageUp"   -> IF cursor > Page(height) THEN cursor - Page(height) ELSE 0
      [] key = "PageDown" -> IF cursor + Page(height) < total THEN cursor + Page(height)
                                                              ELSE total - 1
      [] key = "Home"     -> 0
      [] key = "End"      -> total - 1

\* follow(): the cursor it clamps, and the top it slides.
FollowCursor(cursor, total) ==
    IF total = 0 THEN 0 ELSE IF cursor >= total THEN total - 1 ELSE cursor

\* Slid so that the cursor is in the window, whatever the list's end.
Slid(cursor, top, height) ==
    LET up == IF cursor < top THEN cursor ELSE top
    IN  IF cursor >= up + height THEN cursor - height + 1 ELSE up

FollowTop(cursor, top, total, height) ==
    LET maxTop == IF total > height THEN total - height ELSE 0
        slid   == Slid(FollowCursor(cursor, total), top, height)
    IN  IF total = 0 THEN 0 ELSE IF slid > maxTop THEN maxTop ELSE slid

\* What a frame needs of a list: the cursor on a row, that row in the window, and the window
\* inside the list unless the list is shorter than it.
InWindow(cursor, top, total, height) ==
    IF total = 0 THEN cursor = 0 /\ top = 0
    ELSE /\ top <= cursor /\ cursor < top + height
         /\ cursor < total
         /\ top = 0 \/ top + height <= total
=============================================================================
