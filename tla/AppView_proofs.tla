---------------------------- MODULE AppView_proofs ----------------------------
(***************************************************************************)
(* The terminal's screen: its type invariant and the soundness of every    *)
(* frame, for every height of a pane, every set of binaries, symbols,      *)
(* sections and registers, and every habit of its user.                    *)
(***************************************************************************)
EXTENDS AppView, TLAPS, WellFoundedInduction, FiniteSetTheorems

(***************************************************************************)
(* The row arithmetic of the panes.                                        *)
(***************************************************************************)
\* moveRows() on a list that is not empty leaves a cursor on a row on a row: none of its
\* unsigned subtractions goes below zero (widgets.hpp:61-73).
THEOREM MoveStaysOnList ==
    ASSUME NEW key \in RowKeys, NEW total \in Nat, NEW cursor \in 0 .. total - 1,
           NEW height \in Nat \ {0}
    PROVE  MoveRows(key, cursor, total, height) \in 0 .. total - 1
<1>1. Page(height) \in Nat \ {0}
  BY DEF Page
<1>2. CASE key \in {"Up", "Down"}
  BY <1>2 DEF MoveRows
<1>3. CASE key = "PageUp"
  BY <1>1, <1>3 DEF MoveRows
<1>4. CASE key = "PageDown"
  BY <1>1, <1>4 DEF MoveRows
<1>5. CASE key \in {"Home", "End"}
  BY <1>5 DEF MoveRows
<1>. QED
  BY <1>2, <1>3, <1>4, <1>5 DEF RowKeys

\* Sliding brings the cursor into the window, wherever the window was.
LEMMA SlidShows ==
    ASSUME NEW cursor \in Nat, NEW top \in Nat, NEW height \in Nat \ {0}
    PROVE  /\ Slid(cursor, top, height) \in Nat
           /\ Slid(cursor, top, height) <= cursor
           /\ cursor < Slid(cursor, top, height) + height
BY DEF Slid

\* follow() repairs any cursor and any top, those of a longer list that was shown before
\* included: the cursor is on a row, the row in the window, the window inside the list
\* (widgets.hpp:48-59).
THEOREM FollowShowsCursor ==
    ASSUME NEW cursor \in Nat, NEW top \in Nat, NEW total \in Nat, NEW height \in Nat \ {0}
    PROVE  /\ FollowCursor(cursor, total) \in Nat
           /\ FollowTop(cursor, top, total, height) \in Nat
           /\ InWindow(FollowCursor(cursor, total), FollowTop(cursor, top, total, height),
                       total, height)
<1>1. CASE total = 0
  BY <1>1 DEF FollowCursor, FollowTop, InWindow
<1>2. CASE total # 0
  <2>. DEFINE row  == FollowCursor(cursor, total)
              slid == Slid(row, top, height)
  <2>1. row \in 0 .. total - 1
    BY <1>2 DEF FollowCursor
  <2>2. slid \in Nat /\ slid <= row /\ row < slid + height
    <3>1. row \in Nat
      BY <2>1
    <3>. HIDE DEF row
    <3>. QED
      BY <3>1, SlidShows
  <2>. HIDE DEF row, slid
  <2>3. CASE total > height
    <3>1. FollowTop(cursor, top, total, height) = IF slid > total - height THEN total - height ELSE slid
      BY <1>2, <2>3 DEF FollowTop, row, slid
    <3>. QED
      BY <1>2, <2>1, <2>2, <2>3, <3>1 DEF InWindow, row
  <2>4. CASE ~(total > height)
    <3>1. FollowTop(cursor, top, total, height) = 0
      BY <1>2, <2>2, <2>4 DEF FollowTop, row, slid
    <3>. QED
      BY <1>2, <2>1, <2>4, <3>1 DEF InWindow, row
  <2>. QED
    BY <2>3, <2>4
<1>. QED
  BY <1>1, <1>2

\* A window that shows the cursor is left alone: a frame without input scrolls nothing.
THEOREM FollowKeepsWindow ==
    ASSUME NEW cursor \in Nat, NEW top \in Nat, NEW total \in Nat, NEW height \in Nat \ {0},
           InWindow(cursor, top, total, height)
    PROVE  /\ FollowCursor(cursor, total) = cursor
           /\ FollowTop(cursor, top, total, height) = top
<1>1. CASE total = 0
  BY <1>1 DEF FollowCursor, FollowTop, InWindow
<1>2. CASE total # 0
  <2>1. FollowCursor(cursor, total) = cursor
    BY <1>2 DEF FollowCursor, InWindow
  <2>2. Slid(cursor, top, height) = top
    BY <1>2 DEF Slid, InWindow
  <2>3. CASE total > height
    BY <1>2, <2>1, <2>2, <2>3 DEF FollowTop, InWindow
  <2>4. CASE ~(total > height)
    BY <1>2, <2>1, <2>2, <2>4 DEF FollowTop, InWindow
  <2>. QED
    BY <2>1, <2>3, <2>4
<1>. QED
  BY <1>1, <1>2

(***************************************************************************)
(* Induction, as facts about sets: the library's principles take the       *)
(* property as an operator, which no prover can choose; a set it can.      *)
(***************************************************************************)
LEMMA LeastOf ==
    ASSUME NEW T \in SUBSET Nat, T # {}
    PROVE  \E x \in T : \A y \in T : x <= y
<1>. DEFINE R == OpToRel(<, Nat)
<1>1. IsWellFoundedOn(R, Nat)
  BY NatLessThanWellFounded, Zenon
<1>2. \A x, y \in Nat : x < y => <<x, y>> \in R
  BY DEF OpToRel
<1>. HIDE DEF R
<1>3. PICK x \in T : \A y \in T : ~(<<y, x>> \in R)
  BY <1>1, WFMin, Zenon
<1>4. \A y \in T : ~(y < x)
  BY <1>2, <1>3
<1>. QED
  BY <1>3, <1>4

LEMMA GreatestOf ==
    ASSUME NEW n \in Nat, NEW T \in SUBSET (0 .. n), T # {}
    PROVE  \E x \in T : \A y \in T : y <= x
<1>. DEFINE U == {i \in 0 .. n : n - i \in T}
<1>1. U \in SUBSET Nat /\ U # {}
  <2>1. PICK t \in T : TRUE
    OBVIOUS
  <2>2. n - t \in U
    BY <2>1
  <2>. QED
    BY <2>2
<1>2. PICK u \in U : \A v \in U : u <= v
  BY <1>1, LeastOf
<1>3. \A y \in T : n - y \in U
  OBVIOUS
<1>4. n - u \in T
  BY <1>2
<1>5. ASSUME NEW y \in T PROVE y <= n - u
  <2>1. u <= n - y
    BY <1>2, <1>3
  <2>2. y \in Nat /\ u \in Nat
    OBVIOUS
  <2>. QED
    BY <2>1, <2>2
<1>. QED
  BY <1>4, <1>5

LEMMA InductionOn ==
    ASSUME NEW S, 0 \in S, \A n \in Nat : n \in S => n + 1 \in S
    PROVE  Nat \subseteq S
<1>. DEFINE T == Nat \ S
<1>1. SUFFICES ASSUME T # {} PROVE FALSE
  OBVIOUS
<1>2. PICK x \in T : \A y \in T : x <= y
  BY <1>1, LeastOf
<1>3. x - 1 \in S /\ x - 1 \in Nat
  BY <1>2
<1>. QED
  BY <1>2, <1>3

(***************************************************************************)
(* The inductive invariant.  What the frame relies on beyond the types:    *)
(* a pane has seen no generation later than the session's; a list it built *)
(* of this generation is either still to be replaced when the scan ends or *)
(* is what its filter makes of the symbols; and the list's cursor is on no *)
(* header, which takes a list that has an entry for every header.          *)
(***************************************************************************)
ShellOK ==
    /\ running \in BOOLEAN /\ user \in Habits
    /\ focus \in PaneFocus \union {"MenuBar", "Toolbar"} /\ tab \in {"regs", "stack"}
    /\ shown \subseteq Docks
    /\ gotoActive \in BOOLEAN /\ (gotoActive => Loaded)
    /\ "Symbols" \in drawn => Loaded

MenuOK ==
    /\ barSel \in DOMAIN Menus /\ menu \in {0} \union DOMAIN Menus
    /\ menu > 0 => menuSel \in DOMAIN Menus[menu] /\ Menus[menu][menuSel] # "-"
    /\ toolSel \in DOMAIN Tools /\ Tools[toolSel] # "disabled"

DialogOK ==
    /\ dialog \in [open : BOOLEAN, path : Paths, comps : CompletionLists \union {<<>>}, sel : Nat]
    /\ dialog.comps # <<>> => dialog.sel < Len(dialog.comps)
    /\ ~(dialog.open /\ menu > 0)

DisOK(d, now) ==
    /\ d \in DisType
    /\ d.gen <= now.gen
    /\ d.gen = now.gen => d.cursor = 0 \/ d.cursor < now.rows

HasEntry(items) == \E i \in DOMAIN items : items[i] # "group"

ListOK(s, now) ==
    /\ s \in SymType
    /\ s.gen <= now.gen
    /\ s.items # <<>> => HasEntry(s.items)
    /\ s.gen = now.gen /\ now.scanning => s.scanning
    /\ s.gen = now.gen /\ ~s.scanning => s.items = Items(s.builtFilter, now)
    /\ s.filtering => now.gen > 0

SymOK(s, now) == ListOK(s, now) /\ ~OnHeader(s)

RegOK(r) ==
    /\ r \in [open : SUBSET Categories, cursor : Nat, top : Nat]
    /\ r.cursor < RegTotal(r)

MemOK(m, now) ==
    /\ m \in MemType
    /\ m.chosen < Len(SectionsOf(m))
    /\ m.picking => m.pick < Len(SectionsOf(m)) /\ ~m.editing
    /\ m.picking \/ m.editing => now.gen > 0

IInv ==
    /\ ShellOK /\ MenuOK /\ DialogOK
    /\ session \in SessionType
    /\ DisOK(dis, session) /\ SymOK(sym, session) /\ RegOK(reg) /\ MemOK(mem, session)

(***************************************************************************)
(* The symbols' list.                                                      *)
(***************************************************************************)
ItemKinds == {"group", "function", "import", "string"}

Ahead(items, from, d) ==
    {i \in 0 .. Len(items) - 1 : d * i > d * from /\ items[i + 1] # "group"}

LEMMA NearestExists ==
    ASSUME NEW items \in Seq(ItemKinds), NEW from \in Nat, NEW d \in {-1, 1},
           Ahead(items, from, d) # {}
    PROVE  Nearest(items, from, d) # {}
<1>. DEFINE ahead == Ahead(items, from, d)
<1>1. ahead \in SUBSET Nat /\ ahead \in SUBSET (0 .. Len(items)) /\ Len(items) \in Nat
  BY DEF Ahead
<1>2. Nearest(items, from, d) = {i \in ahead : \A j \in ahead : d * i <= d * j}
  BY DEF Nearest, Ahead
<1>. HIDE DEF ahead
<1>3. CASE d = 1
  <2>1. PICK x \in ahead : \A y \in ahead : x <= y
    BY <1>1, LeastOf DEF ahead
  <2>2. \A j \in ahead : d * x <= d * j
    BY <1>1, <1>3, <2>1
  <2>. QED
    BY <1>2, <2>1, <2>2
<1>4. CASE d = -1
  <2>1. PICK x \in ahead : \A y \in ahead : y <= x
    BY <1>1, GreatestOf DEF ahead
  <2>2. \A j \in ahead : d * x <= d * j
    BY <1>1, <1>4, <2>1
  <2>. QED
    BY <1>2, <2>1, <2>2
<1>. QED
  BY <1>3, <1>4

LEMMA NearestIsEntry ==
    ASSUME NEW items \in Seq(ItemKinds), NEW from \in Nat, NEW d \in {-1, 1},
           NEW i \in Nearest(items, from, d)
    PROVE  i \in 0 .. Len(items) - 1 /\ items[i + 1] # "group"
BY DEF Nearest

\* moveCursor() leaves the headers, in either direction: what it finds ahead, what it finds
\* behind when it starts on a header, or where it already was.
LEMMA MovedToEntry ==
    ASSUME NEW items \in Seq(ItemKinds), items # <<>>, HasEntry(items),
           NEW cursor \in Nat, NEW d \in {-1, 1}
    PROVE  /\ MovedCursor(items, cursor, d) \in 0 .. Len(items) - 1
           /\ items[MovedCursor(items, cursor, d) + 1] # "group"
<1>. DEFINE from  == IF cursor >= Len(items) THEN Len(items) - 1 ELSE cursor
            other == IF items[from + 1] = "group" THEN Nearest(items, from, -d) ELSE {}
<1>1. from \in 0 .. Len(items) - 1 /\ from \in Nat
  OBVIOUS
<1>2. MovedCursor(items, cursor, d) =
          CASE Nearest(items, from, d) # {} -> CHOOSE i \in Nearest(items, from, d) : TRUE
            [] Nearest(items, from, d) = {} /\ other # {} -> CHOOSE i \in other : TRUE
            [] OTHER -> from
  BY DEF MovedCursor
<1>. HIDE DEF from
<1>3. CASE Nearest(items, from, d) # {}
  <2>1. MovedCursor(items, cursor, d) \in Nearest(items, from, d)
    BY <1>2, <1>3
  <2>. QED
    BY <1>1, <2>1, NearestIsEntry
<1>4. CASE Nearest(items, from, d) = {} /\ other # {}
  <2>1. MovedCursor(items, cursor, d) \in other
    BY <1>2, <1>4
  <2>2. MovedCursor(items, cursor, d) \in Nearest(items, from, -d)
    BY <2>1
  <2>3. -d \in {-1, 1}
    OBVIOUS
  <2>. QED
    BY <1>1, <2>2, <2>3, NearestIsEntry
<1>5. CASE Nearest(items, from, d) = {} /\ other = {}
  <2>1. MovedCursor(items, cursor, d) = from
    BY <1>2, <1>5
  <2>2. items[from + 1] # "group"
    <3>1. SUFFICES ASSUME items[from + 1] = "group" PROVE FALSE
      OBVIOUS
    <3>2. Ahead(items, from, d) = {} /\ Ahead(items, from, -d) = {}
      BY <1>1, <1>5, <3>1, NearestExists
    <3>3. PICK j \in DOMAIN items : items[j] # "group"
      BY DEF HasEntry
    <3>4. j - 1 \in 0 .. Len(items) - 1 /\ j - 1 # from /\ items[(j - 1) + 1] # "group"
      BY <1>1, <3>1, <3>3
    <3>5. d * (j - 1) > d * from \/ (-d) * (j - 1) > (-d) * from
      <4>. DEFINE q == j - 1
      <4>1. q \in Int /\ from \in Int /\ (q > from \/ q < from)
        BY <1>1, <3>4
      <4>. HIDE DEF q
      <4>2. CASE d = 1
        BY <4>1, <4>2 DEF q
      <4>3. CASE d = -1
        BY <4>1, <4>3 DEF q
      <4>. QED
        BY <4>2, <4>3
    <3>. QED
      BY <3>2, <3>4, <3>5 DEF Ahead
  <2>. QED
    BY <1>1, <2>1, <2>2
<1>. QED
  BY <1>3, <1>4, <1>5

LEMMA BucketHasEntry ==
    ASSUME NEW kind \in ItemKinds \ {"group"}, NEW filter, NEW now,
           now.symbols \in Seq(ItemKinds)
    PROVE  /\ Bucket(kind, filter, now) \in Seq(ItemKinds)
           /\ Bucket(kind, filter, now) # <<>> => HasEntry(Bucket(kind, filter, now))
<1>. DEFINE matches == {i \in DOMAIN now.symbols :
                            now.symbols[i] = kind /\ (filter = "" \/ kind = "function")}
            n       == Cardinality(matches)
            body    == [i \in 1 .. n |-> kind]
<1>1. CASE matches = {}
  <2>1. Bucket(kind, filter, now) = <<>>
    BY <1>1 DEF Bucket
  <2>2. <<>> \in Seq(ItemKinds)
    OBVIOUS
  <2>. QED
    BY <2>1, <2>2
<1>2. CASE matches # {}
  <2>1. n \in Nat \ {0}
    <3>1. DOMAIN now.symbols = 1 .. Len(now.symbols) /\ Len(now.symbols) \in Nat
      OBVIOUS
    <3>2. IsFiniteSet(1 .. Len(now.symbols))
      BY <3>1, FS_Interval
    <3>3. IsFiniteSet(matches)
      BY <3>1, <3>2, FS_Subset
    <3>. QED
      BY <1>2, <3>3, FS_CardinalityType, FS_EmptySet
  <2>2. Bucket(kind, filter, now) = <<"group">> \o body
    BY <1>2 DEF Bucket
  <2>. HIDE DEF n
  <2>3. body \in Seq(ItemKinds) /\ Len(body) = n /\ body[1] = kind
    BY <2>1
  <2>4. <<"group">> \in Seq(ItemKinds) /\ Len(<<"group">>) = 1
    BY DEF ItemKinds
  <2>. HIDE DEF body
  <2>5. <<"group">> \o body \in Seq(ItemKinds)
    BY <2>3, <2>4
  <2>6. 2 \in DOMAIN (<<"group">> \o body) /\ (<<"group">> \o body)[2] = body[1]
    BY <2>1, <2>3, <2>4
  <2>. QED
    BY <2>2, <2>3, <2>5, <2>6 DEF HasEntry
<1>. QED
  BY <1>1, <1>2

LEMMA JoinHasEntry ==
    ASSUME NEW s \in Seq(ItemKinds), s # <<>> => HasEntry(s),
           NEW t \in Seq(ItemKinds), t # <<>> => HasEntry(t)
    PROVE  s \o t \in Seq(ItemKinds) /\ (s \o t # <<>> => HasEntry(s \o t))
<1>1. s \o t \in Seq(ItemKinds)
  OBVIOUS
<1>2. CASE s # <<>>
  <2>1. PICK i \in DOMAIN s : s[i] # "group"
    BY <1>2 DEF HasEntry
  <2>2. i \in DOMAIN (s \o t) /\ (s \o t)[i] = s[i]
    BY <2>1
  <2>. QED
    BY <1>1, <2>1, <2>2 DEF HasEntry
<1>3. CASE s = <<>>
  <2>1. s \o t = t
    BY <1>3
  <2>. QED
    BY <2>1
<1>. QED
  BY <1>2, <1>3

LEMMA ItemsHaveEntry ==
    ASSUME NEW filter, NEW now, now.symbols \in Seq(ItemKinds)
    PROVE  /\ Items(filter, now) \in Seq(ItemKinds)
           /\ Items(filter, now) # <<>> => HasEntry(Items(filter, now))
<1>. DEFINE f == Bucket("function", filter, now)
            i == Bucket("import", filter, now)
            s == Bucket("string", filter, now)
<1>1. f \in Seq(ItemKinds) /\ (f # <<>> => HasEntry(f))
  BY BucketHasEntry DEF ItemKinds
<1>2. i \in Seq(ItemKinds) /\ (i # <<>> => HasEntry(i))
  BY BucketHasEntry DEF ItemKinds
<1>3. s \in Seq(ItemKinds) /\ (s # <<>> => HasEntry(s))
  BY BucketHasEntry DEF ItemKinds
<1>4. Items(filter, now) = (f \o i) \o s
  BY DEF Items
<1>. HIDE DEF f, i, s
<1>5. f \o i \in Seq(ItemKinds) /\ (f \o i # <<>> => HasEntry(f \o i))
  BY <1>1, <1>2, JoinHasEntry
<1>. QED
  BY <1>3, <1>4, <1>5, JoinHasEntry

LEMMA SymbolsTyped ==
    ASSUME NEW now \in SessionType
    PROVE  now.symbols \in Seq(ItemKinds)
<1>1. Seq({"function", "import", "string"}) \subseteq Seq(ItemKinds)
  BY DEF ItemKinds
<1>2. <<>> \in Seq(ItemKinds)
  OBVIOUS
<1>3. now.symbols \in SymbolLists \union {<<>>}
  BY DEF SessionType
<1>. QED
  BY <1>1, <1>2, <1>3, PanesAssumption

\* Where the cursor and the window are is no matter to the list.
LEMMA CursorIsFree ==
    ASSUME NEW s, NEW now, ListOK(s, now), NEW c \in Nat, NEW t \in Nat
    PROVE  /\ ListOK([s EXCEPT !.cursor = c], now)
           /\ ListOK([s EXCEPT !.cursor = c, !.top = t], now)
<1>1. /\ [s EXCEPT !.cursor = c] \in SymType
      /\ [s EXCEPT !.cursor = c, !.top = t] \in SymType
  BY DEF ListOK, SymType
<1>2. ASSUME NEW r \in {[s EXCEPT !.cursor = c], [s EXCEPT !.cursor = c, !.top = t]}
      PROVE  /\ r.items = s.items /\ r.gen = s.gen /\ r.scanning = s.scanning
             /\ r.builtFilter = s.builtFilter /\ r.filtering = s.filtering
  BY DEF ListOK, SymType
<1>. QED
  BY <1>1, <1>2, Zenon DEF ListOK

LEMMA MovedKeepsList ==
    ASSUME NEW s, NEW now, ListOK(s, now), NEW d \in {-1, 1}
    PROVE  SymOK(Moved(s, d), now)
<1>1. s.items \in Seq(ItemKinds) /\ s.cursor \in Nat
  BY DEF ListOK, SymType, ItemKinds
<1>2. CASE s.items = <<>>
  BY <1>2 DEF Moved, SymOK, OnHeader
<1>3. CASE s.items # <<>>
  <2>. DEFINE c == MovedCursor(s.items, s.cursor, d)
              t == [s EXCEPT !.cursor = c]
  <2>1. c \in 0 .. Len(s.items) - 1 /\ s.items[c + 1] # "group"
    BY <1>1, <1>3, MovedToEntry DEF ListOK
  <2>2. Moved(s, d) = t
    BY <1>3 DEF Moved
  <2>. HIDE DEF c
  <2>3. ListOK(t, now)
    <3>1. c \in Nat
      BY <1>1, <2>1
    <3>. QED
      BY <3>1, CursorIsFree
  <2>4. t.cursor = c /\ t.items = s.items
    BY DEF ListOK, SymType
  <2>5. FollowCursor(c, Len(s.items)) = c
    BY <1>1, <2>1 DEF FollowCursor
  <2>6. ~OnHeader(t)
    BY <2>1, <2>4, <2>5 DEF OnHeader
  <2>. QED
    BY <2>2, <2>3, <2>6 DEF SymOK
<1>. QED
  BY <1>2, <1>3

LEMMA MovedKeepsRest ==
    ASSUME NEW s \in SymType, NEW d \in {-1, 1}
    PROVE  /\ Moved(s, d).items = s.items /\ Moved(s, d).gen = s.gen
           /\ Moved(s, d).filter = s.filter /\ Moved(s, d).builtFilter = s.builtFilter
           /\ Moved(s, d).scanning = s.scanning /\ Moved(s, d).filtering = s.filtering
BY DEF Moved, SymType

\* rebuild() brings the list up to date and its cursor onto an entry, from whatever list,
\* filter and generation it was left with (symbols_pane.cpp:17-54).
THEOREM RebuiltIsBuilt ==
    ASSUME NEW s, NEW now \in SessionType, SymOK(s, now)
    PROVE  /\ SymOK(Rebuilt(s, now), now)
           /\ Built(Rebuilt(s, now), now)
           /\ Rebuilt(s, now).filter = s.filter
<1>. DEFINE listed == Listed(s, now)
<1>1. CASE Built(s, now)
  BY <1>1 DEF Rebuilt
<1>2. CASE ~Built(s, now)
  <2>1. s \in SymType
    BY DEF SymOK, ListOK
  <2>2. now.gen \in 0 .. Len(SectionTables) /\ now.scanning \in BOOLEAN
    BY DEF SessionType
  <2>3. /\ Items(s.filter, now) \in Seq(ItemKinds)
        /\ Items(s.filter, now) # <<>> => HasEntry(Items(s.filter, now))
    BY SymbolsTyped, ItemsHaveEntry
  <2>4. /\ listed.items = IF now.scanning THEN <<>> ELSE Items(s.filter, now)
        /\ listed.gen = now.gen /\ listed.scanning = now.scanning
        /\ listed.filter = s.filter /\ listed.builtFilter = s.filter
        /\ listed.filtering = s.filtering
    BY <2>1 DEF Listed, SymType
  <2>5. listed \in SymType
    <3>1. listed.items \in Seq(ItemKinds)
      BY <2>3, <2>4
    <3>2. listed.cursor \in Nat /\ listed.top \in Nat
      BY <2>1 DEF Listed, SymType
    <3>3. now.gen \in Generations
      BY <2>2, PanesAssumption DEF Generations, NotBuilt
    <3>. QED
      BY <2>1, <2>2, <2>4, <3>1, <3>2, <3>3 DEF Listed, SymType, ItemKinds
  <2>6. ListOK(listed, now)
    <3>1. s.filtering => now.gen > 0
      BY DEF SymOK, ListOK
    <3>. QED
      BY <2>2, <2>3, <2>4, <2>5, <3>1 DEF ListOK
  <2>7. CASE OnHeader(listed)
    <3>1. Rebuilt(s, now) = Moved(listed, 1)
      BY <1>2, <2>7 DEF Rebuilt
    <3>2. SymOK(Moved(listed, 1), now)
      BY <2>6, MovedKeepsList
    <3>3. /\ Moved(listed, 1).gen = now.gen /\ Moved(listed, 1).scanning = now.scanning
          /\ Moved(listed, 1).filter = s.filter /\ Moved(listed, 1).builtFilter = s.filter
      BY <2>4, <2>5, MovedKeepsRest
    <3>. QED
      BY <3>1, <3>2, <3>3 DEF Built
  <2>8. CASE ~OnHeader(listed)
    <3>1. Rebuilt(s, now) = listed
      BY <1>2, <2>8 DEF Rebuilt
    <3>. QED
      BY <2>4, <2>6, <2>8, <3>1 DEF Built, SymOK
  <2>. QED
    BY <2>7, <2>8
<1>. QED
  BY <1>1, <1>2

LEMMA FilterKeyKeeps ==
    ASSUME NEW s, NEW now, SymOK(s, now), NEW key
    PROVE  SymOK(FilterKey(s, key), now)
<1>. DEFINE t == FilterKey(s, key)
<1>1. s \in SymType
  BY DEF SymOK, ListOK
<1>2. t \in SymType
  BY <1>1 DEF FilterKey, SymType, Filters
<1>3. /\ t.items = s.items /\ t.cursor = s.cursor /\ t.gen = s.gen
      /\ t.builtFilter = s.builtFilter /\ t.scanning = s.scanning
      /\ t.filtering => s.filtering
  BY <1>1 DEF FilterKey, SymType
<1>. HIDE DEF t
<1>4. ListOK(t, now)
  BY <1>2, <1>3 DEF SymOK, ListOK
<1>5. ~OnHeader(t)
  BY <1>3 DEF SymOK, OnHeader
<1>. QED
  BY <1>4, <1>5 DEF SymOK, t

LEMMA ListKeyKeeps ==
    ASSUME NEW s, NEW now, SymOK(s, now), NEW key
    PROVE  SymOK(ListKey(s, key), now)
<1>1. ListOK(s, now) /\ s.items \in Seq(ItemKinds)
  BY DEF SymOK, ListOK, SymType, ItemKinds
<1>2. SymOK(Moved(s, 1), now) /\ SymOK(Moved(s, -1), now)
  BY <1>1, MovedKeepsList
<1>3. SymOK(Moved([s EXCEPT !.cursor = 0], 1), now)
  BY <1>1, CursorIsFree, MovedKeepsList
<1>4. ASSUME s.items # <<>>
      PROVE  LET end == [s EXCEPT !.cursor = Len(s.items) - 1]
             IN  SymOK(IF OnHeader(end) THEN Moved(end, -1) ELSE end, now)
  <2>. DEFINE end == [s EXCEPT !.cursor = Len(s.items) - 1]
  <2>1. Len(s.items) - 1 \in Nat
    BY <1>1, <1>4
  <2>2. ListOK(end, now)
    BY <1>1, <2>1, CursorIsFree
  <2>. HIDE DEF end
  <2>3. SymOK(Moved(end, -1), now)
    BY <2>2, MovedKeepsList
  <2>4. SymOK(IF OnHeader(end) THEN Moved(end, -1) ELSE end, now)
    BY <2>2, <2>3 DEF SymOK
  <2>. QED
    BY <2>4 DEF end
<1>5. \/ ListKey(s, key) \in {s, Moved(s, 1), Moved(s, -1), Moved([s EXCEPT !.cursor = 0], 1)}
      \/ /\ s.items # <<>>
         /\ ListKey(s, key) = LET end == [s EXCEPT !.cursor = Len(s.items) - 1]
                              IN  IF OnHeader(end) THEN Moved(end, -1) ELSE end
  BY Zenon DEF ListKey
<1>. QED
  BY <1>2, <1>3, <1>4, <1>5, Zenon

LEMMA SymKeyKeeps ==
    ASSUME session \in SessionType, NEW s, SymOK(s, session), NEW key
    PROVE  SymOK(SymKey(s, key), session)
<1>1. SymOK(Rebuilt(s, session), session)
  BY RebuiltIsBuilt
<1>. QED
  BY <1>1, FilterKeyKeeps, ListKeyKeeps DEF SymKey

\* A frame of the list: it is the session's, its cursor is on an entry, and the entry is in
\* the window (symbols_pane.cpp:109-137).
LEMMA SymDrawnKeeps ==
    ASSUME NEW s, NEW now \in SessionType, SymOK(s, now)
    PROVE  /\ SymOK(SymDrawn(s, now), now)
           /\ ~now.scanning =>
                /\ InWindow(SymDrawn(s, now).cursor, SymDrawn(s, now).top,
                            Len(SymDrawn(s, now).items), Height)
                /\ SymDrawn(s, now).items = Items(SymDrawn(s, now).filter, now)
<1>. DEFINE r == Rebuilt(s, now)
            d == SymDrawn(s, now)
            n == Len(r.items)
<1>1. SymOK(r, now) /\ Built(r, now)
  BY RebuiltIsBuilt
<1>. HIDE DEF r
<1>2. CASE now.scanning
  BY <1>1, <1>2 DEF SymDrawn, r
<1>3. CASE ~now.scanning
  <2>1. d = [r EXCEPT !.cursor = FollowCursor(r.cursor, n),
                      !.top = FollowTop(r.cursor, r.top, n, Height)]
    BY <1>3 DEF SymDrawn, SymFollowed, r
  <2>. HIDE DEF d
  <2>2. r \in SymType /\ r.cursor \in Nat /\ r.top \in Nat /\ n \in Nat
    BY <1>1 DEF SymOK, ListOK, SymType
  <2>3. /\ FollowCursor(r.cursor, n) \in Nat /\ FollowTop(r.cursor, r.top, n, Height) \in Nat
        /\ InWindow(FollowCursor(r.cursor, n), FollowTop(r.cursor, r.top, n, Height), n, Height)
    BY <2>2, FollowShowsCursor, PanesAssumption
  <2>4. ListOK(d, now)
    BY <1>1, <2>1, <2>3, CursorIsFree DEF SymOK
  <2>5. /\ d.items = r.items /\ d.filter = r.filter
        /\ d.cursor = FollowCursor(r.cursor, n)
        /\ d.top = FollowTop(r.cursor, r.top, n, Height)
    BY <2>1, <2>2 DEF SymType
  <2>6. FollowCursor(d.cursor, n) = FollowCursor(r.cursor, n)
    BY <2>2, <2>5 DEF FollowCursor
  <2>7. ~OnHeader(d)
    BY <1>1, <2>5, <2>6 DEF SymOK, OnHeader
  <2>8. d.items = Items(d.filter, now)
    <3>1. r.gen = now.gen /\ ~r.scanning /\ r.builtFilter = r.filter
      BY <1>1, <1>3 DEF Built
    <3>2. r.items = Items(r.builtFilter, now)
      BY <1>1, <3>1 DEF SymOK, ListOK
    <3>. QED
      BY <2>5, <3>1, <3>2
  <2>9. SymOK(d, now)
    BY <2>4, <2>7 DEF SymOK
  <2>. QED
    BY <2>3, <2>5, <2>8, <2>9 DEF d
<1>. QED
  BY <1>2, <1>3

(***************************************************************************)
(* The registers' rows.  FlattenSeq joins its sequences one by one.        *)
(***************************************************************************)
JoinedBy(h, seqs, n) == h[0] = <<>> /\ \A i \in 1 .. n : h[i] = h[i - 1] \o seqs[i]

LEMMA JoinsExist ==
    ASSUME NEW S, NEW n \in Nat, NEW seqs \in [1 .. n -> Seq(S)]
    PROVE  \E h \in [0 .. n -> Seq(S)] : JoinedBy(h, seqs, n)
<1>. DEFINE Done == {k \in Nat : k <= n => \E h \in [0 .. k -> Seq(S)] : JoinedBy(h, seqs, k)}
<1>1. 0 \in Done
  <2>. DEFINE h == [i \in 0 .. 0 |-> <<>>]
  <2>1. h \in [0 .. 0 -> Seq(S)] /\ JoinedBy(h, seqs, 0)
    BY DEF JoinedBy
  <2>. QED
    BY <2>1
<1>2. ASSUME NEW k \in Nat, k \in Done
      PROVE  k + 1 \in Done
  <2>1. SUFFICES ASSUME k + 1 <= n
                 PROVE  \E h \in [0 .. k + 1 -> Seq(S)] : JoinedBy(h, seqs, k + 1)
    OBVIOUS
  <2>2. PICK g \in [0 .. k -> Seq(S)] : JoinedBy(g, seqs, k)
    BY <1>2, <2>1
  <2>. DEFINE h == [i \in 0 .. k + 1 |-> IF i <= k THEN g[i] ELSE g[k] \o seqs[k + 1]]
  <2>3. seqs[k + 1] \in Seq(S) /\ g[k] \in Seq(S)
    BY <2>1
  <2>4. g[k] \o seqs[k + 1] \in Seq(S)
    BY <2>3
  <2>5. h \in [0 .. k + 1 -> Seq(S)]
    BY <2>4
  <2>6. h[0] = <<>>
    BY <2>2 DEF JoinedBy
  <2>7. \A i \in 0 .. k : h[i] = g[i]
    OBVIOUS
  <2>8. h[k + 1] = g[k] \o seqs[k + 1]
    <3>1. k + 1 \in 0 .. k + 1 /\ ~(k + 1 <= k)
      OBVIOUS
    <3>. QED
      BY <3>1
  <2>9. \A i \in 1 .. k : g[i] = g[i - 1] \o seqs[i]
    BY <2>2 DEF JoinedBy
  <2>. HIDE DEF h
  <2>10. ASSUME NEW i \in 1 .. k + 1
         PROVE  h[i] = h[i - 1] \o seqs[i]
    <3>1. CASE i = k + 1
      <4>1. i - 1 = k /\ k \in 0 .. k
        BY <3>1
      <4>. QED
        BY <2>7, <2>8, <3>1, <4>1
    <3>2. CASE i # k + 1
      <4>1. i \in 1 .. k /\ i \in 0 .. k /\ i - 1 \in 0 .. k
        BY <3>2
      <4>. QED
        BY <2>7, <2>9, <4>1
    <3>. QED
      BY <3>1, <3>2
  <2>11. JoinedBy(h, seqs, k + 1)
    BY <2>6, <2>10 DEF JoinedBy
  <2>. QED
    BY <2>5, <2>11
<1>3. Nat \subseteq Done
  <2>. HIDE DEF Done
  <2>. QED
    BY <1>1, <1>2, InductionOn
<1>4. n \in Done
  BY <1>3
<1>. QED
  BY <1>4

LEMMA FlattenJoins ==
    ASSUME NEW S, NEW n \in Nat \ {0}, NEW seqs \in [1 .. n -> Seq(S)]
    PROVE  \E h \in [0 .. n -> Seq(S)] : JoinedBy(h, seqs, n) /\ FlattenSeq(seqs) = h[n]
<1>1. seqs \in Seq(Seq(S)) /\ Len(seqs) = n
  OBVIOUS
<1>2. PICK h \in [0 .. n -> Seq(S)] : JoinedBy(h, seqs, n)
  BY JoinsExist
<1>. DEFINE Fix(f) == f = [i \in 1 .. Len(seqs) |-> IF i = 1 THEN seqs[i] ELSE f[i - 1] \o seqs[i]]
            fl == CHOOSE f : Fix(f)
            g  == [i \in 1 .. n |-> h[i]]
<1>3. h[1] = seqs[1]
  <2>1. 1 \in 1 .. n /\ 1 - 1 = 0
    OBVIOUS
  <2>2. h[1] = h[0] \o seqs[1] /\ h[0] = <<>>
    BY <1>2, <2>1 DEF JoinedBy
  <2>3. seqs[1] \in Seq(S)
    BY <2>1
  <2>. QED
    BY <2>2, <2>3
<1>4. Fix(g)
  <2>1. ASSUME NEW i \in 1 .. n, i # 1
        PROVE  g[i] = g[i - 1] \o seqs[i]
    <3>1. i - 1 \in 1 .. n
      BY <2>1
    <3>2. g[i] = h[i] /\ g[i - 1] = h[i - 1]
      BY <3>1
    <3>. QED
      BY <1>2, <3>2 DEF JoinedBy
  <2>2. g[1] = seqs[1]
    BY <1>3
  <2>3. g = [i \in 1 .. n |-> g[i]]
    OBVIOUS
  <2>. HIDE DEF g
  <2>. QED
    BY <1>1, <2>1, <2>2, <2>3
<1>5. Fix(fl)
  BY <1>4
<1>6. FlattenSeq(seqs) = fl[n]
  BY <1>1 DEF FlattenSeq
<1>. HIDE DEF fl
<1>7. \A i \in 1 .. n : fl[i] = IF i = 1 THEN seqs[i] ELSE fl[i - 1] \o seqs[i]
  BY <1>1, <1>5
<1>. DEFINE Same == {k \in Nat : k + 1 <= n => fl[k + 1] = h[k + 1]}
<1>8. 0 \in Same
  <2>1. 1 \in 1 .. n /\ 0 + 1 = 1
    OBVIOUS
  <2>2. fl[1] = seqs[1]
    BY <1>7, <2>1
  <2>. QED
    BY <1>3, <2>1, <2>2
<1>9. ASSUME NEW k \in Nat, k \in Same
      PROVE  k + 1 \in Same
  <2>. DEFINE i == (k + 1) + 1
  <2>1. SUFFICES ASSUME i <= n PROVE fl[i] = h[i]
    OBVIOUS
  <2>2. i \in 1 .. n /\ i # 1 /\ i - 1 = k + 1 /\ k + 1 <= n
    BY <2>1
  <2>3. fl[k + 1] = h[k + 1]
    BY <1>9, <2>2
  <2>. HIDE DEF i
  <2>4. fl[i] = fl[i - 1] \o seqs[i]
    BY <1>7, <2>2
  <2>5. h[i] = h[i - 1] \o seqs[i]
    BY <1>2, <2>2 DEF JoinedBy
  <2>. QED
    BY <2>2, <2>3, <2>4, <2>5
<1>10. Nat \subseteq Same
  <2>. HIDE DEF Same
  <2>. QED
    BY <1>8, <1>9, InductionOn
<1>11. fl[n] = h[n]
  <2>1. n - 1 \in Same
    <3>1. n - 1 \in Nat
      OBVIOUS
    <3>. HIDE DEF Same
    <3>. QED
      BY <1>10, <3>1
  <2>2. (n - 1) + 1 = n
    OBVIOUS
  <2>. QED
    BY <2>1, <2>2
<1>. QED
  BY <1>2, <1>6, <1>11

\* A category's header and, while it is open, its registers.
Part(open, c) == <<c>> \o IF c \in open THEN [i \in 1 .. CategoryRows[c] |-> 0] ELSE <<>>

Parts(open) == [c \in Categories |-> Part(open, c)]

CatCount == Len(CategoryRows)

RowKinds == {0} \union Categories

LEMMA CategoriesAre ==
    CatCount \in Nat \ {0} /\ Categories = 1 .. CatCount /\ \A c \in Categories : CategoryRows[c] \in Nat \ {0}
BY PanesAssumption DEF CatCount, Categories

LEMMA PartShape ==
    ASSUME NEW open, NEW c \in Categories
    PROVE  /\ Part(open, c) \in Seq(RowKinds) /\ Len(Part(open, c)) >= 1
           /\ Part(open, c)[1] = c
           /\ \A j \in 2 .. Len(Part(open, c)) : Part(open, c)[j] = 0
<1>. DEFINE tail == IF c \in open THEN [i \in 1 .. CategoryRows[c] |-> 0] ELSE <<>>
<1>1. tail \in Seq(RowKinds) /\ \A j \in 1 .. Len(tail) : tail[j] = 0
  BY CategoriesAre DEF RowKinds
<1>2. Part(open, c) = <<c>> \o tail
  BY DEF Part
<1>. HIDE DEF tail
<1>3. <<c>> \in Seq(RowKinds) /\ Len(<<c>>) = 1 /\ <<c>>[1] = c
  BY DEF RowKinds
<1>4. <<c>> \o tail \in Seq(RowKinds) /\ Len(<<c>> \o tail) = 1 + Len(tail) /\ Len(tail) \in Nat
  BY <1>1, <1>3
<1>5. (<<c>> \o tail)[1] = c
  BY <1>1, <1>3
<1>6. \A j \in 2 .. 1 + Len(tail) : (<<c>> \o tail)[j] = tail[j - 1] /\ j - 1 \in 1 .. Len(tail)
  BY <1>1, <1>3
<1>. QED
  BY <1>1, <1>2, <1>4, <1>5, <1>6

LEMMA RowsAreJoined ==
    ASSUME NEW open
    PROVE  \E h \in [0 .. CatCount -> Seq(RowKinds)] :
               JoinedBy(h, Parts(open), CatCount) /\ RegRows(open) = h[CatCount]
<1>1. Parts(open) \in [1 .. CatCount -> Seq(RowKinds)]
  BY CategoriesAre, PartShape DEF Parts
<1>2. RegRows(open) = FlattenSeq(Parts(open))
  BY Zenon DEF RegRows, Parts, Part
<1>3. CatCount \in Nat \ {0}
  BY CategoriesAre
<1>4. PICK h \in [0 .. CatCount -> Seq(RowKinds)] :
          JoinedBy(h, Parts(open), CatCount) /\ FlattenSeq(Parts(open)) = h[CatCount]
  BY <1>1, <1>3, FlattenJoins
<1>. QED
  BY <1>2, <1>4

\* One more category is its header and rows that are no headers.
OneMore(h, open, c) ==
    /\ h[c] \in Seq(RowKinds) /\ h[c - 1] \in Seq(RowKinds)
    /\ Len(h[c]) = Len(h[c - 1]) + Len(Part(open, c))
    /\ \A i \in 1 .. Len(h[c - 1]) : h[c][i] = h[c - 1][i]
    /\ h[c][Len(h[c - 1]) + 1] = c
    /\ \A i \in Len(h[c - 1]) + 2 .. Len(h[c]) : h[c][i] = 0

LEMMA CategoryJoined ==
    ASSUME NEW open, NEW h \in [0 .. CatCount -> Seq(RowKinds)], JoinedBy(h, Parts(open), CatCount),
           NEW c \in Categories
    PROVE  OneMore(h, open, c)
<1>1. c - 1 \in 0 .. CatCount /\ c \in 0 .. CatCount /\ c \in 1 .. CatCount
  BY CategoriesAre
<1>2. h[c] = h[c - 1] \o Part(open, c)
  BY <1>1, CategoriesAre DEF JoinedBy, Parts
<1>3. h[c] \in Seq(RowKinds) /\ h[c - 1] \in Seq(RowKinds)
  BY <1>1
<1>. DEFINE a == h[c - 1]
            p == Part(open, c)
<1>4. p \in Seq(RowKinds) /\ Len(p) >= 1 /\ p[1] = c /\ \A j \in 2 .. Len(p) : p[j] = 0
  BY PartShape
<1>5. a \in Seq(RowKinds) /\ h[c] = a \o p
  BY <1>2, <1>3
<1>. HIDE DEF a, p
<1>6. Len(a \o p) = Len(a) + Len(p) /\ Len(a) \in Nat /\ Len(p) \in Nat
  BY <1>4, <1>5
<1>7. \A i \in 1 .. Len(a) : (a \o p)[i] = a[i]
  BY <1>4, <1>5
<1>8. \A i \in Len(a) + 1 .. Len(a) + Len(p) : (a \o p)[i] = p[i - Len(a)]
  BY <1>4, <1>5
<1>9. (a \o p)[Len(a) + 1] = c
  BY <1>4, <1>6, <1>8
<1>10. \A i \in Len(a) + 2 .. Len(a) + Len(p) : (a \o p)[i] = 0
  BY <1>4, <1>6, <1>8
<1>. QED
  BY <1>3, <1>5, <1>6, <1>7, <1>9, <1>10 DEF a, p, OneMore

\* A header is where its category's rows begin.
LEMMA HeaderPlace ==
    ASSUME NEW open, NEW h \in [0 .. CatCount -> Seq(RowKinds)], JoinedBy(h, Parts(open), CatCount),
           NEW c \in Categories
    PROVE  \A i \in 1 .. Len(h[CatCount]) : h[CatCount][i] = c => i = Len(h[c - 1]) + 1
<1>. DEFINE Placed(k) == \A i \in 1 .. Len(h[k]) : h[k][i] = c => i = Len(h[c - 1]) + 1
            Done == {k \in Nat : k <= CatCount => Placed(k)}
<1>1. 0 \in Done
  BY DEF JoinedBy
<1>2. ASSUME NEW k \in Nat, k \in Done
      PROVE  k + 1 \in Done
  <2>. DEFINE b == k + 1
  <2>1. SUFFICES ASSUME b <= CatCount, NEW i \in 1 .. Len(h[b]), h[b][i] = c
                 PROVE  i = Len(h[c - 1]) + 1
    OBVIOUS
  <2>2. b \in Categories /\ b - 1 = k /\ k <= CatCount
    BY <2>1, CategoriesAre
  <2>3. Placed(k)
    BY <1>2, <2>2
  <2>. HIDE DEF b
  <2>4. /\ h[b] \in Seq(RowKinds) /\ h[k] \in Seq(RowKinds)
        /\ \A j \in 1 .. Len(h[k]) : h[b][j] = h[k][j]
        /\ h[b][Len(h[k]) + 1] = b
        /\ \A j \in Len(h[k]) + 2 .. Len(h[b]) : h[b][j] = 0
    <3>5. OneMore(h, open, b)
      BY <2>2, CategoryJoined
    <3>1. h[b] \in Seq(RowKinds) /\ h[b - 1] \in Seq(RowKinds)
      BY <3>5 DEF OneMore
    <3>2. \A j \in 1 .. Len(h[b - 1]) : h[b][j] = h[b - 1][j]
      BY <3>5 DEF OneMore
    <3>3. h[b][Len(h[b - 1]) + 1] = b
      BY <3>5 DEF OneMore
    <3>4. \A j \in Len(h[b - 1]) + 2 .. Len(h[b]) : h[b][j] = 0
      BY <3>5 DEF OneMore
    <3>. QED
      BY <2>2, <3>1, <3>2, <3>3, <3>4
  <2>5. c # 0
    BY CategoriesAre
  <2>6. Len(h[k]) \in Nat /\ Len(h[b]) \in Nat /\ i \in Nat
    BY <2>4
  <2>7. \/ i \in 1 .. Len(h[k])
        \/ i = Len(h[k]) + 1
        \/ i \in Len(h[k]) + 2 .. Len(h[b])
    BY <2>6
  <2>8. CASE i \in 1 .. Len(h[k])
    BY <2>1, <2>3, <2>4, <2>8
  <2>9. CASE i = Len(h[k]) + 1
    BY <2>1, <2>2, <2>4, <2>9
  <2>10. CASE i \in Len(h[k]) + 2 .. Len(h[b])
    BY <2>1, <2>4, <2>5, <2>10
  <2>. QED
    BY <2>7, <2>8, <2>9, <2>10
<1>3. Nat \subseteq Done
  <2>. HIDE DEF Done
  <2>. QED
    BY <1>1, <1>2, InductionOn
<1>. QED
  BY <1>3, CategoriesAre

\* It stays there as the categories after it are joined.
LEMMA HeaderStays ==
    ASSUME NEW open, NEW h \in [0 .. CatCount -> Seq(RowKinds)], JoinedBy(h, Parts(open), CatCount),
           NEW c \in Categories
    PROVE  /\ Len(h[c - 1]) + 1 <= Len(h[CatCount])
           /\ h[CatCount][Len(h[c - 1]) + 1] = c
<1>. DEFINE n == Len(h[c - 1])
            Done == {k \in Nat : c + k <= CatCount => n + 1 <= Len(h[c + k]) /\ h[c + k][n + 1] = c}
<1>0. OneMore(h, open, c)
  BY CategoryJoined
<1>1. n \in Nat
  <2>1. h[c - 1] \in Seq(RowKinds)
    BY <1>0 DEF OneMore
  <2>. QED
    BY <2>1
<1>2. 0 \in Done
  <2>1. c + 0 = c
    BY CategoriesAre
  <2>2. Len(h[c]) = n + Len(Part(open, c))
    BY <1>0 DEF OneMore
  <2>3. h[c][n + 1] = c
    BY <1>0 DEF OneMore
  <2>4. Len(Part(open, c)) >= 1 /\ Len(Part(open, c)) \in Nat
    BY PartShape
  <2>5. n + 1 <= Len(h[c])
    BY <1>1, <2>2, <2>4
  <2>. QED
    BY <2>1, <2>3, <2>5
<1>. HIDE DEF n
<1>3. ASSUME NEW k \in Nat, k \in Done
      PROVE  k + 1 \in Done
  <2>. DEFINE b == c + (k + 1)
              a == c + k
  <2>1. SUFFICES ASSUME b <= CatCount PROVE n + 1 <= Len(h[b]) /\ h[b][n + 1] = c
    OBVIOUS
  <2>2. b \in Categories /\ b - 1 = a /\ a <= CatCount
    BY <2>1, CategoriesAre
  <2>3. n + 1 <= Len(h[a]) /\ h[a][n + 1] = c
    BY <1>3, <2>2
  <2>. HIDE DEF a, b
  <2>11. OneMore(h, open, b)
    BY <2>2, CategoryJoined
  <2>4. Len(h[b]) = Len(h[b - 1]) + Len(Part(open, b))
    BY <2>11 DEF OneMore
  <2>5. \A i \in 1 .. Len(h[b - 1]) : h[b][i] = h[b - 1][i]
    BY <2>11 DEF OneMore
  <2>6. h[b - 1] \in Seq(RowKinds)
    BY <2>11 DEF OneMore
  <2>7. Len(h[a]) \in Nat
    BY <2>2, <2>6
  <2>8. Len(Part(open, b)) \in Nat
    BY <2>2, PartShape
  <2>9. n + 1 \in 1 .. Len(h[a])
    BY <1>1, <2>3, <2>7
  <2>10. h[b][n + 1] = h[a][n + 1]
    BY <2>2, <2>5, <2>9
  <2>. QED
    BY <1>1, <2>2, <2>3, <2>4, <2>7, <2>8, <2>10
<1>4. Nat \subseteq Done
  <2>. HIDE DEF Done
  <2>. QED
    BY <1>2, <1>3, InductionOn
<1>5. CatCount - c \in Nat /\ c + (CatCount - c) = CatCount
  BY CategoriesAre
<1>6. CatCount - c \in Done
  <2>. HIDE DEF Done
  <2>. QED
    BY <1>4, <1>5
<1>7. c + (CatCount - c) <= CatCount
  BY CategoriesAre
<1>8. n + 1 <= Len(h[c + (CatCount - c)]) /\ h[c + (CatCount - c)][n + 1] = c
  BY <1>6, <1>7
<1>. QED
  BY <1>5, <1>8 DEF n

SameBut(c, open, open2) == open2 \ {c} = open \ {c}

LEMMA SameUpTo ==
    ASSUME NEW open, NEW h \in [0 .. CatCount -> Seq(RowKinds)], JoinedBy(h, Parts(open), CatCount),
           NEW open2, NEW g \in [0 .. CatCount -> Seq(RowKinds)], JoinedBy(g, Parts(open2), CatCount),
           NEW c \in Categories, SameBut(c, open, open2)
    PROVE  g[c - 1] = h[c - 1]
<1>. DEFINE Done == {k \in Nat : k < c => g[k] = h[k]}
<1>1. 0 \in Done
  BY DEF JoinedBy
<1>2. ASSUME NEW k \in Nat, k \in Done
      PROVE  k + 1 \in Done
  <2>. DEFINE b == k + 1
  <2>1. SUFFICES ASSUME b < c PROVE g[b] = h[b]
    OBVIOUS
  <2>2. b \in Categories /\ b - 1 = k /\ k < c /\ b # c
    BY <2>1, CategoriesAre
  <2>3. g[k] = h[k]
    BY <1>2, <2>2
  <2>. HIDE DEF b
  <2>4. b \in open <=> b \in open2
    BY <2>2 DEF SameBut
  <2>5. Parts(open)[b] = Parts(open2)[b]
    BY <2>2, <2>4 DEF Parts, Part
  <2>6. h[b] = h[b - 1] \o Parts(open)[b]
    BY <2>2, CategoriesAre DEF JoinedBy
  <2>7. g[b] = g[b - 1] \o Parts(open2)[b]
    BY <2>2, CategoriesAre DEF JoinedBy
  <2>. QED
    BY <2>2, <2>3, <2>5, <2>6, <2>7
<1>3. Nat \subseteq Done
  <2>. HIDE DEF Done
  <2>. QED
    BY <1>1, <1>2, InductionOn
<1>4. c - 1 \in Nat /\ c - 1 < c
  BY CategoriesAre
<1>5. c - 1 \in Done
  <2>. HIDE DEF Done
  <2>. QED
    BY <1>3, <1>4
<1>. QED
  BY <1>4, <1>5

\* The first row is the first category's header.
LEMMA RowsTyped ==
    ASSUME NEW open
    PROVE  /\ RegRows(open) \in Seq(RowKinds) /\ Len(RegRows(open)) \in Nat \ {0}
           /\ RegRows(open)[1] = 1
<1>1. PICK h \in [0 .. CatCount -> Seq(RowKinds)] :
          JoinedBy(h, Parts(open), CatCount) /\ RegRows(open) = h[CatCount]
  BY RowsAreJoined
<1>2. 1 \in Categories /\ 1 - 1 = 0 /\ CatCount \in 0 .. CatCount
  BY CategoriesAre
<1>3. h[CatCount] \in Seq(RowKinds)
  BY <1>2
<1>4. Len(h[1 - 1]) = 0
  BY <1>1, <1>2 DEF JoinedBy
<1>5. Len(h[1 - 1]) + 1 <= Len(h[CatCount]) /\ h[CatCount][Len(h[1 - 1]) + 1] = 1
  BY <1>1, <1>2, HeaderStays
<1>6. 1 <= Len(h[CatCount]) /\ h[CatCount][1] = 1
  BY <1>4, <1>5
<1>. QED
  BY <1>1, <1>3, <1>6

\* Opening or closing the category whose header the cursor is on, or whose row is clicked,
\* leaves the cursor on the list (registers_pane.cpp:71-83, 87-95).
THEOREM TogglingKeepsRow ==
    ASSUME NEW open, NEW i \in 1 .. Len(RegRows(open)), RegRows(open)[i] # 0,
           NEW open2, SameBut(RegRows(open)[i], open, open2)
    PROVE  i \in 1 .. Len(RegRows(open2)) /\ RegRows(open2)[i] = RegRows(open)[i]
<1>. DEFINE c == RegRows(open)[i]
<1>1. c \in Categories
  BY RowsTyped DEF RowKinds
<1>2. PICK h \in [0 .. CatCount -> Seq(RowKinds)] :
          JoinedBy(h, Parts(open), CatCount) /\ RegRows(open) = h[CatCount]
  BY RowsAreJoined
<1>3. PICK g \in [0 .. CatCount -> Seq(RowKinds)] :
          JoinedBy(g, Parts(open2), CatCount) /\ RegRows(open2) = g[CatCount]
  BY RowsAreJoined
<1>. HIDE DEF c
<1>4. i = Len(h[c - 1]) + 1
  <2>1. i \in 1 .. Len(h[CatCount]) /\ h[CatCount][i] = c
    BY <1>2 DEF c
  <2>. QED
    BY <1>1, <1>2, <2>1, HeaderPlace
<1>5. g[c - 1] = h[c - 1]
  <2>1. SameBut(c, open, open2)
    BY DEF c, SameBut
  <2>2. JoinedBy(h, Parts(open), CatCount)
    BY <1>2
  <2>3. JoinedBy(g, Parts(open2), CatCount)
    BY <1>3
  <2>. QED
    BY <1>1, <2>1, <2>2, <2>3, SameUpTo
<1>6. Len(g[c - 1]) + 1 <= Len(g[CatCount]) /\ g[CatCount][Len(g[c - 1]) + 1] = c
  BY <1>1, <1>3, HeaderStays
<1>7. i <= Len(RegRows(open2)) /\ RegRows(open2)[i] = c
  BY <1>3, <1>4, <1>5, <1>6
<1>8. i \in Nat /\ i >= 1 /\ Len(RegRows(open2)) \in Nat
  BY RowsTyped
<1>. QED
  BY <1>7, <1>8 DEF c

LEMMA RegOpened ==
    ASSUME NEW r, RegOK(r), NEW open \in SUBSET Categories,
           RegRows(r.open)[r.cursor + 1] # 0,
           SameBut(RegRows(r.open)[r.cursor + 1], r.open, open)
    PROVE  RegOK([r EXCEPT !.open = open])
<1>. DEFINE t == [r EXCEPT !.open = open]
            i == r.cursor + 1
<1>1. r \in [open : SUBSET Categories, cursor : Nat, top : Nat]
  BY DEF RegOK
<1>2. t \in [open : SUBSET Categories, cursor : Nat, top : Nat]
      /\ t.open = open /\ t.cursor = r.cursor
  BY <1>1
<1>3. i \in 1 .. Len(RegRows(r.open))
  BY <1>1, RowsTyped DEF RegOK, RegTotal
<1>4. i \in 1 .. Len(RegRows(open))
  <2>. HIDE DEF i
  <2>1. RegRows(r.open)[i] # 0 /\ SameBut(RegRows(r.open)[i], r.open, open)
    BY DEF i
  <2>. QED
    BY <1>3, <2>1, TogglingKeepsRow
<1>5. t.cursor < RegTotal(t)
  BY <1>1, <1>2, <1>4, RowsTyped DEF RegTotal
<1>. QED
  BY <1>2, <1>5 DEF RegOK

LEMMA RegMoved ==
    ASSUME NEW r, RegOK(r), NEW c \in 0 .. RegTotal(r) - 1
    PROVE  RegOK([r EXCEPT !.cursor = c])
<1>1. RegTotal(r) \in Nat
  BY RowsTyped DEF RegTotal
<1>2. [r EXCEPT !.cursor = c].open = r.open /\ [r EXCEPT !.cursor = c].cursor = c
  BY DEF RegOK
<1>3. [r EXCEPT !.cursor = c] \in [open : SUBSET Categories, cursor : Nat, top : Nat]
  BY <1>1 DEF RegOK
<1>. QED
  BY <1>1, <1>2, <1>3 DEF RegOK, RegTotal

LEMMA RegKeyKeeps ==
    ASSUME NEW r, RegOK(r), NEW key
    PROVE  RegOK(RegKey(r, key))
<1>. DEFINE listed  == RegRows(r.open)
            at      == listed[r.cursor + 1]
            headers == {i \in 0 .. r.cursor : listed[i + 1] # 0}
            up      == CHOOSE i \in headers : \A j \in headers : j <= i
            moved   == [r EXCEPT !.cursor = MoveRows(key, r.cursor, Len(listed), Height)]
            other   == [r EXCEPT !.open = Toggled(r.open, at)]
            opened  == [r EXCEPT !.open = r.open \union {at}]
            closed  == [r EXCEPT !.open = r.open \ {at}]
            header  == [r EXCEPT !.cursor = up]
<1>1. r.cursor \in Nat /\ r.open \in SUBSET Categories /\ r.cursor < Len(listed)
  BY DEF RegOK, RegTotal
<1>2. listed \in Seq(RowKinds) /\ Len(listed) \in Nat \ {0} /\ listed[1] = 1
  BY RowsTyped
<1>3. r.cursor \in 0 .. Len(listed) - 1 /\ at \in RowKinds
  BY <1>1, <1>2
<1>4. RegTotal(r) = Len(listed)
  BY DEF RegTotal
<1>5. \/ key \in RowKeys /\ RegKey(r, key) = moved
      \/ at # 0 /\ RegKey(r, key) \in {other, opened, closed}
      \/ RegKey(r, key) = header
      \/ RegKey(r, key) = r
  <2>1. RegKey(r, key) =
            CASE key \in RowKeys -> moved
              [] at # 0 /\ key \in {"Return", "Space"} -> other
              [] at # 0 /\ key = "Right" -> opened
              [] at # 0 /\ key = "Left" -> closed
              [] at = 0 /\ key = "Left" -> header
              [] OTHER -> r
    BY DEF RegKey
  <2>. HIDE DEF moved, other, opened, closed, header, at
  <2>. QED
    BY <2>1
<1>6. ASSUME key \in RowKeys
      PROVE  RegOK(moved)
  <2>1. MoveRows(key, r.cursor, Len(listed), Height) \in 0 .. Len(listed) - 1
    <3>. HIDE DEF listed
    <3>. QED
      BY <1>2, <1>3, <1>6, MoveStaysOnList, PanesAssumption
  <2>. QED
    BY <1>4, <2>1, RegMoved
<1>7. ASSUME at # 0
      PROVE  RegOK(other) /\ RegOK(opened) /\ RegOK(closed)
  <2>1. at \in Categories
    BY <1>3, <1>7 DEF RowKinds
  <2>2. ASSUME NEW open \in {Toggled(r.open, at), r.open \union {at}, r.open \ {at}}
        PROVE  RegOK([r EXCEPT !.open = open])
    <3>1. open \in SUBSET Categories /\ SameBut(at, r.open, open)
      BY <1>1, <2>1 DEF Toggled, SameBut
    <3>. QED
      BY <1>7, <3>1, RegOpened
  <2>. QED
    BY <2>2
<1>8. RegOK(header)
  <2>1. 0 \in headers /\ headers \in SUBSET (0 .. r.cursor)
    BY <1>1, <1>2
  <2>2. \E i \in headers : \A j \in headers : j <= i
    <3>. HIDE DEF headers
    <3>. QED
      BY <1>1, <2>1, GreatestOf
  <2>3. up \in headers
    <3>. HIDE DEF headers
    <3>. QED
      BY <2>2
  <2>4. up \in 0 .. Len(listed) - 1
    <3>. HIDE DEF up
    <3>. QED
      BY <1>1, <1>2, <2>1, <2>3
  <2>. QED
    BY <1>4, <2>4, RegMoved
<1>. HIDE DEF at, moved, other, opened, closed, header
<1>. QED
  BY <1>5, <1>6, <1>7, <1>8

LEMMA RegClickKeeps ==
    ASSUME NEW r, RegOK(r), NEW y \in Nat
    PROVE  RegOK(RegClick(r, y))
<1>. DEFINE row == r.top + y
            c   == RegRows(r.open)[row + 1]
            t   == [r EXCEPT !.cursor = row]
<1>1. row \in Nat /\ RegTotal(r) \in Nat
  BY RowsTyped DEF RegOK, RegTotal
<1>2. CASE row >= RegTotal(r)
  <2>1. RegClick(r, y) = r
    BY <1>1, <1>2 DEF RegClick
  <2>. QED
    BY <2>1
<1>3. CASE row < RegTotal(r)
  <2>1. row \in 0 .. RegTotal(r) - 1
    BY <1>1, <1>3
  <2>2. RegOK(t)
    BY <2>1, RegMoved
  <2>3. t.open = r.open /\ t.cursor = row /\ r.open \in SUBSET Categories
    BY DEF RegOK
  <2>4. CASE c = 0
    <3>1. RegClick(r, y) = t
      BY <1>1, <1>3, <2>4 DEF RegClick
    <3>. QED
      BY <2>2, <3>1
  <2>5. CASE c # 0
    <3>1. RegClick(r, y) = [r EXCEPT !.cursor = row, !.open = Toggled(r.open, c)]
      BY <1>1, <1>3, <2>5 DEF RegClick
    <3>2. RegClick(r, y) = [t EXCEPT !.open = Toggled(t.open, c)]
      BY <2>3, <3>1 DEF RegOK
    <3>3. c \in Categories
      BY <2>1, <2>5, RowsTyped DEF RowKinds, RegTotal
    <3>4. Toggled(t.open, c) \in SUBSET Categories /\ SameBut(c, t.open, Toggled(t.open, c))
      BY <2>3, <3>3 DEF Toggled, SameBut
    <3>5. RegRows(t.open)[t.cursor + 1] = c
      BY <2>3
    <3>. HIDE DEF t, c
    <3>. QED
      BY <2>2, <2>5, <3>2, <3>4, <3>5, RegOpened
  <2>. QED
    BY <2>4, <2>5
<1>. QED
  BY <1>1, <1>2, <1>3

LEMMA RegDrawnKeeps ==
    ASSUME NEW r, RegOK(r)
    PROVE  /\ RegOK(RegDrawn(r))
           /\ InWindow(RegDrawn(r).cursor, RegDrawn(r).top, RegTotal(RegDrawn(r)), Height)
<1>. DEFINE n == RegTotal(r)
            c == FollowCursor(r.cursor, n)
            p == FollowTop(r.cursor, r.top, n, Height)
            t == [r EXCEPT !.cursor = c, !.top = p]
<1>1. n \in Nat \ {0} /\ r.cursor \in Nat /\ r.top \in Nat
  BY RowsTyped DEF RegTotal, RegOK
<1>2. c \in Nat /\ p \in Nat /\ InWindow(c, p, n, Height)
  <2>. HIDE DEF n
  <2>. QED
    BY <1>1, FollowShowsCursor, PanesAssumption
<1>3. RegDrawn(r) = t
  BY DEF RegDrawn
<1>. HIDE DEF n, c, p
<1>4. t.cursor = c /\ t.top = p /\ t.open = r.open
  BY DEF RegOK
<1>5. t \in [open : SUBSET Categories, cursor : Nat, top : Nat]
  BY <1>2 DEF RegOK
<1>6. RegTotal(t) = n
  BY <1>4 DEF RegTotal, n
<1>7. c < n
  BY <1>1, <1>2 DEF InWindow
<1>. QED
  BY <1>2, <1>3, <1>4, <1>5, <1>6, <1>7 DEF RegOK

(***************************************************************************)
(* The disassembly.                                                        *)
(***************************************************************************)
LEMMA SessionShape ==
    ASSUME NEW now \in SessionType
    PROVE  /\ now.gen \in Nat /\ now.gen \in Generations
           /\ now.rows \in 0 .. MaxRows /\ now.rows \in Nat /\ now.scanning \in BOOLEAN
BY PanesAssumption DEF SessionType, Generations, NotBuilt

LEMMA DisClampedIsOK ==
    ASSUME NEW now \in SessionType, NEW d \in [gen : {now.gen}, cursor : Nat, top : Nat]
    PROVE  /\ DisOK(DisClamped(d, now), now) /\ DisClamped(d, now).gen = now.gen
           /\ InWindow(DisClamped(d, now).cursor, DisClamped(d, now).top, now.rows, Height)
<1>. DEFINE c == FollowCursor(d.cursor, now.rows)
            p == FollowTop(d.cursor, d.top, now.rows, Height)
            t == [d EXCEPT !.cursor = c, !.top = p]
<1>1. now.gen \in Generations /\ now.gen \in Nat /\ now.rows \in 0 .. MaxRows /\ now.rows \in Nat
  BY SessionShape
<1>2. c \in Nat /\ p \in Nat /\ InWindow(c, p, now.rows, Height)
  BY <1>1, FollowShowsCursor, PanesAssumption
<1>3. DisClamped(d, now) = t
  BY DEF DisClamped
<1>. HIDE DEF c, p
<1>4. t.cursor = c /\ t.top = p /\ t.gen = now.gen
  OBVIOUS
<1>5. c \in 0 .. MaxRows /\ p \in 0 .. MaxRows /\ (c = 0 \/ c < now.rows)
  BY <1>1, <1>2, PanesAssumption DEF InWindow
<1>6. t \in DisType
  BY <1>1, <1>5 DEF DisType
<1>. QED
  BY <1>1, <1>2, <1>3, <1>4, <1>5, <1>6 DEF DisOK

LEMMA DisSyncedIsOK ==
    ASSUME NEW now \in SessionType, NEW d, DisOK(d, now)
    PROVE  DisOK(DisSynced(d, now), now) /\ DisSynced(d, now).gen = now.gen
<1>1. CASE d.gen = now.gen
  BY <1>1 DEF DisSynced
<1>2. CASE d.gen # now.gen
  BY <1>2, SessionShape, PanesAssumption DEF DisSynced, DisOK, DisType
<1>. QED
  BY <1>1, <1>2

LEMMA DisShape ==
    ASSUME NEW now \in SessionType, NEW d, DisOK(d, now), d.gen = now.gen
    PROVE  /\ d \in [gen : {now.gen}, cursor : Nat, top : Nat]
           /\ now.rows > 0 => d.cursor \in 0 .. now.rows - 1
BY SessionShape, PanesAssumption DEF DisOK, DisType

LEMMA DisKeyKeeps ==
    ASSUME session \in SessionType, NEW d, DisOK(d, session), NEW key
    PROVE  DisOK(DisKey(d, key), session)
<1>. DEFINE s == DisSynced(d, session)
            c == MoveRows(key, s.cursor, rows, Height)
            m == [s EXCEPT !.cursor = c]
<1>1. DisOK(s, session) /\ s.gen = session.gen
  BY DisSyncedIsOK
<1>2. s \in [gen : {session.gen}, cursor : Nat, top : Nat]
      /\ (rows > 0 => s.cursor \in 0 .. rows - 1) /\ rows \in Nat
  BY <1>1, DisShape, SessionShape DEF rows
<1>3. DisKey(d, key) = IF key \in RowKeys /\ rows > 0 THEN DisClamped(m, session) ELSE s
  BY DEF DisKey
<1>. HIDE DEF s
<1>4. CASE key \in RowKeys /\ rows > 0
  <2>1. c \in 0 .. rows - 1
    BY <1>2, <1>4, MoveStaysOnList, PanesAssumption
  <2>2. c \in Nat
    BY <1>2, <2>1
  <2>. HIDE DEF c
  <2>3. m \in [gen : {session.gen}, cursor : Nat, top : Nat]
    BY <1>2, <2>2
  <2>. QED
    BY <1>3, <1>4, <2>3, DisClampedIsOK
<1>5. CASE ~(key \in RowKeys /\ rows > 0)
  BY <1>1, <1>3, <1>5
<1>. QED
  BY <1>4, <1>5

LEMMA NavigatedKeeps ==
    ASSUME session \in SessionType, NEW d, DisOK(d, session), NEW row \in 0 .. rows
    PROVE  DisOK(NavigatedTo(d, row), session)
<1>. DEFINE centred == [gen |-> gen, cursor |-> row,
                        top |-> IF row > Height \div 2 THEN row - Height \div 2 ELSE 0]
<1>1. row \in Nat /\ Height \div 2 \in Nat
  BY SessionShape, PanesAssumption DEF rows
<1>2. centred \in [gen : {session.gen}, cursor : Nat, top : Nat]
  BY <1>1 DEF gen
<1>3. NavigatedTo(d, row) = IF rows = 0 THEN DisSynced(d, session) ELSE DisClamped(centred, session)
  BY DEF NavigatedTo
<1>. QED
  BY <1>2, <1>3, DisSyncedIsOK, DisClampedIsOK

LEMMA DisClickKeeps ==
    ASSUME session \in SessionType, NEW d, DisOK(d, session), NEW y \in Nat
    PROVE  DisOK(DisClick(d, y), session)
<1>. DEFINE s   == DisSynced(d, session)
            row == s.top + y
            t   == [s EXCEPT !.cursor = row]
<1>1. DisOK(s, session) /\ s.gen = session.gen
  BY DisSyncedIsOK
<1>2. DisClick(d, y) = IF row < rows THEN t ELSE s
  BY DEF DisClick
<1>. HIDE DEF s
<1>3. s \in DisType /\ session.rows \in 0 .. MaxRows /\ row \in Nat
  BY <1>1, SessionShape, PanesAssumption DEF DisOK, DisType
<1>4. CASE row < rows
  <2>1. row \in 0 .. MaxRows
    BY <1>3, <1>4, PanesAssumption DEF rows
  <2>. HIDE DEF row
  <2>2. t \in DisType /\ t.gen = session.gen /\ t.cursor = row
    BY <1>1, <1>3, <2>1 DEF DisType
  <2>3. DisOK(t, session)
    BY <1>4, <2>2, SessionShape DEF DisOK, rows
  <2>. QED
    BY <1>2, <1>4, <2>3
<1>5. CASE ~(row < rows)
  BY <1>1, <1>2, <1>5
<1>. QED
  BY <1>4, <1>5

LEMMA DisDrawnKeeps ==
    ASSUME NEW d, NEW now \in SessionType, DisOK(d, now)
    PROVE  /\ DisOK(DisDrawn(d, now), now) /\ DisDrawn(d, now).gen = now.gen
           /\ InWindow(DisDrawn(d, now).cursor, DisDrawn(d, now).top, now.rows, Height)
<1>1. DisOK(DisSynced(d, now), now) /\ DisSynced(d, now).gen = now.gen
  BY DisSyncedIsOK
<1>2. DisSynced(d, now) \in [gen : {now.gen}, cursor : Nat, top : Nat]
  BY <1>1, DisShape
<1>. QED
  BY <1>2, DisClampedIsOK DEF DisDrawn

(***************************************************************************)
(* The memory pane.                                                        *)
(***************************************************************************)
LEMMA SectionsTyped ==
    ASSUME NEW m \in MemType
    PROVE  SectionsOf(m) \in Seq(Nat) /\ Len(SectionsOf(m)) \in Nat
<1>1. CASE m.gen > 0
  <2>1. m.gen \in 1 .. Len(SectionTables)
    BY <1>1, PanesAssumption DEF MemType, Generations, NotBuilt
  <2>2. SectionTables[m.gen] \in Seq(Nat)
    BY <2>1, PanesAssumption
  <2>. QED
    BY <1>1, <2>2 DEF SectionsOf
<1>2. CASE ~(m.gen > 0)
  BY <1>2 DEF SectionsOf
<1>. QED
  BY <1>1, <1>2

LEMMA TotalRowsIs ==
    ASSUME session \in SessionType
    PROVE  /\ TotalRows \in Nat /\ TotalRows <= FileRows /\ FileRows \in Nat \ {0}
           /\ TotalRows = 0 <=> session.gen = 0
           /\ Loaded <=> session.gen > 0
BY SessionShape, PanesAssumption DEF TotalRows, Loaded, gen

LEMMA MemSyncedKeeps ==
    ASSUME session \in SessionType, NEW m, MemOK(m, session)
    PROVE  MemOK(MemSynced(m), session) /\ MemSynced(m).gen = session.gen
<1>1. CASE m.gen = gen
  BY <1>1 DEF MemSynced, gen
<1>2. CASE m.gen # gen
  <2>. DEFINE t == [MemInit EXCEPT !.gen = gen, !.pick = m.pick, !.pickTop = m.pickTop]
  <2>1. MemSynced(m) = t
    BY <1>2 DEF MemSynced
  <2>2. session.gen \in Generations /\ m.pick \in Nat /\ m.pickTop \in Nat
    BY SessionShape DEF MemOK, MemType
  <2>3. t \in MemType
    <3>1. NotBuilt \in Generations
      BY PanesAssumption DEF Generations, NotBuilt
    <3>2. MemInit \in MemType
      BY <3>1, PanesAssumption DEF MemType, MemInit, Stops
    <3>. QED
      BY <2>2, <3>2 DEF MemType, gen
  <2>4. t.chosen = -1 /\ t.picking = FALSE /\ t.editing = FALSE /\ t.gen = session.gen
    BY DEF MemInit, gen
  <2>. HIDE DEF t
  <2>5. t.chosen < Len(SectionsOf(t))
    BY <2>3, <2>4, SectionsTyped
  <2>. QED
    BY <2>1, <2>3, <2>4, <2>5 DEF MemOK
<1>. QED
  BY <1>1, <1>2

\* The rows' cursor and window, and the stop in focus, are free of the rest.
LEMMA MemRowsAreFree ==
    ASSUME NEW m, NEW now, MemOK(m, now), NEW c \in 0 .. FileRows, NEW p \in 0 .. FileRows,
           NEW stop \in Stops
    PROVE  /\ MemOK([m EXCEPT !.cursor = c, !.top = p], now)
           /\ MemOK([m EXCEPT !.at = stop, !.cursor = c, !.top = p], now)
           /\ MemOK([m EXCEPT !.at = stop, !.cursor = c], now)
           /\ MemOK([m EXCEPT !.at = stop], now)
<1>. DEFINE Results == {[m EXCEPT !.cursor = c, !.top = p],
                        [m EXCEPT !.at = stop, !.cursor = c, !.top = p],
                        [m EXCEPT !.at = stop, !.cursor = c], [m EXCEPT !.at = stop]}
<1>1. ASSUME NEW t \in Results PROVE MemOK(t, now)
  <2>1. t \in MemType
    BY DEF MemOK, MemType
  <2>2. /\ t.gen = m.gen /\ t.chosen = m.chosen /\ t.picking = m.picking /\ t.pick = m.pick
        /\ t.editing = m.editing
    BY DEF MemOK, MemType
  <2>3. SectionsOf(t) = SectionsOf(m)
    BY <2>2 DEF SectionsOf
  <2>. QED
    BY <2>1, <2>2, <2>3 DEF MemOK
<1>. QED
  BY <1>1

LEMMA GotoRowKeeps ==
    ASSUME session \in SessionType, NEW m, MemOK(m, session), NEW row \in Nat
    PROVE  MemOK(GotoRow(m, row), session)
<1>. DEFINE at == IF row < TotalRows THEN row ELSE TotalRows - 1
            s  == MemSynced(m)
<1>1. MemOK(s, session)
  BY MemSyncedKeeps
<1>2. GotoRow(m, row) = IF TotalRows = 0 THEN s ELSE [s EXCEPT !.cursor = at, !.top = at]
  BY DEF GotoRow
<1>. HIDE DEF s
<1>3. TotalRows # 0 => at \in 0 .. FileRows
  BY TotalRowsIs
<1>. HIDE DEF at
<1>4. TotalRows # 0 => MemOK([s EXCEPT !.cursor = at, !.top = at], session)
  BY <1>1, <1>3, MemRowsAreFree DEF Stops
<1>. QED
  BY <1>1, <1>2, <1>4

LEMMA FieldsKeep ==
    ASSUME NEW m, NEW now, MemOK(m, now)
    PROVE  /\ MemOK([m EXCEPT !.editing = FALSE], now)
           /\ MemOK([m EXCEPT !.picking = FALSE], now)
<1>1. ASSUME NEW t \in {[m EXCEPT !.editing = FALSE], [m EXCEPT !.picking = FALSE]}
      PROVE  MemOK(t, now)
  <2>1. t \in MemType
    BY DEF MemOK, MemType
  <2>2. /\ t.gen = m.gen /\ t.chosen = m.chosen /\ t.pick = m.pick
        /\ t.picking => m.picking
        /\ t.editing => m.editing
    BY DEF MemOK, MemType
  <2>3. SectionsOf(t) = SectionsOf(m)
    BY <2>2 DEF SectionsOf
  <2>4. t.picking => t.pick < Len(SectionsOf(t)) /\ ~t.editing
    BY <2>2, <2>3, Zenon DEF MemOK
  <2>5. t.picking \/ t.editing => now.gen > 0
    BY <2>2, Zenon DEF MemOK
  <2>6. t.chosen < Len(SectionsOf(t))
    BY <2>2, <2>3 DEF MemOK
  <2>. QED
    BY <2>1, <2>4, <2>5, <2>6 DEF MemOK
<1>. QED
  BY <1>1

LEMMA PickIsFree ==
    ASSUME NEW m, NEW now, MemOK(m, now), NEW i \in Nat, i < Len(SectionsOf(m))
    PROVE  MemOK([m EXCEPT !.pick = i], now)
<1>. DEFINE t == [m EXCEPT !.pick = i]
<1>1. t \in MemType
  BY DEF MemOK, MemType
<1>2. /\ t.gen = m.gen /\ t.chosen = m.chosen /\ t.pick = i
      /\ t.picking = m.picking /\ t.editing = m.editing
  BY DEF MemOK, MemType
<1>3. SectionsOf(t) = SectionsOf(m)
  BY <1>2 DEF SectionsOf
<1>4. t.picking => t.pick < Len(SectionsOf(t)) /\ ~t.editing
  BY <1>2, <1>3 DEF MemOK
<1>5. t.picking \/ t.editing => now.gen > 0
  BY <1>2, Zenon DEF MemOK
<1>6. t.chosen < Len(SectionsOf(t))
  BY <1>2, <1>3 DEF MemOK
<1>. QED
  BY <1>1, <1>4, <1>5, <1>6, Zenon DEF MemOK

LEMMA PickKeyKeeps ==
    ASSUME session \in SessionType, NEW m, MemOK(m, session), m.picking, NEW key
    PROVE  MemOK(PickKey(m, key), session)
<1>. DEFINE n      == Len(SectionsOf(m))
            less   == IF m.pick > 0 THEN m.pick - 1 ELSE 0
            more   == IF m.pick + 1 < n THEN m.pick + 1 ELSE m.pick
            closed == [m EXCEPT !.picking = FALSE]
            taken  == [m EXCEPT !.chosen = m.pick, !.picking = FALSE]
            up     == [m EXCEPT !.pick = less]
            down   == [m EXCEPT !.pick = more]
            row    == SectionsOf(m)[m.pick + 1]
<1>1. m \in MemType /\ m.pick \in Nat /\ m.pick < n /\ n \in Nat /\ ~m.editing
  BY SectionsTyped DEF MemOK, MemType
<1>2. row \in Nat
  BY <1>1, SectionsTyped
<1>3. PickKey(m, key) \in {closed, up, down, GotoRow(taken, row), m}
  BY DEF PickKey
<1>. HIDE DEF row
<1>4. MemOK(closed, session)
  BY FieldsKeep
<1>5. MemOK(taken, session)
  <2>1. taken \in MemType
    BY <1>1 DEF MemType
  <2>2. taken.gen = m.gen /\ taken.chosen = m.pick /\ ~taken.picking /\ ~taken.editing
    BY <1>1 DEF MemType
  <2>3. SectionsOf(taken) = SectionsOf(m)
    BY <2>2 DEF SectionsOf
  <2>. HIDE DEF taken
  <2>. QED
    BY <1>1, <2>1, <2>2, <2>3 DEF MemOK
<1>6. less \in Nat /\ less < n /\ more \in Nat /\ more < n
  BY <1>1
<1>7. MemOK(up, session) /\ MemOK(down, session)
  <2>. HIDE DEF less, more
  <2>. QED
    BY <1>6, PickIsFree
<1>. HIDE DEF closed, taken, up, down, n
<1>8. MemOK(GotoRow(taken, row), session)
  BY <1>2, <1>5, GotoRowKeeps
<1>. QED
  BY <1>3, <1>4, <1>7, <1>8

LEMMA OffsetKeyKeeps ==
    ASSUME session \in SessionType, NEW m, MemOK(m, session), NEW key, NEW row \in -1 .. FileRows
    PROVE  MemOK(OffsetKey(m, key, row), session)
<1>. DEFINE t == [m EXCEPT !.editing = FALSE]
<1>1. MemOK(t, session)
  BY FieldsKeep
<1>2. row >= 0 => row \in Nat
  BY PanesAssumption
<1>. HIDE DEF t
<1>3. row >= 0 => MemOK(GotoRow(t, row), session)
  BY <1>1, <1>2, GotoRowKeeps
<1>4. \/ OffsetKey(m, key, row) \in {t, m}
      \/ row >= 0 /\ OffsetKey(m, key, row) = GotoRow(t, row)
  BY DEF OffsetKey, t
<1>. QED
  BY <1>1, <1>3, <1>4

LEMMA OpenPickerKeeps ==
    ASSUME session \in SessionType, NEW m, MemOK(m, session), Loaded, ~m.editing
    PROVE  MemOK(OpenPicker(m), session)
<1>. DEFINE t == [m EXCEPT !.at = "Section", !.picking = TRUE,
                           !.pick = IF m.chosen >= 0 THEN m.chosen ELSE 0]
<1>1. m \in MemType /\ SectionsOf(m) \in Seq(Nat)
  BY SectionsTyped DEF MemOK
<1>2. CASE SectionsOf(m) = <<>>
  BY <1>2 DEF OpenPicker
<1>3. CASE SectionsOf(m) # <<>>
  <2>1. OpenPicker(m) = t
    BY <1>3 DEF OpenPicker
  <2>2. t \in MemType
    <3>1. (IF m.chosen >= 0 THEN m.chosen ELSE 0) \in Nat
      BY <1>1 DEF MemType
    <3>. QED
      BY <1>1, <3>1 DEF MemType, Stops
  <2>3. /\ t.gen = m.gen /\ t.chosen = m.chosen /\ t.editing = m.editing /\ t.picking
        /\ t.pick \in {0, m.chosen}
    BY <1>1 DEF MemType
  <2>4. SectionsOf(t) = SectionsOf(m)
    BY <2>3 DEF SectionsOf
  <2>5. t.pick < Len(SectionsOf(m))
    BY <1>1, <1>3, <2>3 DEF MemOK
  <2>. HIDE DEF t
  <2>. QED
    BY <2>1, <2>2, <2>3, <2>4, <2>5, TotalRowsIs DEF MemOK
<1>. QED
  BY <1>2, <1>3

LEMMA OpenOffsetKeeps ==
    ASSUME session \in SessionType, NEW m, MemOK(m, session), Loaded, ~m.picking
    PROVE  MemOK(OpenOffset(m), session)
<1>. DEFINE t == [m EXCEPT !.at = "Offset", !.editing = TRUE]
<1>1. t \in MemType
  BY DEF MemOK, MemType, Stops
<1>2. /\ t.gen = m.gen /\ t.chosen = m.chosen /\ t.picking = m.picking
  BY DEF MemOK, MemType
<1>3. SectionsOf(t) = SectionsOf(m)
  BY <1>2 DEF SectionsOf
<1>4. OpenOffset(m) = t
  BY DEF OpenOffset
<1>. HIDE DEF t
<1>. QED
  BY <1>1, <1>2, <1>3, <1>4, TotalRowsIs DEF MemOK

LEMMA MoveRowsIsNat ==
    ASSUME NEW key \in RowKeys, NEW total \in Nat \ {0}, NEW cursor \in Nat,
           NEW height \in Nat \ {0}
    PROVE  MoveRows(key, cursor, total, height) \in Nat
<1>1. Page(height) \in Nat \ {0}
  BY DEF Page
<1>2. CASE key \in {"Up", "Down"}
  BY <1>2 DEF MoveRows
<1>3. CASE key = "PageUp"
  BY <1>1, <1>3 DEF MoveRows
<1>4. CASE key = "PageDown"
  BY <1>1, <1>4 DEF MoveRows
<1>5. CASE key \in {"Home", "End"}
  BY <1>5 DEF MoveRows
<1>. QED
  BY <1>2, <1>3, <1>4, <1>5 DEF RowKeys

\* follow() on the hexdump's rows.
LEMMA MemFollowed ==
    ASSUME session \in SessionType, NEW cursor \in Nat, NEW top \in Nat
    PROVE  /\ FollowCursor(cursor, TotalRows) \in 0 .. FileRows
           /\ FollowTop(cursor, top, TotalRows, Height) \in 0 .. FileRows
           /\ InWindow(FollowCursor(cursor, TotalRows),
                       FollowTop(cursor, top, TotalRows, Height), TotalRows, Height)
<1>. DEFINE c == FollowCursor(cursor, TotalRows)
            p == FollowTop(cursor, top, TotalRows, Height)
<1>1. c \in Nat /\ p \in Nat /\ InWindow(c, p, TotalRows, Height)
  BY TotalRowsIs, FollowShowsCursor, PanesAssumption
<1>. HIDE DEF c, p
<1>2. c \in 0 .. FileRows /\ p \in 0 .. FileRows
  BY <1>1, TotalRowsIs, PanesAssumption DEF InWindow
<1>. QED
  BY <1>1, <1>2 DEF c, p

LEMMA MovedRowsKeeps ==
    ASSUME session \in SessionType, NEW m, MemOK(m, session), Loaded, NEW key \in RowKeys
    PROVE  MemOK(MovedRows(m, key), session)
<1>. DEFINE cursor == MoveRows(key, m.cursor, TotalRows, Height)
            c      == FollowCursor(cursor, TotalRows)
            p      == FollowTop(cursor, m.top, TotalRows, Height)
<1>1. m.cursor \in Nat /\ m.top \in Nat
  BY PanesAssumption DEF MemOK, MemType
<1>2. TotalRows \in Nat \ {0}
  BY TotalRowsIs
<1>. HIDE DEF cursor
<1>5. cursor \in Nat
  <2>1. \A t \in Nat \ {0}, k \in Nat, h \in Nat \ {0} : MoveRows(key, k, t, h) \in Nat
    BY MoveRowsIsNat
  <2>. QED
    BY <1>1, <1>2, <2>1, PanesAssumption DEF cursor
<1>3. c \in 0 .. FileRows /\ p \in 0 .. FileRows
  BY <1>1, <1>5, MemFollowed
<1>6. "Rows" \in Stops
  BY DEF Stops
<1>4. MovedRows(m, key) = [m EXCEPT !.at = "Rows", !.cursor = c, !.top = p]
  BY DEF MovedRows, cursor
<1>. HIDE DEF c, p
<1>7. MemOK([m EXCEPT !.at = "Rows", !.cursor = c, !.top = p], session)
  BY <1>3, <1>6, MemRowsAreFree
<1>. QED
  BY <1>4, <1>7

LEMMA StopKeyKeeps ==
    ASSUME session \in SessionType, NEW m, MemOK(m, session), Loaded, ~m.picking, ~m.editing,
           NEW key
    PROVE  MemOK(StopKey(m, key), session)
<1>. DEFINE other == IF m.at = "Section" THEN "Offset" ELSE "Section"
<1>1. \/ StopKey(m, key) \in {OpenPicker(m), OpenOffset(m), [m EXCEPT !.at = other],
                              [m EXCEPT !.at = "Rows"], m}
      \/ key \in RowKeys /\ StopKey(m, key) = MovedRows(m, key)
  BY DEF StopKey
<1>2. other \in Stops /\ "Rows" \in Stops
  BY DEF Stops
<1>. HIDE DEF other
<1>3. 0 \in 0 .. FileRows
  BY PanesAssumption
<1>4. MemOK([m EXCEPT !.at = other], session) /\ MemOK([m EXCEPT !.at = "Rows"], session)
  BY <1>2, <1>3, MemRowsAreFree
<1>5. MemOK(OpenPicker(m), session) /\ MemOK(OpenOffset(m), session)
  BY OpenPickerKeeps, OpenOffsetKeeps
<1>. QED
  BY <1>1, <1>4, <1>5, MovedRowsKeeps

LEMMA MemKeyKeeps ==
    ASSUME session \in SessionType, NEW m, MemOK(m, session), NEW key, NEW row \in -1 .. FileRows
    PROVE  MemOK(MemKey(m, key, row), session)
<1>. DEFINE s == MemSynced(m)
<1>1. MemOK(s, session)
  BY MemSyncedKeeps
<1>2. \/ s.picking /\ MemKey(m, key, row) = PickKey(s, key)
      \/ ~s.picking /\ s.editing /\ MemKey(m, key, row) = OffsetKey(s, key, row)
      \/ ~s.picking /\ ~s.editing /\ Loaded /\ MemKey(m, key, row) = StopKey(s, key)
      \/ MemKey(m, key, row) = s
  <2>1. MemKey(m, key, row) =
            CASE s.picking                    -> PickKey(s, key)
              [] ~s.picking /\ s.editing      -> OffsetKey(s, key, row)
              [] ~s.picking /\ ~s.editing     -> IF Loaded THEN StopKey(s, key) ELSE s
    BY DEF MemKey
  <2>2. s.picking \in BOOLEAN /\ s.editing \in BOOLEAN
    BY <1>1 DEF MemOK, MemType
  <2>. HIDE DEF s
  <2>3. s.picking \/ (~s.picking /\ s.editing) \/ (~s.picking /\ ~s.editing)
    BY <2>2
  <2>. QED
    BY <2>1, <2>3
<1>. HIDE DEF s
<1>3. s.picking => MemOK(PickKey(s, key), session)
  BY <1>1, PickKeyKeeps
<1>4. MemOK(OffsetKey(s, key, row), session)
  BY <1>1, OffsetKeyKeeps
<1>5. ~s.picking /\ ~s.editing /\ Loaded => MemOK(StopKey(s, key), session)
  BY <1>1, StopKeyKeeps
<1>. QED
  BY <1>1, <1>2, <1>3, <1>4, <1>5

LEMMA ClickFieldsKeep ==
    ASSUME session \in SessionType, NEW m, MemOK(m, session), Loaded
    PROVE  MemOK(MemClickSection(m), session) /\ MemOK(MemClickOffset(m), session)
<1>. DEFINE s == MemSynced(m)
            e == [s EXCEPT !.editing = FALSE]
            f == [e EXCEPT !.at = "Section"]
            g == [s EXCEPT !.picking = FALSE]
<1>1. MemOK(s, session)
  BY MemSyncedKeeps
<1>. HIDE DEF s
<1>2. MemOK(e, session) /\ MemOK(g, session) /\ e.editing = FALSE /\ g.picking = FALSE
  BY <1>1, FieldsKeep DEF MemOK, MemType
<1>3. 0 \in 0 .. FileRows /\ "Section" \in Stops
  BY PanesAssumption DEF Stops
<1>4. f = [s EXCEPT !.editing = FALSE, !.at = "Section"] /\ f.editing = FALSE
  BY <1>1 DEF MemOK, MemType
<1>. HIDE DEF e
<1>5. MemOK(f, session)
  BY <1>2, <1>3, MemRowsAreFree
<1>6. MemClickSection(m) = IF f.picking THEN [f EXCEPT !.picking = FALSE] ELSE OpenPicker(f)
  BY <1>4 DEF MemClickSection, s
<1>7. MemClickOffset(m) = OpenOffset(g)
  BY DEF MemClickOffset, s
<1>. HIDE DEF f, g
<1>8. MemOK([f EXCEPT !.picking = FALSE], session)
  BY <1>5, FieldsKeep
<1>9. MemOK(OpenPicker(f), session)
  BY <1>4, <1>5, OpenPickerKeeps
<1>10. MemOK(OpenOffset(g), session)
  BY <1>2, OpenOffsetKeeps
<1>. QED
  BY <1>6, <1>7, <1>8, <1>9, <1>10

LEMMA ClickRowKeeps ==
    ASSUME session \in SessionType, NEW m, MemOK(m, session), NEW y \in Nat
    PROVE  MemOK(MemClickRow(m, y), session)
<1>. DEFINE s   == MemSynced(m)
            e   == [s EXCEPT !.editing = FALSE]
            row == y + IF e.picking THEN e.pickTop ELSE e.top
            p   == [e EXCEPT !.pick = row]
            t   == [e EXCEPT !.at = "Rows", !.cursor = row]
<1>1. MemOK(s, session)
  BY MemSyncedKeeps
<1>. HIDE DEF s
<1>2. MemOK(e, session)
  BY <1>1, FieldsKeep
<1>3. MemClickRow(m, y) =
          CASE e.picking /\ row < Len(SectionsOf(e)) -> PickKey(p, "Return")
            [] ~e.picking /\ row < TotalRows -> t
            [] OTHER -> e
  BY DEF MemClickRow, s
<1>. HIDE DEF e
<1>8. e.pickTop \in Nat /\ e.top \in Nat
  BY <1>2, PanesAssumption DEF MemOK, MemType
<1>4. row \in Nat
  BY <1>8
<1>. HIDE DEF row
<1>5. CASE e.picking /\ row < Len(SectionsOf(e))
  <2>1. MemOK(p, session)
    BY <1>2, <1>4, <1>5, PickIsFree
  <2>2. p.picking
    BY <1>2, <1>5 DEF MemOK, MemType
  <2>. HIDE DEF p
  <2>3. MemOK(PickKey(p, "Return"), session)
    BY <2>1, <2>2, PickKeyKeeps
  <2>. QED
    BY <1>3, <1>5, <2>3
<1>6. CASE ~e.picking /\ row < TotalRows
  <2>1. row \in 0 .. FileRows /\ 0 \in 0 .. FileRows
    BY <1>4, <1>6, TotalRowsIs, PanesAssumption
  <2>2. MemOK(t, session)
    BY <1>2, <2>1, MemRowsAreFree DEF Stops
  <2>. HIDE DEF t, p
  <2>. QED
    BY <1>3, <1>6, <2>2
<1>7. CASE ~(e.picking /\ row < Len(SectionsOf(e))) /\ ~(~e.picking /\ row < TotalRows)
  <2>. HIDE DEF t, p
  <2>. QED
    BY <1>2, <1>3, <1>7
<1>. QED
  BY <1>5, <1>6, <1>7

\* A frame of the pane: what is drawn, the section list or the hexdump, is this binary's and
\* has its cursor in its window.
LEMMA MemDrawnKeeps ==
    ASSUME session \in SessionType, NEW m, MemOK(m, session)
    PROVE  /\ MemOK(MemDrawn(m), session) /\ MemDrawn(m).gen = session.gen
           /\ Loaded =>
                IF MemDrawn(m).picking
                THEN InWindow(MemDrawn(m).pick, MemDrawn(m).pickTop,
                              Len(SectionsOf(MemDrawn(m))), Height)
                ELSE InWindow(MemDrawn(m).cursor, MemDrawn(m).top, TotalRows, Height)
<1>. DEFINE s  == MemSynced(m)
            n  == Len(SectionsOf(s))
            k  == FollowCursor(s.pick, n)
            kt == FollowTop(s.pick, s.pickTop, n, Height)
            c  == FollowCursor(s.cursor, TotalRows)
            p  == FollowTop(s.cursor, s.top, TotalRows, Height)
            a  == [s EXCEPT !.pick = k, !.pickTop = kt]
            b  == [s EXCEPT !.cursor = c, !.top = p]
<1>1. MemOK(s, session) /\ s.gen = session.gen
  BY MemSyncedKeeps
<1>2. MemDrawn(m) = IF s.picking THEN a ELSE IF Loaded THEN b ELSE s
  BY DEF MemDrawn
<1>. HIDE DEF s
<1>3. s \in MemType /\ n \in Nat /\ s.pick \in Nat /\ s.pickTop \in Nat
      /\ s.cursor \in Nat /\ s.top \in Nat
  BY <1>1, SectionsTyped, PanesAssumption DEF MemOK, MemType
<1>4. CASE s.picking
  <2>1. n > 0
    BY <1>1, <1>3, <1>4 DEF MemOK
  <2>. HIDE DEF n
  <2>2. k \in Nat /\ kt \in Nat /\ InWindow(k, kt, n, Height)
    BY <1>3, FollowShowsCursor, PanesAssumption
  <2>3. k < n
    BY <1>3, <2>1, <2>2 DEF InWindow
  <2>. HIDE DEF k, kt
  <2>4. a \in MemType
    BY <1>3, <2>2 DEF MemType
  <2>5. /\ a.gen = s.gen /\ a.pick = k /\ a.pickTop = kt /\ a.picking = s.picking
        /\ a.editing = s.editing /\ a.chosen = s.chosen
    BY <1>3 DEF MemType
  <2>6. SectionsOf(a) = SectionsOf(s)
    BY <2>5 DEF SectionsOf
  <2>. HIDE DEF a
  <2>7. a.picking => a.pick < Len(SectionsOf(a)) /\ ~a.editing
    BY <1>1, <2>3, <2>5, <2>6 DEF MemOK, n
  <2>8. a.picking \/ a.editing => session.gen > 0
    BY <1>1, <2>5, Zenon DEF MemOK
  <2>9. a.chosen < Len(SectionsOf(a))
    BY <1>1, <2>5, <2>6 DEF MemOK
  <2>10. MemOK(a, session)
    BY <2>4, <2>7, <2>8, <2>9, Zenon DEF MemOK
  <2>11. MemDrawn(m) = a
    BY <1>2, <1>4
  <2>. QED
    BY <1>1, <1>4, <2>2, <2>5, <2>6, <2>10, <2>11 DEF n
<1>5. CASE ~s.picking
  <2>1. c \in 0 .. FileRows /\ p \in 0 .. FileRows /\ InWindow(c, p, TotalRows, Height)
    BY <1>3, MemFollowed
  <2>. HIDE DEF c, p
  <2>2. MemOK(b, session)
    BY <1>1, <2>1, MemRowsAreFree DEF Stops
  <2>3. b.gen = s.gen /\ b.cursor = c /\ b.top = p /\ b.picking = s.picking
    BY <1>3 DEF MemType
  <2>4. MemDrawn(m) = IF Loaded THEN b ELSE s
    BY <1>2, <1>5
  <2>. HIDE DEF b
  <2>. QED
    BY <1>1, <1>5, <2>1, <2>2, <2>3, <2>4
<1>. QED
  BY <1>4, <1>5

LEMMA MemEnteredKeeps ==
    ASSUME NEW m, NEW now, MemOK(m, now), NEW d
    PROVE  MemOK(MemEntered(m, d), now)
<1>. DEFINE stop == IF d > 0 THEN "Section" ELSE "Rows"
<1>1. stop \in Stops /\ 0 \in 0 .. FileRows
  BY PanesAssumption DEF Stops
<1>2. MemEntered(m, d) = [m EXCEPT !.at = stop]
  BY DEF MemEntered
<1>. HIDE DEF stop
<1>3. MemOK([m EXCEPT !.at = stop], now)
  BY <1>1, MemRowsAreFree
<1>. QED
  BY <1>2, <1>3

LEMMA StopsTyped ==
    ASSUME NEW m, NEW d
    PROVE  StopAfter(m, d) \subseteq Stops
<1>1. \/ StopAfter(m, d) = {"Offset"}
      \/ StopAfter(m, d) = {"Rows"}
      \/ StopAfter(m, d) = {"Section"}
      \/ StopAfter(m, d) = {}
  BY DEF StopAfter
<1>. QED
  BY <1>1 DEF Stops

(***************************************************************************)
(* What becomes of the panes when the session moves on: a frame finds more *)
(* rows and the end of the scan, an open a later generation.               *)
(***************************************************************************)
\* The session a refresh may find after `was`.
Later(was, now) ==
    \/ was = now
    \/ /\ now.gen = was.gen /\ now.rows >= was.rows
       /\ was.scanning

LEMMA RefreshedIsLater ==
    ASSUME session \in SessionType, NEW now \in Refreshed
    PROVE  now \in SessionType /\ Later(session, now) /\ now.gen = session.gen
<1>. DEFINE more == {r \in RowCounts : r >= rows}
<1>1. CASE now = session
  BY <1>1 DEF Later
<1>2. CASE session.scanning /\ \E r \in more : now = Grown(r)
  <2>1. PICK r \in more : now = Grown(r)
    BY <1>2
  <2>2. r \in 0 .. MaxRows /\ r >= session.rows
    BY AppAssumption DEF rows
  <2>. QED
    BY <1>2, <2>1, <2>2 DEF Later, SessionType, Grown
<1>3. CASE session.scanning /\ \E r \in more, list \in SymbolLists : now = Stopped(r, list)
  <2>1. PICK r \in more, list \in SymbolLists : now = Stopped(r, list)
    BY <1>3
  <2>2. r \in 0 .. MaxRows /\ r >= session.rows
    BY AppAssumption DEF rows
  <2>. QED
    BY <1>3, <2>1, <2>2 DEF Later, SessionType, Stopped
<1>4. \/ now = session
      \/ session.scanning /\ \E r \in more : now = Grown(r)
      \/ session.scanning /\ \E r \in more, list \in SymbolLists : now = Stopped(r, list)
  BY DEF Refreshed
<1>. QED
  BY <1>1, <1>2, <1>3, <1>4

LEMMA LaterKeeps ==
    ASSUME NEW was \in SessionType, NEW now \in SessionType, Later(was, now)
    PROVE  /\ \A d : DisOK(d, was) => DisOK(d, now)
           /\ \A s : SymOK(s, was) => SymOK(s, now)
           /\ \A m : MemOK(m, was) => MemOK(m, now)
<1>1. was.gen \in Nat /\ now.gen = was.gen /\ was.rows \in Nat /\ now.rows \in Nat
      /\ now.rows >= was.rows
  BY SessionShape DEF Later
<1>2. now = was \/ was.scanning
  BY DEF Later
<1>3. ASSUME NEW d, DisOK(d, was) PROVE DisOK(d, now)
  <2>1. d.cursor \in Nat
    BY <1>3, PanesAssumption DEF DisOK, DisType
  <2>2. d.gen = now.gen => d.cursor = 0 \/ d.cursor < now.rows
    BY <1>1, <1>3, <2>1 DEF DisOK
  <2>. QED
    BY <1>1, <1>3, <2>2 DEF DisOK
<1>4. ASSUME NEW s, SymOK(s, was) PROVE SymOK(s, now)
  <2>1. CASE now = was
    BY <1>4, <2>1
  <2>2. CASE was.scanning
    <3>1. s \in SymType /\ s.gen <= now.gen /\ (s.items # <<>> => HasEntry(s.items))
      BY <1>1, <1>4 DEF SymOK, ListOK
    <3>2. s.gen = now.gen => s.scanning
      BY <1>1, <1>4, <2>2 DEF SymOK, ListOK
    <3>3. s.filtering => now.gen > 0
      BY <1>1, <1>4 DEF SymOK, ListOK
    <3>4. ListOK(s, now)
      BY <3>1, <3>2, <3>3, Zenon DEF ListOK
    <3>. QED
      BY <1>4, <3>4 DEF SymOK
  <2>. QED
    BY <1>2, <2>1, <2>2
<1>5. ASSUME NEW m, MemOK(m, was) PROVE MemOK(m, now)
  BY <1>1, <1>5 DEF MemOK
<1>. QED
  BY <1>3, <1>4, <1>5

LEMMA FreshKeeps ==
    ASSUME NEW was \in SessionType, NEW g \in 0 .. Len(SectionTables), was.gen < g
    PROVE  /\ Fresh(g) \in SessionType
           /\ \A d : DisOK(d, was) => DisOK(d, Fresh(g))
           /\ \A s : SymOK(s, was) => SymOK(s, Fresh(g))
           /\ \A m : MemOK(m, was) => MemOK(m, Fresh(g))
<1>1. was.gen \in Nat /\ g \in Nat /\ g > 0 /\ Fresh(g).gen = g
  BY SessionShape DEF Fresh
<1>2. Fresh(g) \in SessionType
  BY PanesAssumption DEF Fresh, SessionType
<1>3. ASSUME NEW d, DisOK(d, was) PROVE DisOK(d, Fresh(g))
  <2>1. d.gen \in Int /\ d.gen <= was.gen
    BY <1>3, PanesAssumption DEF DisOK, DisType, Generations, NotBuilt
  <2>2. d.gen < g
    BY <1>1, <2>1
  <2>. QED
    BY <1>1, <1>3, <2>1, <2>2 DEF DisOK
<1>4. ASSUME NEW s, SymOK(s, was) PROVE SymOK(s, Fresh(g))
  <2>1. s.gen \in Int /\ s.gen <= was.gen
    BY <1>4, PanesAssumption DEF SymOK, ListOK, SymType, Generations, NotBuilt
  <2>2. s.gen < g
    BY <1>1, <2>1
  <2>3. s \in SymType /\ (s.items # <<>> => HasEntry(s.items)) /\ s.gen <= g /\ s.gen # g
    BY <1>1, <1>4, <2>1, <2>2 DEF SymOK, ListOK
  <2>4. ListOK(s, Fresh(g))
    BY <1>1, <2>3 DEF ListOK
  <2>. QED
    BY <1>4, <2>4 DEF SymOK
<1>5. ASSUME NEW m, MemOK(m, was) PROVE MemOK(m, Fresh(g))
  BY <1>1, <1>5 DEF MemOK
<1>. QED
  BY <1>2, <1>3, <1>4, <1>5

(***************************************************************************)
(* The menus and the toolbar: lists that do not change, with entries no    *)
(* selection may stop on.                                                  *)
(***************************************************************************)
\* Going round a list from an entry that is not skipped comes back to it at the latest.
LEMMA NextEntryIsEntry ==
    ASSUME NEW list, NEW n \in Nat \ {0}, Len(list) = n, NEW i \in 1 .. n, NEW d \in {-1, 1},
           NEW skipped, list[i] # skipped
    PROVE  /\ NextEntry(list, i, d, skipped) \in 1 .. n
           /\ list[NextEntry(list, i, d, skipped)] # skipped
<1>. DEFINE at(k) == ((i - 1 + d * k) % n) + 1
            T == {k \in 1 .. n : list[at(k)] # skipped}
            P(k) == list[at(k)] # skipped /\ \A m \in 1 .. k - 1 : list[at(m)] = skipped
<1>1. \A k \in Int : (i - 1 + d * k) \in Int
  OBVIOUS
<1>2. \A k \in Int : at(k) \in 1 .. n
  BY <1>1
<1>3. at(n) = i
  <2>1. CASE d = 1
    BY <2>1
  <2>2. CASE d = -1
    BY <2>2
  <2>. QED
    BY <2>1, <2>2
<1>4. n \in T
  BY <1>3
<1>. DEFINE c == CHOOSE m \in 1 .. n : P(m)
<1>7. NextEntry(list, i, d, skipped) = at(c)
  BY DEF NextEntry
<1>. HIDE DEF at
<1>5. T \in SUBSET Nat /\ T # {}
  BY <1>4
<1>. DEFINE IsLeast(k) == \A y \in T : k <= y
<1>6. PICK k \in T : IsLeast(k)
  BY <1>5, LeastOf
<1>8. \A m \in 1 .. k - 1 : m \in 1 .. n /\ ~(k <= m)
  BY <1>6
<1>9. P(k)
  BY <1>6, <1>8
<1>10. c \in 1 .. n /\ P(c)
  <2>1. k \in 1 .. n
    BY <1>6
  <2>. HIDE DEF P
  <2>. QED
    BY <1>9, <2>1
<1>. QED
  BY <1>2, <1>7, <1>10

LEMMA MenuNumbers ==
    /\ DOMAIN Menus = 1 .. 5 /\ Len(Menus) = 5
    /\ DOMAIN Tools = 1 .. 11 /\ Len(Tools) = 11
    /\ \A i \in 1 .. 5 : Menus[i] # <<>>
    /\ \A i \in 1 .. 5 : 1 \in DOMAIN Menus[i] /\ Menus[i][1] # "-"
    /\ \A i \in 1 .. 5 : Len(Menus[i]) \in Nat /\ DOMAIN Menus[i] = 1 .. Len(Menus[i])
  BY DEF Menus, Tools

LEMMA FirstItemIsItem ==
    ASSUME NEW i \in DOMAIN Menus
    PROVE  FirstItem(Menus[i]) \in DOMAIN Menus[i] /\ Menus[i][FirstItem(Menus[i])] # "-"
<1>1. 1 \in DOMAIN Menus[i] /\ Menus[i][1] # "-"
  BY MenuNumbers
<1>2. \A j \in 1 .. 1 - 1 : Menus[i][j] = "-"
  OBVIOUS
<1>. QED
  BY <1>1, <1>2 DEF FirstItem

\* One step along the menus, the items of the open menu, or the buttons.
LEMMA MenuMovesTyped ==
    ASSUME MenuOK, NEW d \in {-1, 1}
    PROVE  /\ NextEntry(Menus, barSel, d, <<>>) \in DOMAIN Menus
           /\ menu > 0 => NextEntry(Menus, menu, d, <<>>) \in DOMAIN Menus
           /\ menu > 0 => /\ MovedSelection(d) \in DOMAIN Menus[menu]
                          /\ Menus[menu][MovedSelection(d)] # "-"
           /\ NextEntry(Tools, toolSel, d, "disabled") \in DOMAIN Tools
           /\ Tools[NextEntry(Tools, toolSel, d, "disabled")] # "disabled"
<1>1. barSel \in 1 .. 5 /\ (menu > 0 => menu \in 1 .. 5)
  BY MenuNumbers DEF MenuOK
<1>2. toolSel \in 1 .. 11 /\ Tools[toolSel] # "disabled"
  BY MenuNumbers DEF MenuOK
<1>3. ASSUME NEW i \in 1 .. 5
      PROVE  NextEntry(Menus, i, d, <<>>) \in 1 .. 5
  <2>1. Len(Menus) = 5 /\ 5 \in Nat \ {0} /\ Menus[i] # <<>>
    BY MenuNumbers
  <2>. QED
    BY <2>1, NextEntryIsEntry
<1>4. NextEntry(Menus, barSel, d, <<>>) \in 1 .. 5
  BY <1>1, <1>3
<1>7. menu > 0 => NextEntry(Menus, menu, d, <<>>) \in 1 .. 5
  BY <1>1, <1>3
<1>5. /\ NextEntry(Tools, toolSel, d, "disabled") \in 1 .. 11
      /\ Tools[NextEntry(Tools, toolSel, d, "disabled")] # "disabled"
  <2>1. Len(Tools) = 11 /\ 11 \in Nat \ {0}
    BY MenuNumbers
  <2>. QED
    BY <1>2, <2>1, NextEntryIsEntry
<1>6. ASSUME menu > 0
      PROVE  MovedSelection(d) \in DOMAIN Menus[menu] /\ Menus[menu][MovedSelection(d)] # "-"
  <2>. DEFINE items == Menus[menu]
              n     == Len(items)
  <2>1. n \in Nat \ {0} /\ DOMAIN items = 1 .. n
    BY <1>1, <1>6, MenuNumbers
  <2>2. menuSel \in 1 .. n /\ items[menuSel] # "-"
    BY <1>6, <2>1 DEF MenuOK
  <2>. HIDE DEF items
  <2>3. /\ NextEntry(items, menuSel, d, "-") \in 1 .. n
        /\ items[NextEntry(items, menuSel, d, "-")] # "-"
    BY <2>1, <2>2, NextEntryIsEntry
  <2>. QED
    BY <2>1, <2>3 DEF MovedSelection, items
<1>. QED
  BY <1>4, <1>5, <1>6, <1>7, MenuNumbers

(***************************************************************************)
(* The screen's own state: what an event may do to it, and to whom it goes.*)
(***************************************************************************)
\* OnEvent()'s order, read off its outcome.
LEMMA OwnerIs ==
    ASSUME IInv
    PROVE  /\ Owner = "dialog" => dialog.open
           /\ Owner = "menu" => ~dialog.open /\ menu > 0
           /\ Owner = "goto" => ~dialog.open /\ menu = 0 /\ gotoActive
           /\ Owner = "pane" => ~dialog.open /\ menu = 0 /\ ~gotoActive /\ Capturing
           /\ Owner = "none" => ~dialog.open /\ menu = 0 /\ ~gotoActive
<1>1. menu \in Nat
  BY MenuNumbers DEF IInv, MenuOK
<1>2. dialog.open \in BOOLEAN /\ gotoActive \in BOOLEAN
  BY DEF IInv, DialogOK, ShellOK
<1>3. Capturing \in BOOLEAN
  BY Zenon DEF Capturing
<1>4. menu > 0 \/ menu = 0
  BY <1>1
<1>. QED
  BY <1>2, <1>3, <1>4 DEF Owner

LEMMA NewDialogOK ==
    ASSUME NEW path \in Paths, dialog' \in Dialogs(path), menu' = 0
    PROVE  DialogOK'
<1>1. PICK c \in CompletionLists : dialog' = [open |-> TRUE, path |-> path, comps |-> c, sel |-> 0]
  BY DEF Dialogs
<1>2. c # <<>> => 0 < Len(c)
  BY AppAssumption
<1>. QED
  BY <1>1, <1>2 DEF DialogOK

\* What a command leaves: it opens the dialog only, and the goto field only with a binary.
LEMMA CommandKeeps ==
    ASSUME IInv, NEW c, NEW typing \in BOOLEAN, typing => Loaded, Command(c, typing),
           menu' = 0
    PROVE  /\ running' \in BOOLEAN /\ shown' \subseteq Docks /\ gotoActive' \in BOOLEAN
           /\ gotoActive' => Loaded
           /\ DialogOK'
<1>1. running' \in BOOLEAN
  BY DEF Command
<1>2. shown' \subseteq Docks
  BY DEF Command, IInv, ShellOK, Toggled
<1>3. gotoActive' \in BOOLEAN /\ (gotoActive' => Loaded)
  BY DEF Command
<1>4. DialogOK'
  <2>1. CASE c = "open"
    BY <2>1, NewDialogOK DEF Command, BeginOpen, Paths
  <2>2. CASE c # "open"
    BY <2>2 DEF Command, IInv, DialogOK
  <2>. QED
    BY <2>1, <2>2
<1>. QED
  BY <1>1, <1>2, <1>3, <1>4

LEMMA OpenMenuKeeps ==
    ASSUME MenuOK, NEW i \in DOMAIN Menus, OpenMenu(i), UNCHANGED toolSel
    PROVE  MenuOK'
  BY FirstItemIsItem DEF OpenMenu, MenuOK

LEMMA CloseMenuKeeps ==
    ASSUME MenuOK, CloseMenu, UNCHANGED toolSel
    PROVE  MenuOK' /\ menu' = 0
  BY DEF CloseMenu, MenuOK

\* A step that leaves the session and the panes alone.
LEMMA PanesAlone ==
    ASSUME IInv, UNCHANGED <<session, panes>>, ShellOK', MenuOK', DialogOK'
    PROVE  IInv'
  BY DEF IInv, panes, DisOK, SymOK, ListOK, OnHeader, HasEntry, RegOK, RegTotal, MemOK, SectionsOf

FocusNames == PaneFocus \union {"MenuBar", "Toolbar"}

LEMMA ShellKeeps ==
    ASSUME IInv, running' \in BOOLEAN, focus' \in FocusNames, tab' \in {"regs", "stack"},
           shown' \subseteq Docks, gotoActive' \in BOOLEAN, gotoActive' => Loaded,
           UNCHANGED <<user, drawn, session>>
    PROVE  ShellOK'
  BY DEF IInv, ShellOK, FocusNames, Loaded, gen

LEMMA ShellTyped ==
    ASSUME IInv
    PROVE  /\ running \in BOOLEAN /\ focus \in FocusNames /\ tab \in {"regs", "stack"}
           /\ shown \subseteq Docks /\ gotoActive \in BOOLEAN /\ (gotoActive => Loaded)
           /\ session \in SessionType /\ menu \in Nat
  BY MenuNumbers DEF IInv, ShellOK, MenuOK, FocusNames

LEMMA MenuAlone ==
    ASSUME IInv, UNCHANGED <<menus, toolSel>>
    PROVE  MenuOK'
  BY DEF IInv, MenuOK, menus

LEMMA DialogAlone ==
    ASSUME IInv, UNCHANGED dialog, menu' = menu \/ ~dialog.open \/ menu' = 0
    PROVE  DialogOK'
<1>1. dialog' = dialog /\ ~(dialog.open /\ menu' > 0)
  BY DEF IInv, DialogOK
<1>. QED
  BY <1>1 DEF IInv, DialogOK

\* A step of the panes in the same session.
LEMMA PaneStep ==
    ASSUME IInv, UNCHANGED session, ShellOK', MenuOK', DialogOK',
           DisOK(dis', session), SymOK(sym', session), RegOK(reg'), MemOK(mem', session)
    PROVE  IInv'
<1>1. session' = session /\ session \in SessionType
  BY DEF IInv
<1>2. DisOK(dis', session') /\ SymOK(sym', session') /\ MemOK(mem', session')
  BY <1>1
<1>3. /\ DisOK(dis, session)' = DisOK(dis', session')
      /\ SymOK(sym, session)' = SymOK(sym', session')
      /\ RegOK(reg)' = RegOK(reg')
      /\ MemOK(mem, session)' = MemOK(mem', session')
  BY DEF DisOK, SymOK, ListOK, OnHeader, HasEntry, RegOK, RegTotal, MemOK, SectionsOf
<1>. QED
  BY <1>1, <1>2, <1>3 DEF IInv

LEMMA PanesTyped ==
    ASSUME IInv
    PROVE  /\ DisOK(dis, session) /\ SymOK(sym, session) /\ RegOK(reg) /\ MemOK(mem, session)
           /\ MenuOK /\ DialogOK
  BY DEF IInv

(***************************************************************************)
(* The dialog.                                                             *)
(***************************************************************************)
\* What any key or click in the dialog comes to.
DialogStep ==
    \/ Close
    \/ \E p \in Paths : Refresh(p)
    \/ \E i \in Nat : (dialog.comps # <<>> => i < Len(dialog.comps)) /\ Select(i)
    \/ NothingOpens
    \/ Opened

LEMMA OpenedKeeps ==
    ASSUME IInv, Opened,
           UNCHANGED <<running, tab, shown, menus, toolSel, gotoActive, panes, user, drawn>>
    PROVE  IInv'
<1>1. session \in SessionType /\ session.gen \in Nat
  BY SessionShape DEF IInv
<1>2. session' = Fresh(session.gen + 1) /\ session.gen + 1 \in 0 .. Len(SectionTables)
  BY <1>1, PanesAssumption DEF Opened, gen
<1>3. /\ session' \in SessionType
      /\ DisOK(dis, session') /\ SymOK(sym, session') /\ MemOK(mem, session')
  BY <1>1, <1>2, FreshKeeps, PanesTyped
<1>4. Loaded'
  BY <1>1, <1>2 DEF Loaded, gen, Fresh
<1>5. ShellOK'
  BY <1>4 DEF IInv, ShellOK, Opened, PaneFocus
<1>6. DialogOK'
  BY DEF Opened, NoDialog, DialogOK, Paths
<1>7. /\ DisOK(dis, session)' = DisOK(dis, session') /\ SymOK(sym, session)' = SymOK(sym, session')
      /\ MemOK(mem, session)' = MemOK(mem, session') /\ RegOK(reg)' = RegOK(reg)
  BY DEF DisOK, SymOK, ListOK, OnHeader, HasEntry, RegOK, RegTotal, MemOK, SectionsOf, panes
<1>. QED
  BY <1>3, <1>5, <1>6, <1>7, MenuAlone, PanesTyped DEF IInv

LEMMA DialogStepKeeps ==
    ASSUME IInv, dialog.open, DialogStep,
           UNCHANGED <<running, tab, shown, menus, toolSel, gotoActive, panes, user, drawn>>
    PROVE  IInv'
<1>1. CASE Opened
  BY <1>1, OpenedKeeps
<1>2. CASE ~Opened
  <2>1. UNCHANGED <<focus, session>>
    BY <1>2 DEF DialogStep, Close, Refresh, Select, NothingOpens
  <2>2. ShellOK' /\ MenuOK'
    BY <2>1, ShellKeeps, ShellTyped, MenuAlone
  <2>3. menu' = 0
    BY ShellTyped DEF IInv, DialogOK, menus
  <2>4. DialogOK'
    <3>1. CASE Close
      BY <3>1, <2>3 DEF Close, NoDialog, DialogOK, Paths
    <3>2. CASE \E p \in Paths : Refresh(p)
      BY <3>2, <2>3, NewDialogOK DEF Refresh
    <3>3. CASE \E i \in Nat : (dialog.comps # <<>> => i < Len(dialog.comps)) /\ Select(i)
      BY <3>3, <2>3 DEF Select, IInv, DialogOK
    <3>4. CASE NothingOpens
      BY <3>4, <2>3, DialogAlone DEF NothingOpens
    <3>. QED
      BY <1>2, <3>1, <3>2, <3>3, <3>4 DEF DialogStep
  <2>. QED
    BY <2>1, <2>2, <2>4, PanesAlone
<1>. QED
  BY <1>1, <1>2

LEMMA SubmitSteps ==
    ASSUME SubmitOpen
    PROVE  DialogStep
<1>1. \/ Refresh("other") \/ Opened \/ NothingOpens
  BY DEF SubmitOpen
<1>. QED
  BY <1>1 DEF DialogStep, Paths

LEMMA SelectSteps ==
    ASSUME IInv
    PROVE  /\ dialog.sel > 0 /\ Select(dialog.sel - 1) => DialogStep
           /\ dialog.sel + 1 < Len(dialog.comps) /\ Select(dialog.sel + 1) => DialogStep
           /\ \A i \in 0 .. Len(dialog.comps) - 1 : Select(i) => DialogStep
<1>1. dialog.sel \in Nat /\ dialog.comps \in Seq({"dir", "file"})
      /\ (dialog.comps # <<>> => dialog.sel < Len(dialog.comps))
  <2>1. /\ dialog.sel \in Nat /\ dialog.comps \in CompletionLists \union {<<>>}
        /\ dialog.comps # <<>> => dialog.sel < Len(dialog.comps)
    BY DEF IInv, DialogOK
  <2>2. dialog.comps \in Seq({"dir", "file"})
    <3>1. <<>> \in Seq({"dir", "file"})
      OBVIOUS
    <3>2. \A c \in CompletionLists : c \in Seq({"dir", "file"})
      BY AppAssumption
    <3>. QED
      BY <2>1, <3>1, <3>2
  <2>. QED
    BY <2>1, <2>2
<1>2. dialog.sel > 0 /\ Select(dialog.sel - 1) => DialogStep
  <2>1. dialog.sel > 0 => dialog.sel - 1 \in Nat
                          /\ (dialog.comps # <<>> => dialog.sel - 1 < Len(dialog.comps))
    BY <1>1
  <2>. QED
    BY <2>1 DEF DialogStep
<1>3. dialog.sel + 1 < Len(dialog.comps) /\ Select(dialog.sel + 1) => DialogStep
  <2>1. dialog.sel + 1 \in Nat
    BY <1>1
  <2>. QED
    BY <2>1 DEF DialogStep
<1>4. ASSUME NEW i \in 0 .. Len(dialog.comps) - 1, Select(i)
      PROVE  DialogStep
  <2>1. i \in Nat /\ i < Len(dialog.comps)
    BY <1>1, <1>4
  <2>. QED
    BY <1>4, <2>1 DEF DialogStep
<1>. QED
  BY <1>2, <1>3, <1>4

LEMMA DialogKeyKeeps ==
    ASSUME IInv, NEW k, DialogKey(k), UNCHANGED <<user, drawn>>
    PROVE  IInv'
<1>1. dialog.open
  BY OwnerIs DEF DialogKey
<1>2. \A c : PathOf(c) \in Paths
  BY DEF PathOf, Paths
<1>3. dialog.path \in Paths
  BY DEF IInv, DialogOK
<1>4. \/ Close \/ SubmitOpen \/ NothingOpens
      \/ \E p \in Paths : Refresh(p)
      \/ dialog.sel > 0 /\ Select(dialog.sel - 1)
      \/ dialog.sel + 1 < Len(dialog.comps) /\ Select(dialog.sel + 1)
  BY <1>2, <1>3 DEF DialogKey
<1>5. DialogStep
  <2>1. Close \/ NothingOpens \/ (\E p \in Paths : Refresh(p)) => DialogStep
    BY DEF DialogStep
  <2>. QED
    BY <1>4, <2>1, SubmitSteps, SelectSteps
<1>. QED
  BY <1>1, <1>5, DialogStepKeeps DEF DialogKey

LEMMA MouseDialogKeeps ==
    ASSUME IInv, MouseDialog, UNCHANGED <<user, drawn>>
    PROVE  IInv'
<1>1. \A c : PathOf(c) \in Paths
  BY DEF PathOf, Paths
<1>2. dialog.path \in Paths
  BY DEF IInv, DialogOK
<1>3. \/ Close \/ SubmitOpen \/ Opened
      \/ \E p \in Paths : Refresh(p)
      \/ dialog.sel > 0 /\ Select(dialog.sel - 1)
      \/ dialog.sel + 1 < Len(dialog.comps) /\ Select(dialog.sel + 1)
      \/ \E i \in 0 .. Len(dialog.comps) - 1 : Select(i)
  BY <1>1, <1>2 DEF MouseDialog, DialogClicks
<1>4. DialogStep
  <2>1. Close \/ Opened \/ (\E p \in Paths : Refresh(p)) => DialogStep
    BY DEF DialogStep
  <2>. QED
    BY <1>3, <2>1, SubmitSteps, SelectSteps
<1>. QED
  BY <1>4, DialogStepKeeps DEF MouseDialog

(***************************************************************************)
(* The menus, the toolbar and the shortcuts: the panes stay as they are.   *)
(***************************************************************************)
\* What is left to show of a step that ran a command, or none.
LEMMA CommandStep ==
    ASSUME IInv, MenuOK', menu' = 0,
           NEW c, NEW typing \in BOOLEAN, typing => Loaded, Command(c, typing),
           UNCHANGED <<user, focus, tab, drawn, session, panes>>
    PROVE  IInv'
<1>1. /\ running' \in BOOLEAN /\ shown' \subseteq Docks /\ gotoActive' \in BOOLEAN
      /\ gotoActive' => Loaded
      /\ DialogOK'
  BY CommandKeeps
<1>2. focus' \in FocusNames /\ tab' \in {"regs", "stack"}
  BY ShellTyped
<1>3. ShellOK'
  BY <1>1, <1>2, ShellKeeps
<1>. QED
  BY <1>1, <1>3, PanesAlone

LEMMA NoCommandStep ==
    ASSUME IInv, MenuOK', menu' = 0 \/ ~dialog.open, NoCommand,
           UNCHANGED <<user, focus, tab, drawn, session, panes>>
    PROVE  IInv'
<1>1. ShellOK'
  BY ShellTyped, ShellKeeps DEF NoCommand
<1>2. DialogOK'
  BY DialogAlone DEF NoCommand
<1>. QED
  BY <1>1, <1>2, PanesAlone

LEMMA MenuKeyKeeps ==
    ASSUME IInv, NEW k, MenuKey(k), UNCHANGED <<user, drawn>>
    PROVE  IInv'
<1>1. ~dialog.open /\ menu > 0
  BY OwnerIs DEF MenuKey
<1>2. UNCHANGED <<user, focus, tab, drawn, session, panes>> /\ toolSel' = toolSel
  BY DEF MenuKey
<1>3. MenuOK /\ 4 \in DOMAIN Menus /\ gotoActive \in BOOLEAN /\ (gotoActive => Loaded)
  BY PanesTyped, ShellTyped, MenuNumbers
<1>4. CASE \E i \in DOMAIN Menus : OpenMenu(i) /\ NoCommand
  BY <1>1, <1>2, <1>3, <1>4, OpenMenuKeeps, NoCommandStep
<1>5. CASE CloseMenu /\ NoCommand
  BY <1>1, <1>2, <1>3, <1>5, CloseMenuKeeps, NoCommandStep
<1>6. CASE \E d \in {-1, 1} :
               menuSel' = MovedSelection(d) /\ UNCHANGED <<menu, barSel>> /\ NoCommand
  <2>1. MenuOK'
    BY <1>1, <1>2, <1>3, <1>6, MenuMovesTyped DEF MenuOK
  <2>. QED
    BY <1>1, <1>2, <1>6, <2>1, NoCommandStep
<1>7. CASE CloseMenu /\ \E c : Command(c, gotoActive)
  BY <1>2, <1>3, <1>7, CloseMenuKeeps, CommandStep
<1>8. /\ NextEntry(Menus, menu, -1, <<>>) \in DOMAIN Menus
      /\ NextEntry(Menus, menu, 1, <<>>) \in DOMAIN Menus
  BY <1>1, <1>3, MenuMovesTyped
<1>. QED
  BY <1>3, <1>4, <1>5, <1>6, <1>7, <1>8 DEF MenuKey

LEMMA MouseMenusKeeps ==
    ASSUME IInv, MouseMenus, UNCHANGED <<user, drawn>>
    PROVE  IInv'
<1>1. ~dialog.open /\ UNCHANGED <<user, focus, tab, drawn, session, panes>> /\ toolSel' = toolSel
  BY DEF MouseMenus
<1>2. MenuOK /\ gotoActive \in BOOLEAN /\ (gotoActive => Loaded)
  BY PanesTyped, ShellTyped
<1>3. CASE CloseMenu /\ NoCommand
  BY <1>1, <1>2, <1>3, CloseMenuKeeps, NoCommandStep
<1>4. CASE \E i \in DOMAIN Menus : OpenMenu(i) /\ NoCommand
  BY <1>1, <1>2, <1>4, OpenMenuKeeps, NoCommandStep
<1>5. CASE menu' = 0 /\ UNCHANGED barSel /\ \E c : Command(c, gotoActive)
  <2>1. MenuOK'
    BY <1>1, <1>2, <1>5 DEF MenuOK
  <2>. QED
    BY <1>1, <1>2, <1>5, <2>1, CommandStep
<1>. QED
  BY <1>3, <1>4, <1>5 DEF MouseMenus

LEMMA MenuBarKeyKeeps ==
    ASSUME IInv, NEW k, MenuBarKey(k), UNCHANGED <<user, drawn>>
    PROVE  IInv'
<1>1. ~dialog.open
  BY OwnerIs DEF MenuBarKey
<1>2. UNCHANGED <<user, focus, tab, drawn, session, panes>> /\ toolSel' = toolSel /\ NoCommand
  BY DEF MenuBarKey
<1>3. MenuOK /\ barSel \in DOMAIN Menus
  BY PanesTyped DEF MenuOK
<1>4. MenuOK'
  <2>1. CASE OpenMenu(barSel)
    BY <1>2, <1>3, <2>1, OpenMenuKeeps
  <2>2. CASE /\ \E d \in {-1, 1} : barSel' = NextEntry(Menus, barSel, d, <<>>)
             /\ UNCHANGED <<menu, menuSel>>
    BY <1>2, <1>3, <2>2, MenuMovesTyped DEF MenuOK
  <2>. QED
    BY <2>1, <2>2 DEF MenuBarKey
<1>. QED
  BY <1>1, <1>2, <1>4, NoCommandStep

LEMMA ToolbarKeyKeeps ==
    ASSUME IInv, NEW k, ToolbarKey(k), UNCHANGED <<user, drawn>>
    PROVE  IInv'
<1>1. ~dialog.open /\ menu = 0
  BY OwnerIs DEF ToolbarKey
<1>2. UNCHANGED <<user, focus, tab, drawn, session, panes, menus>> /\ menu' = 0
  BY <1>1 DEF ToolbarKey, menus
<1>3. MenuOK /\ gotoActive \in BOOLEAN /\ (gotoActive => Loaded)
  BY PanesTyped, ShellTyped
<1>4. CASE /\ \E d \in {-1, 1} : toolSel' = NextEntry(Tools, toolSel, d, "disabled")
           /\ NoCommand
  <2>1. MenuOK'
    BY <1>2, <1>3, <1>4, MenuMovesTyped DEF MenuOK, menus
  <2>. QED
    BY <1>2, <1>4, <2>1, NoCommandStep
<1>5. CASE UNCHANGED toolSel /\ \E c : Command(c, gotoActive)
  <2>1. MenuOK'
    BY <1>2, <1>5, MenuAlone
  <2>. QED
    BY <1>2, <1>3, <1>5, <2>1, CommandStep
<1>. QED
  BY <1>4, <1>5 DEF ToolbarKey

LEMMA MouseToolsKeeps ==
    ASSUME IInv, MouseTools, UNCHANGED <<user, drawn>>
    PROVE  IInv'
<1>1. UNCHANGED <<user, focus, tab, drawn, session, panes, menus, toolSel>> /\ menu' = 0
  BY DEF MouseTools, menus
<1>2. MenuOK'
  BY <1>1, MenuAlone
<1>3. \E c : Command(c, FALSE)
  BY DEF MouseTools
<1>. QED
  BY <1>1, <1>2, <1>3, CommandStep

LEMMA ShortcutsKeep ==
    ASSUME IInv, NEW k, ShortcutCommand(k) \/ ShortcutMenu(k), UNCHANGED <<user, drawn>>
    PROVE  IInv'
<1>1. ~dialog.open /\ menu = 0
  BY OwnerIs DEF ShortcutCommand, ShortcutMenu
<1>2. UNCHANGED <<user, focus, tab, drawn, session, panes, toolSel>>
  BY DEF ShortcutCommand, ShortcutMenu
<1>3. MenuOK /\ 1 \in DOMAIN Menus /\ 4 \in DOMAIN Menus
      /\ gotoActive \in BOOLEAN /\ (gotoActive => Loaded)
  BY PanesTyped, ShellTyped, MenuNumbers
<1>4. CASE ShortcutCommand(k)
  <2>1. MenuOK' /\ menu' = 0 /\ \E c : Command(c, gotoActive)
    BY <1>1, <1>4, MenuAlone DEF ShortcutCommand, menus
  <2>. QED
    BY <1>2, <1>3, <2>1, CommandStep
<1>5. CASE ShortcutMenu(k)
  <2>1. NoCommand /\ \E i \in DOMAIN Menus : OpenMenu(i)
    BY <1>3, <1>5 DEF ShortcutMenu
  <2>. QED
    BY <1>1, <1>2, <1>3, <2>1, OpenMenuKeeps, NoCommandStep
<1>. QED
  BY <1>4, <1>5

(***************************************************************************)
(* Keys that move focus or act on a pane.                                  *)
(***************************************************************************)
LEMMA RowsAreNat ==
    ASSUME IInv
    PROVE  rows \in Nat /\ gen \in Nat /\ (Loaded <=> gen > 0)
  BY SessionShape, ShellTyped DEF rows, gen, Loaded

\* submitGoto() and the symbols go to a row that exists, or to the first of none.
LEMMA GotoIsOK ==
    ASSUME IInv, NEW row \in 0 .. rows
    PROVE  DisOK(NavigatedTo(dis, row), session)
  BY ShellTyped, PanesTyped, NavigatedKeeps

LEMMA GotoKeyKeeps ==
    ASSUME IInv, NEW k, GotoKey(k), UNCHANGED <<user, drawn>>
    PROVE  IInv'
<1>1. /\ UNCHANGED <<running, tab, shown, menus, toolSel, dialog, session, sym, reg, mem>>
      /\ gotoActive' = FALSE
  BY DEF GotoKey
<1>2. \/ UNCHANGED <<focus, dis>>
      \/ focus' = "Disassembly" /\ \E row \in 0 .. rows : dis' = NavigatedTo(dis, row)
  BY DEF GotoKey
<1>3. focus' \in FocusNames
  BY <1>2, ShellTyped DEF FocusNames, PaneFocus
<1>4. ShellOK'
  BY <1>1, <1>3, ShellKeeps, ShellTyped
<1>5. MenuOK' /\ DialogOK'
  BY <1>1, MenuAlone, DialogAlone DEF menus
<1>6. DisOK(dis', session)
  BY <1>2, GotoIsOK, PanesTyped
<1>. QED
  BY <1>1, <1>4, <1>5, <1>6, PaneStep, PanesTyped

\* What a symbol activates keeps the panes: the string's bytes are in a row of the file.
LEMMA ActivatedKeeps ==
    ASSUME IInv, NEW s, SymOK(s, session), NEW at \in FocusNames, ActivateSymbol(s, at)
    PROVE  /\ running' \in BOOLEAN /\ focus' \in FocusNames /\ shown' \subseteq Docks
           /\ DisOK(dis', session) /\ SymOK(sym', session) /\ RegOK(reg')
           /\ MemOK(mem', session)
<1>1. PICK what \in Activates(s) :
          /\ sym' = s
          /\ IF what \in {"function", "import"}
             THEN \E row \in 0 .. rows :
                      /\ row < rows \/ row = 0
                      /\ dis' = NavigatedTo(dis, row) /\ focus' = "Disassembly"
             ELSE UNCHANGED dis /\ focus' = at
          /\ IF what = "string"
             THEN /\ \E row \in 0 .. FileRows : mem' = GotoRow(mem, row)
                  /\ shown' = shown \union {"memory"}
             ELSE UNCHANGED <<mem, shown>>
          /\ running' = (what # "crash")
          /\ UNCHANGED reg
  BY DEF ActivateSymbol
<1>2. /\ UNCHANGED dis \/ \E row \in 0 .. rows : dis' = NavigatedTo(dis, row)
      /\ focus' \in {"Disassembly", at}
      /\ UNCHANGED mem \/ \E row \in 0 .. FileRows : mem' = GotoRow(mem, row)
      /\ shown' \in {shown, shown \union {"memory"}}
  BY <1>1
<1>3. running' \in BOOLEAN
  BY <1>1
<1>4. focus' \in FocusNames
  BY <1>2 DEF FocusNames, PaneFocus
<1>5. shown' \subseteq Docks
  BY <1>2, ShellTyped DEF Docks
<1>6. DisOK(dis', session)
  BY <1>2, GotoIsOK, PanesTyped
<1>7. MemOK(mem', session)
  <2>1. \A row \in 0 .. FileRows : row \in Nat
    BY PanesAssumption
  <2>. QED
    BY <1>2, <2>1, GotoRowKeeps, PanesTyped, ShellTyped
<1>8. SymOK(sym', session) /\ RegOK(reg')
  BY <1>1, PanesTyped
<1>. QED
  BY <1>3, <1>4, <1>5, <1>6, <1>7, <1>8

LEMMA RebuiltKeeps ==
    ASSUME IInv
    PROVE  SymOK(Rebuilt(sym, session), session)
  BY RebuiltIsBuilt, PanesTyped, ShellTyped

LEMMA PaneInputKeeps ==
    ASSUME IInv, NEW k, PaneInput(k),
           UNCHANGED <<tab, menus, toolSel, gotoActive, dialog, session, user, drawn>>
    PROVE  IInv'
<1>1. session \in SessionType /\ focus \in FocusNames /\ MenuOK' /\ DialogOK'
  BY ShellTyped, MenuAlone, DialogAlone DEF menus
<1>2. DisOK(dis, session) /\ SymOK(sym, session) /\ RegOK(reg) /\ MemOK(mem, session)
  BY PanesTyped
<1>3. CASE focus = "Disassembly" /\ dis' = DisKey(dis, k) /\ UNCHANGED <<sym, reg, mem>> /\ Quiet
  <2>1. DisOK(dis', session)
    BY <1>1, <1>2, <1>3, DisKeyKeeps
  <2>2. ShellOK'
    BY <1>3, ShellKeeps, ShellTyped DEF Quiet
  <2>. QED
    BY <1>1, <1>2, <1>3, <2>1, <2>2, PaneStep
<1>4. CASE focus = "Right" /\ (reg' = RegKey(reg, k) \/ UNCHANGED reg)
           /\ UNCHANGED <<dis, sym, mem>> /\ Quiet
  <2>1. RegOK(reg')
    BY <1>2, <1>4, RegKeyKeeps
  <2>2. ShellOK'
    BY <1>4, ShellKeeps, ShellTyped DEF Quiet
  <2>. QED
    BY <1>1, <1>2, <1>4, <2>1, <2>2, PaneStep
<1>5. CASE focus = "Symbols" /\ sym' = SymKey(sym, k) /\ UNCHANGED <<dis, reg, mem>> /\ Quiet
  <2>1. SymOK(sym', session)
    BY <1>1, <1>2, <1>5, SymKeyKeeps
  <2>2. ShellOK'
    BY <1>5, ShellKeeps, ShellTyped DEF Quiet
  <2>. QED
    BY <1>1, <1>2, <1>5, <2>1, <2>2, PaneStep
<1>6. CASE ActivateSymbol(Rebuilt(sym, session), focus)
  <2>1. /\ running' \in BOOLEAN /\ focus' \in FocusNames /\ shown' \subseteq Docks
        /\ DisOK(dis', session) /\ SymOK(sym', session) /\ RegOK(reg')
        /\ MemOK(mem', session)
    BY <1>1, <1>6, RebuiltKeeps, ActivatedKeeps
  <2>2. ShellOK'
    BY <2>1, ShellKeeps, ShellTyped
  <2>. QED
    BY <1>1, <2>1, <2>2, PaneStep
<1>7. CASE /\ focus = "Memory" /\ \E row \in -1 .. FileRows : mem' = MemKey(mem, k, row)
           /\ UNCHANGED <<dis, sym, reg>> /\ Quiet
  <2>1. MemOK(mem', session)
    BY <1>1, <1>2, <1>7, MemKeyKeeps
  <2>2. ShellOK'
    BY <1>7, ShellKeeps, ShellTyped DEF Quiet
  <2>. QED
    BY <1>1, <1>2, <1>7, <2>1, <2>2, PaneStep
<1>. QED
  BY <1>3, <1>4, <1>5, <1>6, <1>7 DEF PaneInput, panes

LEMMA WelcomeKeyKeeps ==
    ASSUME IInv, NEW k, WelcomeKey(k), UNCHANGED <<user, drawn>>
    PROVE  IInv'
<1>1. menu' = 0 /\ UNCHANGED <<running, focus, tab, shown, menus, toolSel, gotoActive, session, panes>>
  BY OwnerIs DEF WelcomeKey, menus
<1>2. \E p \in Paths : dialog' \in Dialogs(p)
  BY DEF WelcomeKey, BeginOpen, Paths
<1>3. DialogOK'
  BY <1>1, <1>2, NewDialogOK
<1>4. ShellOK' /\ MenuOK'
  BY <1>1, ShellKeeps, ShellTyped, MenuAlone
<1>. QED
  BY <1>1, <1>3, <1>4, PanesAlone

LEMMA StartGotoKeeps ==
    ASSUME IInv, NEW k, StartGoto(k), UNCHANGED <<user, drawn>>
    PROVE  IInv'
<1>1. /\ UNCHANGED <<running, focus, tab, shown, menus, toolSel, dialog, session, panes>>
      /\ gotoActive' = TRUE /\ Loaded
  BY DEF StartGoto
<1>2. ShellOK' /\ MenuOK' /\ DialogOK'
  BY <1>1, ShellKeeps, ShellTyped, MenuAlone, DialogAlone DEF menus
<1>. QED
  BY <1>1, <1>2, PanesAlone

LEMMA FilteringKeeps ==
    ASSUME NEW s, NEW now, SymOK(s, now), NEW on \in BOOLEAN, on => now.gen > 0
    PROVE  SymOK([s EXCEPT !.filtering = on], now)
<1>. DEFINE t == [s EXCEPT !.filtering = on]
<1>1. s \in SymType
  BY DEF SymOK, ListOK
<1>2. t \in SymType
  BY <1>1 DEF SymType
<1>3. /\ t.items = s.items /\ t.cursor = s.cursor /\ t.gen = s.gen /\ t.scanning = s.scanning
      /\ t.builtFilter = s.builtFilter /\ t.filtering = on
  BY <1>1 DEF SymType
<1>. HIDE DEF t
<1>4. ListOK(t, now)
  BY <1>2, <1>3 DEF SymOK, ListOK
<1>5. ~OnHeader(t)
  BY <1>3 DEF SymOK, OnHeader
<1>. QED
  BY <1>4, <1>5 DEF SymOK, t

LEMMA StartFilterKeeps ==
    ASSUME IInv, NEW k, StartFilter(k), UNCHANGED <<user, drawn>>
    PROVE  IInv'
<1>1. /\ UNCHANGED <<running, tab, shown, menus, toolSel, gotoActive, dialog, session,
                     dis, reg, mem>>
      /\ Loaded /\ focus' = "Symbols" /\ sym' = [sym EXCEPT !.filtering = TRUE]
  BY DEF StartFilter
<1>2. SymOK(sym', session)
  BY <1>1, FilteringKeeps, PanesTyped DEF Loaded, gen
<1>3. ShellOK'
  BY <1>1, ShellKeeps, ShellTyped DEF FocusNames, PaneFocus
<1>4. MenuOK' /\ DialogOK'
  BY <1>1, MenuAlone, DialogAlone DEF menus
<1>. QED
  BY <1>1, <1>2, <1>3, <1>4, PaneStep, PanesTyped

LEMMA JoinTyped ==
    ASSUME NEW S, NEW s \in Seq(S), NEW t \in Seq(S)
    PROVE  s \o t \in Seq(S) /\ Len(s \o t) = Len(s) + Len(t)
  OBVIOUS

LEMMA FocusOrderTyped ==
    FocusOrder \in Seq(FocusNames) /\ Len(FocusOrder) \in Nat \ {0}
<1>. DEFINE part(f) == IF Visible(f) THEN <<f>> ELSE <<>>
            ends   == <<"MenuBar", "Toolbar">> \o part("Symbols")
            rest   == part("Right") \o part("Memory")
<1>1. \A f \in FocusNames : part(f) \in Seq(FocusNames)
  OBVIOUS
<1>2. <<"MenuBar", "Toolbar">> \in Seq(FocusNames) /\ <<"Disassembly">> \in Seq(FocusNames)
  BY DEF FocusNames, PaneFocus
<1>3. /\ part("Symbols") \in Seq(FocusNames) /\ part("Right") \in Seq(FocusNames)
      /\ part("Memory") \in Seq(FocusNames)
  BY <1>1 DEF FocusNames, PaneFocus
<1>4. FocusOrder = (((<<"MenuBar", "Toolbar">> \o part("Symbols")) \o <<"Disassembly">>)
                        \o part("Right")) \o part("Memory")
  BY DEF FocusOrder
<1>. HIDE DEF part
<1>5. ends \in Seq(FocusNames) /\ Len(ends) = 2 + Len(part("Symbols"))
  BY <1>2, <1>3, JoinTyped
<1>. HIDE DEF ends
<1>6. /\ ends \o <<"Disassembly">> \in Seq(FocusNames)
      /\ Len(ends \o <<"Disassembly">>) = Len(ends) + 1
  BY <1>2, <1>5, JoinTyped
<1>. DEFINE most == ends \o <<"Disassembly">>
<1>. HIDE DEF most
<1>7. most \in Seq(FocusNames) /\ Len(most) = Len(ends) + 1
  BY <1>6 DEF most
<1>8. /\ most \o part("Right") \in Seq(FocusNames)
      /\ Len(most \o part("Right")) = Len(most) + Len(part("Right"))
  BY <1>3, <1>7, JoinTyped
<1>. DEFINE right == most \o part("Right")
<1>. HIDE DEF right
<1>9. right \in Seq(FocusNames) /\ Len(right) = Len(most) + Len(part("Right"))
  BY <1>8 DEF right
<1>10. /\ right \o part("Memory") \in Seq(FocusNames)
       /\ Len(right \o part("Memory")) = Len(right) + Len(part("Memory"))
  BY <1>3, <1>9, JoinTyped
<1>11. FocusOrder = right \o part("Memory")
  BY <1>4 DEF right, most, ends
<1>12. /\ Len(part("Symbols")) \in Nat /\ Len(part("Right")) \in Nat
       /\ Len(part("Memory")) \in Nat
  BY <1>3
<1>. QED
  BY <1>5, <1>7, <1>9, <1>10, <1>11, <1>12

\* The pane's own stops, then the next part of the screen, round the end.
LEMMA CycleFocusKeeps ==
    ASSUME IInv, NEW k, CycleFocus(k), UNCHANGED <<user, drawn>>
    PROVE  IInv'
<1>. DEFINE d     == IF k = "Tab" THEN 1 ELSE -1
            stops == IF focus = "Memory" THEN StopAfter(mem, d) ELSE {}
            n     == Len(FocusOrder)
            here  == {i \in 1 .. n : FocusOrder[i] = focus}
            at    == IF here = {} THEN 1 ELSE CHOOSE i \in here : TRUE
            next  == FocusOrder[((at - 1 + d) % n) + 1]
            stop  == CHOOSE s \in stops : TRUE
<1>1. /\ NoCommand /\ UNCHANGED <<tab, menus, toolSel, session, dis, sym, reg>>
      /\ IF stops # {}
         THEN mem' = [mem EXCEPT !.at = stop] /\ focus' = focus
         ELSE focus' = next /\ mem' = IF next = "Memory" THEN MemEntered(mem, d) ELSE mem
  BY DEF CycleFocus
<1>2. next \in FocusNames
  <2>1. n \in Nat \ {0} /\ \A i \in 1 .. n : FocusOrder[i] \in FocusNames
    BY FocusOrderTyped
  <2>2. at \in 1 .. n
    BY <2>1
  <2>3. d \in {-1, 1}
    OBVIOUS
  <2>. HIDE DEF at, n, d
  <2>4. ((at - 1 + d) % n) + 1 \in 1 .. n
    BY <2>1, <2>2, <2>3
  <2>. QED
    BY <2>1, <2>4
<1>3. stops \subseteq Stops
  BY StopsTyped
<1>. HIDE DEF next, stops, d
<1>4. focus' \in FocusNames
  BY <1>1, <1>2, ShellTyped
<1>5. MemOK(mem', session)
  <2>1. CASE stops # {}
    <3>1. stop \in Stops
      BY <1>3, <2>1
    <3>. HIDE DEF stop
    <3>2. mem' = [mem EXCEPT !.at = stop]
      BY <1>1, <2>1
    <3>3. 0 \in 0 .. FileRows
      BY PanesAssumption
    <3>4. MemOK([mem EXCEPT !.at = stop], session)
      BY <3>1, <3>3, MemRowsAreFree, PanesTyped
    <3>. QED
      BY <3>2, <3>4
  <2>2. CASE stops = {}
    <3>. HIDE DEF stop
    <3>1. mem' = MemEntered(mem, d) \/ mem' = mem
      BY <1>1, <2>2
    <3>. QED
      BY <3>1, MemEnteredKeeps, PanesTyped
  <2>. QED
    BY <2>1, <2>2
<1>6. UNCHANGED <<running, shown, gotoActive, dialog, tab, menus, toolSel, session, dis, sym, reg>>
  BY <1>1 DEF NoCommand
<1>7. ShellOK'
  BY <1>4, <1>6, ShellKeeps, ShellTyped
<1>8. MenuOK' /\ DialogOK'
  BY <1>6, MenuAlone, DialogAlone DEF menus
<1>. QED
  BY <1>5, <1>6, <1>7, <1>8, PaneStep, PanesTyped

LEMMA SwitchTabKeeps ==
    ASSUME IInv, NEW k, SwitchTab(k), UNCHANGED <<user, drawn>>
    PROVE  IInv'
<1>1. tab' \in {"regs", "stack"} /\ focus' \in FocusNames
  BY ShellTyped DEF SwitchTab, FocusNames, PaneFocus
<1>2. UNCHANGED <<running, shown, gotoActive, dialog, menus, toolSel, session, panes>>
  BY DEF SwitchTab, NoCommand
<1>3. ShellOK' /\ MenuOK' /\ DialogOK'
  BY <1>1, <1>2, ShellKeeps, ShellTyped, MenuAlone, DialogAlone DEF menus
<1>. QED
  BY <1>2, <1>3, PanesAlone

(***************************************************************************)
(* The mouse, outside the dialog and the menus.                            *)
(***************************************************************************)
LEMMA MouseTabsKeeps ==
    ASSUME IInv, MouseTabs, UNCHANGED <<user, drawn>>
    PROVE  IInv'
<1>1. /\ menu' = 0 /\ gotoActive' = FALSE
      /\ UNCHANGED <<running, shown, menus, toolSel, session, panes>>
  BY DEF MouseTabs, OnScreen, menus
<1>2. tab' \in {"regs", "stack"} /\ focus' \in FocusNames
  BY ShellTyped DEF MouseTabs, FocusNames, PaneFocus
<1>3. ShellOK' /\ MenuOK'
  BY <1>1, <1>2, ShellKeeps, ShellTyped, MenuAlone
<1>4. DialogOK'
  <2>1. CASE UNCHANGED dialog
    BY <1>1, <2>1, DialogAlone
  <2>2. CASE BeginOpen("")
    BY <1>1, <2>2, NewDialogOK DEF BeginOpen, Paths
  <2>. QED
    BY <2>1, <2>2 DEF MouseTabs
<1>. QED
  BY <1>1, <1>3, <1>4, PanesAlone

LEMMA LinesAreNat ==
    \A y \in Lines : y \in Nat
  BY PanesAssumption DEF Lines

\* A click in the list: the filter opens or ends, a row is selected or its symbol activated.
LEMMA ClickSymbolsKeeps ==
    ASSUME IInv, ClickFilter \/ ClickSymbols, Loaded
    PROVE  /\ running' \in BOOLEAN /\ focus' \in FocusNames /\ shown' \subseteq Docks
           /\ DisOK(dis', session) /\ SymOK(sym', session) /\ RegOK(reg')
           /\ MemOK(mem', session)
<1>. DEFINE s     == Rebuilt(sym, session)
            on    == [s EXCEPT !.filtering = TRUE]
            ended == [s EXCEPT !.filtering = FALSE]
<1>1. SymOK(s, session)
  BY RebuiltKeeps
<1>. HIDE DEF s
<1>2. SymOK(on, session) /\ SymOK(ended, session)
  BY <1>1, FilteringKeeps DEF Loaded, gen
<1>3. "Symbols" \in FocusNames
  BY DEF FocusNames, PaneFocus
<1>4. ASSUME ClickedSymbols, SymOK(sym', session)
      PROVE  /\ running' \in BOOLEAN /\ focus' \in FocusNames /\ shown' \subseteq Docks
             /\ DisOK(dis', session) /\ SymOK(sym', session) /\ RegOK(reg')
             /\ MemOK(mem', session)
  BY <1>3, <1>4, PanesTyped, ShellTyped DEF ClickedSymbols
<1>5. CASE ClickFilter
  <2>1. sym' = on /\ ClickedSymbols
    BY <1>5 DEF ClickFilter, s
  <2>. QED
    BY <1>2, <1>4, <2>1
<1>6. CASE ClickSymbols
  <2>1. PICK y \in Lines :
            \/ sym' = ended /\ ClickedSymbols
            \/ /\ Selectable(ended, s.top + y)
               /\ sym' = [ended EXCEPT !.cursor = s.top + y] /\ ClickedSymbols
            \/ ActivateSymbol(ended, "Symbols")
    BY <1>6 DEF ClickSymbols, s
  <2>2. CASE sym' = ended /\ ClickedSymbols
    BY <1>2, <1>4, <2>2
  <2>3. CASE /\ Selectable(ended, s.top + y)
             /\ sym' = [ended EXCEPT !.cursor = s.top + y] /\ ClickedSymbols
    <3>1. s.top \in Nat /\ y \in Nat
      BY <1>1, LinesAreNat DEF SymOK, ListOK, SymType
    <3>. DEFINE row == s.top + y
    <3>2. row \in Nat
      BY <3>1
    <3>3. Selectable(ended, row) /\ sym' = [ended EXCEPT !.cursor = row]
      BY <2>3
    <3>. HIDE DEF row, ended
    <3>4. ended \in SymType /\ Len(ended.items) \in Nat
      BY <1>2 DEF SymOK, ListOK, SymType
    <3>5. sym'.items = ended.items /\ sym'.cursor = row
      BY <3>3, <3>4 DEF SymType
    <3>6. ListOK(sym', session)
      BY <1>2, <3>2, <3>3, <3>4, CursorIsFree DEF SymOK, SymType
    <3>7. ~OnHeader(sym')
      BY <3>2, <3>3, <3>4, <3>5 DEF OnHeader, Selectable, FollowCursor
    <3>. QED
      BY <1>4, <2>3, <3>6, <3>7 DEF SymOK
  <2>4. CASE ActivateSymbol(ended, "Symbols")
    <3>. HIDE DEF ended
    <3>. QED
      BY <1>2, <1>3, <2>4, ActivatedKeeps
  <2>. QED
    BY <2>1, <2>2, <2>3, <2>4
<1>. QED
  BY <1>5, <1>6

LEMMA ClickMemoryKeeps ==
    ASSUME IInv, ClickMemory
    PROVE  MemOK(mem', session)
<1>1. session \in SessionType /\ MemOK(mem, session)
  BY PanesTyped, ShellTyped
<1>2. CASE Loaded
  <2>1. MemOK(MemClickSection(mem), session) /\ MemOK(MemClickOffset(mem), session)
    BY <1>1, <1>2, ClickFieldsKeep
  <2>2. \A y \in Lines : MemOK(MemClickRow(mem, y), session)
    BY <1>1, ClickRowKeeps, LinesAreNat
  <2>3. \/ mem' \in {MemClickSection(mem), MemClickOffset(mem)}
        \/ \E y \in Lines : mem' = MemClickRow(mem, y)
    BY <1>2 DEF ClickMemory
  <2>. QED
    BY <2>1, <2>2, <2>3
<1>3. CASE ~Loaded
  <2>1. mem' = MemSynced(mem)
    BY <1>3 DEF ClickMemory
  <2>. QED
    BY <1>1, <2>1, MemSyncedKeeps
<1>. QED
  BY <1>2, <1>3

LEMMA MousePanesKeeps ==
    ASSUME IInv, MousePanes, UNCHANGED <<user, drawn>>
    PROVE  IInv'
<1>1. gotoActive' = FALSE /\ UNCHANGED <<tab, menus, toolSel, dialog, session>>
  BY DEF MousePanes
<1>2. session \in SessionType /\ DisOK(dis, session) /\ SymOK(sym, session) /\ RegOK(reg)
      /\ MemOK(mem, session)
  BY PanesTyped, ShellTyped
<1>3. /\ running' \in BOOLEAN /\ focus' \in FocusNames /\ shown' \subseteq Docks
      /\ DisOK(dis', session) /\ SymOK(sym', session) /\ RegOK(reg')
      /\ MemOK(mem', session)
  <2>1. CASE "Symbols" \in drawn /\ (ClickFilter \/ ClickSymbols)
    <3>1. Loaded
      BY <2>1 DEF IInv, ShellOK
    <3>. QED
      BY <2>1, <3>1, ClickSymbolsKeeps
  <2>2. CASE /\ \E y \in Lines : dis' = DisClick(dis, y)
             /\ focus' = "Disassembly"
             /\ UNCHANGED <<running, shown, sym, reg, mem>>
    <3>1. DisOK(dis', session)
      BY <1>2, <2>2, DisClickKeeps, LinesAreNat
    <3>. QED
      BY <1>2, <2>2, <3>1, ShellTyped DEF FocusNames, PaneFocus
  <2>3. CASE /\ focus' = "Right"
             /\ UNCHANGED reg \/ \E y \in Lines : reg' = RegClick(reg, y)
             /\ UNCHANGED <<running, shown, dis, sym, mem>>
    <3>1. RegOK(reg')
      BY <1>2, <2>3, RegClickKeeps, LinesAreNat
    <3>. QED
      BY <1>2, <2>3, <3>1, ShellTyped DEF FocusNames, PaneFocus
  <2>4. CASE ClickMemory /\ focus' = "Memory"
    <3>1. UNCHANGED <<running, shown, dis, sym, reg>>
      BY <2>4 DEF ClickMemory
    <3>. QED
      BY <1>2, <2>4, <3>1, ClickMemoryKeeps, ShellTyped DEF FocusNames, PaneFocus
  <2>. QED
    BY <2>1, <2>2, <2>3, <2>4 DEF MousePanes
<1>4. ShellOK'
  BY <1>1, <1>3, ShellKeeps, ShellTyped
<1>5. MenuOK' /\ DialogOK'
  BY <1>1, MenuAlone, DialogAlone DEF menus
<1>. QED
  BY <1>1, <1>3, <1>4, <1>5, PaneStep

LEMMA WheelKeeps ==
    ASSUME IInv, Wheel, UNCHANGED <<user, drawn>>
    PROVE  IInv'
<1>1. session \in SessionType /\ DisOK(dis, session) /\ SymOK(sym, session) /\ RegOK(reg)
      /\ MemOK(mem, session)
  BY PanesTyped, ShellTyped
<1>2. UNCHANGED <<running, tab, shown, menus, toolSel, gotoActive, dialog, session>>
  BY DEF Wheel
<1>3. PICK k \in {"Up", "Down"}, f \in PaneFocus :
          /\ focus' = f
          /\ dis' = DisKey(DisKey(DisKey(dis, k), k), k) \/ dis' = dis
          /\ sym' = SymKey(SymKey(SymKey(sym, k), k), k) \/ sym' = sym
          /\ reg' = RegKey(RegKey(RegKey(reg, k), k), k) \/ reg' = reg
          /\ mem' = MemKey(MemKey(MemKey(mem, k, -1), k, -1), k, -1) \/ mem' = mem
  BY DEF Wheel, Thrice, MemWheel
<1>4. DisOK(dis', session)
  BY <1>1, <1>3, DisKeyKeeps
<1>5. SymOK(sym', session)
  BY <1>1, <1>3, SymKeyKeeps
<1>6. RegOK(reg')
  BY <1>1, <1>3, RegKeyKeeps
<1>7. MemOK(mem', session)
  <2>1. -1 \in -1 .. FileRows
    BY PanesAssumption
  <2>. QED
    BY <1>1, <1>3, <2>1, MemKeyKeeps
<1>8. ShellOK'
  BY <1>2, <1>3, ShellKeeps, ShellTyped DEF FocusNames
<1>9. MenuOK' /\ DialogOK'
  BY <1>2, MenuAlone, DialogAlone DEF menus
<1>. QED
  BY <1>2, <1>4, <1>5, <1>6, <1>7, <1>8, <1>9, PaneStep

(***************************************************************************)
(* A frame.                                                                *)
(***************************************************************************)
\* What a frame makes of the session and the panes.
LEMMA FrameMoves ==
    ASSUME IInv, Frame
    PROVE  /\ session' \in SessionType /\ session'.gen = session.gen
           /\ DisOK(dis', session') /\ SymOK(sym', session') /\ RegOK(reg')
           /\ MemOK(mem', session')
<1>1. session \in SessionType /\ DisOK(dis, session) /\ SymOK(sym, session) /\ RegOK(reg)
      /\ MemOK(mem, session)
  BY PanesTyped, ShellTyped
<1>2. PICK now \in Refreshed :
          /\ session' = now
          /\ dis' = IF Loaded THEN DisDrawn(dis, now) ELSE dis
          /\ sym' = IF Visible("Symbols") THEN SymDrawn(sym, now) ELSE sym
  BY DEF Frame
<1>3. now \in SessionType /\ Later(session, now) /\ now.gen = session.gen
  BY <1>1, RefreshedIsLater
<1>4. DisOK(dis, now) /\ SymOK(sym, now) /\ \A m : MemOK(m, session) => MemOK(m, now)
  BY <1>1, <1>3, LaterKeeps
<1>5. DisOK(dis', now)
  BY <1>2, <1>3, <1>4, DisDrawnKeeps
<1>6. SymOK(sym', now)
  BY <1>2, <1>3, <1>4, SymDrawnKeeps
<1>7. reg' = RegDrawn(reg) \/ reg' = reg
  BY DEF Frame
<1>8. mem' = MemDrawn(mem) \/ mem' = mem
  BY DEF Frame
<1>9. RegOK(reg')
  BY <1>1, <1>7, RegDrawnKeeps
<1>10. MemOK(mem', session)
  BY <1>1, <1>8, MemDrawnKeeps
<1>. QED
  BY <1>2, <1>3, <1>4, <1>5, <1>6, <1>9, <1>10

LEMMA FrameKeeps ==
    ASSUME IInv, Frame
    PROVE  IInv'
<1>1. /\ UNCHANGED <<running, user, shown, menus, toolSel, gotoActive, dialog>>
      /\ focus' = ValidFocus(focus) /\ tab' = ValidTab(tab) /\ drawn' = Drawn
  BY DEF Frame
<1>2. /\ session' \in SessionType /\ session'.gen = session.gen
      /\ DisOK(dis', session') /\ SymOK(sym', session') /\ RegOK(reg')
      /\ MemOK(mem', session')
  BY FrameMoves
<1>3. Loaded' = Loaded
  BY <1>2 DEF Loaded, gen
<1>4. focus' \in FocusNames
  BY <1>1, ShellTyped DEF ValidFocus, FocusNames, PaneFocus
<1>5. tab' \in {"regs", "stack"}
  BY <1>1, ShellTyped DEF ValidTab
<1>6. "Symbols" \in Drawn => Loaded
  BY ShellTyped DEF Drawn, Visible, Docks
<1>7. ShellOK'
  BY <1>1, <1>3, <1>4, <1>5, <1>6 DEF IInv, ShellOK, FocusNames
<1>8. MenuOK' /\ DialogOK'
  BY <1>1, MenuAlone, DialogAlone DEF menus
<1>9. /\ DisOK(dis, session)' = DisOK(dis', session') /\ SymOK(sym, session)' = SymOK(sym', session')
      /\ MemOK(mem, session)' = MemOK(mem', session') /\ RegOK(reg)' = RegOK(reg')
  BY DEF DisOK, SymOK, ListOK, OnHeader, HasEntry, RegOK, RegTotal, MemOK, SectionsOf
<1>. QED
  BY <1>2, <1>7, <1>8, <1>9 DEF IInv

(***************************************************************************)
(* The invariant.                                                          *)
(***************************************************************************)
LEMMA InitHolds ==
    ASSUME Init
    PROVE  IInv
<1>2. session \in SessionType /\ session.gen \in {0, 1} /\ session.gen \in Nat
  <2>1. 0 \in 0 .. Len(SectionTables) /\ 1 \in 0 .. Len(SectionTables)
    BY PanesAssumption
  <2>2. session = Fresh(0) \/ session = Fresh(1)
    BY DEF Init
  <2>3. ASSUME NEW g \in {0, 1}
        PROVE  Fresh(g) \in SessionType /\ Fresh(g).gen = g
    <3>1. g \in 0 .. Len(SectionTables) /\ 0 \in 0 .. MaxRows /\ (g > 0) \in BOOLEAN
      BY <2>1, PanesAssumption
    <3>. QED
      BY <3>1 DEF Fresh, SessionType
  <2>4. 0 \in {0, 1} /\ 1 \in {0, 1}
    OBVIOUS
  <2>. QED
    BY <2>2, <2>3, <2>4
<1>3. ShellOK
  BY DEF Init, ShellOK, PaneFocus, Docks
<1>4. MenuOK
  BY DEF Init, MenuOK, Menus, Tools
<1>5. DialogOK
  BY DEF Init, DialogOK, NoDialog, Paths
<1>6. NotBuilt \in Generations /\ NotBuilt = -1
  BY PanesAssumption DEF Generations, NotBuilt
<1>7. DisOK(dis, session)
  <2>1. dis \in DisType
    BY <1>6, PanesAssumption DEF Init, DisInit, DisType
  <2>. QED
    BY <1>2, <1>6, <2>1 DEF Init, DisInit, DisOK
<1>8. SymOK(sym, session)
  <2>1. <<>> \in Seq({"group", "function", "import", "string"})
    OBVIOUS
  <2>2. SymInit \in SymType
    BY <1>6, <2>1 DEF SymInit, SymType, Filters
  <2>3. SymInit.items = <<>> /\ SymInit.gen = -1 /\ SymInit.filtering = FALSE
    BY <1>6 DEF SymInit
  <2>4. -1 <= session.gen /\ -1 # session.gen
    BY <1>2
  <2>5. ListOK(SymInit, session)
    BY <2>2, <2>3, <2>4 DEF ListOK
  <2>6. ~OnHeader(SymInit)
    BY <2>3 DEF OnHeader
  <2>. QED
    BY <2>5, <2>6 DEF Init, SymOK
<1>9. RegOK(reg)
  BY RowsTyped DEF Init, RegOK, RegTotal
<1>10. MemOK(mem, session)
  <2>1. MemInit \in MemType
    BY <1>6, PanesAssumption DEF MemInit, MemType, Stops
  <2>2. SectionsOf(MemInit) = <<>>
    BY <1>6 DEF SectionsOf, MemInit
  <2>. QED
    BY <2>1, <2>2 DEF Init, MemOK, MemInit
<1>. QED
  BY <1>2, <1>3, <1>4, <1>5, <1>7, <1>8, <1>9, <1>10 DEF IInv

LEMMA KeyKeeps ==
    ASSUME IInv, NEW k, Key(k), UNCHANGED <<user, drawn>>
    PROVE  IInv'
<1>1. CASE DialogKey(k)
  BY <1>1, DialogKeyKeeps
<1>2. CASE MenuKey(k)
  BY <1>2, MenuKeyKeeps
<1>3. CASE GotoKey(k)
  BY <1>3, GotoKeyKeeps
<1>4. CASE CapturedKey(k)
  BY <1>4, PaneInputKeeps DEF CapturedKey
<1>5. CASE ShortcutCommand(k) \/ ShortcutMenu(k)
  BY <1>5, ShortcutsKeep
<1>6. CASE CycleFocus(k)
  BY <1>6, CycleFocusKeeps
<1>7. CASE SwitchTab(k)
  BY <1>7, SwitchTabKeeps
<1>8. CASE MenuBarKey(k)
  BY <1>8, MenuBarKeyKeeps
<1>9. CASE ToolbarKey(k)
  BY <1>9, ToolbarKeyKeeps
<1>10. CASE WelcomeKey(k)
  BY <1>10, WelcomeKeyKeeps
<1>11. CASE StartGoto(k)
  BY <1>11, StartGotoKeeps
<1>12. CASE StartFilter(k)
  BY <1>12, StartFilterKeeps
<1>13. CASE PaneKey(k)
  BY <1>13, PaneInputKeeps DEF PaneKey
<1>. QED
  BY <1>1, <1>2, <1>3, <1>4, <1>5, <1>6, <1>7, <1>8, <1>9, <1>10, <1>11, <1>12, <1>13 DEF Key

LEMMA MouseKeeps ==
    ASSUME IInv, Mouse, UNCHANGED <<user, drawn>>
    PROVE  IInv'
<1>1. MouseDialog \/ MouseMenus \/ MouseTools \/ MouseTabs \/ MousePanes \/ Wheel
  BY DEF Mouse
<1>2. CASE MouseDialog
  BY <1>2, MouseDialogKeeps
<1>3. CASE MouseMenus
  BY <1>3, MouseMenusKeeps
<1>4. CASE MouseTools
  BY <1>4, MouseToolsKeeps
<1>5. CASE MouseTabs
  BY <1>5, MouseTabsKeeps
<1>6. CASE MousePanes
  BY <1>6, MousePanesKeeps
<1>7. CASE Wheel
  BY <1>7, WheelKeeps
<1>. QED
  BY <1>1, <1>2, <1>3, <1>4, <1>5, <1>6, <1>7

LEMMA StepKeeps ==
    ASSUME IInv, [Next]_vars
    PROVE  IInv'
<1>1. CASE Event
  <2>1. (\E k : Key(k)) \/ Mouse
    BY <1>1 DEF Event
  <2>2. UNCHANGED <<user, drawn>>
    BY <1>1 DEF Event
  <2>. QED
    BY <2>1, <2>2, KeyKeeps, MouseKeeps
<1>2. CASE Frame
  BY <1>2, FrameKeeps
<1>3. CASE UNCHANGED vars
  <2>1. UNCHANGED <<running, user, focus, tab, shown, menus, toolSel, gotoActive, dialog, drawn,
                    session, panes>>
    BY <1>3 DEF vars
  <2>2. ShellOK'
    BY <2>1, ShellKeeps, ShellTyped
  <2>3. MenuOK' /\ DialogOK'
    BY <2>1, MenuAlone, DialogAlone DEF menus
  <2>. QED
    BY <2>1, <2>2, <2>3, PanesAlone
<1>. QED
  BY <1>1, <1>2, <1>3 DEF Next

\* Whatever is pressed, clicked and drawn, in any order and in any batches, every pane's
\* record, the menus, the dialog and the focus stay in the invariant above.
THEOREM ScreenInvariant == Spec => []IInv
<1>1. Init => IInv
  BY InitHolds
<1>2. IInv /\ [Next]_vars => IInv'
  BY StepKeeps
<1>. QED
  BY <1>1, <1>2, PTL DEF Spec

LEMMA InvariantIsTyped ==
    ASSUME IInv
    PROVE  TypeOK
<1>1. session \in SessionType /\ ShellOK /\ MenuOK /\ DialogOK
  BY DEF IInv
<1>2. DisOK(dis, session) /\ SymOK(sym, session) /\ RegOK(reg) /\ MemOK(mem, session)
  BY DEF IInv
<1>3. dialog.path \in Paths /\ (dialog.comps # <<>> => dialog.sel < Len(dialog.comps))
      /\ ~(dialog.open /\ menu > 0)
  BY <1>1 DEF DialogOK
<1>4. dis \in DisType /\ (dis.gen = gen => dis.cursor = 0 \/ dis.cursor < rows)
  BY <1>2 DEF DisOK, gen, rows
<1>5. sym \in SymType
  BY <1>2 DEF SymOK, ListOK
<1>6. reg.open \subseteq Categories /\ reg.cursor < RegTotal(reg)
  BY <1>2 DEF RegOK
<1>7. /\ mem \in MemType /\ mem.chosen < Len(SectionsOf(mem))
      /\ mem.picking => mem.pick < Len(SectionsOf(mem)) /\ ~mem.editing
  BY <1>2 DEF MemOK
<1>8. gotoActive \/ sym.filtering \/ mem.picking \/ mem.editing => Loaded
  BY <1>1, <1>2 DEF ShellOK, SymOK, ListOK, MemOK, Loaded, gen
<1>9. /\ running \in BOOLEAN /\ user \in Habits
      /\ focus \in PaneFocus \union {"MenuBar", "Toolbar"} /\ tab \in {"regs", "stack"}
      /\ shown \subseteq Docks
  BY <1>1 DEF ShellOK
<1>10. /\ barSel \in DOMAIN Menus /\ menu \in {0} \union DOMAIN Menus
       /\ menu > 0 => menuSel \in DOMAIN Menus[menu] /\ Menus[menu][menuSel] # "-"
       /\ toolSel \in DOMAIN Tools /\ Tools[toolSel] # "disabled"
  BY <1>1 DEF MenuOK
<1>. QED
  BY <1>1, <1>3, <1>4, <1>5, <1>6, <1>7, <1>8, <1>9, <1>10, Zenon DEF TypeOK

\* Every index the code uses unchecked is in its range, whatever is pressed between two
\* frames: menu items, buttons, completions, sections and registers.
THEOREM ScreenTypeCorrect == Spec => []TypeOK
<1>1. IInv => TypeOK
  BY InvariantIsTyped
<1>. QED
  BY <1>1, ScreenInvariant, PTL

LEMMA FrameSound ==
    ASSUME IInv, Frame
    PROVE  ScreenSound'
<1>1. session \in SessionType /\ DisOK(dis, session) /\ SymOK(sym, session) /\ RegOK(reg)
      /\ MemOK(mem, session)
  BY PanesTyped, ShellTyped
<1>2. PICK now \in Refreshed :
          /\ session' = now
          /\ dis' = IF Loaded THEN DisDrawn(dis, now) ELSE dis
          /\ sym' = IF Visible("Symbols") THEN SymDrawn(sym, now) ELSE sym
  BY DEF Frame
<1>3. /\ shown' = shown /\ focus' = ValidFocus(focus) /\ tab' = ValidTab(tab)
      /\ mem' = IF Visible("Memory") THEN MemDrawn(mem) ELSE mem
      /\ reg' = IF Visible("Right") /\ tab' = "regs" THEN RegDrawn(reg) ELSE reg
  BY DEF Frame
<1>4. now \in SessionType /\ Later(session, now) /\ now.gen = session.gen
  BY <1>1, RefreshedIsLater
<1>5. DisOK(dis, now) /\ SymOK(sym, now)
  BY <1>1, <1>4, LaterKeeps
<1>6. gen' = now.gen /\ rows' = now.rows /\ gen' = gen /\ Loaded' = Loaded
      /\ TotalRows' = TotalRows
  BY <1>2, <1>4 DEF gen, rows, Loaded, TotalRows
<1>8. Visible(focus)'
  <2>1. (focus' = focus /\ Visible(focus)) \/ focus' = "Disassembly"
    BY <1>3 DEF ValidFocus
  <2>2. Visible("Disassembly")
    BY DEF Visible
  <2>3. Visible(focus')
    BY <2>1, <2>2
  <2>. QED
    BY <1>3, <1>6, <2>3 DEF Visible
<1>9. (tab \in shown \/ ~Visible("Right"))'
  BY <1>3, <1>6, ShellTyped DEF ValidTab, Visible
<1>10. (Loaded => dis.gen = gen /\ InWindow(dis.cursor, dis.top, rows, Height))'
  <2>1. ASSUME Loaded
        PROVE  dis'.gen = now.gen /\ InWindow(dis'.cursor, dis'.top, now.rows, Height)
    BY <1>2, <1>4, <1>5, <2>1, DisDrawnKeeps
  <2>. QED
    BY <1>6, <2>1 DEF InWindow
<1>11. (Visible("Symbols") /\ ~session.scanning =>
           /\ InWindow(sym.cursor, sym.top, Len(sym.items), Height)
           /\ sym.items = Items(sym.filter, session)
           /\ ~OnHeader(sym))'
  <2>1. ASSUME Visible("Symbols"), ~now.scanning
        PROVE  /\ InWindow(sym'.cursor, sym'.top, Len(sym'.items), Height)
               /\ sym'.items = Items(sym'.filter, now)
               /\ ~OnHeader(sym')
    BY <1>2, <1>4, <1>5, <2>1, SymDrawnKeeps DEF SymOK
  <2>2. Visible("Symbols")' <=> Visible("Symbols")
    BY <1>3, <1>6 DEF Visible
  <2>. QED
    BY <1>2, <2>1, <2>2 DEF InWindow, Items, Bucket, OnHeader
<1>12. (Visible("Right") /\ tab = "regs" =>
            InWindow(reg.cursor, reg.top, RegTotal(reg), Height))'
  <2>1. ASSUME Visible("Right"), tab' = "regs"
        PROVE  InWindow(reg'.cursor, reg'.top, RegTotal(reg'), Height)
    BY <1>1, <1>3, <2>1, RegDrawnKeeps
  <2>2. Visible("Right")' <=> Visible("Right")
    BY <1>3, <1>6 DEF Visible
  <2>. QED
    BY <2>1, <2>2 DEF InWindow, RegTotal
<1>13. (Visible("Memory") /\ Loaded =>
            /\ mem.gen = gen
            /\ IF mem.picking
               THEN InWindow(mem.pick, mem.pickTop, Len(SectionsOf(mem)), Height)
               ELSE InWindow(mem.cursor, mem.top, TotalRows, Height))'
  <2>1. ASSUME Visible("Memory"), Loaded
        PROVE  /\ mem'.gen = session.gen
               /\ IF mem'.picking
                  THEN InWindow(mem'.pick, mem'.pickTop, Len(SectionsOf(mem')), Height)
                  ELSE InWindow(mem'.cursor, mem'.top, TotalRows, Height)
    BY <1>1, <1>3, <2>1, MemDrawnKeeps
  <2>2. Visible("Memory")' <=> Visible("Memory")
    BY <1>3, <1>6 DEF Visible
  <2>. QED
    BY <1>4, <1>6, <2>1, <2>2 DEF InWindow, SectionsOf
<1>. QED
  BY <1>8, <1>9, <1>10, <1>11, <1>12, <1>13 DEF ScreenSound

\* After every frame the screen shows the binary that is loaded: each visible pane has its
\* cursor on a row inside its window, the symbols' on no header, and the focus is on something
\* that is drawn - for every sequence of keys and clicks, every height and every content.
THEOREM FramesAreSound == Spec => FrameIsSound
<1>1. IInv /\ [Next]_vars => [Frame => ScreenSound']_vars
  BY FrameSound
<1>. QED
  BY <1>1, ScreenInvariant, PTL DEF Spec, FrameIsSound
=============================================================================
