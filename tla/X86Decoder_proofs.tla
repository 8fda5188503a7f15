-------------------------- MODULE X86Decoder_proofs --------------------------
(***************************************************************************)
(* The opcode tables and decodeLine(), for every sequence of bytes.        *)
(***************************************************************************)
EXTENDS X86Decoder, TLAPS

(***************************************************************************)
(* What rows there are.                                                    *)
(***************************************************************************)

\* All a row ever eats besides its ModRM, SIB and displacement.
OneOperand ==
    {<<"Ib">>, <<"Ibs">>, <<"Iw">>, <<"Iz">>, <<"Iv">>, <<"Jb">>, <<"Jz">>, <<"Jv">>,
     <<"O">>, <<"Ap">>, <<"Lb">>}

Eats == {<<>>, <<"Iw", "Ib">>} \cup OneOperand

TableRow(r) == r \in Rows /\ r.eats \in Eats

\* What a row's mandatory prefix and default size can be.
Mandatory == {0, \h66, \hF2, \hF3}
Defaults  == {"none", "d64", "f64"}

TypedRows == [modRM : BOOLEAN, eats : Seq(ImmediateKinds), group : 0 .. 23,
              default64 : Defaults, mandatory : Mandatory, named : BOOLEAN]

LEMMA RowsAreTyped == Rows = TypedRows
BY Zenon DEF Rows, TypedRows, Mandatory, Defaults

LEMMA EatsTyped == \A e \in Eats : e \in Seq(ImmediateKinds)
<1>1. \A x \in ImmediateKinds : <<x>> \in Seq(ImmediateKinds)
  OBVIOUS
<1>2. \A x, y \in ImmediateKinds : <<x, y>> \in Seq(ImmediateKinds)
  OBVIOUS
<1>3. <<>> \in Seq(ImmediateKinds)
  OBVIOUS
<1>4. <<"Iw", "Ib">> \in Seq(ImmediateKinds)
  BY <1>2 DEF ImmediateKinds
<1>5. \A e \in OneOperand : \E x \in ImmediateKinds : e = <<x>>
  BY DEF OneOperand, ImmediateKinds
<1>. QED
  BY <1>1, <1>3, <1>4, <1>5 DEF Eats

LEMMA EatsHas ==
    /\ <<>> \in Eats /\ <<"Ib">> \in Eats /\ <<"Ibs">> \in Eats /\ <<"Iw">> \in Eats
    /\ <<"Iz">> \in Eats /\ <<"Iv">> \in Eats /\ <<"Jb">> \in Eats /\ <<"Jz">> \in Eats
    /\ <<"Jv">> \in Eats /\ <<"O">> \in Eats /\ <<"Ap">> \in Eats /\ <<"Lb">> \in Eats
    /\ <<"Iw", "Ib">> \in Eats
BY DEF Eats, OneOperand

LEMMA RowIsTableRow ==
    ASSUME NEW modRM \in BOOLEAN, NEW eats \in Eats
    PROVE  TableRow(Row(modRM, eats)) /\ Row(modRM, eats).eats = eats
           /\ Row(modRM, eats).group = 0 /\ Row(modRM, eats).named
BY EatsTyped DEF Row, Rows, TableRow

LEMMA WithGroup ==
    ASSUME NEW r, TableRow(r), NEW g \in 0 .. 23
    PROVE  /\ TableRow([r EXCEPT !.group = g])
           /\ [r EXCEPT !.group = g].eats = r.eats
           /\ [r EXCEPT !.group = g].group = g
<1>1. r \in TypedRows
  BY RowsAreTyped DEF TableRow
<1>2. [r EXCEPT !.group = g] \in TypedRows
  BY <1>1 DEF TypedRows
<1>3. [r EXCEPT !.group = g].eats = r.eats /\ [r EXCEPT !.group = g].group = g
  BY <1>1 DEF TypedRows
<1>. QED
  BY <1>2, <1>3, RowsAreTyped, Zenon DEF TableRow

LEMMA WithDefault64 ==
    ASSUME NEW r, TableRow(r), NEW d \in Defaults
    PROVE  /\ TableRow([r EXCEPT !.default64 = d])
           /\ [r EXCEPT !.default64 = d].eats = r.eats
           /\ [r EXCEPT !.default64 = d].group = r.group
<1>1. [r EXCEPT !.default64 = d] \in Rows
  <2>1. r \in TypedRows
    BY RowsAreTyped DEF TableRow
  <2>2. [r EXCEPT !.default64 = d] \in TypedRows
    BY <2>1 DEF TypedRows, Defaults
  <2>. QED
    BY <2>2, RowsAreTyped, Zenon
<1>2. [r EXCEPT !.default64 = d].eats = r.eats /\ [r EXCEPT !.default64 = d].group = r.group
  BY DEF TableRow, Rows
<1>. QED
  BY <1>1, <1>2 DEF TableRow

LEMMA WithMandatory ==
    ASSUME NEW r, TableRow(r), NEW m \in Mandatory
    PROVE  /\ TableRow([r EXCEPT !.mandatory = m])
           /\ [r EXCEPT !.mandatory = m].eats = r.eats
           /\ [r EXCEPT !.mandatory = m].group = r.group
<1>1. [r EXCEPT !.mandatory = m] \in Rows
  <2>1. r \in TypedRows
    BY RowsAreTyped DEF TableRow
  <2>2. [r EXCEPT !.mandatory = m] \in TypedRows
    BY <2>1 DEF TypedRows
  <2>. QED
    BY <2>2, RowsAreTyped, Zenon
<1>2. [r EXCEPT !.mandatory = m].eats = r.eats /\ [r EXCEPT !.mandatory = m].group = r.group
  BY DEF TableRow, Rows
<1>. QED
  BY <1>1, <1>2, Zenon DEF TableRow

LEMMA MandatoryRow ==
    /\ TableRow([Row(TRUE, <<>>) EXCEPT !.mandatory = \hF2])
    /\ TableRow([Row(TRUE, <<>>) EXCEPT !.mandatory = \hF3])
    /\ [Row(TRUE, <<>>) EXCEPT !.mandatory = \hF2].eats = <<>>
<1>1. TableRow(Row(TRUE, <<>>)) /\ Row(TRUE, <<>>).eats = <<>>
  BY RowIsTableRow, EatsHas
<1>2. \A m \in Mandatory :
         /\ TableRow([Row(TRUE, <<>>) EXCEPT !.mandatory = m])
         /\ [Row(TRUE, <<>>) EXCEPT !.mandatory = m].eats = Row(TRUE, <<>>).eats
  <2>. TAKE m \in Mandatory
  <2>1. TableRow(Row(TRUE, <<>>))
    BY <1>1
  <2>2. TableRow([Row(TRUE, <<>>) EXCEPT !.mandatory = m])
    BY <2>1, WithMandatory, Zenon
  <2>3. [Row(TRUE, <<>>) EXCEPT !.mandatory = m].eats = Row(TRUE, <<>>).eats
    BY DEF Row
  <2>. QED
    BY <2>2, <2>3, Zenon
<1>3. \hF2 \in Mandatory /\ \hF3 \in Mandatory
  BY DEF Mandatory
<1>4. \A m \in Mandatory : TableRow([Row(TRUE, <<>>) EXCEPT !.mandatory = m])
  BY <1>2, Zenon
<1>5. TableRow([Row(TRUE, <<>>) EXCEPT !.mandatory = \hF2])
  BY <1>3, <1>4
<1>6. TableRow([Row(TRUE, <<>>) EXCEPT !.mandatory = \hF3])
  BY <1>3, <1>4
<1>7. [Row(TRUE, <<>>) EXCEPT !.mandatory = \hF2].eats = <<>>
  BY <1>1, <1>2, <1>3
<1>. QED
  BY <1>5, <1>6, <1>7

LEMMA WithNamed ==
    ASSUME NEW r, TableRow(r), NEW n \in BOOLEAN
    PROVE  /\ TableRow([r EXCEPT !.named = n])
           /\ [r EXCEPT !.named = n].eats = r.eats
<1>1. [r EXCEPT !.named = n] \in Rows
  <2>1. r \in TypedRows
    BY RowsAreTyped DEF TableRow
  <2>2. [r EXCEPT !.named = n] \in TypedRows
    BY <2>1 DEF TypedRows
  <2>. QED
    BY <2>2, RowsAreTyped, Zenon
<1>2. [r EXCEPT !.named = n].eats = r.eats
  BY DEF TableRow, Rows
<1>. QED
  BY <1>1, <1>2, Zenon DEF TableRow

LEMMA WithEats ==
    ASSUME NEW r, TableRow(r), NEW e \in Eats, NEW d \in Defaults
    PROVE  /\ TableRow([r EXCEPT !.eats = e, !.default64 = d])
           /\ [r EXCEPT !.eats = e, !.default64 = d].eats = e
<1>1. e \in Seq(ImmediateKinds)
  BY EatsTyped
<1>2. [r EXCEPT !.eats = e, !.default64 = d] \in Rows
  <2>1. r \in TypedRows
    BY RowsAreTyped DEF TableRow
  <2>2. [r EXCEPT !.eats = e, !.default64 = d] \in TypedRows
    BY <1>1, <2>1 DEF TypedRows, Defaults
  <2>. QED
    BY <2>2, RowsAreTyped, Zenon
<1>3. [r EXCEPT !.eats = e, !.default64 = d].eats = e
  BY DEF TableRow, Rows
<1>. QED
  BY <1>2, <1>3, Zenon DEF TableRow

LEMMA NoRowIsTableRow ==
    TableRow(NoRow) /\ NoRow.eats = <<>> /\ ~NoRow.named
<1>1. TableRow(Row(FALSE, <<>>)) /\ Row(FALSE, <<>>).eats = <<>>
  BY RowIsTableRow DEF Eats
<1>2. [Row(FALSE, <<>>) EXCEPT !.named = FALSE].named = FALSE
  BY DEF Row
<1>. QED
  BY <1>1, <1>2, WithNamed DEF NoRow

LEMMA EntryIsTableRow ==
    TableRow(Entry) /\ Entry.eats = <<>>
BY RowIsTableRow DEF Entry, Eats

(***************************************************************************)
(* The one-byte map.  Only group 3's entries eat, and its rows do not.     *)
(***************************************************************************)
LEMMA BlocksAreTableRows ==
    ASSUME NEW op
    PROVE  /\ TableRow(ArithmeticRow(op)) /\ ArithmeticRow(op).group = 0
           /\ TableRow(StackBranchRow(op)) /\ StackBranchRow(op).group \in {0, 1}
           /\ TableRow(MoveRow(op)) /\ MoveRow(op).group = 0
           /\ TableRow(ControlRow(op))
           /\ ControlRow(op).group = 3 => ControlRow(op).eats = <<>> /\ op \in {\hF6, \hF7}
<1>1. TableRow(ArithmeticRow(op)) /\ ArithmeticRow(op).group = 0
  BY RowIsTableRow DEF ArithmeticRow, Eats, OneOperand
<1>2. TableRow(MoveRow(op)) /\ MoveRow(op).group = 0
  <2>1. PICK e \in Eats : MoveRow(op) = Row(FALSE, e)
    BY EatsHas DEF MoveRow
  <2>. QED
    BY <2>1, RowIsTableRow
<1>3. TableRow(StackBranchRow(op)) /\ StackBranchRow(op).group \in {0, 1}
  <2>1. StackBranchEats(op) \in Eats
    BY EatsHas DEF StackBranchEats
  <2>. DEFINE m == op \in {\h62, \h63, \h69, \h6B} \cup \h80 .. \h8F
              g == IF op \in \h80 .. \h83 THEN 1 ELSE 0
  <2>2. m \in BOOLEAN /\ g \in {0, 1} /\ g \in 0 .. 23
    OBVIOUS
  <2>3. StackBranchRow(op) = [Row(m, StackBranchEats(op)) EXCEPT !.group = g]
    BY DEF StackBranchRow
  <2>. HIDE DEF m, g
  <2>4. /\ TableRow([Row(m, StackBranchEats(op)) EXCEPT !.group = g])
        /\ [Row(m, StackBranchEats(op)) EXCEPT !.group = g].group = g
    <3>1. TableRow(Row(m, StackBranchEats(op)))
      BY <2>1, <2>2, RowIsTableRow
    <3>. QED
      BY <2>2, <3>1, WithGroup, Zenon
  <2>. QED
    BY <2>2, <2>3, <2>4, Zenon
<1>4. TableRow(ControlRow(op))
      /\ (ControlRow(op).group = 3 => ControlRow(op).eats = <<>> /\ op \in {\hF6, \hF7})
  <2>1. ControlEats(op) \in Eats
    BY EatsHas DEF ControlEats
  <2>2. ControlGroup(op) \in 0 .. 23
    BY DEF ControlGroup
  <2>3. ControlGroup(op) = 3 => ControlEats(op) = <<>> /\ op \in {\hF6, \hF7}
    BY DEF ControlEats, ControlGroup
  <2>. DEFINE m == op \in {\hC0, \hC1, \hF6, \hF7, \hFE, \hFF}
                         \cup \hC4 .. \hC7 \cup \hD0 .. \hD3 \cup \hD8 .. \hDF
  <2>4. m \in BOOLEAN
    OBVIOUS
  <2>5. ControlRow(op) = [Row(m, ControlEats(op)) EXCEPT !.group = ControlGroup(op)]
    BY DEF ControlRow
  <2>. HIDE DEF m
  <2>6. /\ TableRow([Row(m, ControlEats(op)) EXCEPT !.group = ControlGroup(op)])
        /\ [Row(m, ControlEats(op)) EXCEPT !.group = ControlGroup(op)].group = ControlGroup(op)
        /\ [Row(m, ControlEats(op)) EXCEPT !.group = ControlGroup(op)].eats = ControlEats(op)
    <3>1. /\ TableRow(Row(m, ControlEats(op)))
          /\ Row(m, ControlEats(op)).eats = ControlEats(op)
      BY <2>1, <2>4, RowIsTableRow
    <3>. QED
      BY <2>2, <3>1, WithGroup, Zenon
  <2>. QED
    BY <2>3, <2>5, <2>6, Zenon
<1>. QED
  BY <1>1, <1>2, <1>3, <1>4

LEMMA OpcodeTableRows ==
    ASSUME NEW op
    PROVE  /\ TableRow(opcodeTable(op))
           /\ opcodeTable(op).group = 3 => opcodeTable(op).eats = <<>>
<1>1. PICK r : /\ TableRow(r) /\ (r.group = 3 => r.eats = <<>>)
               /\ opcodeTable(op) = [r EXCEPT !.default64 = Default64Of(op)]
  <2>. DEFINE Good(r) == TableRow(r) /\ (r.group = 3 => r.eats = <<>>)
  <2>1. Good(ArithmeticRow(op)) /\ Good(StackBranchRow(op)) /\ Good(MoveRow(op))
        /\ Good(ControlRow(op))
    BY BlocksAreTableRows
  <2>. HIDE DEF Good
  <2>2. \E r : Good(r) /\ opcodeTable(op) = [r EXCEPT !.default64 = Default64Of(op)]
    BY <2>1, Zenon DEF opcodeTable
  <2>. QED
    BY <2>2 DEF Good
<1>2. Default64Of(op) \in Defaults
  BY DEF Default64Of, Defaults
<1>3. /\ TableRow([r EXCEPT !.default64 = Default64Of(op)])
      /\ [r EXCEPT !.default64 = Default64Of(op)].eats = r.eats
      /\ [r EXCEPT !.default64 = Default64Of(op)].group = r.group
  BY <1>1, <1>2, WithDefault64, Zenon
<1>. QED
  BY <1>1, <1>3, Zenon

\* What a group's entry may add to the row that selects it.
GroupEntry(e) ==
    /\ TableRow(e)
    /\ e.eats \in {<<>>, <<"Ib">>, <<"Iz">>}

LEMMA ConcatEats ==
    ASSUME NEW s \in Eats, NEW t \in {<<>>, <<"Ib">>, <<"Iz">>}, s = <<>> \/ t = <<>>
    PROVE  s \o t \in Eats
<1>1. s \in Seq(ImmediateKinds) /\ t \in Seq(ImmediateKinds) /\ t \in Eats
  BY EatsTyped, EatsHas
<1>2. s = <<>> => s \o t = t
  BY <1>1
<1>3. t = <<>> => s \o t = s
  BY <1>1
<1>. QED
  BY <1>1, <1>2, <1>3

LEMMA MergedRows ==
    ASSUME NEW outer, NEW entry, TableRow(outer), GroupEntry(entry),
           outer.eats = <<>> \/ entry.eats = <<>>
    PROVE  /\ TableRow(merge(outer, entry))
           /\ entry.eats = <<>> => merge(outer, entry).eats \in {<<>>, outer.eats}
<1>1. CASE ~entry.named
  BY <1>1 DEF merge, GroupEntry
<1>2. CASE entry.named
  <2>. DEFINE e == outer.eats \o entry.eats
              d == IF entry.default64 = "none" THEN outer.default64 ELSE entry.default64
  <2>1. e \in Eats
    BY ConcatEats DEF TableRow, GroupEntry
  <2>2. d \in Defaults
    BY DEF TableRow, GroupEntry, Rows, Defaults
  <2>3. merge(outer, entry) = [outer EXCEPT !.eats = e, !.default64 = d]
    BY <1>2 DEF merge
  <2>4. entry.eats = <<>> => e = outer.eats
    <3>1. outer.eats \in Seq(ImmediateKinds)
      BY EatsTyped DEF TableRow
    <3>. QED
      BY <3>1
  <2>. HIDE DEF e, d
  <2>5. TableRow([outer EXCEPT !.eats = e, !.default64 = d])
        /\ [outer EXCEPT !.eats = e, !.default64 = d].eats = e
    BY <2>1, <2>2, WithEats, Zenon
  <2>. QED
    BY <2>3, <2>4, <2>5, Zenon
<1>. QED
  BY <1>1, <1>2

LEMMA GroupEntries ==
    ASSUME NEW op, NEW reg
    PROVE  /\ GroupEntry(groupEntryOf(op, reg))
           /\ opcodeTable(op).group # 3 => groupEntryOf(op, reg).eats = <<>>
<1>1. GroupEntry(Entry) /\ Entry.eats = <<>>
  BY EntryIsTableRow DEF GroupEntry
<1>2. GroupEntry(NoRow) /\ NoRow.eats = <<>>
  BY NoRowIsTableRow DEF GroupEntry
<1>3. \A d \in {"d64", "f64"} : GroupEntry([Entry EXCEPT !.default64 = d])
                                /\ [Entry EXCEPT !.default64 = d].eats = <<>>
  <2>1. SUFFICES ASSUME NEW d \in {"d64", "f64"}
                 PROVE  GroupEntry([Entry EXCEPT !.default64 = d])
                        /\ [Entry EXCEPT !.default64 = d].eats = <<>>
    OBVIOUS
  <2>2. d \in Defaults
    BY DEF Defaults
  <2>3. TableRow([Entry EXCEPT !.default64 = d]) /\ [Entry EXCEPT !.default64 = d].eats = Entry.eats
    BY <2>2, EntryIsTableRow, WithDefault64, Zenon
  <2>. QED
    BY <2>3, EntryIsTableRow, Zenon DEF GroupEntry
<1>4. GroupEntry(grp3Entry(op, reg))
  <2>1. GroupEntry(Row(TRUE, <<"Ib">>)) /\ GroupEntry(Row(TRUE, <<"Iz">>))
    BY RowIsTableRow, EatsHas DEF GroupEntry
  <2>. QED
    BY <1>1, <2>1 DEF grp3Entry
<1>5. GroupEntry(grp4Entry(reg)) /\ grp4Entry(reg).eats = <<>>
  BY <1>1, <1>2 DEF grp4Entry
<1>6. GroupEntry(grp5Entry(reg)) /\ grp5Entry(reg).eats = <<>>
  <2>1. GroupEntry([Entry EXCEPT !.default64 = "f64"])
        /\ [Entry EXCEPT !.default64 = "f64"].eats = <<>>
    BY <1>3
  <2>2. GroupEntry([Entry EXCEPT !.default64 = "d64"])
        /\ [Entry EXCEPT !.default64 = "d64"].eats = <<>>
    BY <1>3
  <2>. QED
    BY <1>1, <1>2, <2>1, <2>2, Zenon DEF grp5Entry
<1>. QED
  BY <1>1, <1>4, <1>5, <1>6 DEF groupEntryOf

LEMMA OneByteRows ==
    ASSUME NEW op, NEW modRM, NEW long
    PROVE  TableRow(resolvedInfo(op, modRM, long))
<1>1. TableRow(x87ResolvedInfo(op, modRM))
  BY RowIsTableRow, NoRowIsTableRow, EatsHas DEF x87ResolvedInfo
<1>2. TableRow(Row(TRUE, <<>>)) /\ TableRow(Row(TRUE, <<"Ib">>)) /\ TableRow(Row(TRUE, <<"Jz">>))
  BY RowIsTableRow, EatsHas
<1>3. TableRow(merge(opcodeTable(op), groupEntryOf(op, Reg(modRM))))
  BY OpcodeTableRows, GroupEntries, MergedRows
<1>. QED
  BY <1>1, <1>2, <1>3, OpcodeTableRows DEF resolvedInfo

(***************************************************************************)
(* The other maps.                                                         *)
(***************************************************************************)
LEMMA TwoByteGroupKeeps ==
    ASSUME NEW outer, NEW group, NEW modRM, TableRow(outer)
    PROVE  /\ TableRow(MergeTwoByte(outer, group, modRM))
           /\ MergeTwoByte(outer, group, modRM).eats \in {<<>>, outer.eats}
<1>1. PICK entry \in {Entry, NoRow} : MergeTwoByte(outer, group, modRM) = merge(outer, entry)
  BY DEF MergeTwoByte
<1>2. GroupEntry(entry) /\ entry.eats = <<>>
  BY EntryIsTableRow, NoRowIsTableRow DEF GroupEntry
<1>. QED
  BY <1>1, <1>2, MergedRows

LEMMA TwoByteTableRows ==
    ASSUME NEW op
    PROVE  TableRow(twoByteTable(op))
<1>1. TwoByteEats(op) \in Eats
  BY EatsHas DEF TwoByteEats
<1>2. TwoByteGroup(op) \in 0 .. 23
  BY DEF TwoByteGroup
<1>. DEFINE m == op \notin BareTwoByte
            n == op \notin UnnamedTwoByte
<1>3. m \in BOOLEAN /\ n \in BOOLEAN
  OBVIOUS
<1>4. twoByteTable(op) =
          [[Row(m, TwoByteEats(op)) EXCEPT !.group = TwoByteGroup(op)] EXCEPT !.named = n]
  BY DEF twoByteTable, Row
<1>. HIDE DEF m, n
<1>5. TableRow(Row(m, TwoByteEats(op)))
  BY <1>1, <1>3, RowIsTableRow
<1>6. TableRow([Row(m, TwoByteEats(op)) EXCEPT !.group = TwoByteGroup(op)])
  BY <1>2, <1>5, WithGroup, Zenon
<1>7. TableRow([[Row(m, TwoByteEats(op)) EXCEPT !.group = TwoByteGroup(op)] EXCEPT !.named = n])
  BY <1>3, <1>6, WithNamed, Zenon
<1>. QED
  BY <1>4, <1>7, Zenon

LEMMA PrefixedRows ==
    ASSUME NEW op, NEW p \in 0 .. 3, op \in PrefixedNames(p)
    PROVE  TableRow(prefixedTable(p, op))
<1>. DEFINE e == IF op \in {\h70, \hC2, \hC6} THEN <<"Ib">> ELSE <<>>
<1>1. p \in 1 .. 3
  BY DEF PrefixedNames
<1>2. SlotPrefix[p] \in Mandatory
  BY <1>1 DEF SlotPrefix, Mandatory
<1>3. e \in Eats
  BY EatsHas
<1>4. prefixedTable(p, op) = [Row(TRUE, e) EXCEPT !.mandatory = SlotPrefix[p]]
  BY DEF prefixedTable
<1>. HIDE DEF e
<1>5. TableRow(Row(TRUE, e))
  BY <1>3, RowIsTableRow
<1>6. TableRow([Row(TRUE, e) EXCEPT !.mandatory = SlotPrefix[p]])
  BY <1>2, <1>5, WithMandatory, Zenon
<1>. QED
  BY <1>4, <1>6, Zenon

LEMMA TwoByteRows ==
    ASSUME NEW op, NEW modRM, NEW p \in 0 .. 3
    PROVE  TableRow(twoByteResolvedInfo(op, modRM, p))
<1>. DEFINE tabulated == IF op \in PrefixedNames(p) THEN prefixedTable(p, op)
                                                    ELSE twoByteTable(op)
            m == IF p = 1 /\ tabulated.mandatory = 0 /\ op \in MmxTwoByte
                 THEN \h66 ELSE tabulated.mandatory
            outer == [tabulated EXCEPT !.mandatory = m]
            group == IF outer.group = 15 /\ modRM >= \hC0 THEN 17 ELSE outer.group
<1>1. TableRow(tabulated)
  BY PrefixedRows, TwoByteTableRows
<1>. HIDE DEF tabulated
<1>2. m \in Mandatory
  BY <1>1 DEF TableRow, Rows, Mandatory
<1>. HIDE DEF m
<1>3. TableRow(outer)
  BY <1>1, <1>2, WithMandatory, Zenon
<1>. HIDE DEF outer
<1>4. TableRow(MergeTwoByte(outer, group, modRM))
  BY <1>3, TwoByteGroupKeeps
<1>. HIDE DEF group
<1>5. TableRow(Row(TRUE, <<>>))
  BY RowIsTableRow, EatsHas
<1>6. TableRow([Row(TRUE, <<>>) EXCEPT !.mandatory = \hF3])
  BY MandatoryRow
<1>7. twoByteResolvedInfo(op, modRM, p) \in
          {[Row(TRUE, <<>>) EXCEPT !.mandatory = \hF3], Row(TRUE, <<>>), outer,
           MergeTwoByte(outer, group, modRM)}
  <2>1. twoByteResolvedInfo(op, modRM, p) =
            CASE op = \h1E /\ p = 2 /\ modRM \in {\hFA, \hFB} ->
                     [Row(TRUE, <<>>) EXCEPT !.mandatory = \hF3]
              [] op = \h01 /\ modRM \in {\hC8, \hC9} -> Row(TRUE, <<>>)
              [] OTHER -> IF group = 0 THEN outer ELSE MergeTwoByte(outer, group, modRM)
    BY Zenon DEF twoByteResolvedInfo, outer, tabulated, m, group
  <2>. DEFINE endbr   == op = \h1E /\ p = 2 /\ modRM \in {\hFA, \hFB}
              monitor == op = \h01 /\ modRM \in {\hC8, \hC9}
              marked  == [Row(TRUE, <<>>) EXCEPT !.mandatory = \hF3]
              plain   == Row(TRUE, <<>>)
              merged  == MergeTwoByte(outer, group, modRM)
  <2>2. twoByteResolvedInfo(op, modRM, p) =
            CASE endbr -> marked [] monitor -> plain
              [] OTHER -> IF group = 0 THEN outer ELSE merged
    BY <2>1
  <2>. HIDE DEF endbr, monitor, marked, plain, merged
  <2>3. endbr \in BOOLEAN /\ monitor \in BOOLEAN
    BY Zenon DEF endbr, monitor
  <2>4. twoByteResolvedInfo(op, modRM, p) \in {marked, plain, outer, merged}
    BY <2>2, <2>3
  <2>. QED
    BY <2>4 DEF marked, plain, merged
<1>. QED
  BY <1>3, <1>4, <1>5, <1>6, <1>7, Zenon

LEMMA UnnamedRows ==
    ASSUME NEW hasImm8 \in BOOLEAN
    PROVE  /\ TableRow(threeByteRow(hasImm8))
           /\ threeByteRow(hasImm8).eats = IF hasImm8 THEN <<"Ib">> ELSE <<>>
<1>. DEFINE e == IF hasImm8 THEN <<"Ib">> ELSE <<>>
<1>1. e \in Eats
  BY EatsHas
<1>2. threeByteRow(hasImm8) = [Row(TRUE, e) EXCEPT !.named = FALSE]
  BY DEF threeByteRow
<1>. HIDE DEF e
<1>3. TableRow(Row(TRUE, e)) /\ Row(TRUE, e).eats = e
  BY <1>1, RowIsTableRow
<1>4. TableRow([Row(TRUE, e) EXCEPT !.named = FALSE])
      /\ [Row(TRUE, e) EXCEPT !.named = FALSE].eats = Row(TRUE, e).eats
  BY <1>3, WithNamed, Zenon
<1>. QED
  BY <1>2, <1>3, <1>4, Zenon DEF e

\* What the rows of maps 2 and 3 eat, named or not: nothing, and one byte.
EscapeRow(m, r) ==
    /\ TableRow(r)
    /\ m = 2 => r.eats = <<>>
    /\ m = 3 => r.eats \in {<<"Ib">>, <<"Lb">>}

LEMMA ThreeByteRows ==
    ASSUME NEW op, NEW m \in {2, 3}, NEW p
    PROVE  EscapeRow(m, threeByteResolvedInfo(op, m, p))
<1>. DEFINE e == IF m = 3 THEN <<"Ib">> ELSE <<>>
            f == IF p = 1 THEN \h66 ELSE 0
<1>1. e \in Eats
  BY EatsHas
<1>2. f \in Mandatory
  BY DEF Mandatory
<1>3. EscapeRow(m, threeByteRow(m = 3))
  <2>1. (m = 3) \in BOOLEAN
    OBVIOUS
  <2>2. TableRow(threeByteRow(m = 3)) /\ threeByteRow(m = 3).eats = e
    BY <2>1, UnnamedRows
  <2>. QED
    BY <2>2 DEF EscapeRow
<1>4. EscapeRow(m, threeByteTable(m, p))
  <2>1. threeByteTable(m, p) = [Row(TRUE, e) EXCEPT !.mandatory = f]
    BY DEF threeByteTable
  <2>. HIDE DEF e, f
  <2>2. TableRow(Row(TRUE, e)) /\ Row(TRUE, e).eats = e
    BY <1>1, RowIsTableRow
  <2>3. TableRow(Row(TRUE, e))
    BY <2>2
  <2>4. TableRow([Row(TRUE, e) EXCEPT !.mandatory = f])
    BY <1>2, <2>3, WithMandatory, Zenon
  <2>5. [Row(TRUE, e) EXCEPT !.mandatory = f].eats = Row(TRUE, e).eats
    BY <1>2, <2>3, WithMandatory, Zenon
  <2>6. TableRow(threeByteTable(m, p)) /\ threeByteTable(m, p).eats = e
    BY <2>1, <2>2, <2>4, <2>5, Zenon
  <2>. QED
    BY <2>6 DEF EscapeRow, e
<1>5. m = 2 => EscapeRow(m, [Row(TRUE, <<>>) EXCEPT !.mandatory = \hF2])
  <2>1. m = 2 => ~(m = 3)
    OBVIOUS
  <2>. QED
    BY <2>1, MandatoryRow, Zenon DEF EscapeRow
<1>. HIDE DEF e, f
<1>. QED
  BY <1>3, <1>4, <1>5, Zenon DEF threeByteResolvedInfo

LEMMA ThreeDNowRows ==
    ASSUME NEW op
    PROVE  TableRow(threeDNowTable(op)) /\ threeDNowTable(op).eats = <<>>
<1>1. TableRow(Row(TRUE, <<>>)) /\ Row(TRUE, <<>>).eats = <<>>
  BY RowIsTableRow, EatsHas
<1>2. threeDNowTable(op) = Row(TRUE, <<>>) \/ threeDNowTable(op) = NoRow
  BY DEF threeDNowTable
<1>. QED
  BY <1>1, <1>2, NoRowIsTableRow, Zenon

LEMMA VexRows ==
    ASSUME NEW op, NEW modRM, NEW m \in 1 .. 3, NEW p
    PROVE  EscapeRow(m, vexResolvedInfo(op, modRM, m, p))
<1>. DEFINE info == Row(~(m = 1 /\ op = \h77), VexEats(m, op))
            group == VexGroup(m, p, op)
<1>1. VexEats(m, op) \in Eats
  BY EatsHas DEF VexEats
<1>2. TableRow(info) /\ info.eats = VexEats(m, op)
  <2>1. (~(m = 1 /\ op = \h77)) \in BOOLEAN
    OBVIOUS
  <2>. QED
    BY <1>1, <2>1, RowIsTableRow
<1>3. EscapeRow(m, info)
  BY <1>2 DEF EscapeRow, VexEats
<1>4. EscapeRow(m, threeByteRow(m = 3))
  <2>1. (m = 3) \in BOOLEAN
    OBVIOUS
  <2>2. /\ TableRow(threeByteRow(m = 3))
        /\ threeByteRow(m = 3).eats = IF m = 3 THEN <<"Ib">> ELSE <<>>
    BY <2>1, UnnamedRows
  <2>. QED
    BY <2>2 DEF EscapeRow
<1>. HIDE DEF info
<1>5. group # 0 => EscapeRow(m, MergeTwoByte(info, group, modRM))
  <2>1. group # 0 => m # 3
    BY DEF VexGroup
  <2>. QED
    BY <1>2, <1>3, <2>1, TwoByteGroupKeeps DEF EscapeRow
<1>6. vexResolvedInfo(op, modRM, m, p) \in {threeByteRow(m = 3), info}
      \/ (group # 0 /\ vexResolvedInfo(op, modRM, m, p) = MergeTwoByte(info, group, modRM))
  BY Zenon DEF vexResolvedInfo, info
<1>. HIDE DEF group
<1>. QED
  BY <1>3, <1>4, <1>5, <1>6, Zenon

(***************************************************************************)
(* decodeLine(): the inductive invariant.                                  *)
(***************************************************************************)

\* TypeOK, with the one fact about the row that Rows leaves out.
Typed == TypeOK /\ TableRow(row)

AfterOpcode == {"modrm", "sib", "disp", "3dnow", "imm"}

\* What is known where decodeLine() stands.
PlaceInv ==
    /\ pc = "done" <=> result # "none"
    /\ pc \notin {"prefix", "done"} \/ result = "row" => length # 0
    /\ pc = "prefix" => vex = 0 /\ map = 0
    /\ pc = "peek" => vex = 0 /\ map = 0 /\ opcode \in {\hC4, \hC5}
    /\ pc = "escape" => vex = 0 /\ map = 1
    /\ pc = "map" => vex = 0 /\ map \in {2, 3}
    /\ pc \in {"vex1", "vex2"} => vex # 0
    /\ pc = "opcode" => vex # 0 /\ map \in 1 .. 3
    /\ pc = "3dnow" => vex = 0 /\ map = 1
    /\ pc \in AfterOpcode => map \in 0 .. 3 /\ (vex # 0 => map \in 1 .. 3)

\* The row is the one its map allows, once there is one.
RowInv ==
    pc \in {"sib", "disp", "3dnow", "imm"} \/ (result = "row" /\ ~isInvalid)
        => EscapeRow(map, row)

\* What the operands have eaten, and that nothing comes after a relative one.
TailInv ==
    /\ pc \notin {"imm", "done"} => operand = 0
    /\ operand = 0 => immediates = 0 /\ relativeTo = 0
    /\ operand <= Len(row.eats)
    /\ operand = 1 => immediates = ImmediateWidth(row.eats[1])
    /\ operand = 2 => immediates = 3
    /\ relativeTo # 0 => relativeTo = length /\ ~OperandLeft
    /\ result = "row" /\ ~isInvalid => ~OperandLeft

IInv == Typed /\ PlaceInv /\ RowInv /\ TailInv /\ RexAdjacent

LEMMA TableRowHas ==
    \A r : TableRow(r) => r \in Rows /\ r.eats \in Eats /\ r.eats \in Seq(ImmediateKinds)
BY EatsTyped DEF TableRow

\* A row eats for at most two operands, and for two only ENTER does.
LEMMA EatsShape ==
    \A e \in Eats : /\ Len(e) \in 0 .. 2
                    /\ Len(e) = 2 => e = <<"Iw", "Ib">>
                    /\ \A i \in 1 .. Len(e) : e[i] \in ImmediateKinds
<1>1. \A e \in OneOperand : Len(e) = 1 /\ e[1] \in ImmediateKinds
  BY DEF OneOperand, ImmediateKinds
<1>2. Len(<<>>) = 0
  OBVIOUS
<1>3. /\ Len(<<"Iw", "Ib">>) = 2
      /\ <<"Iw", "Ib">>[1] \in ImmediateKinds /\ <<"Iw", "Ib">>[2] \in ImmediateKinds
  BY DEF ImmediateKinds
<1>. QED
  BY <1>1, <1>2, <1>3 DEF Eats

LEMMA Widths ==
    ASSUME TypeOK
    PROVE  /\ \A kind \in ImmediateKinds : ImmediateWidth(kind) \in {1, 2, 4, 6, 8}
           /\ ImmediateWidth("Ib") = 1 /\ ImmediateWidth("Lb") = 1
           /\ ImmediateWidth("Iw") = 2
BY DEF TypeOK, ImmediateWidth, ImmediateKinds

LEMMA Displacements ==
    ASSUME NEW modRM \in Byte, NEW base \in {0, 5}
    PROVE  DisplacementSize(modRM, base) \in {0, 1, 2, 4}
BY DEF DisplacementSize, Byte

\* Every lookup decodeLine() makes gives a row of the tables.
LEMMA ResolvedRows ==
    ASSUME TypeOK, map \in 0 .. 3, vex # 0 => map \in 1 .. 3, NEW modRM
    PROVE  EscapeRow(map, ResolvedRow(modRM))
<1>1. \A m, r : m \in {0, 1} /\ TableRow(r) => EscapeRow(m, r)
  BY DEF EscapeRow
<1>2. CASE vex # 0
  BY <1>2, VexRows DEF ResolvedRow
<1>3. CASE vex = 0 /\ map = 0
  BY <1>1, <1>3, OneByteRows DEF ResolvedRow
<1>4. CASE vex = 0 /\ map = 1
  BY <1>1, <1>4, TwoByteRows DEF ResolvedRow, TypeOK
<1>5. CASE vex = 0 /\ map \in {2, 3}
  BY <1>5, ThreeByteRows DEF ResolvedRow
<1>. QED
  BY <1>2, <1>3, <1>4, <1>5

\* Before the immediates nothing has been eaten, so nothing the tail says can break.
LEMMA EarlyKeepsTail ==
    ASSUME TailInv, pc \notin {"imm", "done"}, TableRow(row'),
           UNCHANGED <<operand, immediates, relativeTo>>, result' # "row" \/ isInvalid'
    PROVE  TailInv'
<1>1. Len(row'.eats) \in Nat
  BY TableRowHas, EatsShape
<1>2. operand = 0 /\ immediates = 0 /\ relativeTo = 0
  BY DEF TailInv
<1>. QED
  BY <1>1, <1>2 DEF TailInv

LEMMA ReadPrefixKeeps ==
    ASSUME IInv, ReadPrefix
    PROVE  IInv'
<1>1. Typed'
  BY X86Assumption
  DEF IInv, Typed, TypeOK, Labels, Byte, PlaceInv, ReadPrefix, Read, Fits, IsRex, isPrefix,
      prefixTable, prefixVars, opcodeVars, widthVars, tailVars, endVars
<1>2. PlaceInv'
  BY DEF IInv, Typed, TypeOK, PlaceInv, AfterOpcode, ReadPrefix, Read, Fits, IsRex, isPrefix,
         prefixTable, prefixVars, opcodeVars, widthVars, tailVars, endVars
<1>3. RowInv'
  BY DEF IInv, PlaceInv, RowInv, ReadPrefix, Read, Fits, IsRex, isPrefix, prefixTable,
         prefixVars, opcodeVars, widthVars, tailVars, endVars
<1>4. TailInv'
  BY <1>1, EarlyKeepsTail
  DEF IInv, Typed, PlaceInv, ReadPrefix, Read, Fits, IsRex, isPrefix, prefixTable, prefixVars,
      opcodeVars, widthVars, tailVars, endVars
<1>5. RexAdjacent'
  BY DEF IInv, Typed, TypeOK, PlaceInv, RexAdjacent, IsRex, ReadPrefix, Read, Fits, isPrefix,
         prefixTable, prefixVars, opcodeVars, widthVars, tailVars, endVars
<1>. QED
  BY <1>1, <1>2, <1>3, <1>4, <1>5 DEF IInv

LEMMA OneByteOpcodeKeeps ==
    ASSUME IInv, OneByteOpcode
    PROVE  IInv'
<1>1. Typed'
  BY X86Assumption
  DEF IInv, Typed, TypeOK, Labels, Byte, PlaceInv, OneByteOpcode, FirstByte, Fits, IsRex,
      prefixVars, opcodeVars, widthVars, tailVars, endVars
<1>2. PlaceInv'
  BY DEF IInv, Typed, TypeOK, PlaceInv, AfterOpcode, OneByteOpcode, FirstByte, Fits, IsRex,
         prefixVars, opcodeVars, widthVars, tailVars, endVars
<1>3. RowInv'
  BY DEF IInv, PlaceInv, RowInv, OneByteOpcode, FirstByte, Fits, IsRex, prefixVars, opcodeVars,
         widthVars, tailVars, endVars
<1>4. TailInv'
  BY <1>1, EarlyKeepsTail
  DEF IInv, Typed, PlaceInv, OneByteOpcode, FirstByte, Fits, IsRex, prefixVars, opcodeVars,
      widthVars, tailVars, endVars
<1>5. RexAdjacent'
  BY DEF IInv, Typed, TypeOK, PlaceInv, RexAdjacent, IsRex, OneByteOpcode, FirstByte, Fits,
         prefixVars, opcodeVars, widthVars, tailVars, endVars
<1>. QED
  BY <1>1, <1>2, <1>3, <1>4, <1>5 DEF IInv

LEMMA GoneOpcodeKeeps ==
    ASSUME IInv, GoneOpcode
    PROVE  IInv'
<1>1. Typed'
  BY X86Assumption
  DEF IInv, Typed, TypeOK, Labels, Byte, PlaceInv, GoneOpcode, FirstByte, Fits, IsRex, Emit,
      prefixVars, opcodeVars, widthVars, tailVars, endVars
<1>2. PlaceInv'
  BY DEF IInv, Typed, TypeOK, PlaceInv, AfterOpcode, GoneOpcode, FirstByte, Fits, IsRex, Emit,
         prefixVars, opcodeVars, widthVars, tailVars, endVars
<1>3. RowInv'
  BY DEF IInv, PlaceInv, RowInv, GoneOpcode, FirstByte, Fits, IsRex, Emit, prefixVars,
         opcodeVars, widthVars, tailVars, endVars
<1>4. TailInv'
  BY <1>1, EarlyKeepsTail
  DEF IInv, Typed, PlaceInv, GoneOpcode, FirstByte, Fits, IsRex, Emit, prefixVars, opcodeVars,
      widthVars, tailVars, endVars
<1>5. RexAdjacent'
  BY DEF IInv, Typed, TypeOK, PlaceInv, RexAdjacent, IsRex, GoneOpcode, FirstByte, Fits, Emit,
         prefixVars, opcodeVars, widthVars, tailVars, endVars
<1>. QED
  BY <1>1, <1>2, <1>3, <1>4, <1>5 DEF IInv

LEMMA OpenEscapeKeeps ==
    ASSUME IInv, OpenEscape
    PROVE  IInv'
<1>1. Typed'
  BY X86Assumption
  DEF IInv, Typed, TypeOK, Labels, Byte, PlaceInv, OpenEscape, FirstByte, Fits, IsRex,
      prefixVars, opcodeVars, widthVars, tailVars, endVars
<1>2. PlaceInv'
  BY DEF IInv, Typed, TypeOK, PlaceInv, AfterOpcode, OpenEscape, FirstByte, Fits, IsRex,
         prefixVars, opcodeVars, widthVars, tailVars, endVars
<1>3. RowInv'
  BY DEF IInv, PlaceInv, RowInv, OpenEscape, FirstByte, Fits, IsRex, prefixVars, opcodeVars,
         widthVars, tailVars, endVars
<1>4. TailInv'
  BY <1>1, EarlyKeepsTail
  DEF IInv, Typed, PlaceInv, OpenEscape, FirstByte, Fits, IsRex, prefixVars, opcodeVars,
      widthVars, tailVars, endVars
<1>5. RexAdjacent'
  BY DEF IInv, Typed, TypeOK, PlaceInv, RexAdjacent, IsRex, OpenEscape, FirstByte, Fits,
         prefixVars, opcodeVars, widthVars, tailVars, endVars
<1>. QED
  BY <1>1, <1>2, <1>3, <1>4, <1>5 DEF IInv

LEMMA EscapedOpcodeKeeps ==
    ASSUME IInv, EscapedOpcode
    PROVE  IInv'
<1>1. Typed'
  BY X86Assumption
  DEF IInv, Typed, TypeOK, Labels, Byte, PlaceInv, EscapedOpcode, Read, Fits, PrefixColumn,
      prefixVars, opcodeVars, widthVars, tailVars, endVars
<1>2. PlaceInv'
  BY DEF IInv, Typed, TypeOK, PlaceInv, AfterOpcode, EscapedOpcode, Read, Fits, PrefixColumn,
         prefixVars, opcodeVars, widthVars, tailVars, endVars
<1>3. RowInv'
  BY DEF IInv, PlaceInv, RowInv, EscapedOpcode, Read, Fits, PrefixColumn, prefixVars,
         opcodeVars, widthVars, tailVars, endVars
<1>4. TailInv'
  BY <1>1, EarlyKeepsTail
  DEF IInv, Typed, PlaceInv, EscapedOpcode, Read, Fits, PrefixColumn, prefixVars, opcodeVars,
      widthVars, tailVars, endVars
<1>5. RexAdjacent'
  BY DEF IInv, Typed, TypeOK, PlaceInv, RexAdjacent, IsRex, EscapedOpcode, Read, Fits,
         PrefixColumn, prefixVars, opcodeVars, widthVars, tailVars, endVars
<1>. QED
  BY <1>1, <1>2, <1>3, <1>4, <1>5 DEF IInv

LEMMA OpenVexKeeps ==
    ASSUME IInv, OpenVex
    PROVE  IInv'
<1>1. Typed'
  BY X86Assumption
  DEF IInv, Typed, TypeOK, Labels, Byte, PlaceInv, OpenVex, FirstByte, Fits, IsRex, prefixVars,
      opcodeVars, widthVars, tailVars, endVars
<1>2. PlaceInv'
  BY DEF IInv, Typed, TypeOK, PlaceInv, AfterOpcode, OpenVex, FirstByte, Fits, IsRex,
         prefixVars, opcodeVars, widthVars, tailVars, endVars
<1>3. RowInv'
  BY DEF IInv, PlaceInv, RowInv, OpenVex, FirstByte, Fits, IsRex, prefixVars, opcodeVars,
         widthVars, tailVars, endVars
<1>4. TailInv'
  BY <1>1, EarlyKeepsTail
  DEF IInv, Typed, PlaceInv, OpenVex, FirstByte, Fits, IsRex, prefixVars, opcodeVars,
      widthVars, tailVars, endVars
<1>5. RexAdjacent'
  BY DEF IInv, Typed, TypeOK, PlaceInv, RexAdjacent, IsRex, OpenVex, FirstByte, Fits,
         prefixVars, opcodeVars, widthVars, tailVars, endVars
<1>. QED
  BY <1>1, <1>2, <1>3, <1>4, <1>5 DEF IInv

LEMMA PeekModRMKeeps ==
    ASSUME IInv, PeekModRM
    PROVE  IInv'
<1>1. Typed'
  BY X86Assumption
  DEF IInv, Typed, TypeOK, Labels, Byte, PlaceInv, PeekModRM, prefixVars, opcodeVars,
      widthVars, tailVars, endVars
<1>2. PlaceInv'
  BY DEF IInv, Typed, TypeOK, PlaceInv, AfterOpcode, PeekModRM, prefixVars, opcodeVars,
         widthVars, tailVars, endVars
<1>3. RowInv'
  BY DEF IInv, PlaceInv, RowInv, PeekModRM, prefixVars, opcodeVars, widthVars, tailVars, endVars
<1>4. TailInv'
  BY <1>1, EarlyKeepsTail
  DEF IInv, Typed, PlaceInv, PeekModRM, prefixVars, opcodeVars, widthVars, tailVars, endVars
<1>5. RexAdjacent'
  BY DEF IInv, Typed, TypeOK, PlaceInv, RexAdjacent, IsRex, PeekModRM, prefixVars, opcodeVars,
         widthVars, tailVars, endVars
<1>. QED
  BY <1>1, <1>2, <1>3, <1>4, <1>5 DEF IInv

LEMMA VexMapByteKeeps ==
    ASSUME IInv, VexMapByte
    PROVE  IInv'
<1>1. Typed'
  BY X86Assumption
  DEF IInv, Typed, TypeOK, Labels, Byte, PlaceInv, VexMapByte, Read, Fits, prefixVars,
      opcodeVars, widthVars, tailVars, endVars
<1>2. PlaceInv'
  BY DEF IInv, Typed, TypeOK, PlaceInv, AfterOpcode, VexMapByte, Read, Fits, prefixVars,
         opcodeVars, widthVars, tailVars, endVars
<1>3. RowInv'
  BY DEF IInv, PlaceInv, RowInv, VexMapByte, Read, Fits, prefixVars, opcodeVars, widthVars,
         tailVars, endVars
<1>4. TailInv'
  BY <1>1, EarlyKeepsTail
  DEF IInv, Typed, PlaceInv, VexMapByte, Read, Fits, prefixVars, opcodeVars, widthVars,
      tailVars, endVars
<1>5. RexAdjacent'
  BY DEF IInv, Typed, TypeOK, PlaceInv, RexAdjacent, IsRex, VexMapByte, Read, Fits, prefixVars,
         opcodeVars, widthVars, tailVars, endVars
<1>. QED
  BY <1>1, <1>2, <1>3, <1>4, <1>5 DEF IInv

LEMMA VexPpByteKeeps ==
    ASSUME IInv, VexPpByte
    PROVE  IInv'
<1>1. Typed'
  <2>1. rex' \in {0, \h40, \h48} \cup {rex}
    BY DEF VexPpByte
  <2>2. TableRow(row')
    BY DEF VexPpByte, IInv, Typed, widthVars
  <2>3. length' \in 0 .. 15 /\ map' \in 0 .. 4 /\ pp' \in 0 .. 3
    BY DEF VexPpByte, IInv, Typed, TypeOK, Fits
  <2>4. pc' \in {"opcode", "done"}
    BY DEF VexPpByte, Emit
  <2>5. isInvalid' \in BOOLEAN /\ result' \in {"none", "row", result}
    BY DEF VexPpByte, IInv, Typed, TypeOK, Emit, endVars
  <2>. QED
    BY <2>1, <2>2, <2>3, <2>4, <2>5
    DEF IInv, Typed, TypeOK, Labels, VexPpByte, widthVars, tailVars
<1>2. PlaceInv'
  BY DEF IInv, Typed, TypeOK, PlaceInv, AfterOpcode, VexPpByte, Fits, Emit, prefixVars,
         opcodeVars, widthVars, tailVars, endVars
<1>3. RowInv'
  BY DEF IInv, PlaceInv, RowInv, VexPpByte, Fits, Emit, prefixVars, opcodeVars, widthVars,
         tailVars, endVars
<1>4. TailInv'
  BY <1>1, EarlyKeepsTail
  DEF IInv, Typed, PlaceInv, VexPpByte, Fits, Emit, prefixVars, opcodeVars, widthVars,
      tailVars, endVars
<1>5. RexAdjacent'
  BY DEF IInv, Typed, TypeOK, PlaceInv, RexAdjacent, IsRex, VexPpByte, Fits, Emit, prefixVars,
         opcodeVars, widthVars, tailVars, endVars
<1>. QED
  BY <1>1, <1>2, <1>3, <1>4, <1>5 DEF IInv

LEMMA VexOpcodeKeeps ==
    ASSUME IInv, VexOpcode
    PROVE  IInv'
<1>1. Typed'
  BY X86Assumption
  DEF IInv, Typed, TypeOK, Labels, Byte, PlaceInv, VexOpcode, Read, Fits, prefixVars,
      opcodeVars, widthVars, tailVars, endVars
<1>2. PlaceInv'
  BY DEF IInv, Typed, TypeOK, PlaceInv, AfterOpcode, VexOpcode, Read, Fits, prefixVars,
         opcodeVars, widthVars, tailVars, endVars
<1>3. RowInv'
  BY DEF IInv, PlaceInv, RowInv, VexOpcode, Read, Fits, prefixVars, opcodeVars, widthVars,
         tailVars, endVars
<1>4. TailInv'
  BY <1>1, EarlyKeepsTail
  DEF IInv, Typed, PlaceInv, VexOpcode, Read, Fits, prefixVars, opcodeVars, widthVars,
      tailVars, endVars
<1>5. RexAdjacent'
  BY DEF IInv, Typed, TypeOK, PlaceInv, RexAdjacent, IsRex, VexOpcode, Read, Fits, prefixVars,
         opcodeVars, widthVars, tailVars, endVars
<1>. QED
  BY <1>1, <1>2, <1>3, <1>4, <1>5 DEF IInv

LEMMA ResolveKeeps ==
    ASSUME IInv, pc = "modrm", NEW modRM, Resolve(ResolvedRow(modRM))
    PROVE  /\ EscapeRow(map, row') /\ TableRow(row')
           /\ opSizePrefix' \in BOOLEAN /\ pp' \in 0 .. 3 /\ rep' \in {0, \hF2, \hF3}
           /\ opSize' \in {16, 32, 64} /\ addrSize' \in {16, 32, 64}
<1>1. EscapeRow(map, row')
  BY ResolvedRows DEF IInv, Typed, PlaceInv, AfterOpcode, Resolve
<1>. DEFINE info == ResolvedRow(modRM)
            taken == IF vex # 0 THEN pp # 0 ELSE info.mandatory # 0
<1>2. /\ pp' = IF taken THEN pp ELSE 0
      /\ opSizePrefix' = (opSizePrefix /\ ~(taken /\ pp = 1))
      /\ rep' = IF taken /\ pp # 1 THEN 0 ELSE rep
  BY DEF Resolve, TakePrefixes
<1>3. opSize' \in {16, 32, 64} /\ addrSize' \in {16, 32, 64}
  BY DEF Resolve, OperandSize, AddressSize
<1>. HIDE DEF info, taken
<1>. QED
  BY <1>1, <1>2, <1>3 DEF EscapeRow, IInv, Typed, TypeOK

LEMMA ReadModRMKeeps ==
    ASSUME IInv, ReadModRM
    PROVE  IInv'
<1>1. PICK modRM \in ModRMs :
          /\ pc = "modrm" /\ Fits(1) /\ length' = length + 1
          /\ Resolve(ResolvedRow(modRM))
          /\ \E base \in {0, 5} : displacement' = DisplacementSize(modRM, base)
          /\ pc' \in {"sib", "disp", Trailing}
          /\ UNCHANGED <<is64Bit, last, rex, addrSizePrefix, vex, map, opcode, operand,
                         immediates, relativeTo, endVars>>
  BY DEF ReadModRM
<1>2. displacement' \in {0, 1, 2, 4}
  BY <1>1, X86Assumption, Displacements
<1>3. pc' \in {"sib", "disp", "3dnow", "imm"} /\ (pc' = "3dnow" => vex = 0 /\ map = 1)
  BY <1>1 DEF Trailing
<1>4. /\ EscapeRow(map, row') /\ TableRow(row')
      /\ opSizePrefix' \in BOOLEAN /\ pp' \in 0 .. 3 /\ rep' \in {0, \hF2, \hF3}
      /\ opSize' \in {16, 32, 64} /\ addrSize' \in {16, 32, 64}
  BY <1>1, ResolveKeeps
<1>5. Typed'
  BY <1>1, <1>2, <1>3, <1>4, TableRowHas DEF IInv, Typed, TypeOK, Labels, Fits, endVars
<1>6. PlaceInv'
  BY <1>1, <1>3 DEF IInv, Typed, TypeOK, PlaceInv, AfterOpcode, endVars
<1>7. RowInv'
  BY <1>1, <1>3, <1>4 DEF RowInv
<1>8. TailInv'
  BY <1>1, <1>4, EarlyKeepsTail DEF IInv, PlaceInv, endVars
<1>9. RexAdjacent'
  BY <1>1 DEF IInv, RexAdjacent, IsRex
<1>. QED
  BY <1>5, <1>6, <1>7, <1>8, <1>9 DEF IInv

LEMMA NoModRMKeeps ==
    ASSUME IInv, NoModRM
    PROVE  IInv'
<1>1. /\ pc = "modrm" /\ Resolve(ResolvedRow(0))
      /\ pc' \in {"3dnow", "imm"} /\ (pc' = "3dnow" => vex = 0 /\ map = 1)
      /\ UNCHANGED <<is64Bit, length, last, rex, addrSizePrefix, vex, map, opcode, tailVars,
                     endVars>>
  BY DEF NoModRM, Trailing
<1>2. /\ EscapeRow(map, row') /\ TableRow(row')
      /\ opSizePrefix' \in BOOLEAN /\ pp' \in 0 .. 3 /\ rep' \in {0, \hF2, \hF3}
      /\ opSize' \in {16, 32, 64} /\ addrSize' \in {16, 32, 64}
  BY <1>1, ResolveKeeps
<1>3. Typed'
  BY <1>1, <1>2, TableRowHas DEF IInv, Typed, TypeOK, Labels, tailVars, endVars
<1>4. PlaceInv'
  BY <1>1 DEF IInv, Typed, TypeOK, PlaceInv, AfterOpcode, endVars
<1>5. RowInv'
  BY <1>1, <1>2 DEF RowInv
<1>6. TailInv'
  BY <1>1, <1>2, EarlyKeepsTail DEF IInv, PlaceInv, tailVars, endVars
<1>7. RexAdjacent'
  BY <1>1 DEF IInv, RexAdjacent, IsRex
<1>. QED
  BY <1>3, <1>4, <1>5, <1>6, <1>7 DEF IInv


LEMMA ReadSibKeeps ==
    ASSUME IInv, ReadSib
    PROVE  IInv'
<1>1. Typed'
  BY DEF IInv, Typed, TypeOK, Labels, PlaceInv, ReadSib, Read, Fits, Trailing, prefixVars,
         opcodeVars, widthVars, tailVars, endVars
<1>2. PlaceInv'
  BY DEF IInv, Typed, TypeOK, PlaceInv, AfterOpcode, ReadSib, Read, Fits, Trailing, prefixVars,
         opcodeVars, widthVars, tailVars, endVars
<1>3. RowInv'
  BY DEF IInv, PlaceInv, RowInv, ReadSib, Read, Fits, Trailing, prefixVars, opcodeVars,
         widthVars, tailVars, endVars
<1>4. TailInv'
  BY <1>1, EarlyKeepsTail
  DEF IInv, Typed, PlaceInv, ReadSib, Read, Fits, Trailing, prefixVars, opcodeVars, widthVars,
      tailVars, endVars
<1>5. RexAdjacent'
  BY DEF IInv, RexAdjacent, IsRex, ReadSib, Read, Fits, Trailing, prefixVars, opcodeVars,
         widthVars, tailVars, endVars
<1>. QED
  BY <1>1, <1>2, <1>3, <1>4, <1>5 DEF IInv

LEMMA ReadDisplacementKeeps ==
    ASSUME IInv, ReadDisplacement
    PROVE  IInv'
<1>1. Typed'
  BY DEF IInv, Typed, TypeOK, Labels, PlaceInv, ReadDisplacement, Read, Fits, Trailing,
         prefixVars, opcodeVars, widthVars, tailVars, endVars
<1>2. PlaceInv'
  BY DEF IInv, Typed, TypeOK, PlaceInv, AfterOpcode, ReadDisplacement, Read, Fits, Trailing,
         prefixVars, opcodeVars, widthVars, tailVars, endVars
<1>3. RowInv'
  BY DEF IInv, PlaceInv, RowInv, ReadDisplacement, Read, Fits, Trailing, prefixVars,
         opcodeVars, widthVars, tailVars, endVars
<1>4. TailInv'
  BY <1>1, EarlyKeepsTail
  DEF IInv, Typed, PlaceInv, ReadDisplacement, Read, Fits, Trailing, prefixVars, opcodeVars,
      widthVars, tailVars, endVars
<1>5. RexAdjacent'
  BY DEF IInv, RexAdjacent, IsRex, ReadDisplacement, Read, Fits, Trailing, prefixVars,
         opcodeVars, widthVars, tailVars, endVars
<1>. QED
  BY <1>1, <1>2, <1>3, <1>4, <1>5 DEF IInv

LEMMA Read3DNowKeeps ==
    ASSUME IInv, Read3DNow
    PROVE  IInv'
<1>1. PICK byte : row' = threeDNowTable(byte)
  BY DEF Read3DNow
<1>2. TableRow(row') /\ row'.eats = <<>> /\ row' \in Rows
  BY <1>1, ThreeDNowRows, TableRowHas
<1>3. /\ pc = "3dnow" /\ length + 1 <= 15 /\ length' = length + 1 /\ pc' = "imm"
      /\ UNCHANGED <<is64Bit, last, prefixVars, opcodeVars, opSize, addrSize, tailVars, endVars>>
  BY DEF Read3DNow, Read, Fits
<1>4. Typed'
  BY <1>2, <1>3
  DEF IInv, Typed, TypeOK, Labels, prefixVars, opcodeVars, tailVars, endVars
<1>5. PlaceInv'
  BY <1>3 DEF IInv, Typed, TypeOK, PlaceInv, AfterOpcode, opcodeVars, endVars
<1>6. RowInv'
  BY <1>2, <1>3 DEF IInv, PlaceInv, RowInv, EscapeRow, opcodeVars
<1>7. TailInv'
  BY <1>2, <1>3, EarlyKeepsTail DEF IInv, PlaceInv, tailVars, endVars
<1>8. RexAdjacent'
  BY <1>3 DEF IInv, RexAdjacent, IsRex, prefixVars, opcodeVars
<1>. QED
  BY <1>4, <1>5, <1>6, <1>7, <1>8 DEF IInv

LEMMA ReadImmediateKeeps ==
    ASSUME IInv, ReadImmediate
    PROVE  IInv'
<1>. DEFINE kind == row.eats[operand + 1]
            width == ImmediateWidth(kind)
<1>1. /\ pc = "imm" /\ operand < Len(row.eats) /\ operand < 2
      /\ length + width <= 15 /\ length' = length + width /\ pc' = "imm"
      /\ immediates' = immediates + width
      /\ relativeTo' = IF IsRelative(kind) THEN length' ELSE relativeTo
      /\ operand' = operand + 1
      /\ UNCHANGED <<is64Bit, last, prefixVars, opcodeVars, widthVars, displacement, endVars>>
  BY DEF ReadImmediate, OperandLeft, Read, Fits
<1>2. /\ row.eats \in Eats /\ Len(row.eats) \in 0 .. 2 /\ operand \in 0 .. 1
      /\ kind \in ImmediateKinds
      /\ Len(row.eats) = 2 => row.eats = <<"Iw", "Ib">>
  BY <1>1, TableRowHas, EatsShape DEF IInv, Typed, TypeOK
<1>3. width \in {1, 2, 4, 6, 8}
  BY <1>2, Widths DEF IInv, Typed
<1>4. operand = 0 => immediates = 0 /\ relativeTo = 0 /\ kind = row.eats[1]
  BY DEF IInv, TailInv
<1>5. operand = 1 => /\ Len(row.eats) = 2 /\ kind = "Ib" /\ width = 1
                     /\ immediates = 2 /\ relativeTo = 0
  <2>. SUFFICES ASSUME operand = 1
                PROVE  /\ Len(row.eats) = 2 /\ kind = "Ib" /\ width = 1
                       /\ immediates = 2 /\ relativeTo = 0
    OBVIOUS
  <2>1. Len(row.eats) = 2 /\ row.eats = <<"Iw", "Ib">>
    BY <1>1, <1>2
  <2>2. row.eats[1] = "Iw" /\ kind = "Ib"
    BY <2>1
  <2>3. immediates = 2 /\ width = 1
    BY <2>2, Widths DEF IInv, Typed, TailInv
  <2>4. relativeTo = 0
    BY <2>1 DEF IInv, TailInv, OperandLeft
  <2>. QED
    BY <2>1, <2>2, <2>3, <2>4
<1>6. \A k : ImmediateWidth(k)' = ImmediateWidth(k)
  BY <1>1 DEF ImmediateWidth, RexW, prefixVars, widthVars
<1>. HIDE DEF width
<1>7. Typed'
  BY <1>1, <1>2, <1>3, <1>4, <1>5
  DEF IInv, Typed, TypeOK, Labels, prefixVars, opcodeVars, widthVars, endVars
<1>8. PlaceInv'
  BY <1>1, <1>3 DEF IInv, Typed, TypeOK, PlaceInv, AfterOpcode, opcodeVars, endVars
<1>9. RowInv'
  BY <1>1 DEF IInv, RowInv, PlaceInv, opcodeVars, widthVars
<1>10. TailInv'
  <2>1. operand' \in 1 .. 2 /\ operand' <= Len(row'.eats)
    BY <1>1, <1>2 DEF widthVars
  <2>2. operand' = 1 => immediates' = ImmediateWidth(row.eats[1])
    BY <1>1, <1>2, <1>3, <1>4 DEF width
  <2>3. operand' = 2 => immediates' = 3
    BY <1>1, <1>2, <1>5
  <2>4. relativeTo' # 0 => relativeTo' = length' /\ Len(row.eats) = operand'
    <3>1. CASE operand = 0
      <4>1. Len(row.eats) = 2 => ~IsRelative(kind)
        BY <1>2, <3>1 DEF IsRelative
      <4>. QED
        BY <1>1, <1>2, <1>4, <3>1, <4>1
    <3>2. CASE operand = 1
      BY <1>1, <1>2, <1>5, <3>2 DEF IsRelative
    <3>. QED
      BY <1>2, <3>1, <3>2
  <2>5. pc' = "imm" /\ result' # "row" /\ row' = row
    BY <1>1 DEF IInv, PlaceInv, endVars, widthVars
  <2>. QED
    BY <1>2, <1>6, <2>1, <2>2, <2>3, <2>4, <2>5 DEF TailInv, OperandLeft
<1>11. RexAdjacent'
  BY <1>1 DEF IInv, RexAdjacent, IsRex, prefixVars, opcodeVars
<1>. QED
  BY <1>7, <1>8, <1>9, <1>10, <1>11 DEF IInv

LEMMA FinishKeeps ==
    ASSUME IInv, Finish
    PROVE  IInv'
<1>1. /\ pc = "imm" /\ ~OperandLeft /\ pc' = "done" /\ result' = "row" /\ isInvalid' = FALSE
      /\ UNCHANGED <<is64Bit, length, last, prefixVars, opcodeVars, widthVars, tailVars>>
  BY DEF Finish, Emit
<1>2. Typed'
  <2>1. isInvalid' \in BOOLEAN
    BY <1>1
  <2>. QED
    BY <1>1, <2>1
    DEF IInv, Typed, TypeOK, Labels, prefixVars, opcodeVars, widthVars, tailVars
<1>3. PlaceInv'
  BY <1>1 DEF IInv, PlaceInv, AfterOpcode, opcodeVars
<1>4. RowInv'
  BY <1>1 DEF IInv, RowInv, opcodeVars, widthVars
<1>5. TailInv'
  BY <1>1 DEF IInv, TailInv, OperandLeft, ImmediateWidth, RexW, prefixVars, widthVars, tailVars
<1>6. RexAdjacent'
  BY <1>1 DEF IInv, RexAdjacent, IsRex, prefixVars, opcodeVars
<1>. QED
  BY <1>2, <1>3, <1>4, <1>5, <1>6 DEF IInv

\* Neither a sixteenth byte nor a failed read is met once the last operand is in.
LEMMA OperandWanted ==
    ASSUME IInv, Wanted > 0 \/ ~Fits(Wanted)
    PROVE  pc # "done" /\ (pc = "imm" => OperandLeft)
<1>1. length \in 0 .. 15
  BY DEF IInv, Typed, TypeOK
<1>2. pc = "done" => Wanted = 0
  BY DEF Wanted
<1>3. pc = "imm" /\ ~OperandLeft => Wanted = 0
  BY DEF Wanted
<1>. QED
  BY <1>1, <1>2, <1>3 DEF Fits

\* A line that ends early is no finished row, and leaves what its operands ate as it was.
LEMMA CutShortKeepsTail ==
    ASSUME IInv, pc # "done", pc = "imm" => OperandLeft,
           UNCHANGED <<prefixVars, widthVars, tailVars>>, pc' = "done",
           result' # "row" \/ isInvalid'
    PROVE  TailInv'
<1>1. relativeTo = 0
  BY DEF IInv, TailInv
<1>2. relativeTo' = 0
  BY <1>1 DEF tailVars
<1>3. /\ operand' = 0 => immediates' = 0
      /\ operand' <= Len(row'.eats)
      /\ operand' = 2 => immediates' = 3
  BY DEF IInv, TailInv, tailVars, widthVars
<1>4. operand' = 1 => immediates' = ImmediateWidth(row.eats[1])'
  BY DEF IInv, TailInv, ImmediateWidth, RexW, tailVars, widthVars, prefixVars
<1>. QED
  BY <1>2, <1>3, <1>4 DEF TailInv

LEMMA TooLongKeeps ==
    ASSUME IInv, TooLong
    PROVE  IInv'
<1>1. /\ pc # "peek" /\ ~Fits(Wanted) /\ length' = 15
      /\ pc' = "done" /\ result' = "row" /\ isInvalid' = TRUE
      /\ UNCHANGED <<is64Bit, last, prefixVars, opcodeVars, widthVars, tailVars>>
  BY DEF TooLong, Emit
<1>2. Typed'
  BY <1>1 DEF IInv, Typed, TypeOK, Labels, prefixVars, opcodeVars, widthVars, tailVars
<1>3. PlaceInv'
  BY <1>1 DEF IInv, PlaceInv, AfterOpcode, opcodeVars
<1>4. RowInv'
  BY <1>1 DEF RowInv
<1>5. TailInv'
  BY <1>1, OperandWanted, CutShortKeepsTail
<1>6. RexAdjacent'
  BY <1>1 DEF IInv, RexAdjacent, IsRex, prefixVars, opcodeVars
<1>. QED
  BY <1>2, <1>3, <1>4, <1>5, <1>6 DEF IInv

LEMMA ReadFailsKeeps ==
    ASSUME IInv, ReadFails
    PROVE  IInv'
<1>1. /\ Wanted > 0 /\ pc' = "done" /\ result' \in {"short", "changed"}
      /\ UNCHANGED <<is64Bit, length, last, prefixVars, opcodeVars, widthVars, tailVars,
                     isInvalid>>
  BY DEF ReadFails
<1>2. Typed'
  BY <1>1 DEF IInv, Typed, TypeOK, Labels, prefixVars, opcodeVars, widthVars, tailVars
<1>3. PlaceInv'
  BY <1>1 DEF IInv, PlaceInv, AfterOpcode, opcodeVars
<1>4. RowInv'
  BY <1>1 DEF RowInv
<1>5. TailInv'
  BY <1>1, OperandWanted, CutShortKeepsTail
<1>6. RexAdjacent'
  BY <1>1 DEF IInv, RexAdjacent, IsRex, prefixVars, opcodeVars
<1>. QED
  BY <1>2, <1>3, <1>4, <1>5, <1>6 DEF IInv

(***************************************************************************)
(* The theorems.                                                           *)
(***************************************************************************)
LEMMA NextKeeps ==
    ASSUME IInv, [Next]_vars
    PROVE  IInv'
<1>1. CASE UNCHANGED vars
  <2>1. UNCHANGED <<is64Bit, pc, length, last, prefixVars, opcodeVars, widthVars, tailVars, endVars>>
    BY <1>1 DEF vars
  <2>2. Typed'
    BY <2>1
    DEF IInv, Typed, TypeOK, prefixVars, opcodeVars, widthVars, tailVars, endVars
  <2>3. PlaceInv' /\ RowInv' /\ RexAdjacent'
    BY <2>1
    DEF IInv, PlaceInv, RowInv, RexAdjacent, IsRex, prefixVars, opcodeVars, widthVars, endVars
  <2>4. TailInv'
    BY <2>1
    DEF IInv, TailInv, OperandLeft, ImmediateWidth, RexW, prefixVars, widthVars, tailVars,
        endVars
  <2>. QED
    BY <2>2, <2>3, <2>4 DEF IInv
<1>2. CASE ReadPrefix
  BY <1>2, ReadPrefixKeeps
<1>3. CASE OneByteOpcode
  BY <1>3, OneByteOpcodeKeeps
<1>4. CASE GoneOpcode
  BY <1>4, GoneOpcodeKeeps
<1>5. CASE OpenEscape
  BY <1>5, OpenEscapeKeeps
<1>6. CASE EscapedOpcode
  BY <1>6, EscapedOpcodeKeeps
<1>7. CASE OpenVex
  BY <1>7, OpenVexKeeps
<1>8. CASE PeekModRM
  BY <1>8, PeekModRMKeeps
<1>9. CASE VexMapByte
  BY <1>9, VexMapByteKeeps
<1>10. CASE VexPpByte
  BY <1>10, VexPpByteKeeps
<1>11. CASE VexOpcode
  BY <1>11, VexOpcodeKeeps
<1>12. CASE ReadModRM
  BY <1>12, ReadModRMKeeps
<1>13. CASE NoModRM
  BY <1>13, NoModRMKeeps
<1>14. CASE ReadSib
  BY <1>14, ReadSibKeeps
<1>15. CASE ReadDisplacement
  BY <1>15, ReadDisplacementKeeps
<1>16. CASE Read3DNow
  BY <1>16, Read3DNowKeeps
<1>17. CASE ReadImmediate
  BY <1>17, ReadImmediateKeeps
<1>18. CASE Finish
  BY <1>18, FinishKeeps
<1>19. CASE TooLong
  BY <1>19, TooLongKeeps
<1>20. CASE ReadFails
  BY <1>20, ReadFailsKeeps
<1>. QED
  BY <1>1, <1>2, <1>3, <1>4, <1>5, <1>6, <1>7, <1>8, <1>9, <1>10, <1>11, <1>12, <1>13, <1>14,
     <1>15, <1>16, <1>17, <1>18, <1>19, <1>20 DEF Next

LEMMA InitHolds ==
    ASSUME Init
    PROVE  IInv
<1>1. row = NoRow /\ TableRow(row) /\ row \in Rows /\ row.eats = <<>>
  BY NoRowIsTableRow, TableRowHas DEF Init
<1>2. Typed
  <2>1. /\ is64Bit \in BOOLEAN /\ opSizePrefix \in BOOLEAN /\ addrSizePrefix \in BOOLEAN
        /\ isInvalid \in BOOLEAN
    BY DEF Init
  <2>. QED
    BY <1>1, <2>1 DEF Typed, TypeOK, Labels, Byte, Init
<1>3. PlaceInv /\ RowInv /\ RexAdjacent
  BY DEF PlaceInv, RowInv, RexAdjacent, IsRex, AfterOpcode, Init
<1>4. TailInv
  BY <1>1 DEF TailInv, Init
<1>. QED
  BY <1>2, <1>3, <1>4 DEF IInv

\* What holds after every byte decodeLine() takes: its fields have their types, what is known
\* where it stands, the row its map allows, and what the operands have eaten so far.
THEOREM DecoderInvariant == Spec => []IInv
<1>1. Init => IInv
  BY InitHolds
<1>2. IInv /\ [Next]_vars => IInv'
  BY NextKeeps
<1>. QED
  BY <1>1, <1>2, PTL DEF Spec

\* Whatever bytes the file holds and in whatever order, every field of decodeLine() keeps its
\* type: at most 15 bytes are taken, and what the operands eat is at most eight.
THEOREM DecoderTypeCorrect == Spec => []TypeOK
<1>1. IInv => TypeOK
  BY DEF IInv, Typed
<1>. QED
  BY <1>1, DecoderInvariant, PTL

\* A legacy prefix after a REX cancels it, and the last of several wins, for every sequence of
\* prefixes (x86_64_decoder.cpp:55-63).
THEOREM RexIsAdjacent == Spec => []RexAdjacent
<1>1. IInv => RexAdjacent
  BY DEF IInv
<1>. QED
  BY <1>1, DecoderInvariant, PTL

\* Named or not, with any prefix and any opcode, a 0F 38 line takes no immediate and a 0F 3A
\* line one byte (x86_64_tables.cpp:1368-1372, 1448): an unknown instruction of those maps
\* never costs the sweep its place.
THEOREM EscapesKeepTheirLength == Spec => []EscapeShape
<1>1. IInv => EscapeShape
  <2>. SUFFICES ASSUME IInv, result = "row", ~isInvalid
                PROVE  /\ map = 2 => immediates = 0
                       /\ map = 3 => immediates = 1
    BY DEF EscapeShape
  <2>1. EscapeRow(map, row) /\ ~OperandLeft /\ operand \in 0 .. 2 /\ operand <= Len(row.eats)
    BY DEF IInv, RowInv, TailInv, Typed, TypeOK
  <2>2. ASSUME map = 2
        PROVE  immediates = 0
    <3>1. Len(row.eats) = 0
      BY <2>1, <2>2 DEF EscapeRow
    <3>. QED
      BY <2>1, <3>1 DEF IInv, TailInv
  <2>3. ASSUME map = 3
        PROVE  immediates = 1
    <3>1. row.eats \in {<<"Ib">>, <<"Lb">>}
      BY <2>1, <2>3 DEF EscapeRow
    <3>2. Len(row.eats) = 1 /\ row.eats[1] \in {"Ib", "Lb"}
      BY <3>1
    <3>3. operand = 1
      BY <2>1, <3>2 DEF OperandLeft
    <3>. QED
      BY <3>2, <3>3, Widths DEF IInv, Typed, TailInv
  <2>. QED
    BY <2>2, <2>3
<1>. QED
  BY <1>1, DecoderInvariant, PTL

\* No operand of any row is read after a relative one, so a target is always counted from the
\* end of the instruction (x86_64_decoder.cpp:184-188).
THEOREM TargetsCountFromTheEnd == Spec => []RelativeToEnd
<1>1. IInv => RelativeToEnd
  BY DEF IInv, TailInv, RelativeToEnd
<1>. QED
  BY <1>1, DecoderInvariant, PTL

\* decodeLine() implements LineContract: every step of it leaves the line undecided, ends it as
\* a row of 1 to 15 bytes, or ends it without one; this is what DecodeSweep assumes of its
\* decoder (decoder.hpp:17-30, x86_64_decoder.cpp:12-14, 82).
THEOREM DecoderKeepsItsContract == Spec => KeepsLine
<1>1. Init => Contract!Init
  BY DEF Init, Contract!Init
<1>2. IInv /\ IInv' /\ [Next]_vars => [Contract!Next]_(Contract!vars)
  <2>. SUFFICES ASSUME IInv, IInv', [Next]_vars
                PROVE  [Contract!Next]_(Contract!vars)
    OBVIOUS
  <2>1. CASE UNCHANGED vars
    BY <2>1 DEF vars, endVars, Contract!vars
  <2>2. CASE Next
    <3>1. pc # "done"
      <4>1. TooLong \/ ReadFails => pc # "done"
        BY OperandWanted DEF TooLong, ReadFails
      <4>. QED
        BY <2>2, <4>1
        DEF Next, ReadPrefix, OneByteOpcode, GoneOpcode, OpenEscape, EscapedOpcode, OpenVex,
            PeekModRM, VexMapByte, VexPpByte, VexOpcode, ReadModRM, NoModRM, ReadSib,
            ReadDisplacement, Read3DNow, ReadImmediate, Finish, FirstByte
    <3>2. result = "none"
      BY <3>1 DEF IInv, PlaceInv
    <3>3. result' \in {"none", "row", "short", "changed"}
          /\ (result' = "row" => length' \in 1 .. 15)
      BY DEF IInv, Typed, TypeOK, PlaceInv
    <3>4. CASE result' = "none"
      BY <3>2, <3>4 DEF Contract!vars
    <3>5. CASE result' = "row"
      BY <3>2, <3>3, <3>5
      DEF Contract!Next, Contract!AppendRow, Contract!LongestLine
    <3>6. CASE result' \in {"short", "changed"}
      BY <3>2, <3>6 DEF Contract!Next, Contract!NoRow
    <3>. QED
      BY <3>3, <3>4, <3>5, <3>6
  <2>. QED
    BY <2>1, <2>2
<1>. QED
  BY <1>1, <1>2, DecoderInvariant, PTL DEF Spec, KeepsLine, Contract!Spec
=============================================================================
