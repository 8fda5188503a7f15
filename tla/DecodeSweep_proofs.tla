------------------------- MODULE DecodeSweep_proofs -------------------------
(***************************************************************************)
(* The sweep's type correctness, what a reader may rely on while it runs,  *)
(* that its block tables never move under a reader, and that the rows tile *)
(* the sections, for every section table, block, word and file size.       *)
(***************************************************************************)
EXTENDS DecodeSweep, ChunkStore_proofs

Word == 0 .. WordSize - 1

\* Both stores are well formed: every index below their size is written.
StoresHold == Holds(instrs, Rows) /\ Holds(addrs, Word)

\* How the three counts relate, statement by statement.
CountsAgree ==
    /\ seen <= ready
    /\ reading # None => reading < seen
    /\ pc \in {"clear", "sum"} => ready = 0
    /\ pc \notin {"address", "publish"} => addrs.size = ready /\ instrs.size = ready
    /\ pc = "address" => addrs.size = ready /\ instrs.size \in {ready, ready + 1}
    /\ pc = "publish" => addrs.size = instrs.size /\ instrs.size \in {ready, ready + 1}

InLoop  == {"line", "decode", "address", "publish", "emit"}
InSweep == InLoop \cup {"section"}

\* The sums are complete once the sweep starts, and inside a section's loop the
\* offset is one of that section's.
SectionOpen ==
    /\ pc # "clear" => Len(sums) \in 1 .. Len(text) + 1
    /\ pc \in InSweep => Len(sums) = Len(text) + 1
    /\ pc \in InLoop => section <= Len(text) /\ text[section].offset <= offset
    /\ pc \in {"decode", "address", "publish"} => offset < SectionEnd(section)
    /\ pc = "emit" => offset < next

\* Unless a sum wrapped, the rows stored so far are paid for by the bytes swept
\* so far, and those by the size the tables were reserved for.
WithinBudget ==
    /\ pc \in InSweep => /\ instrs.capacity >= BlocksFor(TotalTextSize)
                         /\ addrs.capacity >= BlocksFor(TotalTextSize)
    /\ ~Wrapped => \A k \in 1 .. Len(sums) : sums[k] <= sums[Len(sums)]
    /\ ~Wrapped /\ pc = "section" => instrs.size <= sums[section]
    /\ ~Wrapped /\ pc \in InLoop => instrs.size <= sums[section] + text[section].size
    /\ ~Wrapped /\ pc \in {"line", "decode"} =>
         instrs.size <= sums[section] + (offset - text[section].offset)
    /\ ~Wrapped /\ pc \in {"address", "publish", "emit"} /\ next > offset =>
         instrs.size <= sums[section] + (next - text[section].offset)

\* The inductive invariant.
IInv == TypeOK /\ StoresHold /\ CountsAgree /\ SectionOpen /\ WithinBudget

-----------------------------------------------------------------------------

LEMMA ConstantFacts ==
    /\ WordSize \in Nat \ {0} /\ FileSize \in Nat /\ FileSize < WordSize
    /\ MaxLength \in Nat \ {0} /\ None \notin Int
  BY SweepAssumption

LEMMA StoreFacts ==
    ASSUME StoresHold
    PROVE  /\ instrs \in StoreOf(Rows) /\ instrs.size \in Nat /\ instrs.capacity \in Nat
           /\ addrs \in StoreOf(Word) /\ addrs.size \in Nat /\ addrs.capacity \in Nat
  BY DEF StoresHold, Holds, StoreOf

\* The section table and the sums, as numbers.
LEMMA TableFacts ==
    ASSUME TypeOK
    PROVE  /\ Len(text) \in Nat /\ Len(sums) \in Nat
           /\ \A k \in 1 .. Len(text) : /\ text[k].offset \in Word
                                        /\ text[k].size \in Word
                                        /\ text[k].vaddr \in Word
           /\ \A k \in 1 .. Len(sums) : sums[k] \in Word
           /\ \A k \in 1 .. Len(text) : SectionEnd(k) \in Word
<1>1. text \in Seq(Sections) /\ sums \in Seq(Word)
  BY SweepAssumption DEF TypeOK, Word
<1>2. \A k \in 1 .. Len(text) : text[k] \in Sections
  BY <1>1
<1>3. \A k \in 1 .. Len(text) : /\ text[k].offset \in Word
                                 /\ text[k].size \in Word
                                 /\ text[k].vaddr \in Word
  BY <1>2 DEF Sections, Word
<1>4. ASSUME NEW m \in Word, NEW n \in Word
      PROVE  (m + n) % WordSize \in Word
  BY ConstantFacts DEF Word
<1>5. \A k \in 1 .. Len(text) : SectionEnd(k) \in Word
  BY <1>3, <1>4 DEF SectionEnd
<1>6. \A k \in 1 .. Len(sums) : sums[k] \in Word
  BY <1>1
<1>7. QED
  BY <1>1, <1>3, <1>5, <1>6

\* What depends on the table and the sums alone.
LEMMA SameSums ==
    ASSUME UNCHANGED <<text, sums>>
    PROVE  /\ Wrapped' <=> Wrapped
           /\ TotalTextSize' = TotalTextSize
           /\ \A k : SectionEnd(k)' = SectionEnd(k)
  BY DEF Wrapped, TotalTextSize, SectionEnd

LEMMA InitIInv == Init => IInv
<1> SUFFICES ASSUME Init PROVE IInv
  OBVIOUS
<1>1. StoresHold
  BY EmptyHolds DEF Init, StoresHold
<1>2. TypeOK
  <2>1. text \in Seq(Sections)
    BY SweepAssumption DEF Init
  <2>2. section \in 1 .. Len(text) + 1
    BY <2>1 DEF Init
  <2>3. 0 \in Word /\ instrs \in StoreOf(Rows) /\ addrs \in StoreOf(Word)
    BY <1>1, StoreFacts, ConstantFacts DEF Word
  <2>4. sums \in Seq(Word)
    BY DEF Init
  <2>5. QED
    BY <2>2, <2>3, <2>4 DEF Init, TypeOK, Labels, Word
<1>3. CountsAgree
  BY DEF Init, CountsAgree, EmptyStore
<1>4. SectionOpen
  BY DEF Init, SectionOpen, InSweep, InLoop
<1>5. WithinBudget
  BY DEF Init, WithinBudget, InSweep, InLoop
<1>6. QED
  BY <1>1, <1>2, <1>3, <1>4, <1>5 DEF IInv

\* An end that wraps is below the start, and the section's loop never runs.
LEMMA EndWraps ==
    ASSUME NEW start \in Word, NEW length \in Word, NEW at \in Word,
           start <= at, at < (start + length) % WordSize
    PROVE  at - start < length
<1>1. CASE start + length < WordSize
  <2>1. (start + length) % WordSize = start + length
    BY <1>1, ConstantFacts DEF Word
  <2>2. QED
    BY <2>1 DEF Word
<1>2. CASE start + length >= WordSize
  <2>1. (start + length) % WordSize = start + length - WordSize
    BY <1>2, ConstantFacts DEF Word
  <2>2. QED
    BY <2>1, ConstantFacts DEF Word
<1>3. QED
  BY <1>1, <1>2, ConstantFacts DEF Word

\* While a section is open and no sum has wrapped, the rows stored are fewer
\* than the size the tables were reserved for whenever one is to be added.
LEMMA RoomForRow ==
    ASSUME IInv, ~Wrapped, pc \in {"decode", "address"}
    PROVE  /\ TotalTextSize \in Nat
           /\ pc = "decode" => instrs.size < TotalTextSize
           /\ pc = "address" => instrs.size <= TotalTextSize
<1>1. /\ section \in 1 .. Len(text) /\ Len(sums) = Len(text) + 1
      /\ text[section].offset <= offset /\ offset < SectionEnd(section)
  BY DEF IInv, SectionOpen, TypeOK, InSweep, InLoop
<1>2. /\ sums[section] \in Nat /\ sums[section + 1] \in Nat
      /\ text[section].size \in Word /\ text[section].offset \in Word
      /\ sums[Len(sums)] \in Nat
  BY <1>1, TableFacts DEF Word, IInv
<1>3. sums[section + 1] = sums[section] + text[section].size
  BY <1>1 DEF Wrapped
<1>4. sums[section + 1] <= TotalTextSize
  BY <1>1, TableFacts DEF IInv, WithinBudget, TotalTextSize
<1>5. offset - text[section].offset < text[section].size
  BY <1>1, <1>2, EndWraps DEF SectionEnd, TypeOK, Word, IInv
<1>6. instrs.size \in Nat /\ offset \in Nat
  BY StoreFacts DEF TypeOK, IInv
<1>i. TotalTextSize \in Nat /\ sums[section + 1] \in Nat
  BY <1>2 DEF TotalTextSize
<1>7. CASE pc = "decode"
  <2>1. instrs.size <= sums[section] + (offset - text[section].offset)
    BY <1>7 DEF IInv, WithinBudget
  <2>2. instrs.size < sums[section] + text[section].size
    <3>1. /\ instrs.size \in Int /\ sums[section] \in Int /\ offset \in Int
          /\ text[section].offset \in Int /\ text[section].size \in Int
      BY <1>2, <1>6 DEF Word
    <3>2. QED
      BY <1>5, <2>1, <3>1
  <2>3. QED
    BY <1>3, <1>4, <1>6, <1>7, <1>i, <2>2
<1>8. CASE pc = "address"
  <2>1. instrs.size <= sums[section] + text[section].size
    BY <1>8 DEF IInv, WithinBudget, InLoop
  <2>2. QED
    BY <1>3, <1>4, <1>6, <1>8, <1>i, <2>1
<1>9. QED
  BY <1>7, <1>8
-----------------------------------------------------------------------------
(* The invariant is kept: one lemma per conjunct that needs more than the  *)
(* action's own assignments, then one step per action.                     *)

\* Appending to either store keeps both well formed.
LEMMA StoresStep == IInv /\ [Next]_vars => StoresHold'
<1> SUFFICES ASSUME IInv, [Next]_vars PROVE StoresHold'
  OBVIOUS
<1>0. StoresHold /\ TypeOK
  BY DEF IInv
<1>1. ASSUME instrs' = instrs, addrs' = addrs
      PROVE  StoresHold'
  BY <1>0, <1>1 DEF StoresHold
<1>2. CASE ClearStores
  BY <1>0, <1>2, ClearHolds DEF ClearStores, StoresHold
<1>3. CASE Reserve
  <2>1. TotalTextSize \in Nat
    BY <1>0, <1>3, TableFacts DEF Reserve, TotalTextSize, Word
  <2>2. QED
    BY <1>0, <1>3, <2>1, ReserveHolds DEF Reserve, StoresHold
<1>4. CASE DecodeRow
  <2>1. PICK length \in 1 .. MaxLength :
          /\ offset + length <= FileSize
          /\ instrs' = PushBack(instrs, [offset |-> offset, length |-> length])
    BY <1>4 DEF DecodeRow
  <2>2. [offset |-> offset, length |-> length] \in Rows
    BY <1>0, <2>1, ConstantFacts DEF Rows, TypeOK
  <2>3. addrs' = addrs
    BY <1>4 DEF DecodeRow
  <2>4. Holds(instrs', Rows)
    BY <1>0, <2>1, <2>2, PushBackAppends DEF StoresHold
  <2>5. QED
    BY <1>0, <2>3, <2>4 DEF StoresHold
<1>5. CASE PushAddress
  <2>1. vaddr \in Word
    BY <1>0 DEF TypeOK, Word
  <2>2. QED
    BY <1>0, <1>5, <2>1, PushBackAppends DEF PushAddress, StoresHold
<1>6. CASE SumSize \/ StartSection \/ SweepOver \/ CheckLine \/ DecodeTruncated
           \/ DecodeThrows \/ Publish \/ EmitAndAdvance
  BY <1>1, <1>6 DEF SumSize, StartSection, SweepOver, CheckLine, DecodeTruncated,
     DecodeThrows, Publish, EmitAndAdvance
<1>7. CASE RequestStop \/ Reader \/ Finished \/ UNCHANGED vars
  BY <1>1, <1>7 DEF RequestStop, Reader, AcquireReady, BeginRead, EndRead, Finished,
     vars, workerVars
<1>8. QED
  BY <1>2, <1>3, <1>4, <1>5, <1>6, <1>7 DEF Next, Worker

\* Appending never lowers a table's capacity.
LEMMA CapacityGrows ==
    ASSUME NEW store, NEW value, store.capacity \in Nat
    PROVE  /\ PushBack(store, value).capacity \in Nat
           /\ PushBack(store, value).capacity >= store.capacity
  BY DEF PushBack, Grown

\* What each append does to the sizes.
LEMMA SizesStep ==
    ASSUME IInv
    PROVE  /\ DecodeRow => instrs'.size = instrs.size + 1 /\ addrs' = addrs
           /\ PushAddress =>
                /\ instrs' = instrs
                /\ addrs'.size = IF addrs.size < instrs.size THEN addrs.size + 1
                                                             ELSE addrs.size
           /\ ClearStores => instrs'.size = 0 /\ addrs'.size = 0
           /\ Reserve => instrs'.size = instrs.size /\ addrs'.size = addrs.size
<1>1. ASSUME NEW store, NEW value
      PROVE  /\ PushBack(store, value).size = store.size + 1
             /\ Clear(store).size = 0
  BY DEF PushBack, Clear
<1>2. DecodeRow => instrs'.size = instrs.size + 1 /\ addrs' = addrs
  BY <1>1 DEF DecodeRow
<1>3. PushAddress => /\ instrs' = instrs
                     /\ addrs'.size = IF addrs.size < instrs.size
                                        THEN addrs.size + 1 ELSE addrs.size
  BY <1>1 DEF PushAddress
<1>4. ClearStores => instrs'.size = 0 /\ addrs'.size = 0
  BY <1>1 DEF ClearStores
<1>5. Reserve => instrs'.size = instrs.size /\ addrs'.size = addrs.size
  <2>1. StoresHold /\ (Reserve => TotalTextSize \in Nat)
    BY TableFacts DEF IInv, Reserve, TotalTextSize, Word
  <2>2. QED
    BY <2>1, ReserveHolds DEF Reserve, StoresHold
<1>6. QED
  BY <1>2, <1>3, <1>4, <1>5

LEMMA CountsStep == IInv /\ [Next]_vars => CountsAgree'
<1> SUFFICES ASSUME IInv, [Next]_vars PROVE CountsAgree'
  OBVIOUS
<1>0. /\ CountsAgree /\ TypeOK /\ StoresHold
      /\ instrs.size \in Nat /\ addrs.size \in Nat
      /\ ready \in Nat /\ seen \in Nat /\ None \notin Int
      /\ reading \in Nat \cup {None}
  BY StoreFacts, ConstantFacts DEF IInv, TypeOK
<1>1. CASE ClearStores
  BY <1>0, <1>1, SizesStep DEF ClearStores, Goto, readerVars, CountsAgree
<1>2. CASE SumSize
  BY <1>0, <1>2 DEF SumSize, Goto, readerVars, CountsAgree
<1>3. CASE Reserve
  BY <1>0, <1>3, SizesStep DEF Reserve, Ends, Goto, readerVars, CountsAgree
<1>4. CASE StartSection \/ SweepOver \/ CheckLine
  BY <1>0, <1>4 DEF StartSection, SweepOver, CheckLine, Ends, Goto, readerVars, CountsAgree
<1>5. CASE DecodeRow
  BY <1>0, <1>5, SizesStep DEF DecodeRow, Goto, readerVars, CountsAgree
<1>6. CASE DecodeTruncated \/ DecodeThrows
  BY <1>0, <1>6 DEF DecodeTruncated, DecodeThrows, Ends, Goto, readerVars, CountsAgree
<1>7. CASE PushAddress
  BY <1>0, <1>7, SizesStep DEF PushAddress, Goto, readerVars, CountsAgree
<1>8. CASE Publish
  BY <1>0, <1>8 DEF Publish, Goto, readerVars, CountsAgree
<1>9. CASE EmitAndAdvance
  BY <1>0, <1>9 DEF EmitAndAdvance, Goto, readerVars, CountsAgree
<1>10. CASE RequestStop \/ AcquireReady \/ EndRead \/ Finished \/ UNCHANGED vars
  BY <1>0, <1>10 DEF RequestStop, AcquireReady, EndRead, Finished, vars, workerVars,
     readerVars, CountsAgree
<1>11. CASE BeginRead
  BY <1>0, <1>11 DEF BeginRead, workerVars, CountsAgree
<1>12. QED
  BY <1>1, <1>2, <1>3, <1>4, <1>5, <1>6, <1>7, <1>8, <1>9, <1>10, <1>11
     DEF Next, Worker, Reader
LEMMA TypeStep == IInv /\ [Next]_vars => TypeOK'
<1> SUFFICES ASSUME IInv, [Next]_vars PROVE TypeOK'
  OBVIOUS
<1>0. /\ TypeOK /\ CountsAgree /\ SectionOpen
      /\ instrs.size \in Nat
  BY StoreFacts DEF IInv
<1>1. instrs' \in StoreOf(Rows) /\ addrs' \in StoreOf(Word) /\ instrs'.size \in Nat
  BY StoresStep DEF StoresHold, Holds, StoreOf
<1>2. text' = text /\ decoder' = decoder
  BY DEF Next, Worker, Reader, ClearStores, SumSize, Reserve, StartSection, SweepOver,
     CheckLine, DecodeRow, DecodeTruncated, DecodeThrows, PushAddress, Publish,
     EmitAndAdvance, Ends, Goto, RequestStop, AcquireReady, BeginRead, EndRead, Finished, vars
<1>w. Worker \/ Finished \/ UNCHANGED vars => UNCHANGED <<stopVars, readerVars>>
  BY DEF Worker, ClearStores, SumSize, Reserve, StartSection, SweepOver, CheckLine, DecodeRow,
     DecodeTruncated, DecodeThrows, PushAddress, Publish, EmitAndAdvance, Ends, Goto, Finished,
     vars
<1>3. stop' \in BOOLEAN /\ stoppedAt' \in Nat \cup {None}
  <2>1. CASE RequestStop
    BY <1>0, <2>1 DEF RequestStop
  <2>2. CASE ~RequestStop
    <3>1. UNCHANGED stopVars
      BY <1>w, <2>2 DEF Next, Reader, AcquireReady, BeginRead, EndRead
    <3>2. QED
      BY <1>0, <3>1 DEF TypeOK, stopVars
  <2>3. QED
    BY <2>1, <2>2
<1>4. seen' \in Nat /\ reading' \in Nat \cup {None}
  <2>0. seen \in Nat /\ ready \in Nat /\ reading \in Nat \cup {None}
    BY <1>0 DEF TypeOK
  <2>1. CASE AcquireReady \/ EndRead
    BY <2>0, <2>1 DEF AcquireReady, EndRead
  <2>2. CASE BeginRead
    BY <2>0, <2>2 DEF BeginRead
  <2>3. CASE ~Reader
    <3>1. UNCHANGED readerVars
      BY <1>w, <2>3 DEF Next, RequestStop
    <3>2. QED
      BY <2>0, <3>1 DEF readerVars
  <2>4. QED
    BY <2>1, <2>2, <2>3 DEF Reader
<1>5. sums' \in Seq(Word)
  <2>1. sums \in Seq(Word)
    BY <1>0 DEF TypeOK, Word
  <2>2. CASE SumSize
    <3>1. Len(sums) \in 1 .. Len(text)
      BY <1>0, <2>2, TableFacts DEF SumSize, SectionOpen
    <3>2. sums[Len(sums)] \in Word /\ text[Len(sums)].size \in Word
      BY <1>0, <3>1, TableFacts
    <3>3. (sums[Len(sums)] + text[Len(sums)].size) % WordSize \in Word
      BY <3>2, ConstantFacts DEF Word
    <3>4. QED
      BY <2>1, <2>2, <3>3 DEF SumSize
  <2>3. CASE ClearStores
    BY <2>3, ConstantFacts DEF ClearStores, Word
  <2>4. CASE ~SumSize /\ ~ClearStores
    BY <2>1, <2>4 DEF Next, Worker, Reader, Reserve, StartSection, SweepOver, CheckLine,
       DecodeRow, DecodeTruncated, DecodeThrows, PushAddress, Publish, EmitAndAdvance,
       RequestStop, AcquireReady, BeginRead, EndRead, Finished, workerVars, vars
  <2>5. QED
    BY <2>2, <2>3, <2>4
<1>6. section' \in 1 .. Len(text) + 1
  BY <1>0, TableFacts DEF TypeOK, SectionOpen, InSweep, InLoop, Next, Worker, Reader,
     ClearStores, SumSize, Reserve, StartSection, SweepOver, CheckLine, DecodeRow,
     DecodeTruncated, DecodeThrows, PushAddress, Publish, EmitAndAdvance, RequestStop,
     AcquireReady, BeginRead, EndRead, Finished, workerVars, vars
<1>7. offset' \in Word /\ next' \in Word /\ vaddr' \in Word
  <2>0. offset \in Word /\ next \in Word /\ vaddr \in Word
    BY <1>0 DEF TypeOK, Word
  <2>1. CASE StartSection
    <3>1. text[section].offset \in Word /\ text[section].vaddr \in Word
      BY <1>0, <2>1, TableFacts DEF StartSection, TypeOK
    <3>2. QED
      BY <2>0, <2>1, <3>1 DEF StartSection
  <2>2. CASE DecodeRow
    <3>1. PICK length \in 1 .. MaxLength :
            offset + length <= FileSize /\ next' = offset + length
      BY <2>2 DEF DecodeRow
    <3>2. next' \in Word
      BY <2>0, <3>1, ConstantFacts DEF Word
    <3>3. QED
      BY <2>0, <2>2, <3>2 DEF DecodeRow
  <2>3. CASE EmitAndAdvance
    <3>1. (vaddr + (next - offset)) % WordSize \in Word
      BY <2>0, ConstantFacts DEF Word
    <3>2. QED
      BY <2>0, <2>3, <3>1 DEF EmitAndAdvance
  <2>4. CASE ~StartSection /\ ~DecodeRow /\ ~EmitAndAdvance
    BY <2>0, <2>4 DEF Next, Worker, Reader, ClearStores, SumSize, Reserve, SweepOver,
       CheckLine, DecodeTruncated, DecodeThrows, PushAddress, Publish, RequestStop,
       AcquireReady, BeginRead, EndRead, Finished, workerVars, vars
  <2>5. QED
    BY <2>1, <2>2, <2>3, <2>4
<1>8. ready' \in Nat /\ emitted' \in Nat
  BY <1>0 DEF TypeOK, Next, Worker, Reader, ClearStores, SumSize, Reserve, StartSection,
     SweepOver, CheckLine, DecodeRow, DecodeTruncated, DecodeThrows, PushAddress, Publish,
     EmitAndAdvance, RequestStop, AcquireReady, BeginRead, EndRead, Finished, workerVars, vars
<1>9. pc' \in Labels /\ outcome' \in Outcomes \cup {"none"}
  BY <1>0 DEF TypeOK, Labels, Outcomes, Next, Worker, Reader, ClearStores, SumSize, Reserve,
     StartSection, SweepOver, CheckLine, DecodeRow, DecodeTruncated, DecodeThrows,
     PushAddress, Publish, EmitAndAdvance, Ends, Goto, RequestStop, AcquireReady, BeginRead,
     EndRead, Finished, workerVars, vars
<1>10. QED
  BY <1>0, <1>1, <1>2, <1>3, <1>4, <1>5, <1>6, <1>7, <1>8, <1>9 DEF TypeOK, Word
LEMMA SectionStep == IInv /\ [Next]_vars => SectionOpen'
<1> SUFFICES ASSUME IInv, [Next]_vars PROVE SectionOpen'
  OBVIOUS
<1>0. /\ TypeOK /\ SectionOpen
      /\ Len(text) \in Nat /\ Len(sums) \in Nat
      /\ offset \in Nat /\ next \in Nat /\ section \in 1 .. Len(text) + 1
      /\ \A k \in 1 .. Len(text) : text[k].offset \in Nat /\ SectionEnd(k) \in Nat
  BY TableFacts DEF IInv, TypeOK, Word
<1> USE DEF SectionOpen, InSweep, InLoop
<1>1. CASE ClearStores
  BY <1>0, <1>1 DEF ClearStores, Goto
<1>2. CASE SumSize
  <2>1. Len(sums') = Len(sums) + 1 /\ pc' = "sum" /\ text' = text /\ pc = "sum"
    BY <1>0, <1>2 DEF SumSize, Goto, TypeOK
  <2>2. QED
    BY <1>0, <1>2, <2>1 DEF SumSize
<1>3. CASE Reserve
  BY <1>0, <1>3 DEF Reserve, Ends, Goto
<1>4. CASE StartSection
  BY <1>0, <1>4 DEF StartSection, Goto
<1>5. CASE SweepOver
  BY <1>0, <1>5 DEF SweepOver, Ends, Goto
<1>6. CASE CheckLine
  BY <1>0, <1>6 DEF CheckLine, Goto, SectionEnd
<1>7. CASE DecodeRow \/ DecodeTruncated \/ DecodeThrows
  BY <1>0, <1>7 DEF DecodeRow, DecodeTruncated, DecodeThrows, Ends, Goto, SectionEnd
<1>8. CASE PushAddress
  BY <1>0, <1>8 DEF PushAddress, Goto, SectionEnd
<1>9. CASE Publish
  <2>1. /\ pc = "publish" /\ text' = text /\ sums' = sums /\ offset' = offset /\ next' = next
        /\ next <= offset => pc' = "section"
        /\ ~(next <= offset) => pc' = "emit" /\ section' = section
    BY <1>9 DEF Publish, Goto
  <2>2. Len(sums) = Len(text) + 1 /\ section <= Len(text) /\ text[section].offset <= offset
    BY <1>0, <2>1
  <2>3. QED
    BY <1>0, <2>1, <2>2
<1>10. CASE EmitAndAdvance
  BY <1>0, <1>10 DEF EmitAndAdvance, Goto
<1>11. CASE RequestStop \/ Reader \/ Finished \/ UNCHANGED vars
  BY <1>0, <1>11 DEF RequestStop, Reader, AcquireReady, BeginRead, EndRead, Finished,
     vars, workerVars, SectionEnd
<1>12. QED
  BY <1>1, <1>2, <1>3, <1>4, <1>5, <1>6, <1>7, <1>8, <1>9, <1>10, <1>11 DEF Next, Worker

LEMMA BudgetStep == IInv /\ [Next]_vars => WithinBudget'
<1> SUFFICES ASSUME IInv, [Next]_vars PROVE WithinBudget'
  OBVIOUS
<1>0. /\ TypeOK /\ SectionOpen /\ WithinBudget
      /\ Len(text) \in Nat /\ Len(sums) \in Nat
      /\ offset \in Nat /\ next \in Nat /\ section \in 1 .. Len(text) + 1
      /\ instrs.size \in Nat /\ instrs.capacity \in Nat /\ addrs.capacity \in Nat
      /\ \A k \in 1 .. Len(text) : text[k].offset \in Nat /\ text[k].size \in Nat
      /\ \A k \in 1 .. Len(sums) : sums[k] \in Nat
  <2>1. TypeOK /\ SectionOpen /\ WithinBudget /\ StoresHold
    BY DEF IInv
  <2>2. /\ Len(text) \in Nat /\ Len(sums) \in Nat
        /\ \A k \in 1 .. Len(text) : text[k].offset \in Nat /\ text[k].size \in Nat
        /\ \A k \in 1 .. Len(sums) : sums[k] \in Nat
    BY <2>1, TableFacts DEF Word
  <2>3. offset \in Nat /\ next \in Nat /\ section \in 1 .. Len(text) + 1
    BY <2>1 DEF TypeOK
  <2>4. QED
    BY <2>1, <2>2, <2>3, StoreFacts
<1>a. pc \in InSweep => Len(sums) = Len(text) + 1
  BY <1>0 DEF SectionOpen
<1>b. pc \in InLoop => section \in 1 .. Len(text)
  BY <1>0 DEF SectionOpen
<1>c. ASSUME ~Wrapped, pc \in InLoop
      PROVE  sums[section + 1] = sums[section] + text[section].size
  <2>1. section \in 1 .. Len(sums) - 1
    BY <1>a, <1>b, <1>c, <1>0 DEF InSweep
  <2>2. QED
    BY <1>c, <2>1 DEF Wrapped
<1>d. pc \in InSweep => BlocksFor(TotalTextSize) \in Nat
  <2>1. pc \in InSweep => TotalTextSize \in Nat
    BY <1>0, <1>a DEF TotalTextSize
  <2>2. QED
    BY <2>1, DivMod DEF BlocksFor
<1>1. CASE ClearStores
  BY <1>0, <1>1 DEF ClearStores, Goto, WithinBudget, InSweep, InLoop
<1>2. CASE SumSize
  <2>1. /\ Len(sums') = Len(sums) + 1 /\ pc' = "sum" /\ text' = text
        /\ Len(sums) \in 1 .. Len(text)
        /\ \A k \in 1 .. Len(sums) : sums'[k] = sums[k]
        /\ sums'[Len(sums) + 1] = (sums[Len(sums)] + text[Len(sums)].size) % WordSize
    BY <1>0, <1>2 DEF SumSize, Goto, TypeOK, SectionOpen
  <2>2. ASSUME ~Wrapped'
        PROVE  /\ ~Wrapped
               /\ sums'[Len(sums) + 1] = sums[Len(sums)] + text[Len(sums)].size
    <3>1. \A k \in 1 .. Len(sums) : sums'[k + 1] = sums'[k] + text[k].size
      <4>1. Len(sums') - 1 = Len(sums) /\ text' = text
        BY <2>1
      <4>2. \A k \in 1 .. Len(sums') - 1 : sums'[k + 1] = sums'[k] + text'[k].size
        BY <2>2 DEF Wrapped
      <4>3. QED
        BY <4>1, <4>2
    <3>2. \A k \in 1 .. Len(sums) - 1 : sums[k + 1] = sums[k] + text[k].size
      <4>1. ASSUME NEW k \in 1 .. Len(sums) - 1
            PROVE  sums'[k + 1] = sums[k + 1] /\ sums'[k] = sums[k] /\ k \in 1 .. Len(sums)
        BY <1>0, <2>1
      <4>2. QED
        BY <3>1, <4>1
    <3>3. Len(sums) \in 1 .. Len(sums)
      BY <2>1
    <3>4. QED
      BY <2>1, <3>1, <3>2, <3>3 DEF Wrapped
  <2>3. ASSUME ~Wrapped'
        PROVE  \A k \in 1 .. Len(sums') : sums'[k] <= sums'[Len(sums')]
    <3>1. \A k \in 1 .. Len(sums) : sums[k] <= sums[Len(sums)]
      BY <1>0, <2>2, <2>3 DEF WithinBudget
    <3>2. Len(sums) \in 1 .. Len(text) /\ sums[Len(sums)] \in Nat
          /\ text[Len(sums)].size \in Nat
      BY <1>0, <2>1
    <3>3. ASSUME NEW k \in 1 .. Len(sums') PROVE sums'[k] <= sums'[Len(sums')]
      <4>1. CASE k = Len(sums) + 1
        BY <2>1, <2>2, <2>3, <3>2, <4>1
      <4>2. CASE k \in 1 .. Len(sums)
        <5>1. sums'[k] = sums[k] /\ sums[k] <= sums[Len(sums)] /\ sums[k] \in Nat
          BY <1>0, <2>1, <3>1, <4>2
        <5>2. sums'[Len(sums')] = sums[Len(sums)] + text[Len(sums)].size
          BY <2>1, <2>2, <2>3
        <5>3. QED
          BY <3>2, <5>1, <5>2
      <4>3. QED
        BY <2>1, <4>1, <4>2
    <3>4. QED
      BY <3>3
  <2>4. QED
    BY <2>1, <2>3 DEF WithinBudget, InSweep, InLoop
<1>3. CASE Reserve
  <2>1. /\ pc = "sum" /\ text' = text /\ sums' = sums /\ pc' \in {"section", "done"}
        /\ section' = section
    BY <1>3 DEF Reserve, Ends, Goto
  <2>2. ASSUME pc' = "section"
        PROVE  /\ instrs'.capacity >= BlocksFor(TotalTextSize)
               /\ addrs'.capacity >= BlocksFor(TotalTextSize)
               /\ instrs'.size = 0
    <3>1. TotalTextSize \in Nat /\ StoresHold /\ CountsAgree
      BY <1>0, <1>3 DEF Reserve, TotalTextSize, IInv
    <3>2. instrs' = ReserveFor(instrs, TotalTextSize) /\ addrs' = ReserveFor(addrs, TotalTextSize)
      BY <1>3, <2>2 DEF Reserve, Ends, Goto
    <3>3. instrs.size = 0
      BY <1>3, <3>1 DEF Reserve, CountsAgree
    <3>4. QED
      BY <3>1, <3>2, <3>3, ReserveHolds DEF StoresHold
  <2>3. section \in 1 .. Len(sums)
    BY <1>0, <1>3 DEF Reserve
  <2>4. QED
    BY <1>0, <2>1, <2>2, <2>3, SameSums DEF WithinBudget, InSweep, InLoop
<1>4. CASE StartSection
  <2>1. /\ pc = "section" /\ section \in 1 .. Len(text) /\ pc' = "line" /\ text' = text
        /\ offset' = text[section].offset
        /\ UNCHANGED <<sums, section, instrs, addrs>>
    BY <1>0, <1>4 DEF StartSection, Goto
  <2>2. section \in 1 .. Len(sums)
    BY <1>0, <1>a, <2>1 DEF InSweep
  <2>3. ~Wrapped => instrs.size <= sums[section]
    BY <1>0, <2>1 DEF WithinBudget
  <2>4. sums[section] \in Nat /\ text[section].size \in Nat /\ text[section].offset \in Nat
    BY <1>0, <2>1, <2>2
  <2>5. QED
    BY <1>0, <2>1, <2>3, <2>4, SameSums DEF WithinBudget, InSweep, InLoop
<1>5. CASE SweepOver \/ DecodeThrows
  BY <1>0, <1>5, SameSums DEF SweepOver, DecodeThrows, Ends, Goto, WithinBudget, InSweep, InLoop
<1>6. CASE CheckLine
  BY <1>0, <1>c, <1>6, SameSums DEF CheckLine, Goto, WithinBudget, InSweep, InLoop
<1>7. CASE DecodeRow
  <2>1. PICK length \in 1 .. MaxLength :
          /\ instrs' = PushBack(instrs, [offset |-> offset, length |-> length])
          /\ next' = offset + length
    BY <1>7 DEF DecodeRow
  <2>2. /\ pc = "decode" /\ pc' = "address" /\ text' = text
        /\ UNCHANGED <<sums, section, offset, addrs>>
    BY <1>7 DEF DecodeRow, Goto
  <2>3. instrs'.size = instrs.size + 1 /\ length >= 1 /\ length \in Nat
    BY <2>1, ConstantFacts DEF PushBack
  <2>4. /\ section \in 1 .. Len(text) /\ section \in 1 .. Len(sums)
        /\ text[section].offset <= offset /\ offset < SectionEnd(section)
    BY <1>0, <1>a, <1>b, <2>2 DEF InSweep, InLoop, SectionOpen
  <2>5. offset - text[section].offset < text[section].size
    BY <1>0, <2>4, TableFacts, EndWraps DEF SectionEnd, TypeOK, Word
  <2>6. ~Wrapped => instrs.size <= sums[section] + (offset - text[section].offset)
    BY <1>0, <2>2 DEF WithinBudget
  <2>7. sums[section] \in Nat /\ text[section].size \in Nat /\ text[section].offset \in Nat
    BY <1>0, <2>4
  <2>8. ~Wrapped =>
          /\ instrs'.size <= sums[section] + text[section].size
          /\ instrs'.size <= sums[section] + (next' - text[section].offset)
    <3>1. /\ instrs.size \in Nat /\ offset \in Nat /\ next' = offset + length
          /\ text[section].offset <= offset
      BY <1>0, <2>1, <2>4
    <3>2. QED
      BY <2>3, <2>5, <2>6, <2>7, <3>1
  <2>9. /\ instrs'.capacity >= BlocksFor(TotalTextSize)
        /\ addrs'.capacity >= BlocksFor(TotalTextSize)
    <3>1. /\ instrs.capacity >= BlocksFor(TotalTextSize)
          /\ addrs.capacity >= BlocksFor(TotalTextSize)
      BY <1>0, <2>2 DEF WithinBudget, InSweep, InLoop
    <3>2. instrs'.capacity \in Nat /\ instrs'.capacity >= instrs.capacity
      BY <1>0, <2>1, CapacityGrows
    <3>3. QED
      BY <1>0, <1>d, <2>2, <3>1, <3>2 DEF InSweep, InLoop
  <2>10. QED
    BY <1>0, <2>2, <2>8, <2>9, SameSums DEF WithinBudget, InSweep, InLoop
<1>8. CASE DecodeTruncated
  BY <1>0, <1>8, SameSums DEF DecodeTruncated, Goto, WithinBudget, InSweep, InLoop
<1>9. CASE PushAddress
  <2>1. /\ pc = "address" /\ pc' = "publish" /\ text' = text
        /\ addrs'.capacity \in Nat /\ addrs'.capacity >= addrs.capacity
        /\ UNCHANGED <<sums, section, offset, next, instrs>>
    BY <1>0, <1>9, CapacityGrows DEF PushAddress, Goto
  <2>2. addrs'.capacity >= BlocksFor(TotalTextSize)
    <3>1. /\ addrs.capacity >= BlocksFor(TotalTextSize)
      BY <1>0, <2>1 DEF WithinBudget, InSweep, InLoop
    <3>2. QED
      BY <1>0, <1>d, <2>1, <3>1 DEF InSweep, InLoop
  <2>3. QED
    BY <1>0, <2>1, <2>2, SameSums DEF WithinBudget, InSweep, InLoop
<1>10. CASE Publish
  BY <1>0, <1>c, <1>10, SameSums DEF Publish, Goto, WithinBudget, InSweep, InLoop
<1>11. CASE EmitAndAdvance
  BY <1>0, <1>11, SameSums DEF EmitAndAdvance, Goto, WithinBudget, SectionOpen, InSweep, InLoop
<1>12. CASE RequestStop \/ Reader \/ Finished \/ UNCHANGED vars
  BY <1>0, <1>12, SameSums DEF RequestStop, Reader, AcquireReady, BeginRead, EndRead, Finished,
     vars, workerVars, WithinBudget, InSweep, InLoop
<1>13. QED
  BY <1>1, <1>2, <1>3, <1>4, <1>5, <1>6, <1>7, <1>8, <1>9, <1>10, <1>11, <1>12 DEF Next, Worker
LEMMA NextIInv == IInv /\ [Next]_vars => IInv'
  BY StoresStep, CountsStep, TypeStep, SectionStep, BudgetStep DEF IInv

\* The inductive invariant holds in every state of the sweep.
THEOREM SweepInvariant == Spec => []IInv
<1>1. Init => IInv
  BY InitIInv
<1>2. IInv /\ [Next]_vars => IInv'
  BY NextIInv
<1>3. QED
  BY <1>1, <1>2, PTL DEF Spec

-----------------------------------------------------------------------------
(* What follows from it.                                                   *)

\* decode() keeps its offsets and sums in the word, its section index in the
\* table, and both stores well formed.
THEOREM SweepTypeCorrect == Spec => []TypeOK
<1>1. IInv => TypeOK
  BY DEF IInv
<1>2. QED
  BY <1>1, SweepInvariant, PTL

\* A row the front end may index (its number is below the count it acquired) has
\* been written in both stores.
THEOREM ReaderIsBacked == Spec => []PublishedBacked
<1>1. IInv => PublishedBacked
  <2> SUFFICES ASSUME IInv PROVE PublishedBacked
    OBVIOUS
  <2>1. /\ StoresHold /\ CountsAgree /\ pc \in Labels
        /\ ready \in Nat /\ seen \in Nat /\ reading \in Nat \cup {None}
        /\ instrs.size \in Nat /\ addrs.size \in Nat
    BY StoreFacts DEF IInv, TypeOK
  <2>2. /\ seen <= ready /\ ready <= addrs.size /\ addrs.size <= instrs.size
        /\ instrs.size <= ready + 1
    BY <2>1 DEF CountsAgree, Labels
  <2>3. reading # None =>
          /\ reading < seen
          /\ reading \in 0 .. instrs.size - 1
          /\ reading \in 0 .. addrs.size - 1
    BY <2>1, <2>2 DEF CountsAgree
  <2>4. QED
    BY <2>1, <2>2, <2>3 DEF PublishedBacked, StoresHold, Holds, Word
<1>2. QED
  BY <1>1, SweepInvariant, PTL

\* While no sum of section sizes has wrapped, the block tables that a published
\* row is reached through are not reallocated: reserveFor() asked for enough.
THEOREM TablesNeverMove == Spec => TablesStayUnlessWrapped
<1> DEFINE Stay == (ready > 0 /\ ~Wrapped) => UNCHANGED <<instrs.capacity, addrs.capacity>>
<1>1. IInv /\ [Next]_vars => [Stay]_vars
  <2> SUFFICES ASSUME IInv, Next, ready > 0, ~Wrapped
               PROVE  UNCHANGED <<instrs.capacity, addrs.capacity>>
    OBVIOUS
  <2>0. /\ StoresHold /\ CountsAgree /\ WithinBudget /\ TypeOK
        /\ instrs.size \in Nat /\ addrs.size \in Nat /\ ready \in Nat
    BY StoreFacts DEF IInv, TypeOK
  <2>1. ~ClearStores /\ ~Reserve
    BY <2>0 DEF CountsAgree, ClearStores, Reserve
  <2>2. CASE DecodeRow
    <3>1. pc = "decode" /\ addrs' = addrs
          /\ \E row : instrs' = PushBack(instrs, row)
      BY <2>2 DEF DecodeRow
    <3>2. TotalTextSize \in Nat /\ instrs.size < TotalTextSize
      BY <3>1, RoomForRow
    <3>3. instrs.capacity >= BlocksFor(TotalTextSize)
      BY <2>0, <3>1 DEF WithinBudget, InSweep, InLoop
    <3>4. QED
      BY <2>0, <3>1, <3>2, <3>3, ReservedIsEnough DEF StoresHold
  <2>3. CASE PushAddress
    <3>1. pc = "address" /\ instrs' = instrs
          /\ addrs' = IF addrs.size < instrs.size THEN PushBack(addrs, vaddr) ELSE addrs
      BY <2>3 DEF PushAddress
    <3>2. TotalTextSize \in Nat /\ instrs.size <= TotalTextSize
      BY <3>1, RoomForRow
    <3>3. addrs.capacity >= BlocksFor(TotalTextSize)
      BY <2>0, <3>1 DEF WithinBudget, InSweep, InLoop
    <3>4. CASE addrs.size < instrs.size
      <4>1. addrs.size < TotalTextSize
        BY <2>0, <3>2, <3>4
      <4>2. QED
        BY <2>0, <3>1, <3>2, <3>3, <3>4, <4>1, ReservedIsEnough DEF StoresHold
    <3>5. QED
      BY <3>1, <3>4
  <2>4. CASE ~DecodeRow /\ ~PushAddress
    BY <2>1, <2>4 DEF Next, Worker, Reader, SumSize, StartSection, SweepOver, CheckLine,
       DecodeTruncated, DecodeThrows, Publish, EmitAndAdvance, RequestStop, AcquireReady,
       BeginRead, EndRead, Finished, workerVars, vars
  <2>5. QED
    BY <2>2, <2>3, <2>4
<1>2. QED
  BY <1>1, SweepInvariant, PTL DEF Spec, TablesStayUnlessWrapped

\* A published row keeps its instruction and its address for the rest of the
\* sweep: every later step only appends, above it.
THEOREM RowsNeverChange == Spec => PublishedFrozen
<1>1. IInv /\ [Next]_vars => [RowsKept]_vars
  <2> SUFFICES ASSUME IInv, Next, NEW row \in 0 .. ready - 1
               PROVE  /\ row < instrs.size' /\ At(instrs, row)' = At(instrs, row)
                      /\ row < addrs.size' /\ At(addrs, row)' = At(addrs, row)
    BY DEF RowsKept
  <2>0. /\ StoresHold /\ CountsAgree /\ TypeOK
        /\ instrs.size \in Nat /\ addrs.size \in Nat /\ ready \in Nat
        /\ ready <= addrs.size /\ ready <= instrs.size
    <3>1. /\ StoresHold /\ CountsAgree /\ TypeOK
          /\ instrs.size \in Nat /\ addrs.size \in Nat /\ ready \in Nat
      BY StoreFacts DEF IInv, TypeOK
    <3>2. ready <= addrs.size /\ ready <= instrs.size
      BY <3>1 DEF CountsAgree, TypeOK, Labels
    <3>3. QED
      BY <3>1, <3>2
  <2>1. row \in 0 .. instrs.size - 1 /\ row \in 0 .. addrs.size - 1
    BY <2>0
  <2>2. ~ClearStores /\ ~Reserve
    BY <2>0 DEF CountsAgree, ClearStores, Reserve
  <2>3. CASE DecodeRow
    <3>1. PICK length \in 1 .. MaxLength :
            /\ offset + length <= FileSize
            /\ instrs' = PushBack(instrs, [offset |-> offset, length |-> length])
      BY <2>3 DEF DecodeRow
    <3>2. [offset |-> offset, length |-> length] \in Rows
      BY <2>0, <3>1, ConstantFacts DEF Rows, TypeOK
    <3>3. addrs' = addrs
      BY <2>3 DEF DecodeRow
    <3>4. At(instrs', row) = At(instrs, row) /\ instrs'.size = instrs.size + 1
      BY <2>0, <2>1, <3>1, <3>2, PushBackAppends DEF StoresHold
    <3>5. row < instrs'.size /\ row < addrs'.size
      BY <2>0, <2>1, <3>3, <3>4
    <3>6. QED
      BY <3>3, <3>4, <3>5 DEF At
  <2>4. CASE PushAddress
    <3>1. vaddr \in Word /\ instrs' = instrs
          /\ addrs' = IF addrs.size < instrs.size THEN PushBack(addrs, vaddr) ELSE addrs
      BY <2>0, <2>4 DEF PushAddress, TypeOK, Word
    <3>2. /\ At(PushBack(addrs, vaddr), row) = At(addrs, row)
          /\ PushBack(addrs, vaddr).size = addrs.size + 1
      BY <2>0, <2>1, <3>1, PushBackAppends DEF StoresHold
    <3>3. addrs'.size \in {addrs.size, addrs.size + 1}
      BY <3>1, <3>2
    <3>4. row < instrs'.size /\ row < addrs'.size
      BY <2>0, <2>1, <3>1, <3>3
    <3>5. At(instrs', row) = At(instrs, row) /\ At(addrs', row) = At(addrs, row)
      BY <3>1, <3>2
    <3>6. QED
      BY <3>4, <3>5 DEF At
  <2>5. CASE ~DecodeRow /\ ~PushAddress
    <3>1. instrs' = instrs /\ addrs' = addrs
      BY <2>2, <2>5 DEF Next, Worker, Reader, SumSize, StartSection, SweepOver, CheckLine,
         DecodeTruncated, DecodeThrows, Publish, EmitAndAdvance, RequestStop, AcquireReady,
         BeginRead, EndRead, Finished, workerVars, vars
    <3>2. row < instrs'.size /\ row < addrs'.size
      BY <2>0, <2>1, <3>1
    <3>3. At(instrs', row) = At(instrs, row) /\ At(addrs', row) = At(addrs, row)
      BY <3>1
    <3>4. QED
      BY <3>2, <3>3 DEF At
  <2>6. QED
    BY <2>3, <2>4, <2>5
<1>2. QED
  BY <1>1, SweepInvariant, PTL DEF Spec, PublishedFrozen

\* What a stop request leaves to do: nothing once the line under way is stored.
StopInv == stop => /\ stoppedAt \in Nat
                   /\ instrs.size <= stoppedAt + 1
                   /\ pc = "decode" => instrs.size <= stoppedAt

\* After a stop request the worker adds at most the line it was decoding.
THEOREM StopIsPrompt == Spec => []StopsPromptly
<1>1. Init => StopInv
  BY DEF Init, StopInv
<1>2. IInv /\ StopInv /\ [Next]_vars => StopInv'
  <2> SUFFICES ASSUME IInv, StopInv, [Next]_vars PROVE StopInv'
    OBVIOUS
  <2>0. instrs.size \in Nat
    BY StoreFacts DEF IInv
  <2>1. CASE RequestStop
    BY <2>0, <2>1 DEF RequestStop, workerVars, StopInv
  <2>2. CASE ClearStores
    <3>1. instrs'.size = 0 /\ pc' = "sum" /\ UNCHANGED stopVars
      BY <2>2, SizesStep DEF ClearStores, Goto
    <3>2. QED
      BY <3>1 DEF stopVars, StopInv
  <2>7. CASE DecodeRow
    <3>1. /\ instrs'.size = instrs.size + 1 /\ pc = "decode" /\ pc' = "address"
          /\ UNCHANGED stopVars
      BY <2>7, SizesStep DEF DecodeRow, Goto
    <3>2. QED
      BY <2>0, <3>1 DEF stopVars, StopInv
  <2>6. CASE Reserve
    <3>1. instrs'.size = instrs.size /\ pc' # "decode" /\ UNCHANGED stopVars
      BY <2>6, SizesStep DEF Reserve, Ends, Goto
    <3>2. QED
      BY <3>1 DEF stopVars, StopInv
  <2>3. CASE PushAddress \/ SumSize \/ StartSection \/ SweepOver \/ CheckLine \/ Publish
             \/ DecodeTruncated \/ DecodeThrows \/ EmitAndAdvance
    BY <2>0, <2>3 DEF PushAddress, SumSize, StartSection, SweepOver, CheckLine, Publish,
       DecodeTruncated, DecodeThrows, EmitAndAdvance, Ends, Goto, stopVars, StopInv
  <2>4. CASE Reader \/ Finished \/ UNCHANGED vars
    BY <2>0, <2>4 DEF Reader, AcquireReady, BeginRead, EndRead, Finished, workerVars,
       stopVars, vars, StopInv
  <2>5. QED
    BY <2>1, <2>2, <2>3, <2>4, <2>6, <2>7 DEF Next, Worker
<1>3. StopInv => StopsPromptly
  BY DEF StopInv, StopsPromptly
<1>4. QED
  BY <1>1, <1>2, <1>3, SweepInvariant, PTL DEF Spec

-----------------------------------------------------------------------------
(* Refinement: the sweep's count and outcome behave as SweepContract says. *)

\* The outcome is set on the way to "done" and not before.
OutcomeInv == pc # "done" => outcome = "none"

\* Whoever watches readyCount and the end of decode() sees rows published one at
\* a time and then a single outcome.
THEOREM SweepKeepsContract == Spec => KeepsContract
<1>1. Init => OutcomeInv /\ Contract!Init
  BY DEF Init, OutcomeInv, Contract!Init
<1>2. OutcomeInv /\ [Next]_vars => OutcomeInv'
  BY DEF OutcomeInv, Next, Worker, Reader, ClearStores, SumSize, Reserve, StartSection,
     SweepOver, CheckLine, DecodeRow, DecodeTruncated, DecodeThrows, PushAddress, Publish,
     EmitAndAdvance, Ends, Goto, RequestStop, AcquireReady, BeginRead, EndRead, Finished,
     workerVars, vars
<1>3. IInv /\ OutcomeInv /\ [Next]_vars => [Contract!Next]_(Contract!vars)
  <2> SUFFICES ASSUME IInv, OutcomeInv, [Next]_vars
               PROVE  Contract!Next \/ UNCHANGED <<ready, outcome>>
    BY DEF Contract!vars
  <2>0. CountsAgree /\ ready \in Nat /\ instrs.size \in Nat
    BY StoreFacts DEF IInv, TypeOK
  <2>1. CASE Publish
    <3>1. outcome = "none" /\ ready' \in {ready, ready + 1} /\ outcome' = outcome
      BY <2>0, <2>1 DEF Publish, CountsAgree, OutcomeInv
    <3>2. QED
      BY <3>1 DEF Contract!Next, Contract!PublishRow
  <2>2. CASE Reserve
    <3>1. ready = 0 /\ outcome = "none"
      BY <2>0, <2>2 DEF Reserve, CountsAgree, OutcomeInv
    <3>2. ready' = ready /\ outcome' \in {"none", "error"}
      BY <2>2, <3>1 DEF Reserve, Ends, Goto
    <3>3. QED
      BY <3>1, <3>2 DEF Contract!Next, Contract!Finish, Contract!Outcomes
  <2>3. CASE SweepOver \/ DecodeThrows
    <3>1. outcome = "none" /\ ready' = ready /\ outcome' \in {"ran", "error", "changed"}
      BY <2>3 DEF SweepOver, DecodeThrows, Ends, Goto, OutcomeInv
    <3>2. QED
      BY <3>1 DEF Contract!Next, Contract!Finish, Contract!Outcomes
  <2>4. CASE ~Publish /\ ~Reserve /\ ~SweepOver /\ ~DecodeThrows
    BY <2>4 DEF Next, Worker, Reader, ClearStores, SumSize, StartSection, CheckLine,
       DecodeRow, DecodeTruncated, PushAddress, EmitAndAdvance, RequestStop, AcquireReady,
       BeginRead, EndRead, Finished, workerVars, vars
  <2>5. QED
    BY <2>1, <2>2, <2>3, <2>4
<1>4. QED
  BY <1>1, <1>2, <1>3, SweepInvariant, PTL DEF Spec, KeepsContract, Contract!Spec

-----------------------------------------------------------------------------
(* The emit index keeps step with the stores.                              *)

\* Outside the line under way every stored row has been emitted; inside it the row
\* just decoded, if there is one, is the only one that has not.
EmitInv ==
    /\ pc \notin {"address", "publish", "emit", "done"} => emitted = instrs.size
    /\ pc \in {"address", "publish"} =>
         /\ next >= offset
         /\ instrs.size = IF next > offset THEN emitted + 1 ELSE emitted
    /\ pc = "emit" => instrs.size = emitted + 1

\* The row written to the output streams is always the one just decoded, with its
\* address: the running emit index of decode() never slips against the stores.
THEOREM SweepEmitsLatest == Spec => []EmitsLatestRow
<1>1. Init => EmitInv
  BY DEF Init, EmitInv, EmptyStore
<1>2. IInv /\ EmitInv /\ [Next]_vars => EmitInv'
  <2> SUFFICES ASSUME IInv, EmitInv, [Next]_vars PROVE EmitInv'
    OBVIOUS
  <2>0. /\ instrs.size \in Nat /\ emitted \in Nat /\ offset \in Nat /\ next \in Nat
        /\ pc \in {"clear", "sum"} => instrs.size = 0
    BY StoreFacts DEF IInv, TypeOK, CountsAgree
  <2>1. CASE ClearStores \/ Reserve
    <3>1. pc \in {"clear", "sum"} /\ pc' \in {"sum", "section", "done"} /\ emitted' = emitted
      BY <2>1 DEF ClearStores, Reserve, Ends, Goto
    <3>2. instrs'.size = instrs.size
      BY <2>0, <2>1, <3>1, SizesStep DEF ClearStores, Reserve, Ends
    <3>3. QED
      BY <2>0, <3>1, <3>2 DEF EmitInv
  <2>2. CASE DecodeRow
    <3>1. PICK length \in 1 .. MaxLength : next' = offset + length
      BY <2>2 DEF DecodeRow
    <3>2. next' > offset /\ offset' = offset /\ emitted' = emitted
      BY <2>0, <2>2, <3>1, ConstantFacts DEF DecodeRow
    <3>3. instrs'.size = instrs.size + 1 /\ pc = "decode" /\ pc' = "address"
      BY <2>2, SizesStep DEF DecodeRow, Goto
    <3>4. instrs'.size = emitted' + 1
      BY <3>2, <3>3 DEF EmitInv
    <3>5. next' >= offset' /\ next' > offset'
      BY <2>0, <2>2, <3>1, <3>2, ConstantFacts
    <3>6. QED
      BY <3>3, <3>4, <3>5 DEF EmitInv
  <2>3. CASE DecodeTruncated
    <3>1. pc = "decode" /\ pc' = "address" /\ next' = offset
      BY <2>3 DEF DecodeTruncated, Goto
    <3>2. offset' = offset /\ emitted' = emitted /\ instrs' = instrs
      BY <2>3 DEF DecodeTruncated
    <3>3. emitted' = instrs'.size
      BY <3>1, <3>2 DEF EmitInv
    <3>4. next' >= offset' /\ ~(next' > offset')
      BY <2>0, <3>1, <3>2
    <3>5. QED
      BY <3>1, <3>3, <3>4 DEF EmitInv
  <2>4. CASE PushAddress
    <3>1. pc = "address" /\ pc' = "publish" /\ UNCHANGED <<instrs, next, offset, emitted>>
      BY <2>4 DEF PushAddress, Goto
    <3>2. QED
      BY <3>1 DEF EmitInv
  <2>5. CASE Publish \/ EmitAndAdvance
    BY <2>0, <2>5 DEF Publish, EmitAndAdvance, Goto, EmitInv
  <2>6. CASE SumSize \/ StartSection \/ SweepOver \/ CheckLine \/ DecodeThrows
    BY <2>0, <2>6 DEF SumSize, StartSection, SweepOver, CheckLine, DecodeThrows, Ends, Goto,
       EmitInv
  <2>7. CASE RequestStop \/ Reader \/ Finished \/ UNCHANGED vars
    BY <2>7 DEF RequestStop, Reader, AcquireReady, BeginRead, EndRead, Finished, vars,
       workerVars, EmitInv
  <2>8. QED
    BY <2>1, <2>2, <2>3, <2>4, <2>5, <2>6, <2>7 DEF Next, Worker
<1>3. IInv /\ EmitInv => EmitsLatestRow
  BY StoreFacts DEF IInv, TypeOK, CountsAgree, EmitInv, EmitsLatestRow
<1>4. QED
  BY <1>1, <1>2, <1>3, SweepInvariant, PTL DEF Spec

-----------------------------------------------------------------------------
(* The rows tile the sections.                                             *)

\* Adding in two steps wraps to the same word as adding at once.
LEMMA WrapTwice ==
    ASSUME NEW v \in Nat, NEW d \in Nat, NEW e \in Nat
    PROVE  (((v + d) % WordSize) + e) % WordSize = (v + (d + e)) % WordSize
<1> DEFINE q == (v + d) \div WordSize
           r == (v + d) % WordSize
           q2 == (r + e) \div WordSize
           r2 == (r + e) % WordSize
<1>1. ASSUME NEW n \in Nat
      PROVE  /\ n \div WordSize \in Nat /\ n % WordSize \in Word
             /\ n = WordSize * (n \div WordSize) + (n % WordSize)
  BY ConstantFacts DEF Word
<1>2. ASSUME NEW n \in Nat, NEW k \in Nat, NEW m \in Word, n = WordSize * k + m
      PROVE  n % WordSize = m
  BY <1>2, ConstantFacts DEF Word
<1>3. q \in Nat /\ r \in Word /\ v + d = WordSize * q + r
  BY <1>1
<1>4. r + e \in Nat
  BY <1>3, ConstantFacts DEF Word
<1>5. q2 \in Nat /\ r2 \in Word /\ r + e = WordSize * q2 + r2
  BY <1>1, <1>4
<1> HIDE DEF q, r, q2, r2
<1>6. v + (d + e) = WordSize * (q + q2) + r2
  BY <1>3, <1>5, ConstantFacts DEF Word
<1>7. (v + (d + e)) % WordSize = r2
  BY <1>2, <1>3, <1>5, <1>6
<1>8. QED
  BY <1>7 DEF r2, r

RowEnd(i) == At(instrs, i).offset + At(instrs, i).length

\* Inside a section's loop the address follows the offset, and the line under way ends
\* where the next one will start.
LineInv ==
    /\ pc \in InLoop =>
         vaddr = (text[section].vaddr + (offset - text[section].offset)) % WordSize
    /\ pc = "address" /\ addrs.size = instrs.size => next = offset
    /\ pc = "address" /\ addrs.size # instrs.size =>
         At(instrs, addrs.size).offset = offset /\ RowEnd(addrs.size) = next
    /\ pc \in {"publish", "emit"} /\ next > offset =>
         instrs.size > 0 /\ RowEnd(instrs.size - 1) = next

\* A row stored at the current offset as row n would tile: it opens the section or
\* follows the section's row n - 1.
Abuts(of, n) ==
    \/ offset = text[section].offset /\ (n > 0 => of[n - 1] < section)
    \/ n > 0 /\ of[n - 1] = section /\ offset = RowEnd(n - 1)

\* The complete rows tile the sections `of' says, none of them a later one than the
\* section being swept.
TilesBy(of) ==
    /\ \A i \in 0 .. addrs.size - 1 : of[i] \in 1 .. Len(text) /\ RowTiles(of, i)
    /\ addrs.size > 0 => /\ of[addrs.size - 1] <= section
                         /\ pc = "section" => of[addrs.size - 1] < section
    /\ pc \in {"line", "decode"} => Abuts(of, instrs.size)
    /\ pc = "address" /\ addrs.size # instrs.size => Abuts(of, addrs.size)
    /\ pc \in {"publish", "emit"} /\ next > offset => of[instrs.size - 1] = section

\* Which section each row is of.
SectionsOfRows == [Nat -> Nat]

TileInv == LineInv /\ \E of \in SectionsOfRows : TilesBy(of)

\* Storing a row or its address leaves every complete row tiled as it was.
LEMMA TilesStay ==
    ASSUME IInv, NEW of \in SectionsOfRows, TilesBy(of), [Next]_vars,
           NEW i \in 0 .. addrs.size - 1, i < addrs'.size
    PROVE  RowTiles(of, i)'
<1>0. /\ TypeOK /\ StoresHold /\ CountsAgree
      /\ instrs.size \in Nat /\ addrs.size \in Nat /\ addrs.size <= instrs.size
      /\ ready \in Nat
  BY StoreFacts DEF IInv, TypeOK, CountsAgree
<1>1. RowTiles(of, i) /\ i \in 0 .. instrs.size - 1
  BY <1>0 DEF TilesBy
<1>2. text' = text
  BY DEF Next, Worker, Reader, ClearStores, SumSize, Reserve, StartSection, SweepOver,
     CheckLine, DecodeRow, DecodeTruncated, DecodeThrows, PushAddress, Publish,
     EmitAndAdvance, Ends, Goto, RequestStop, AcquireReady, BeginRead, EndRead, Finished, vars
<1>3. ~ClearStores /\ ~Reserve
  BY <1>0 DEF ClearStores, Reserve, CountsAgree
<1>4. /\ \A j \in 0 .. instrs.size - 1 : At(instrs', j) = At(instrs, j)
      /\ \A j \in 0 .. addrs.size - 1 : At(addrs', j) = At(addrs, j)
  <2>1. CASE DecodeRow
    <3>1. PICK length \in 1 .. MaxLength :
            /\ offset + length <= FileSize
            /\ instrs' = PushBack(instrs, [offset |-> offset, length |-> length])
      BY <2>1 DEF DecodeRow
    <3>2. [offset |-> offset, length |-> length] \in Rows
      BY <1>0, <3>1, ConstantFacts DEF Rows, TypeOK
    <3>3. addrs' = addrs
      BY <2>1 DEF DecodeRow
    <3>4. QED
      BY <1>0, <3>1, <3>2, <3>3, PushBackAppends DEF StoresHold
  <2>2. CASE PushAddress
    <3>1. vaddr \in Word /\ instrs' = instrs
          /\ addrs' = IF addrs.size < instrs.size THEN PushBack(addrs, vaddr) ELSE addrs
      BY <1>0, <2>2 DEF PushAddress, TypeOK, Word
    <3>2. QED
      BY <1>0, <3>1, PushBackAppends DEF StoresHold
  <2>3. CASE ~DecodeRow /\ ~PushAddress
    <3>1. instrs' = instrs /\ addrs' = addrs
      BY <1>3, <2>3 DEF Next, Worker, Reader, SumSize, StartSection, SweepOver, CheckLine,
         DecodeTruncated, DecodeThrows, Publish, EmitAndAdvance, RequestStop, AcquireReady,
         BeginRead, EndRead, Finished, workerVars, vars
    <3>2. QED
      BY <3>1
  <2>4. QED
    BY <2>1, <2>2, <2>3
<1>5. /\ At(instrs', i) = At(instrs, i) /\ At(addrs', i) = At(addrs, i)
      /\ i > 0 => At(instrs', i - 1) = At(instrs, i - 1)
  BY <1>0, <1>1, <1>4
<1>6. QED
  <2>1. \A k : SectionEnd(k)' = SectionEnd(k)
    BY <1>2 DEF SectionEnd
  <2>2. /\ At(instrs, i)' = At(instrs, i) /\ At(addrs, i)' = At(addrs, i)
        /\ i > 0 => At(instrs, i - 1)' = At(instrs, i - 1)
    BY <1>5 DEF At
  <2>3. \A k : InSection(k, At(instrs, i))' <=> InSection(k, At(instrs, i))
    BY <1>2, <2>1, <2>2 DEF InSection
  <2>4. \A k : Mapped(k, At(instrs, i))' = Mapped(k, At(instrs, i))
    BY <1>2, <2>2 DEF Mapped
  <2>5. QED
    BY <1>1, <1>2, <2>2, <2>3, <2>4 DEF RowTiles

\* The address pushed for the row under way places it in the open section.
LEMMA NewRowTiles ==
    ASSUME IInv, LineInv, NEW of \in SectionsOfRows, TilesBy(of), PushAddress,
           NEW n, n = addrs.size, n < instrs.size, NEW s, s = section
    PROVE  /\ addrs'.size = n + 1 /\ s \in 1 .. Len(text)
           /\ RowTiles([of EXCEPT ![n] = s], n)'
<1>0. /\ TypeOK /\ StoresHold /\ n \in Nat /\ instrs.size \in Nat /\ vaddr \in Word
      /\ pc = "address" /\ text' = text /\ instrs' = instrs
      /\ addrs' = PushBack(addrs, vaddr)
  BY StoreFacts DEF IInv, TypeOK, PushAddress, Goto, Word
<1>1. addrs'.size = n + 1 /\ At(addrs', n) = vaddr
  BY <1>0, PushBackAppends DEF StoresHold
<1>2. /\ s \in 1 .. Len(text) /\ text[s].offset <= offset
      /\ offset < SectionEnd(s)
      /\ text[s].offset \in Nat /\ SectionEnd(s) \in Nat /\ offset \in Nat
  BY <1>0, TableFacts DEF IInv, TypeOK, SectionOpen, InLoop, Word
<1>3. /\ At(instrs, n).offset = offset /\ Abuts(of, n)
      /\ vaddr = (text[s].vaddr + (offset - text[s].offset)) % WordSize
  BY <1>0 DEF LineInv, TilesBy, InLoop
<1>4. InSection(s, At(instrs, n)) /\ vaddr = Mapped(s, At(instrs, n))
  BY <1>2, <1>3 DEF InSection, Mapped
<1>5. /\ At(instrs, n)' = At(instrs, n) /\ At(instrs, n - 1)' = At(instrs, n - 1)
      /\ At(addrs, n)' = vaddr
  BY <1>0, <1>1 DEF At
<1>6. InSection(s, At(instrs, n))' /\ Mapped(s, At(instrs, n))' = vaddr
  <2>1. SectionEnd(s)' = SectionEnd(s)
    BY <1>0 DEF SectionEnd
  <2>. QED
    BY <1>0, <1>4, <1>5, <2>1 DEF InSection, Mapped
<1>. DEFINE of2 == [of EXCEPT ![n] = s]
<1>7. of2[n] = s /\ (n > 0 => of2[n - 1] = of[n - 1])
  <2>1. n > 0 => n - 1 \in Nat /\ n - 1 # n
    BY <1>0
  <2>. QED
    BY <1>0, <2>1 DEF SectionsOfRows
<1>8. \/ /\ n > 0 /\ of2[n] = of2[n - 1]
         /\ At(instrs, n).offset = At(instrs, n - 1).offset + At(instrs, n - 1).length
      \/ /\ n > 0 => of2[n - 1] < of2[n]
         /\ At(instrs, n).offset = text[of2[n]].offset
  BY <1>3, <1>7 DEF Abuts, RowEnd
<1>. HIDE DEF of2
<1>9. RowTiles(of2, n)'
  BY <1>0, <1>5, <1>6, <1>7, <1>8 DEF RowTiles
<1>. QED
  BY <1>1, <1>2, <1>9 DEF of2

\* What a step makes of the address, the offset and the line under way.
LEMMA LineStep == IInv /\ LineInv /\ [Next]_vars => LineInv'
<1> SUFFICES ASSUME IInv, LineInv, [Next]_vars PROVE LineInv'
  OBVIOUS
<1>0. /\ TypeOK /\ StoresHold /\ CountsAgree
      /\ instrs.size \in Nat /\ addrs.size \in Nat
      /\ offset \in Nat /\ next \in Nat
  BY StoreFacts DEF IInv, TypeOK
<1>1. CASE ClearStores \/ Reserve \/ SumSize \/ SweepOver \/ DecodeThrows
  <2>1. pc' \in {"sum", "section", "done"}
    BY <1>1 DEF ClearStores, Reserve, SumSize, SweepOver, DecodeThrows, Ends, Goto
  <2>. QED
    BY <2>1 DEF LineInv, InLoop
<1>2. CASE StartSection
  <2>1. /\ pc' = "line" /\ text' = text /\ section' = section
        /\ offset' = text[section].offset /\ vaddr' = text[section].vaddr
    BY <1>2 DEF StartSection, Goto
  <2>2. text[section].offset \in Nat /\ text[section].vaddr \in Word
    BY <1>0, <1>2, TableFacts DEF StartSection, TypeOK, Word
  <2>3. vaddr' = (text[section].vaddr + (offset' - text[section].offset)) % WordSize
    <3>1. text[section].vaddr + (offset' - text[section].offset) = text[section].vaddr
      BY <2>1, <2>2 DEF Word
    <3>2. text[section].vaddr % WordSize = text[section].vaddr
      BY <2>2, ConstantFacts DEF Word
    <3>. QED
      BY <2>1, <3>1, <3>2
  <2>. QED
    BY <2>1, <2>3 DEF LineInv
<1>3. CASE CheckLine
  <2>1. /\ pc = "line" /\ pc' \in {"decode", "section"}
        /\ pc' = "decode" => section' = section
        /\ UNCHANGED <<text, offset, vaddr>>
    BY <1>3 DEF CheckLine, Goto
  <2>. QED
    BY <2>1 DEF LineInv, InLoop
<1>4. CASE DecodeRow
  <2>1. PICK length \in 1 .. MaxLength :
          /\ offset + length <= FileSize
          /\ instrs' = PushBack(instrs, [offset |-> offset, length |-> length])
          /\ next' = offset + length
    BY <1>4 DEF DecodeRow
  <2>2. [offset |-> offset, length |-> length] \in Rows
    BY <1>0, <2>1, ConstantFacts DEF Rows, TypeOK
  <2>3. /\ pc = "decode" /\ pc' = "address" /\ addrs' = addrs /\ addrs.size = instrs.size
        /\ UNCHANGED <<text, section, offset, vaddr>>
    BY <1>0, <1>4 DEF DecodeRow, Goto, CountsAgree
  <2>4. PICK n \in Nat : n = instrs.size
    BY <1>0
  <2>5. instrs'.size = n + 1 /\ At(instrs', n) = [offset |-> offset, length |-> length]
    BY <1>0, <2>1, <2>2, <2>4, PushBackAppends DEF StoresHold
  <2>6. At(instrs, n)'.offset = offset' /\ RowEnd(n)' = next'
    BY <2>1, <2>3, <2>5 DEF RowEnd, At
  <2>7. addrs'.size # instrs'.size /\ addrs'.size = n
    BY <2>3, <2>4, <2>5
  <2>. QED
    BY <2>3, <2>6, <2>7 DEF LineInv, InLoop
<1>5. CASE DecodeTruncated
  <2>1. /\ pc = "decode" /\ pc' = "address" /\ next' = offset
        /\ UNCHANGED <<text, section, offset, vaddr, instrs, addrs>>
    BY <1>5 DEF DecodeTruncated, Goto
  <2>2. addrs.size = instrs.size
    BY <1>0, <2>1 DEF CountsAgree
  <2>. QED
    BY <2>1, <2>2 DEF LineInv, InLoop
<1>6. CASE PushAddress
  <2>1. /\ pc = "address" /\ pc' = "publish"
        /\ UNCHANGED <<text, section, offset, next, vaddr, instrs>>
    BY <1>6 DEF PushAddress, Goto
  <2>2. PICK n \in Nat : n = addrs.size
    BY <1>0
  <2>3. CASE n < instrs.size
    <3>1. instrs.size = n + 1 /\ RowEnd(n) = next
      BY <1>0, <2>1, <2>2, <2>3 DEF CountsAgree, LineInv, TypeOK
    <3>2. instrs' = instrs /\ next' = next /\ instrs.size - 1 = n /\ instrs.size > 0
      BY <2>1, <2>2, <3>1
    <3>3. RowEnd(instrs.size - 1)' = RowEnd(n)
      BY <3>2 DEF RowEnd, At
    <3>. QED
      BY <2>1, <3>1, <3>2, <3>3 DEF LineInv, InLoop
  <2>4. CASE ~(n < instrs.size)
    <3>1. addrs.size = instrs.size
      BY <1>0, <2>1, <2>2, <2>4 DEF CountsAgree, TypeOK
    <3>2. ~(next' > offset')
      BY <1>0, <2>1, <3>1 DEF LineInv
    <3>. QED
      BY <2>1, <3>2 DEF LineInv, InLoop
  <2>. QED
    BY <2>3, <2>4
<1>7. CASE Publish
  <2>1. /\ pc = "publish" /\ pc' \in {"section", "emit"}
        /\ pc' = "emit" => section' = section
        /\ UNCHANGED <<text, offset, next, vaddr, instrs>>
    BY <1>7 DEF Publish, Goto
  <2>2. RowEnd(instrs.size - 1)' = RowEnd(instrs.size - 1)
    BY <2>1 DEF RowEnd, At
  <2>. QED
    BY <2>1, <2>2 DEF LineInv, InLoop
<1>8. CASE EmitAndAdvance
  <2>1. /\ pc = "emit" /\ pc' = "line" /\ offset' = next
        /\ vaddr' = (vaddr + (next - offset)) % WordSize
        /\ UNCHANGED <<text, section>>
    BY <1>8 DEF EmitAndAdvance, Goto
  <2>2. /\ offset < next /\ section \in 1 .. Len(text)
        /\ text[section].offset <= offset
        /\ text[section].offset \in Nat /\ text[section].vaddr \in Nat
    BY <1>0, <2>1, TableFacts DEF IInv, SectionOpen, InLoop, TypeOK, Word
  <2>3. PICK d \in Nat : d = offset - text[section].offset
    BY <1>0, <2>2
  <2>4. PICK e \in Nat : e = next - offset
    BY <1>0, <2>2
  <2>5. vaddr = (text[section].vaddr + d) % WordSize
    BY <2>1, <2>3 DEF LineInv, InLoop
  <2>6. vaddr' = (text[section].vaddr + (d + e)) % WordSize
    BY <2>1, <2>2, <2>4, <2>5, WrapTwice
  <2>7. d + e = next - text[section].offset
    <3>1. offset \in Int /\ next \in Int /\ text[section].offset \in Int
      BY <1>0, <2>2
    <3>. QED
      BY <2>3, <2>4, <3>1
  <2>. QED
    BY <2>1, <2>6, <2>7 DEF LineInv
<1>9. CASE RequestStop \/ Reader \/ Finished \/ UNCHANGED vars
  <2>1. UNCHANGED <<text, workerVars>>
    BY <1>9 DEF RequestStop, Reader, AcquireReady, BeginRead, EndRead, Finished, vars
  <2>2. UNCHANGED <<pc, section, offset, next, vaddr, instrs, addrs>>
    BY <2>1 DEF workerVars
  <2>3. /\ RowEnd(addrs.size)' = RowEnd(addrs.size)
        /\ RowEnd(instrs.size - 1)' = RowEnd(instrs.size - 1)
        /\ At(instrs, addrs.size)' = At(instrs, addrs.size)
    BY <2>1, <2>2 DEF RowEnd, At
  <2>. QED
    BY <2>1, <2>2, <2>3 DEF LineInv
<1>. QED
  BY <1>1, <1>2, <1>3, <1>4, <1>5, <1>6, <1>7, <1>8, <1>9 DEF Next, Worker

\* The sections of the rows stay what they were; only an address pushed adds a row, of
\* the section being swept.
LEMMA TilesStep ==
    ASSUME IInv, LineInv, NEW of \in SectionsOfRows, TilesBy(of), [Next]_vars
    PROVE  \E of2 \in SectionsOfRows : TilesBy(of2)'
<1>0. /\ TypeOK /\ StoresHold /\ CountsAgree
      /\ instrs.size \in Nat /\ addrs.size \in Nat
      /\ offset \in Nat /\ next \in Nat /\ section \in Nat
  BY StoreFacts DEF IInv, TypeOK
<1>1. text' = text
  BY DEF Next, Worker, Reader, ClearStores, SumSize, Reserve, StartSection, SweepOver,
     CheckLine, DecodeRow, DecodeTruncated, DecodeThrows, PushAddress, Publish,
     EmitAndAdvance, Ends, Goto, RequestStop, AcquireReady, BeginRead, EndRead, Finished, vars
<1>2. \A i \in 0 .. addrs.size - 1 : i < addrs'.size => RowTiles(of, i)'
  BY TilesStay
<1>3. addrs.size > 0 =>
        of[addrs.size - 1] \in Nat /\ of[addrs.size - 1] <= section
  <2>1. addrs.size > 0 => addrs.size - 1 \in Nat
    BY <1>0
  <2>. QED
    BY <1>0, <2>1 DEF TilesBy, SectionsOfRows
<1>4. CASE ClearStores \/ Reserve
  <2>1. addrs'.size = 0
    BY <1>0, <1>4, SizesStep DEF ClearStores, Reserve, CountsAgree
  <2>2. pc' \in {"sum", "section", "done"}
    BY <1>4 DEF ClearStores, Reserve, Ends, Goto
  <2>. QED
    BY <2>1, <2>2 DEF TilesBy
<1>5. ASSUME addrs' = addrs
      PROVE  \A i \in 0 .. addrs'.size - 1 : of[i] \in 1 .. Len(text') /\ RowTiles(of, i)'
  BY <1>0, <1>1, <1>2, <1>5 DEF TilesBy
<1>6. CASE SumSize \/ SweepOver \/ DecodeThrows
  <2>1. addrs' = addrs /\ section' = section /\ pc' \in {"sum", "done"}
    BY <1>6 DEF SumSize, SweepOver, DecodeThrows, Ends, Goto
  <2>. QED
    BY <1>3, <1>5, <2>1 DEF TilesBy
<1>7. CASE StartSection
  <2>1. /\ addrs' = addrs /\ instrs' = instrs /\ pc = "section" /\ pc' = "line"
        /\ section' = section /\ offset' = text[section].offset
    BY <1>7 DEF StartSection, Goto
  <2>2. instrs.size = addrs.size
    BY <1>0, <2>1 DEF CountsAgree
  <2>3. Abuts(of, instrs.size)'
    BY <1>1, <2>1, <2>2 DEF Abuts, TilesBy
  <2>. QED
    BY <1>3, <1>5, <2>1, <2>3 DEF TilesBy
<1>8. CASE CheckLine
  <2>1. /\ pc = "line" /\ pc' \in {"decode", "section"}
        /\ pc' = "decode" => section' = section
        /\ pc' = "section" => section' = section + 1
        /\ UNCHANGED <<offset, instrs, addrs>>
    BY <1>8 DEF CheckLine, Goto
  <2>2. pc' = "decode" => Abuts(of, instrs.size)'
    BY <1>1, <2>1 DEF Abuts, TilesBy, RowEnd, At
  <2>3. addrs.size > 0 => of[addrs.size - 1] <= section'
                          /\ (pc' = "section" => of[addrs.size - 1] < section')
    BY <1>0, <1>3, <2>1
  <2>. QED
    BY <1>5, <2>1, <2>2, <2>3 DEF TilesBy
<1>9. CASE DecodeRow
  <2>1. PICK length \in 1 .. MaxLength :
          /\ offset + length <= FileSize
          /\ instrs' = PushBack(instrs, [offset |-> offset, length |-> length])
    BY <1>9 DEF DecodeRow
  <2>2. [offset |-> offset, length |-> length] \in Rows
    BY <1>0, <2>1, ConstantFacts DEF Rows, TypeOK
  <2>3. /\ pc = "decode" /\ pc' = "address" /\ addrs' = addrs /\ addrs.size = instrs.size
        /\ UNCHANGED <<section, offset>>
    BY <1>0, <1>9 DEF DecodeRow, Goto, CountsAgree
  <2>4. PICK n \in Nat : n = instrs.size
    BY <1>0
  <2>5. \A j \in 0 .. n - 1 : At(instrs', j) = At(instrs, j)
    BY <1>0, <2>1, <2>2, <2>4, PushBackAppends DEF StoresHold
  <2>6. n > 0 => RowEnd(n - 1)' = RowEnd(n - 1)
    <3>1. n > 0 => At(instrs', n - 1) = At(instrs, n - 1)
      BY <2>5
    <3>. QED
      BY <3>1 DEF RowEnd, At
  <2>7. Abuts(of, n)
    BY <2>3, <2>4 DEF TilesBy
  <2>8. Abuts(of, n)'
    BY <1>1, <2>3, <2>6, <2>7 DEF Abuts
  <2>9. addrs'.size = n
    BY <2>3, <2>4
  <2>. QED
    BY <1>3, <1>5, <2>3, <2>8, <2>9 DEF TilesBy
<1>10. CASE DecodeTruncated
  <2>1. /\ pc = "decode" /\ pc' = "address"
        /\ UNCHANGED <<section, instrs, addrs>>
    BY <1>10 DEF DecodeTruncated, Goto
  <2>2. addrs.size = instrs.size
    BY <1>0, <2>1 DEF CountsAgree
  <2>. QED
    BY <1>3, <1>5, <2>1, <2>2 DEF TilesBy
<1>11. CASE PushAddress
  <2>1. /\ pc = "address" /\ pc' = "publish"
        /\ UNCHANGED <<section, offset, next, instrs>>
    BY <1>11 DEF PushAddress, Goto
  <2>2. PICK n \in Nat : n = addrs.size
    BY <1>0
  <2>3. CASE n < instrs.size
    <3>1. PICK s \in Nat : s = section
      BY <1>0
    <3>. DEFINE of2 == [of EXCEPT ![n] = s]
    <3>2. addrs'.size = n + 1 /\ s \in 1 .. Len(text) /\ RowTiles(of2, n)'
      BY <1>11, <2>2, <2>3, <3>1, NewRowTiles
    <3>3. of2 \in SectionsOfRows /\ of2[n] = s /\ \A i \in Nat : i # n => of2[i] = of[i]
      BY <3>1 DEF SectionsOfRows
    <3>. HIDE DEF of2
    <3>4. ASSUME NEW i \in 0 .. n - 1
          PROVE  of2[i] \in 1 .. Len(text) /\ RowTiles(of2, i)'
      <4>1. of2[i] = of[i] /\ (i > 0 => of2[i - 1] = of[i - 1])
        BY <3>3
      <4>2. RowTiles(of, i)' /\ of[i] \in 1 .. Len(text)
        BY <1>2, <2>2, <3>2 DEF TilesBy
      <4>. QED
        BY <4>1, <4>2 DEF RowTiles
    <3>5. instrs.size = n + 1
      BY <1>0, <2>1, <2>2, <2>3 DEF CountsAgree, TypeOK
    <3>6. \A i \in 0 .. addrs'.size - 1 : of2[i] \in 1 .. Len(text') /\ RowTiles(of2, i)'
      BY <1>1, <3>2, <3>3, <3>4
    <3>7. addrs'.size - 1 = n /\ instrs'.size - 1 = n
      BY <2>1, <3>2, <3>5
    <3>8. of2[addrs'.size - 1] <= section' /\ of2[instrs'.size - 1] = section'
      BY <2>1, <3>1, <3>3, <3>7
    <3>9. TilesBy(of2)'
      BY <2>1, <3>6, <3>8 DEF TilesBy
    <3>. QED
      BY <3>3, <3>9
  <2>4. CASE ~(n < instrs.size)
    <3>1. addrs' = addrs /\ addrs.size = instrs.size
      BY <1>0, <1>11, <2>1, <2>2, <2>4 DEF PushAddress, CountsAgree, TypeOK
    <3>2. ~(next' > offset')
      BY <1>0, <2>1, <3>1 DEF LineInv
    <3>. QED
      BY <1>3, <1>5, <2>1, <3>1, <3>2 DEF TilesBy
  <2>. QED
    BY <2>3, <2>4
<1>12. CASE Publish
  <2>1. /\ pc = "publish" /\ pc' \in {"section", "emit"}
        /\ pc' = "emit" => section' = section
        /\ pc' = "section" => section' = section + 1
        /\ UNCHANGED <<offset, next, instrs, addrs>>
    BY <1>12 DEF Publish, Goto
  <2>2. addrs.size > 0 => of[addrs.size - 1] <= section'
                          /\ (pc' = "section" => of[addrs.size - 1] < section')
    BY <1>0, <1>3, <2>1
  <2>. QED
    BY <1>5, <2>1, <2>2 DEF TilesBy
<1>13. CASE EmitAndAdvance
  <2>1. /\ pc = "emit" /\ pc' = "line" /\ offset' = next
        /\ UNCHANGED <<section, instrs, addrs>>
    BY <1>13 DEF EmitAndAdvance, Goto
  <2>2. next > offset
    BY <1>0, <2>1 DEF IInv, SectionOpen, InLoop
  <2>3. instrs.size > 0 /\ RowEnd(instrs.size - 1) = next /\ of[instrs.size - 1] = section
    BY <2>1, <2>2 DEF LineInv, TilesBy
  <2>4. Abuts(of, instrs.size)'
    BY <2>1, <2>3 DEF Abuts, RowEnd, At
  <2>. QED
    BY <1>3, <1>5, <2>1, <2>4 DEF TilesBy
<1>14. CASE RequestStop \/ Reader \/ Finished \/ UNCHANGED vars
  <2>1. UNCHANGED <<pc, section, offset, next, instrs, addrs>>
    BY <1>14 DEF RequestStop, Reader, AcquireReady, BeginRead, EndRead, Finished, workerVars,
       vars
  <2>2. /\ Abuts(of, instrs.size)' <=> Abuts(of, instrs.size)
        /\ Abuts(of, addrs.size)' <=> Abuts(of, addrs.size)
    BY <1>1, <2>1 DEF Abuts, RowEnd, At
  <2>. QED
    BY <1>5, <2>1, <2>2 DEF TilesBy
<1>. QED
  BY <1>4, <1>6, <1>7, <1>8, <1>9, <1>10, <1>11, <1>12, <1>13, <1>14 DEF Next, Worker

\* The published rows are one run per section in table order, each run starting with its
\* section, without gaps or overlaps, and each row at the address its section gives its
\* offset: what the address searches take for granted, for every section table.
THEOREM RowsAlwaysTile == Spec => []RowsTile
<1>1. Init => TileInv
  <2>. SUFFICES ASSUME Init PROVE LineInv /\ \E of \in SectionsOfRows : TilesBy(of)
    BY DEF TileInv
  <2>1. LineInv
    BY DEF Init, LineInv, InLoop
  <2>2. pc = "clear" /\ addrs.size = 0
    BY DEF Init, EmptyStore
  <2>3. TilesBy([i \in Nat |-> 0])
    BY <2>2 DEF TilesBy
  <2>. QED
    BY <2>1, <2>3 DEF SectionsOfRows
<1>2. IInv /\ TileInv => RowsTile
  <2>. SUFFICES ASSUME IInv, TileInv PROVE RowsTile
    OBVIOUS
  <2>1. ready <= addrs.size /\ ready \in Nat /\ addrs.size \in Nat
    BY StoreFacts DEF IInv, TypeOK, CountsAgree
  <2>2. PICK of \in SectionsOfRows : TilesBy(of)
    BY DEF TileInv
  <2>. DEFINE published == [i \in 0 .. ready - 1 |-> of[i]]
  <2>3. \A i \in 0 .. ready - 1 : of[i] \in 1 .. Len(text) /\ RowTiles(of, i)
    BY <2>1, <2>2 DEF TilesBy
  <2>4. published \in [0 .. ready - 1 -> 1 .. Len(text)]
    BY <2>3
  <2>5. ASSUME NEW i \in 0 .. ready - 1 PROVE RowTiles(published, i)
    <3>1. published[i] = of[i] /\ (i > 0 => published[i - 1] = of[i - 1])
      <4>1. i > 0 => i - 1 \in 0 .. ready - 1
        BY <2>1
      <4>. QED
        BY <4>1
    <3>. HIDE DEF published
    <3>. QED
      BY <2>3, <3>1 DEF RowTiles
  <2>. HIDE DEF published
  <2>. QED
    BY <2>4, <2>5 DEF RowsTile
<1>3. IInv /\ TileInv /\ [Next]_vars => TileInv'
  <2>. SUFFICES ASSUME IInv, TileInv, [Next]_vars PROVE TileInv'
    OBVIOUS
  <2>1. PICK of \in SectionsOfRows : TilesBy(of)
    BY DEF TileInv
  <2>2. LineInv /\ LineInv'
    BY LineStep DEF TileInv
  <2>3. \E of2 \in SectionsOfRows : TilesBy(of2)'
    BY <2>1, <2>2, TilesStep
  <2>. QED
    BY <2>2, <2>3 DEF TileInv
<1>4. QED
  BY <1>1, <1>2, <1>3, SweepInvariant, PTL DEF Spec

-----------------------------------------------------------------------------
(* Why decode() comes to an end: every step of the worker is paid for from *)
(* a number that no other step adds to.  A section's loop costs less than  *)
(* Block, since the offset only grows and stays below the word.            *)

Rank  == [line |-> 5, decode |-> 4, address |-> 3, publish |-> 2, emit |-> 1]
Block == 6 * WordSize + 7

SectionsLeft == (Len(text) + 1 - section) * Block
AllSections  == (Len(text) + 1) * Block

\* At most as many steps are left to the worker.
StepsLeft ==
    CASE pc = "clear"   -> AllSections + Len(text) + 1
      [] pc = "sum"     -> AllSections + (Len(text) + 1 - Len(sums))
      [] pc = "section" -> SectionsLeft + Block - 1
      [] pc \in InLoop  -> SectionsLeft + 6 * (WordSize - offset) + Rank[pc]
      [] OTHER          -> 0

\* A step of the worker costs at least one, any other step nothing.
WorkerPays == /\ StepsLeft \in Nat /\ (StepsLeft = 0 <=> pc = "done")
              /\ IF Worker THEN StepsLeft' < StepsLeft ELSE StepsLeft' = StepsLeft

LEMMA BlockTimes ==
    /\ Block \in Nat /\ Block >= 6 * WordSize + 7
    /\ \A n \in Nat : n * Block \in Nat /\ (n + 1) * Block = n * Block + Block
<1>1. Block \in Nat /\ Block >= 6 * WordSize + 7
  BY ConstantFacts DEF Block
<1>2. ASSUME NEW b \in Nat, NEW n \in Nat
      PROVE  n * b \in Nat /\ (n + 1) * b = n * b + b
  OBVIOUS
<1>. QED
  BY <1>1, <1>2

LEMMA SectionsLeftNat ==
    ASSUME IInv
    PROVE  /\ SectionsLeft \in Nat /\ AllSections \in Nat
           /\ SectionsLeft + Block <= AllSections
           /\ section <= Len(text) => SectionsLeft >= Block
<1>1. Len(text) \in Nat /\ section \in 1 .. Len(text) + 1
  BY TableFacts DEF IInv, TypeOK
<1>2. PICK n \in Nat : n = Len(text) + 1 - section
  BY <1>1
<1>3. SectionsLeft = n * Block /\ n * Block \in Nat /\ (n + 1) * Block = n * Block + Block
  BY <1>2, BlockTimes DEF SectionsLeft
<1>4. n + 1 <= Len(text) + 1 /\ n + 1 \in Nat /\ Len(text) + 1 \in Nat
  BY <1>1, <1>2
<1>5. AllSections \in Nat
  BY <1>4, BlockTimes DEF AllSections
<1>6. (n + 1) * Block <= AllSections
  <2>1. ASSUME NEW b \in Nat, NEW m \in Nat, NEW k \in Nat, m <= k
        PROVE  m * b <= k * b
    <3>1. (k - m) * b \in Nat /\ k * b = m * b + (k - m) * b
      BY <2>1
    <3>2. m * b \in Nat
      OBVIOUS
    <3>. QED
      BY <3>1, <3>2
  <2>. QED
    BY <1>4, <2>1, BlockTimes DEF AllSections
<1>7. section <= Len(text) => SectionsLeft >= Block
  <2>1. SUFFICES ASSUME section <= Len(text) PROVE SectionsLeft >= Block
    OBVIOUS
  <2>2. PICK m \in Nat : m + 1 = n
    <3>1. n - 1 \in Nat /\ (n - 1) + 1 = n
      BY <1>1, <1>2, <2>1
    <3>. QED
      BY <3>1
  <2>3. (m + 1) * Block = m * Block + Block /\ m * Block \in Nat /\ Block \in Nat
    BY <2>2, BlockTimes
  <2>. QED
    BY <1>3, <2>2, <2>3
<1>. QED
  BY <1>3, <1>5, <1>6, <1>7

LEMMA StepsAreCounted ==
    ASSUME IInv
    PROVE  StepsLeft \in Nat /\ (StepsLeft = 0 <=> pc = "done")
<1>1. /\ SectionsLeft \in Nat /\ AllSections \in Nat
      /\ AllSections >= Block
  BY SectionsLeftNat, BlockTimes
<1>2. Block \in Nat /\ Block >= 7 /\ Len(text) \in Nat
  BY BlockTimes, TableFacts, ConstantFacts DEF IInv
<1>3. CASE pc = "done"
  BY <1>3 DEF StepsLeft, InLoop
<1>4. CASE pc = "clear"
  BY <1>1, <1>2, <1>4 DEF StepsLeft, InLoop
<1>5. CASE pc = "sum"
  <2>1. Len(text) + 1 - Len(sums) \in Nat
    BY <1>2, <1>5 DEF IInv, SectionOpen
  <2>2. StepsLeft = AllSections + (Len(text) + 1 - Len(sums))
    BY <1>5 DEF StepsLeft, InLoop
  <2>. QED
    BY <1>1, <1>2, <1>5, <2>1, <2>2
<1>6. CASE pc = "section"
  <2>1. StepsLeft = SectionsLeft + Block - 1
    BY <1>6 DEF StepsLeft, InLoop
  <2>. QED
    BY <1>1, <1>2, <1>6, <2>1
<1>7. CASE pc \in InLoop
  <2>1. WordSize - offset \in Nat
    BY ConstantFacts DEF IInv, TypeOK
  <2>2. Rank[pc] \in 1 .. 5 /\ pc # "done"
    BY <1>7 DEF Rank, InLoop
  <2>3. StepsLeft = SectionsLeft + 6 * (WordSize - offset) + Rank[pc]
    BY <1>7 DEF StepsLeft, InLoop
  <2>4. PICK n \in Nat, q \in 1 .. 5 : n = WordSize - offset /\ q = Rank[pc]
    BY <2>1, <2>2
  <2>5. StepsLeft = SectionsLeft + 6 * n + q
    BY <2>3, <2>4
  <2>6. SectionsLeft + 6 * n + q \in Nat \ {0}
    BY <1>1
  <2>. QED
    BY <2>2, <2>5, <2>6
<1>8. pc \in {"done", "clear", "sum", "section"} \cup InLoop
  BY DEF IInv, TypeOK, Labels, InLoop
<1>. QED
  BY <1>3, <1>4, <1>5, <1>6, <1>7, <1>8

\* What each statement costs.
LEMMA WorkerStepPays ==
    ASSUME IInv, Worker
    PROVE  StepsLeft \in Nat /\ StepsLeft' < StepsLeft
<1>. DEFINE left == SectionsLeft
            all  == AllSections
<1>0. /\ Len(text) \in Nat /\ Len(sums) \in Nat /\ WordSize \in Nat
      /\ section \in 1 .. Len(text) + 1 /\ offset \in Word /\ next \in Word
      /\ \A k \in 1 .. Len(text) : text[k].offset \in Word
  BY TableFacts, ConstantFacts DEF IInv, TypeOK, Word
<1>1. /\ left \in Nat /\ all \in Nat /\ left + Block <= all
      /\ section <= Len(text) => left >= Block
  BY SectionsLeftNat
<1>2. Block \in Nat /\ Block >= 6 * WordSize + 7 /\ Block >= 7 /\ WordSize \in Nat
  BY <1>0, BlockTimes
<1>3. UNCHANGED text /\ AllSections' = all
  BY DEF Worker, ClearStores, SumSize, Reserve, StartSection, SweepOver, CheckLine, DecodeRow,
     DecodeTruncated, DecodeThrows, PushAddress, Publish, EmitAndAdvance, Ends, Goto, AllSections
<1>4. section' = section => SectionsLeft' = left
  BY <1>3 DEF SectionsLeft
<1>5. section' = section + 1 => left = SectionsLeft' + Block \/ section > Len(text)
  <2>1. SUFFICES ASSUME section' = section + 1, section <= Len(text)
                 PROVE  left = SectionsLeft' + Block
    BY <1>0
  <2>2. Len(text) - section \in Nat /\ (Len(text) - section) + 1 = Len(text) + 1 - section
        /\ Len(text) + 1 - (section + 1) = Len(text) - section
    BY <1>0, <2>1
  <2>3. ((Len(text) - section) + 1) * Block = (Len(text) - section) * Block + Block
    BY <2>2, BlockTimes
  <2>. QED
    BY <1>3, <2>1, <2>2, <2>3 DEF SectionsLeft
<1>6. /\ pc # "clear" => Len(sums) \in 1 .. Len(text) + 1
      /\ pc \in InLoop => section <= Len(text)
      /\ pc = "emit" => offset < next
  BY DEF IInv, SectionOpen
<1>7. pc \in InLoop => StepsLeft = left + 6 * (WordSize - offset) + Rank[pc]
  BY DEF StepsLeft, InLoop
<1>8. pc' \in InLoop => StepsLeft' = SectionsLeft' + 6 * (WordSize - offset') + Rank'[pc']
  BY DEF StepsLeft, InLoop
<1>9. pc' = "section" => StepsLeft' = SectionsLeft' + Block - 1
  BY DEF StepsLeft, InLoop
<1>10. pc' = "done" => StepsLeft' = 0
  BY DEF StepsLeft, InLoop
<1>11. pc' = "sum" => StepsLeft' = AllSections' + (Len(text) + 1 - Len(sums'))
  BY <1>3 DEF StepsLeft, InLoop
<1>12. pc = "sum" => StepsLeft = all + (Len(text) + 1 - Len(sums))
  BY DEF StepsLeft, InLoop
<1>15. pc = "section" => StepsLeft = left + Block - 1
  BY DEF StepsLeft, InLoop
<1>16. pc = "clear" => StepsLeft = all + Len(text) + 1
  BY DEF StepsLeft, InLoop
<1>13. WordSize - offset \in Nat \ {0} /\ WordSize - offset <= WordSize
  BY <1>0, ConstantFacts DEF Word
<1>14. /\ Rank.line = 5 /\ Rank.decode = 4 /\ Rank.address = 3 /\ Rank.publish = 2 /\ Rank.emit = 1
       /\ Rank' = Rank
  BY DEF Rank
<1>. HIDE DEF left, all
<1>c1. CASE ClearStores
  <2>1. StepsLeft = all + Len(text) + 1
    BY <1>16, <1>c1 DEF ClearStores
  <2>2. pc' = "sum" /\ Len(sums') = 1
    BY <1>c1 DEF ClearStores, Goto
  <2>3. StepsLeft' = all + Len(text)
    BY <1>0, <1>1, <1>3, <1>11, <2>2
  <2>. QED
    BY <1>0, <1>1, <2>1, <2>3
<1>c2. CASE SumSize
  <2>1. pc = "sum" /\ pc' = "sum" /\ Len(sums') = Len(sums) + 1 /\ Len(sums) <= Len(text)
    <3>1. sums \in Seq(Word)
      BY DEF IInv, TypeOK, Word
    <3>. QED
      BY <1>c2, <3>1 DEF SumSize, Goto
  <2>2. StepsLeft' = all + (Len(text) + 1 - (Len(sums) + 1))
    BY <1>3, <1>11, <2>1
  <2>. QED
    BY <1>0, <1>1, <1>12, <2>1, <2>2
<1>c3. CASE Reserve
  <2>1. pc = "sum" /\ Len(sums) = Len(text) + 1 /\ section' = section
        /\ pc' \in {"done", "section"}
    BY <1>c3 DEF Reserve, Ends, Goto
  <2>2. StepsLeft = all
    BY <1>0, <1>1, <1>12, <2>1
  <2>3. StepsLeft' = 0 \/ StepsLeft' = left + Block - 1
    BY <1>4, <1>9, <1>10, <2>1
  <2>. QED
    BY <1>1, <1>2, <2>2, <2>3
<1>c4. CASE StartSection
  <2>1. /\ pc = "section" /\ pc' = "line" /\ section' = section
        /\ section <= Len(text) /\ offset' = text[section].offset
    BY <1>c4 DEF StartSection, Goto
  <2>2. StepsLeft = left + Block - 1
    BY <1>15, <2>1
  <2>3. StepsLeft' = left + 6 * (WordSize - offset') + 5
    BY <1>4, <1>8, <1>14, <2>1 DEF InLoop
  <2>4. PICK n \in Nat : n = WordSize - offset' /\ n <= WordSize
    <3>1. offset' \in Word
      BY <1>0, <2>1
    <3>2. \A o \in Word : WordSize - o \in Nat /\ WordSize - o <= WordSize
      BY ConstantFacts DEF Word
    <3>. QED
      BY <3>1, <3>2
  <2>. QED
    BY <1>0, <1>1, <1>2, <2>2, <2>3, <2>4
<1>c5. CASE SweepOver \/ DecodeThrows
  <2>1. pc' = "done" /\ pc \in {"section", "decode"}
    BY <1>c5 DEF SweepOver, DecodeThrows, Ends, Goto
  <2>2. StepsLeft \in Nat /\ StepsLeft > 0
    <3>1. CASE pc = "section"
      <4>1. StepsLeft = left + Block - 1
        BY <1>15, <3>1
      <4>. QED
        BY <1>0, <1>1, <1>2, <4>1
    <3>2. CASE pc = "decode"
      <4>1. StepsLeft = left + 6 * (WordSize - offset) + 4
        BY <1>7, <1>14, <3>2 DEF InLoop
      <4>. QED
        BY <1>1, <1>13, <4>1
    <3>. QED
      BY <2>1, <3>1, <3>2
  <2>. QED
    BY <1>10, <2>1, <2>2
<1>c6. CASE CheckLine \/ Publish
  <2>1. /\ pc \in {"line", "publish"} /\ offset' = offset
        /\ \/ pc' = "section" /\ section' = section + 1
           \/ pc = "line" /\ pc' = "decode" /\ section' = section
           \/ pc = "publish" /\ pc' = "emit" /\ section' = section
    BY <1>c6 DEF CheckLine, Publish, Goto
  <2>2. StepsLeft = left + 6 * (WordSize - offset) + Rank[pc] /\ Rank[pc] \in 2 .. 5
        /\ section <= Len(text)
    BY <1>6, <1>7, <1>14, <2>1 DEF InLoop
  <2>3. CASE pc' = "section" /\ section' = section + 1
    <3>1. StepsLeft' = SectionsLeft' + Block - 1 /\ left = SectionsLeft' + Block
      BY <1>0, <1>5, <1>9, <2>2, <2>3 DEF left
    <3>2. SectionsLeft' \in Int
      BY <1>0, <1>2, <1>3, <2>3 DEF SectionsLeft
    <3>3. PICK n \in Nat, q \in 2 .. 5 : n = WordSize - offset /\ q = Rank[pc]
      BY <1>13, <2>2
    <3>4. StepsLeft = left + 6 * n + q
      BY <2>2, <3>3
    <3>5. StepsLeft' \in Int /\ StepsLeft' = left - 1
      BY <1>1, <1>2, <3>1, <3>2
    <3>. QED
      BY <1>1, <3>4, <3>5
  <2>4. CASE section' = section
    <3>1. pc' \in {"decode", "emit"} /\ Rank[pc'] \in Nat /\ Rank[pc'] < Rank[pc]
      BY <1>0, <1>14, <2>1, <2>4
    <3>2. StepsLeft' = left + 6 * (WordSize - offset) + Rank[pc']
      BY <1>4, <1>8, <1>14, <2>1, <2>4, <3>1 DEF InLoop
    <3>3. PICK n \in Nat, q \in Nat, q2 \in Nat :
              n = WordSize - offset /\ q = Rank[pc] /\ q2 = Rank[pc']
      BY <1>13, <2>2, <3>1
    <3>4. StepsLeft = left + 6 * n + q /\ StepsLeft' = left + 6 * n + q2 /\ q2 < q
      BY <2>2, <3>1, <3>2, <3>3
    <3>. QED
      BY <1>1, <3>4
  <2>. QED
    BY <2>1, <2>3, <2>4
<1>c7. CASE DecodeRow \/ DecodeTruncated \/ PushAddress
  <2>1. /\ offset' = offset /\ section' = section
        /\ \/ pc = "decode" /\ pc' = "address"
           \/ pc = "address" /\ pc' = "publish"
    BY <1>c7 DEF DecodeRow, DecodeTruncated, PushAddress, Goto
  <2>2. StepsLeft = left + 6 * (WordSize - offset) + Rank[pc]
        /\ StepsLeft' = left + 6 * (WordSize - offset) + Rank[pc']
    BY <1>4, <1>7, <1>8, <1>14, <2>1 DEF InLoop
  <2>3. Rank[pc] \in Nat /\ Rank[pc'] \in Nat /\ Rank[pc'] < Rank[pc]
    BY <1>14, <2>1
  <2>4. \A n \in Nat, q \in Nat, q2 \in Nat :
            q2 < q => left + 6 * n + q \in Nat /\ left + 6 * n + q2 < left + 6 * n + q
    BY <1>1
  <2>. QED
    BY <1>13, <2>2, <2>3, <2>4
<1>c8. CASE EmitAndAdvance
  <2>1. pc = "emit" /\ pc' = "line" /\ section' = section /\ offset' = next /\ offset < next
    BY <1>6, <1>c8 DEF EmitAndAdvance, Goto
  <2>2. StepsLeft = left + 6 * (WordSize - offset) + 1
        /\ StepsLeft' = left + 6 * (WordSize - next) + 5
    BY <1>4, <1>7, <1>8, <1>14, <2>1 DEF InLoop
  <2>3. PICK n \in Nat, n2 \in Nat : n = WordSize - offset /\ n2 = WordSize - next /\ n2 < n
    BY <1>0, <1>13, <2>1 DEF Word
  <2>4. left + 6 * n + 1 \in Nat /\ left + 6 * n2 + 5 < left + 6 * n + 1
    BY <1>1, <2>3
  <2>5. StepsLeft = left + 6 * n + 1 /\ StepsLeft' = left + 6 * n2 + 5
    BY <2>2, <2>3
  <2>. QED
    BY <2>4, <2>5
<1>. QED
  BY <1>c1, <1>c2, <1>c3, <1>c4, <1>c5, <1>c6, <1>c7, <1>c8 DEF Worker
\* Whoever else moves, the steps that are left stay the same.
LEMMA OthersPayNothing ==
    ASSUME RequestStop \/ Reader \/ Finished \/ UNCHANGED vars
    PROVE  StepsLeft' = StepsLeft
<1>1. UNCHANGED <<text, pc, sums, section, offset>>
  BY DEF RequestStop, Reader, AcquireReady, BeginRead, EndRead, Finished, vars, workerVars
<1>2. SectionsLeft' = SectionsLeft /\ AllSections' = AllSections /\ Rank' = Rank
  BY <1>1 DEF SectionsLeft, AllSections, Rank
<1>. QED
  BY <1>1, <1>2 DEF StepsLeft

\* decode() cannot run forever: whatever the section table, the lengths decoded and the
\* moment of a stop, each step of the worker lowers StepsLeft, a natural number that is zero
\* when the sweep is over, and no step of a reader or of who asks for the stop changes it.
THEOREM SweepRunsDown == Spec => [][WorkerPays]_vars
<1>1. ASSUME IInv, [Next]_vars
      PROVE  WorkerPays
  <2>1. StepsLeft \in Nat /\ (StepsLeft = 0 <=> pc = "done")
    BY <1>1, StepsAreCounted
  <2>2. Worker => StepsLeft' < StepsLeft
    BY <1>1, WorkerStepPays
  <2>3. ~Worker => StepsLeft' = StepsLeft
    BY <1>1, OthersPayNothing DEF Next
  <2>. QED
    BY <2>1, <2>2, <2>3 DEF WorkerPays
<1>. QED
  BY <1>1, SweepInvariant, PTL DEF Spec
=============================================================================
