------------------------- MODULE AsyncSession_proofs -------------------------
(***************************************************************************)
(* For every number of opens and rows: the Session never runs two sweeps,  *)
(* owns what is being decoded, publishes a worker's outcome before saying  *)
(* that it is over, and looks like a DecodeFeed to the front ends.         *)
(***************************************************************************)
EXTENDS AsyncSession, TLAPS

\* A worker has told the UI thread that it is over.
Stopped == {"exiting", "over"}

\* Generations come one after another, each with a worker of its own, and the last
\* one's alone may still be live.
OneAfterAnother ==
    \A g \in Gens : /\ g > gen => work[g] = "none" /\ rows[g] = 0
                    /\ g = gen => work[g] # "none"
                    /\ g < gen => work[g] = "over"

\* Where a worker is says what its DecodeState holds.
StateFollows ==
    \A g \in Gens :
      /\ state[g].running <=> work[g] \notin Stopped \cup {"none"}
      /\ work[g] \in Decoding \cup {"changed", "error"} =>
           state[g].note = "none" /\ ~state[g].fileChanged
      /\ work[g] = "flag" => state[g].note = "changed"
      /\ work[g] \in Stopped \cup {"ending"} =>
           (state[g].fileChanged <=> state[g].note = "changed")
      /\ work[g] = "line" => rows[g] < MaxRows

\* What the Session holds, by where open() is.
Holds ==
    /\ ui \in {"idle", "detecting", "closing"} => binary = gen
    /\ ui \in {"detecting", "joining"} => gen < MaxOpens
    /\ ui = "joining" => binary = gen + 1
    /\ ui = "gone" => binary = 0 /\ Joined

\* Every owner of a pair is counted once.
OwnedBySession(g) == IF g = binary THEN 1 ELSE 0
OwnedByOpen(g)    == IF ui = "detecting" /\ g = gen + 1 THEN 1 ELSE 0
OwnedByWorker(g)  == IF work[g] \in Live THEN 1 ELSE 0

RefsCounted ==
    \A g \in Gens : refs[g] = OwnedBySession(g) + OwnedByOpen(g) + OwnedByWorker(g)

\* The inductive invariant.
IInv == TypeOK /\ OneAfterAnother /\ StateFollows /\ Holds /\ RefsCounted /\ CompactAlone
-----------------------------------------------------------------------------

LEMMA GenFacts ==
    ASSUME TypeOK
    PROVE  /\ MaxOpens \in Nat /\ MaxRows \in Nat /\ gen \in Nat /\ gen <= MaxOpens
           /\ gen < MaxOpens => gen + 1 \in Gens
           /\ gen > 0 => gen \in Gens
           /\ \A g \in Gens : g \in Nat
  BY SessionAssumption DEF TypeOK, Gens

LEMMA InitIInv == Init => IInv
  BY SessionAssumption DEF Init, IInv, TypeOK, OneAfterAnother, StateFollows, Holds, RefsCounted,
     CompactAlone, OwnedBySession, OwnedByOpen, OwnedByWorker, UiLabels, WorkLabels, Live,
     Decoding, Stopped, States, FreshState, Gens, Joined

\* What a step of one worker leaves alone.
LEMMA WorkerFrame ==
    ASSUME NEW g \in Gens, TypeOK, Worker(g)
    PROVE  /\ UNCHANGED <<uiVars, stop>>
           /\ \A h \in Gens : h # g => /\ work'[h] = work[h]
                                       /\ rows'[h] = rows[h]
                                       /\ state'[h] = state[h]
                                       /\ refs'[h] = refs[h]
  BY DEF TypeOK, Worker, StartLine, DecodeReturns, PublishLine, DecodeThrows, WriteNote,
     RaiseFlag, ClearRunning, ThreadEnds, WorkerGoto

\* Where it goes.
Moves == {<<"check", "line">>, <<"check", "ending">>, <<"line", "check">>,
          <<"line", "changed">>, <<"line", "error">>, <<"changed", "flag">>,
          <<"error", "ending">>, <<"flag", "ending">>, <<"ending", "exiting">>,
          <<"exiting", "over">>}

\* What it does to its own entries.
LEMMA WorkerEffect ==
    ASSUME NEW g \in Gens, TypeOK, Worker(g)
    PROVE  /\ <<work[g], work'[g]>> \in Moves
           /\ work'[g] = "line" => rows[g] < MaxRows
           /\ rows'[g] = IF work[g] = "line" /\ work'[g] = "check" THEN rows[g] + 1
                                                                   ELSE rows[g]
           /\ refs'[g] = IF work[g] = "exiting" THEN refs[g] - 1 ELSE refs[g]
           /\ state'[g] = IF work[g] \in {"changed", "error"}
                            THEN [state[g] EXCEPT !.note = work[g]]
                          ELSE IF work[g] = "flag"
                            THEN [state[g] EXCEPT !.fileChanged = TRUE]
                          ELSE IF work[g] = "ending"
                            THEN [state[g] EXCEPT !.running = FALSE]
                          ELSE state[g]
<1>0. /\ work[g] \in WorkLabels /\ g \in DOMAIN work /\ g \in DOMAIN rows
      /\ g \in DOMAIN refs /\ g \in DOMAIN state
  BY DEF TypeOK
<1>1. CASE StartLine(g)
  BY <1>0, <1>1 DEF StartLine, WorkerGoto, At, Moves
<1>2. CASE DecodeReturns(g)
  BY <1>0, <1>2 DEF DecodeReturns, WorkerGoto, At, Moves
<1>3. CASE PublishLine(g)
  BY <1>0, <1>3 DEF PublishLine, WorkerGoto, At, Moves
<1>4. CASE DecodeThrows(g)
  BY <1>0, <1>4 DEF DecodeThrows, WorkerGoto, At, Moves
<1>5. CASE WriteNote(g)
  BY <1>0, <1>5 DEF WriteNote, WorkerGoto, At, Moves
<1>6. CASE RaiseFlag(g)
  BY <1>0, <1>6 DEF RaiseFlag, WorkerGoto, At, Moves
<1>7. CASE ClearRunning(g)
  BY <1>0, <1>7 DEF ClearRunning, WorkerGoto, At, Moves
<1>8. CASE ThreadEnds(g)
  BY <1>0, <1>8 DEF ThreadEnds, WorkerGoto, At, Moves
<1>9. QED
  BY <1>1, <1>2, <1>3, <1>4, <1>5, <1>6, <1>7, <1>8 DEF Worker

\* The DecodeState it leaves, field by field.
LEMMA WorkerState ==
    ASSUME NEW g \in Gens, TypeOK, Worker(g)
    PROVE  /\ state'[g] \in States
           /\ state'[g].running <=> state[g].running /\ work[g] # "ending"
           /\ state'[g].note = IF work[g] \in {"changed", "error"} THEN work[g]
                                                                   ELSE state[g].note
           /\ state'[g].fileChanged <=> state[g].fileChanged \/ work[g] = "flag"
<1>1. state[g] \in States
  BY DEF TypeOK
<1>2. CASE work[g] \in {"changed", "error"}
  <2>1. state'[g] = [state[g] EXCEPT !.note = work[g]]
    BY <1>2, WorkerEffect
  <2>2. QED
    BY <1>1, <1>2, <2>1 DEF States
<1>3. CASE work[g] = "flag"
  <2>1. state'[g] = [state[g] EXCEPT !.fileChanged = TRUE]
    BY <1>3, WorkerEffect
  <2>2. QED
    BY <1>1, <1>3, <2>1 DEF States
<1>4. CASE work[g] = "ending"
  <2>1. state'[g] = [state[g] EXCEPT !.running = FALSE]
    BY <1>4, WorkerEffect
  <2>2. QED
    BY <1>1, <1>4, <2>1 DEF States
<1>5. CASE work[g] \notin {"changed", "error", "flag", "ending"}
  <2>1. state'[g] = state[g]
    BY <1>5, WorkerEffect
  <2>2. QED
    BY <1>1, <1>5, <2>1
<1>6. QED
  BY <1>2, <1>3, <1>4, <1>5

-----------------------------------------------------------------------------
(* One lemma per step of the UI thread that changes more than `ui', and    *)
(* one for the workers; the conjuncts of IInv are the steps of each.       *)

LEMMA WorkerStep == IInv /\ (\E g \in Gens : Worker(g)) => IInv'
<1> SUFFICES ASSUME IInv, NEW g \in Gens, Worker(g) PROVE IInv'
  OBVIOUS
<1>0. /\ TypeOK /\ OneAfterAnother /\ StateFollows /\ Holds /\ RefsCounted /\ CompactAlone
      /\ g \in Nat /\ gen \in Nat /\ MaxRows \in Nat
  BY GenFacts DEF IInv
<1>1. /\ UNCHANGED <<ui, openResult, binary, gen, shrunk, stop>>
      /\ \A h \in Gens : h # g => /\ work'[h] = work[h] /\ rows'[h] = rows[h]
                                  /\ state'[h] = state[h] /\ refs'[h] = refs[h]
  BY <1>0, WorkerFrame DEF uiVars
<1>e. /\ <<work[g], work'[g]>> \in Moves
      /\ work'[g] = "line" => rows[g] < MaxRows
      /\ rows'[g] = IF work[g] = "line" /\ work'[g] = "check" THEN rows[g] + 1 ELSE rows[g]
      /\ refs'[g] = IF work[g] = "exiting" THEN refs[g] - 1 ELSE refs[g]
  BY <1>0, WorkerEffect
<1>s. /\ rows[g] \in 0 .. MaxRows /\ refs[g] \in Nat /\ state[g] \in States
      /\ work[g] = "line" => rows[g] < MaxRows
  BY <1>0 DEF TypeOK, StateFollows
<1>2. work[g] \in Live /\ work'[g] \in WorkLabels /\ g = gen
  <2>1. work[g] \in Live /\ work'[g] \in WorkLabels
    BY <1>e DEF Live, WorkLabels, Moves
  <2>2. QED
    BY <1>0, <2>1 DEF OneAfterAnother, Live
<1>3. TypeOK'
  <2>1. /\ work' \in [Gens -> WorkLabels]
        /\ rows' \in [Gens -> 0 .. MaxRows]
        /\ refs' \in [Gens -> Nat]
        /\ state' \in [Gens -> States]
    <3>1. rows'[g] \in 0 .. MaxRows
      BY <1>0, <1>e, <1>s
    <3>2. refs'[g] \in Nat
      <4>1. refs[g] = OwnedBySession(g) + OwnedByOpen(g) + 1
        BY <1>0, <1>2 DEF RefsCounted, OwnedByWorker
      <4>2. refs[g] >= 1
        BY <4>1 DEF OwnedBySession, OwnedByOpen
      <4>3. QED
        BY <1>e, <1>s, <4>2
    <3>3. state'[g] \in States
      BY <1>0, WorkerState
    <3>4. /\ work' = [work EXCEPT ![g] = work'[g]]
          /\ rows' = [rows EXCEPT ![g] = rows'[g]]
          /\ refs' = [refs EXCEPT ![g] = refs'[g]]
          /\ state' = [state EXCEPT ![g] = state'[g]]
      BY <1>0 DEF TypeOK, Worker, StartLine, DecodeReturns, PublishLine, DecodeThrows,
         WriteNote, RaiseFlag, ClearRunning, ThreadEnds, WorkerGoto
    <3>5. QED
      BY <1>0, <1>2, <3>1, <3>2, <3>3, <3>4 DEF TypeOK
  <2>2. QED
    BY <1>0, <1>1, <2>1 DEF TypeOK
<1>4. OneAfterAnother'
  <2>1. work'[g] # "none"
    BY <1>e DEF Moves
  <2>2. QED
    BY <1>0, <1>1, <1>2, <2>1 DEF OneAfterAnother
<1>5. StateFollows'
  <2>1. ASSUME NEW h \in Gens, h # g
        PROVE  /\ work'[h] = work[h] /\ rows'[h] = rows[h] /\ state'[h] = state[h]
    BY <1>1, <2>1
  <2>2. /\ state'[g].running <=> work'[g] \notin Stopped \cup {"none"}
        /\ work'[g] \in Decoding \cup {"changed", "error"} =>
             state'[g].note = "none" /\ ~state'[g].fileChanged
        /\ work'[g] = "flag" => state'[g].note = "changed"
        /\ work'[g] \in Stopped \cup {"ending"} =>
             (state'[g].fileChanged <=> state'[g].note = "changed")
        /\ work'[g] = "line" => rows'[g] < MaxRows
    <3>1. /\ state'[g].running <=> state[g].running /\ work[g] # "ending"
          /\ state'[g].note = IF work[g] \in {"changed", "error"} THEN work[g]
                                                                 ELSE state[g].note
          /\ state'[g].fileChanged <=> state[g].fileChanged \/ work[g] = "flag"
      BY <1>0, WorkerState
    <3>2. /\ state[g].running <=> work[g] \notin Stopped \cup {"none"}
          /\ work[g] \in Decoding \cup {"changed", "error"} =>
               state[g].note = "none" /\ ~state[g].fileChanged
          /\ work[g] = "flag" => state[g].note = "changed"
          /\ work[g] \in Stopped \cup {"ending"} =>
               (state[g].fileChanged <=> state[g].note = "changed")
      BY <1>0 DEF StateFollows
    <3>3. work'[g] = "line" => rows'[g] < MaxRows
      BY <1>e DEF Moves
    <3>4. QED
      BY <1>e, <3>1, <3>2, <3>3 DEF Moves, Stopped, Decoding
  <2>3. QED
    BY <1>0, <2>1, <2>2 DEF StateFollows
<1>6. Holds'
  <2>1. ui # "gone"
    <3>1. gen > 0 /\ work[gen] # "over"
      BY <1>0, <1>2 DEF Live, Gens
    <3>2. QED
      BY <1>0, <3>1 DEF Holds, Joined
  <2>2. QED
    BY <1>0, <1>1, <2>1 DEF Holds
<1>7. RefsCounted'
  <2>1. ASSUME NEW h \in Gens
        PROVE  OwnedBySession(h)' = OwnedBySession(h) /\ OwnedByOpen(h)' = OwnedByOpen(h)
    BY <1>1 DEF OwnedBySession, OwnedByOpen
  <2>2. refs'[g] = refs[g] - OwnedByWorker(g) + OwnedByWorker(g)'
    <3>1. OwnedByWorker(g) = 1 /\ OwnedByWorker(g)' = IF work'[g] = "over" THEN 0 ELSE 1
      BY <1>e, <1>2 DEF OwnedByWorker, Live, Moves
    <3>2. work'[g] = "over" <=> work[g] = "exiting"
      BY <1>e DEF Moves
    <3>3. QED
      BY <1>e, <1>s, <3>1, <3>2
  <2>3. /\ OwnedBySession(g) \in Nat /\ OwnedByOpen(g) \in Nat
        /\ OwnedByWorker(g) \in Nat /\ OwnedByWorker(g)' \in Nat
    BY DEF OwnedBySession, OwnedByOpen, OwnedByWorker
  <2>4. refs'[g] = OwnedBySession(g)' + OwnedByOpen(g)' + OwnedByWorker(g)'
    BY <1>0, <2>1, <2>2, <2>3 DEF RefsCounted
  <2>5. ASSUME NEW h \in Gens, h # g
        PROVE  refs'[h] = OwnedBySession(h)' + OwnedByOpen(h)' + OwnedByWorker(h)'
    BY <1>0, <1>1, <2>1, <2>5 DEF RefsCounted, OwnedByWorker
  <2>6. QED
    BY <2>4, <2>5 DEF RefsCounted
<1>8. CompactAlone'
  <2>1. work[g] \in Stopped => work'[g] \in Stopped
    BY <1>e DEF Moves, Stopped
  <2>2. QED
    BY <1>0, <1>1, <2>1 DEF CompactAlone, Stopped, TypeOK
<1>9. QED
  BY <1>3, <1>4, <1>5, <1>6, <1>7, <1>8 DEF IInv
\* The steps of the UI thread that leave the workers and the owners alone.
LEMMA QuietStep ==
    ASSUME IInv,
           OpenFails \/ Compact \/ PollThrows \/ Close \/ Gone \/ UNCHANGED vars
    PROVE  IInv'
<1>0. /\ TypeOK /\ OneAfterAnother /\ StateFollows /\ Holds /\ RefsCounted /\ CompactAlone
  BY DEF IInv
<1>1. /\ UNCHANGED <<binary, gen, refs, work, rows, state>>
      /\ ui' = ui \/ (ui = "idle" /\ ui' = "closing")
  BY DEF OpenFails, Compact, PollThrows, Close, Gone, vars, uiVars, workerVars
<1>2. TypeOK'
  <2>1. openResult' \in {"none", "loaded", "failed", "threw"} /\ ui' \in UiLabels
    BY <1>0, <1>1 DEF TypeOK, UiLabels, OpenFails, Compact, PollThrows, Close, Gone, vars, uiVars
  <2>2. shrunk' \subseteq Gens
    <3>1. CASE Compact
      <4>1. binary \in Gens
        BY <1>0, <3>1, SessionAssumption DEF TypeOK, Gens, Compact
      <4>2. shrunk' = shrunk \cup {binary}
        BY <3>1 DEF Compact
      <4>3. QED
        BY <1>0, <4>1, <4>2 DEF TypeOK
    <3>2. CASE ~Compact
      <4>1. shrunk' = shrunk
        BY <3>2 DEF OpenFails, PollThrows, Close, Gone, vars, uiVars
      <4>2. QED
        BY <1>0, <4>1 DEF TypeOK
    <3>3. QED
      BY <3>1, <3>2
  <2>3. stop' \in [Gens -> BOOLEAN]
    BY <1>0 DEF TypeOK, StopRequested, OpenFails, Compact, PollThrows, Close, Gone, vars, uiVars
  <2>4. QED
    BY <1>0, <1>1, <2>1, <2>2, <2>3 DEF TypeOK
<1>3. OneAfterAnother' /\ StateFollows'
  BY <1>0, <1>1 DEF OneAfterAnother, StateFollows
<1>4. Holds'
  BY <1>0, <1>1 DEF Holds, Joined
<1>5. RefsCounted'
  BY <1>0, <1>1 DEF RefsCounted, OwnedBySession, OwnedByOpen, OwnedByWorker
<1>6. CompactAlone'
  <2>1. CASE Compact
    <3>1. binary = gen /\ binary # 0 /\ binary \in Gens /\ ~state[gen].running
      BY <1>0, <2>1, GenFacts DEF Compact, Holds, IsDecoding, Gens, TypeOK
    <3>2. work[gen] \in Stopped
      BY <1>0, <3>1 DEF StateFollows, OneAfterAnother
    <3>3. QED
      BY <1>0, <1>1, <2>1, <3>1, <3>2 DEF CompactAlone, Compact, Stopped
  <2>2. CASE ~Compact
    <3>1. shrunk' = shrunk
      BY <2>2 DEF OpenFails, PollThrows, Close, Gone, vars, uiVars
    <3>2. QED
      BY <1>0, <1>1, <3>1 DEF CompactAlone
  <2>3. QED
    BY <2>1, <2>2
<1>7. QED
  BY <1>2, <1>3, <1>4, <1>5, <1>6 DEF IInv

\* open() creating, dropping and adopting a pair, and the Session's end.
LEMMA OwnerStep ==
    ASSUME IInv, OpenLoads \/ DetectThrows \/ Adopt \/ Closed
    PROVE  IInv'
<1>0. /\ TypeOK /\ OneAfterAnother /\ StateFollows /\ Holds /\ RefsCounted /\ CompactAlone
      /\ gen \in Nat /\ MaxOpens \in Nat
      /\ \A g \in Gens : g \in Nat
  BY GenFacts DEF IInv
<1>1. UNCHANGED <<gen, shrunk, work, rows, state>>
  BY DEF OpenLoads, DetectThrows, Adopt, Closed, workerVars
<1>2. OneAfterAnother' /\ StateFollows' /\ CompactAlone'
  BY <1>0, <1>1 DEF OneAfterAnother, StateFollows, CompactAlone
<1>3. \A g \in Gens : OwnedByWorker(g)' = OwnedByWorker(g) /\ OwnedByWorker(g) \in Nat
  BY <1>1 DEF OwnedByWorker
<1>4. Holds'
  BY <1>0, <1>1 DEF Holds, Joined, OpenLoads, DetectThrows, Adopt, Closed
<1>5. /\ refs' \in [Gens -> Nat]
      /\ RefsCounted'
  <2>1. CASE OpenLoads
    <3>1. /\ gen + 1 \in Gens /\ binary = gen /\ binary' = binary /\ ui = "idle"
          /\ ui' = "detecting" /\ refs' = [refs EXCEPT ![gen + 1] = 1]
      BY <1>0, <2>1 DEF OpenLoads, Holds, Gens
    <3>2. OwnedByWorker(gen + 1) = 0
      BY <1>0, <3>1 DEF OneAfterAnother, OwnedByWorker, Live
    <3>3. QED
      BY <1>0, <1>1, <1>3, <3>1, <3>2 DEF RefsCounted, OwnedBySession, OwnedByOpen, TypeOK
  <2>2. CASE DetectThrows
    <3>1. /\ gen + 1 \in Gens /\ binary = gen /\ binary' = binary /\ ui = "detecting"
          /\ ui' = "closing" /\ refs' = [refs EXCEPT ![gen + 1] = 0]
      BY <1>0, <2>2 DEF DetectThrows, Holds, Gens
    <3>2. OwnedByWorker(gen + 1) = 0
      BY <1>0, <3>1 DEF OneAfterAnother, OwnedByWorker, Live
    <3>3. QED
      BY <1>0, <1>1, <1>3, <3>1, <3>2 DEF RefsCounted, OwnedBySession, OwnedByOpen, TypeOK
  <2>3. CASE Adopt
    <3>1. /\ gen + 1 \in Gens /\ binary = gen /\ binary' = gen + 1 /\ ui = "detecting"
          /\ ui' = "joining" /\ refs' = Released
      BY <1>0, <2>3 DEF Adopt, Holds, Gens
    <3>2. ASSUME NEW g \in Gens
          PROVE  /\ refs'[g] \in Nat
                 /\ refs'[g] = OwnedBySession(g)' + OwnedByOpen(g)' + OwnedByWorker(g)'
      <4>1. /\ refs[g] = OwnedBySession(g) + OwnedByOpen(g) + OwnedByWorker(g)
            /\ refs'[g] = IF g = gen THEN refs[g] - 1 ELSE refs[g]
        BY <1>0, <3>1 DEF RefsCounted, Released
      <4>2. QED
        BY <1>0, <1>1, <1>3, <3>1, <4>1 DEF OwnedBySession, OwnedByOpen
    <3>3. QED
      BY <3>1, <3>2 DEF RefsCounted, Released
  <2>4. CASE Closed
    <3>1. /\ binary = gen /\ binary' = 0 /\ ui = "closing"
          /\ ui' = "gone" /\ refs' = Released
      BY <1>0, <2>4 DEF Closed, Holds
    <3>2. ASSUME NEW g \in Gens
          PROVE  /\ refs'[g] \in Nat
                 /\ refs'[g] = OwnedBySession(g)' + OwnedByOpen(g)' + OwnedByWorker(g)'
      <4>1. /\ refs[g] = OwnedBySession(g) + OwnedByOpen(g) + OwnedByWorker(g)
            /\ refs'[g] = IF g = gen THEN refs[g] - 1 ELSE refs[g]
            /\ g # 0
        BY <1>0, <3>1 DEF RefsCounted, Released, Gens
      <4>2. QED
        BY <1>0, <1>1, <1>3, <3>1, <4>1 DEF OwnedBySession, OwnedByOpen
    <3>3. QED
      BY <3>1, <3>2 DEF RefsCounted, Released
  <2>5. QED
    BY <2>1, <2>2, <2>3, <2>4
<1>6. TypeOK'
  <2>1. /\ openResult' \in {"none", "loaded", "failed", "threw"} /\ ui' \in UiLabels
        /\ binary' \in 0 .. MaxOpens
    BY <1>0 DEF TypeOK, UiLabels, Holds, OpenLoads, DetectThrows, Adopt, Closed
  <2>2. stop' \in [Gens -> BOOLEAN]
    BY <1>0 DEF TypeOK, StopRequested, OpenLoads, DetectThrows, Adopt, Closed
  <2>3. QED
    BY <1>0, <1>1, <1>5, <2>1, <2>2 DEF TypeOK
<1>7. QED
  BY <1>2, <1>4, <1>5, <1>6 DEF IInv

\* A new generation begins.
LEMMA LaunchStep ==
    ASSUME IInv, Launch
    PROVE  IInv'
<1>0. /\ TypeOK /\ OneAfterAnother /\ StateFollows /\ Holds /\ RefsCounted /\ CompactAlone
      /\ gen \in Nat /\ MaxOpens \in Nat
      /\ \A g \in Gens : g \in Nat
  BY GenFacts DEF IInv
<1> DEFINE new == gen + 1
<1>1. /\ new \in Gens /\ gen < MaxOpens /\ binary = new /\ gen' = new /\ ui = "joining"
      /\ ui' = "idle" /\ UNCHANGED <<binary, shrunk, rows, stop>> /\ openResult' = "loaded"
      /\ Joined
  BY <1>0 DEF Launch, Holds, Gens
<1>2. /\ work[new] = "none" /\ rows[new] = 0
      /\ work'[new] = "check"
      /\ state'[new] = [running |-> TRUE, note |-> "none", fileChanged |-> FALSE]
      /\ refs'[new] = refs[new] + 1
      /\ \A g \in Gens : g # new => /\ work'[g] = work[g]
                                    /\ state'[g] = state[g]
                                    /\ refs'[g] = refs[g]
  <2>1. work[new] = "none" /\ rows[new] = 0
    BY <1>0, <1>1 DEF OneAfterAnother
  <2>2. QED
    BY <1>0, <1>1, <2>1 DEF Launch, TypeOK, RunningState
<1>3. TypeOK'
  <2>1. work' \in [Gens -> WorkLabels]
    BY <1>0, <1>1 DEF TypeOK, Launch, WorkLabels
  <2>2. refs' \in [Gens -> Nat]
    BY <1>0, <1>1 DEF TypeOK, Launch
  <2>3. state' \in [Gens -> States]
    <3>1. RunningState \in States
      BY DEF RunningState, States
    <3>2. QED
      BY <1>0, <1>1, <3>1 DEF TypeOK, Launch
  <2>4. gen' \in 0 .. MaxOpens
    BY <1>0, <1>1
  <2> HIDE DEF new
  <2>5. QED
    BY <1>0, <1>1, <2>1, <2>2, <2>3, <2>4 DEF TypeOK, UiLabels
<1>4. OneAfterAnother'
  <2>1. ASSUME NEW g \in Gens
        PROVE  /\ g > new => work'[g] = "none" /\ rows'[g] = 0
               /\ g = new => work'[g] # "none"
               /\ g < new => work'[g] = "over"
    <3>1. CASE g > new
      BY <1>0, <1>1, <1>2, <3>1 DEF OneAfterAnother
    <3>2. CASE g = new
      BY <1>0, <1>2, <3>2
    <3>3. CASE g < new
      <4>1. g \in Nat /\ g # new /\ g <= gen
        BY <1>0, <3>3
      <4>2. work[g] = "over"
        BY <1>0, <1>1, <4>1 DEF OneAfterAnother, Joined, Gens
      <4>3. QED
        BY <1>0, <1>2, <3>3, <4>1, <4>2
    <3>4. QED
      BY <1>0, <3>1, <3>2, <3>3
  <2>2. QED
    BY <1>1, <2>1 DEF OneAfterAnother
<1>5. StateFollows'
  <2>1. ASSUME NEW g \in Gens, g # new
        PROVE  /\ work'[g] = work[g] /\ state'[g] = state[g] /\ rows'[g] = rows[g]
    BY <1>1, <1>2, <2>1
  <2>2. work'[new] = "check" /\ state'[new].running /\ state'[new].note = "none"
        /\ ~state'[new].fileChanged
    BY <1>2
  <2> HIDE DEF new
  <2>3. QED
    BY <1>0, <2>1, <2>2 DEF StateFollows, Stopped, Decoding
<1>6. Holds'
  BY <1>0, <1>1 DEF Holds
<1>7. RefsCounted'
  <2>1. ASSUME NEW g \in Gens
        PROVE  /\ OwnedBySession(g)' = OwnedBySession(g) /\ OwnedBySession(g) \in Nat
               /\ OwnedByOpen(g)' = 0 /\ OwnedByOpen(g) = 0
               /\ OwnedByWorker(g)' = IF g = new THEN 1 ELSE OwnedByWorker(g)
               /\ OwnedByWorker(g) \in Nat
               /\ g = new => OwnedByWorker(g) = 0
    BY <1>1, <1>2 DEF OwnedBySession, OwnedByOpen, OwnedByWorker, Live, WorkLabels
  <2> HIDE DEF new
  <2>2. QED
    BY <1>0, <1>2, <2>1 DEF RefsCounted
<1>8. CompactAlone'
  <2>1. \A g \in shrunk : g # new
    BY <1>0, <1>2 DEF CompactAlone
  <2>2. QED
    BY <1>0, <1>1, <1>2, <2>1 DEF CompactAlone, TypeOK
<1>9. QED
  BY <1>3, <1>4, <1>5, <1>6, <1>7, <1>8 DEF IInv

\* The inductive invariant holds in every state of the Session.
THEOREM SessionInvariant == Spec => []IInv
<1>1. IInv /\ [Next]_vars => IInv'
  BY WorkerStep, QuietStep, OwnerStep, LaunchStep DEF Next, Ui
<1>2. QED
  BY <1>1, InitIInv, PTL DEF Spec

-----------------------------------------------------------------------------
(* What follows from it.                                                   *)

\* Every owner count stays a number, every worker at a statement it has.
THEOREM SessionTypeCorrect == Spec => []TypeOK
<1>1. IInv => TypeOK
  BY DEF IInv
<1>2. QED
  BY <1>1, SessionInvariant, PTL

\* At most one decode thread at any time, the current generation's.
THEOREM SessionOneWorker == Spec => []OneWorker
<1>1. IInv => OneWorker
  BY GenFacts DEF IInv, OneAfterAnother, OneWorker, Live
<1>2. QED
  BY <1>1, SessionInvariant, PTL

\* running == false is a promise that note and fileChanged are final.
THEOREM SessionNoteIsFinal == Spec => []NoteIsFinal
<1>1. IInv => NoteIsFinal
  <2> SUFFICES ASSUME IInv, NEW g \in 1 .. gen, ~state[g].running
               PROVE  /\ work[g] \in {"exiting", "over"}
                      /\ state[g].fileChanged <=> state[g].note = "changed"
    BY DEF NoteIsFinal
  <2>1. g \in Gens /\ g <= gen /\ g \in Nat /\ gen \in Nat
    BY GenFacts DEF IInv, TypeOK, Gens
  <2>2. work[g] # "none"
    BY <2>1 DEF IInv, OneAfterAnother
  <2>3. QED
    BY <2>1, <2>2 DEF IInv, StateFollows, Stopped
<1>2. QED
  BY <1>1, SessionInvariant, PTL

\* What is decoded is owned by its decoder, and what nobody uses is freed.
THEOREM SessionPairsOwned == Spec => []PairsOwned
<1>1. IInv => PairsOwned
  <2> SUFFICES ASSUME IInv PROVE PairsOwned
    OBVIOUS
  <2>0. /\ TypeOK /\ Holds /\ RefsCounted /\ gen \in Nat /\ MaxOpens \in Nat
        /\ gen <= MaxOpens
    BY GenFacts DEF IInv
  <2>1. \A g \in Gens : OwnedBySession(g) \in Nat /\ OwnedByOpen(g) \in Nat
                        /\ OwnedByWorker(g) \in Nat
    BY DEF OwnedBySession, OwnedByOpen, OwnedByWorker
  <2>2. \A g \in Gens : work[g] \in Live => refs[g] > 0
    BY <2>0, <2>1 DEF RefsCounted, OwnedByWorker
  <2>3. binary # 0 => refs[binary] > 0
    <3>1. binary # 0 => binary \in Gens
      BY <2>0 DEF TypeOK, Gens
    <3>2. QED
      BY <2>0, <2>1, <3>1 DEF RefsCounted, OwnedBySession
  <2>4. ASSUME NEW g \in 1 .. gen, g # binary, work[g] = "over"
        PROVE  refs[g] = 0
    <3>1. g \in Gens /\ g # gen + 1
      BY <2>0 DEF Gens
    <3>2. OwnedBySession(g) = 0 /\ OwnedByOpen(g) = 0 /\ OwnedByWorker(g) = 0
      BY <2>4, <3>1 DEF OwnedBySession, OwnedByOpen, OwnedByWorker, Live
    <3>3. QED
      BY <2>0, <3>1, <3>2 DEF RefsCounted
  <2>5. QED
    BY <2>2, <2>3, <2>4 DEF PairsOwned
<1>2. QED
  BY <1>1, SessionInvariant, PTL

\* No store is reallocated by compact() under the sweep that fills it.
THEOREM SessionCompactAlone == Spec => []CompactAlone
<1>1. IInv => CompactAlone
  BY DEF IInv
<1>2. QED
  BY <1>1, SessionInvariant, PTL

-----------------------------------------------------------------------------
(* The refinement: the Session's current generation seen as a DecodeFeed.  *)

FeedReady == IF gen = 0 THEN 0 ELSE rows[gen]
FeedNote  == IF gen = 0 \/ IsDecoding THEN "none" ELSE state[gen].note

\* A worker's step moves the feed only when it publishes or clears running.
LEMMA WorkerFeeds ==
    ASSUME IInv, NEW g \in Gens, Worker(g)
    PROVE  Feed!FeedNext \/ UNCHANGED Feed!feed
<1>0. /\ TypeOK /\ OneAfterAnother /\ StateFollows /\ gen' = gen /\ g \in Nat /\ gen \in Nat
      /\ MaxRows \in Nat /\ rows[g] \in Nat /\ state[g] \in States
  BY GenFacts, WorkerFrame DEF IInv, uiVars, TypeOK
<1>1. <<work[g], work'[g]>> \in Moves
  BY <1>0, WorkerEffect
<1>2. g = gen /\ gen # 0
  BY <1>0, <1>1 DEF OneAfterAnother, Moves, Gens
<1>3. /\ IsDecoding <=> work[g] \in Live \ {"exiting"}
      /\ IsDecoding' <=> IsDecoding /\ work[g] # "ending"
  <2>1. /\ state'[g].running <=> state[g].running /\ work[g] # "ending"
        /\ work[g] \in Live
        /\ state[g].running <=> work[g] \notin Stopped \cup {"none"}
    BY <1>0, <1>1, WorkerState DEF StateFollows, Moves, Live, WorkLabels
  <2>2. gen > 0
    BY <1>0, <1>2
  <2>3. /\ IsDecoding <=> state[g].running
        /\ IsDecoding' <=> state'[g].running
    BY <1>0, <1>2, <2>2 DEF IsDecoding
  <2>4. QED
    BY <2>1, <2>3 DEF Live, Stopped, WorkLabels
<1>4. CASE work[g] = "line" /\ work'[g] = "check"
  <2>1. rows'[g] = rows[g] + 1 /\ rows[g] < MaxRows
    BY <1>0, <1>4, WorkerEffect DEF StateFollows
  <2>2. IsDecoding /\ IsDecoding'
    BY <1>3, <1>4 DEF Live, WorkLabels
  <2>3. FeedReady' = FeedReady + 1 /\ FeedReady < MaxRows /\ FeedNote' = FeedNote
    BY <1>0, <1>2, <2>1, <2>2 DEF FeedReady, FeedNote
  <2>4. QED
    BY <1>0, <2>2, <2>3 DEF Feed!FeedNext, Feed!FeedWorker, Feed!PublishRow, FeedReady, FeedNote
<1>5. CASE work[g] = "ending"
  <2>1. rows'[g] = rows[g]
    BY <1>0, <1>5, WorkerEffect
  <2>2. IsDecoding /\ ~IsDecoding'
    BY <1>3, <1>5 DEF Live, WorkLabels
  <2>3. state'[g].note \in {"none", "error", "changed"}
    BY <1>0, WorkerState DEF States
  <2>4. FeedReady' = FeedReady /\ FeedNote' \in Feed!Notes
    BY <1>0, <1>2, <2>1, <2>2, <2>3 DEF FeedReady, FeedNote, Feed!Notes
  <2>5. QED
    BY <1>0, <2>2, <2>4 DEF Feed!FeedNext, Feed!FeedWorker, Feed!EndDecode, FeedReady, FeedNote
<1>6. CASE ~(work[g] = "line" /\ work'[g] = "check") /\ work[g] # "ending"
  <2>1. rows'[g] = rows[g]
    BY <1>0, <1>6, WorkerEffect
  <2>2. IsDecoding' <=> IsDecoding
    BY <1>3, <1>6
  <2>3. ~IsDecoding => state'[g].note = state[g].note
    <3>1. ~IsDecoding => work[g] \notin {"changed", "error"}
      BY <1>3 DEF Live, WorkLabels
    <3>2. QED
      BY <1>0, <3>1, WorkerState
  <2>4. FeedReady' = FeedReady /\ FeedNote' = FeedNote
    BY <1>0, <1>2, <2>1, <2>2, <2>3 DEF FeedReady, FeedNote
  <2>5. IsDecoding' = IsDecoding
    BY <2>2 DEF IsDecoding
  <2>6. QED
    BY <1>0, <2>4, <2>5 DEF Feed!feed, FeedReady, FeedNote
<1>7. QED
  BY <1>4, <1>5, <1>6

\* A launch is the feed's next generation, and finds none running.
LEMMA LaunchFeeds ==
    ASSUME IInv, Launch
    PROVE  Feed!OpenFeed
<1>0. /\ TypeOK /\ OneAfterAnother /\ StateFollows /\ gen \in Nat /\ MaxOpens \in Nat
      /\ gen < MaxOpens /\ gen + 1 \in Gens /\ Joined /\ gen' = gen + 1
  BY GenFacts DEF IInv, Holds, Launch
<1>1. ~IsDecoding
  BY <1>0 DEF IsDecoding, Joined, StateFollows, Stopped, Gens
<1>2. rows'[gen + 1] = 0
  BY <1>0 DEF Launch, OneAfterAnother
<1>3. state'[gen + 1].running
  <2>1. state' = [state EXCEPT ![gen + 1] = RunningState]
    BY DEF Launch
  <2>2. state'[gen + 1] = RunningState
    BY <1>0, <2>1 DEF TypeOK
  <2>3. QED
    BY <2>2 DEF RunningState
<1>4. IsDecoding' = TRUE
  <2>1. gen' > 0 /\ state'[gen'].running
    BY <1>0, <1>3
  <2>2. IsDecoding'
    BY <2>1 DEF IsDecoding
  <2>3. QED
    BY <2>2 DEF IsDecoding
<1>5. FeedReady' = 0 /\ FeedNote' = "none"
  BY <1>0, <1>2, <1>4 DEF FeedReady, FeedNote
<1>6. QED
  BY <1>0, <1>1, <1>4, <1>5 DEF Feed!OpenFeed, FeedReady, FeedNote

\* The front ends may forget the worker and the joins: polling a Session is polling
\* a feed that starts anew with each open() and ends with a final count and note.
THEOREM SessionKeepsFeed == Spec => KeepsFeed
<1>1. Init => Feed!FeedInit
  BY DEF Init, Feed!FeedInit, IsDecoding
<1>2. IInv /\ [Next]_vars => [Feed!FeedNext]_(Feed!feed)
  <2> SUFFICES ASSUME IInv, [Next]_vars
               PROVE  Feed!FeedNext \/ UNCHANGED Feed!feed
    OBVIOUS
  <2>1. CASE \E g \in Gens : Worker(g)
    BY <2>1, WorkerFeeds
  <2>2. CASE Launch
    BY <2>2, LaunchFeeds DEF Feed!FeedNext
  <2>3. CASE \/ OpenFails \/ OpenLoads \/ DetectThrows \/ Adopt \/ Compact \/ PollThrows
             \/ Close \/ Closed \/ Gone \/ UNCHANGED vars
    <3>1. UNCHANGED <<gen, rows, state>>
      BY <2>3 DEF OpenFails, OpenLoads, DetectThrows, Adopt, Compact, PollThrows, Close,
         Closed, Gone, vars, uiVars, workerVars
    <3>2. QED
      BY <3>1 DEF Feed!feed, IsDecoding
  <2>4. QED
    BY <2>1, <2>2, <2>3 DEF Next, Ui
<1>3. QED
  BY <1>1, <1>2, SessionInvariant, PTL DEF Spec, KeepsFeed, Feed!FeedSpec
=============================================================================
