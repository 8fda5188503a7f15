---------------------------- MODULE SweepContract ----------------------------
(***************************************************************************)
(* What Disassembler::decode() promises to everyone who watches a sweep    *)
(* without taking part in it (disassembler.hpp:80-105, the worker in       *)
(* analysis_session.cpp:67-84): a count of finished rows that only grows,  *)
(* one row at a time, and an outcome that is reported once, after which    *)
(* the count never moves again.                                            *)
(***************************************************************************)
EXTENDS Naturals

VARIABLES
    ready,     \* rows published so far
    outcome    \* "none" while the sweep runs, then how it ended

vars == <<ready, outcome>>

\* "ran": end of the sections or a stop request.  "error": an exception whose
\* text becomes the note.  "changed": FileChanged, the file shrank under us.
Outcomes == {"ran", "error", "changed"}

TypeOK ==
    /\ ready \in Nat
    /\ outcome \in Outcomes \cup {"none"}

Init ==
    /\ ready = 0
    /\ outcome = "none"

PublishRow ==
    /\ outcome = "none"
    /\ ready' = ready + 1
    /\ UNCHANGED outcome

Finish ==
    /\ outcome = "none"
    /\ outcome' \in Outcomes
    /\ UNCHANGED ready

Next == PublishRow \/ Finish

Spec == Init /\ [][Next]_vars
=============================================================================
