----------------------------- MODULE MappedFile -----------------------------
(***************************************************************************)
(* AddressSpace (src/src/address_space.cpp): a file mapped read-only, read *)
(* by several threads while some other program truncates or rewrites it.   *)
(*                                                                         *)
(* A read of a page the file no longer has raises SIGBUS in the reading    *)
(* thread.  The handler jumps back into readType() if that thread's        *)
(* sigbusJump is set and otherwise lets the signal kill the process.  The  *)
(* kernel's part, which pages are there and what a signal does, is modelled *)
(* from the calls the code makes.  Bytes have no values here: what a read  *)
(* returns is up to the reader.                                            *)
(***************************************************************************)
EXTENDS Integers

CONSTANTS
    Threads,      \* the threads that read: one mapping each
    WordSize,     \* 2^64: offsets are uint64_t
    PageSize,
    FileSizes     \* the sizes the file on disk may take

ASSUME MappedAssumption ==
    /\ WordSize \in Nat \ {0}
    /\ PageSize \in Nat \ {0}
    /\ FileSizes \subseteq 0 .. WordSize - 1

VARIABLES
    disk,      \* the file's size now
    alive,     \* the process has not been killed by a signal
    handled,   \* onSigbus is installed
    fileSize,  \* the size each mapping was made with, 0 while there is none
    at,        \* where each thread is in readType()
    request,   \* the offset and width of its read
    jump,      \* its sigbusJump is set (thread_local)
    blocked,   \* its signal mask holds SIGBUS
    got        \* how its last read ended

readVars == <<at, request, jump, blocked, got>>
fileVars == <<disk, alive, handled, fileSize, readVars>>

Requests == [offset : 0 .. WordSize - 1, size : Nat]

FileTypeOK ==
    /\ disk \in FileSizes
    /\ alive \in BOOLEAN
    /\ handled \in BOOLEAN
    /\ fileSize \in [Threads -> FileSizes \cup {0}]
    /\ at \in [Threads -> {"idle", "arm", "copy", "disarm", "jumped"}]
    /\ request \in [Threads -> Requests]
    /\ jump \in [Threads -> BOOLEAN]
    /\ blocked \in [Threads -> BOOLEAN]
    /\ got \in [Threads -> {"none", "value", "length", "changed"}]

FileInit ==
    /\ disk \in FileSizes
    /\ alive = TRUE
    /\ handled = FALSE
    /\ fileSize = [t \in Threads |-> 0]
    /\ at = [t \in Threads |-> "idle"]
    /\ request = [t \in Threads |-> [offset |-> 0, size |-> 1]]
    /\ jump = [t \in Threads |-> FALSE]
    /\ blocked = [t \in Threads |-> FALSE]
    /\ got = [t \in Threads |-> "none"]

\* Another program writes the file anew, shorter or longer.
Rewrite ==
    /\ disk' \in FileSizes \ {disk}
    /\ UNCHANGED <<alive, handled, fileSize, readVars>>

(***************************************************************************)
(* The constructor.  Opening, stat or mmap may fail whatever the file is.  *)
(***************************************************************************)
Map(t) ==
    /\ disk > 0
    /\ fileSize' = [fileSize EXCEPT ![t] = disk]
    /\ handled' = TRUE
    /\ got' = [got EXCEPT ![t] = "none"]
    /\ UNCHANGED <<disk, alive, at, request, jump, blocked>>

\* length_error; an empty file always takes this way.
CannotMap(t) ==
    /\ got' = [got EXCEPT ![t] = "length"]
    /\ UNCHANGED <<disk, alive, handled, fileSize, at, request, jump, blocked>>

\* The destructor, once nobody reads.
Unmap(t) ==
    /\ at[t] = "idle"
    /\ fileSize' = [fileSize EXCEPT ![t] = 0]
    /\ got' = [got EXCEPT ![t] = "none"]
    /\ UNCHANGED <<disk, alive, handled, at, request, jump, blocked>>

(***************************************************************************)
(* readType().                                                             *)
(***************************************************************************)

\* Mutant: the check adds offset and width, and the sum wraps.
InBoundsBySum(t, offset, size) == (offset + size) % WordSize <= fileSize[t]

InBounds(t, offset, size) == offset <= fileSize[t] /\ size <= fileSize[t] - offset

BeginRead(t, offset, size) ==
    /\ at[t] = "idle"
    /\ IF InBounds(t, offset, size)
       THEN /\ at' = [at EXCEPT ![t] = "arm"]
            /\ request' = [request EXCEPT ![t] = [offset |-> offset, size |-> size]]
            /\ got' = [got EXCEPT ![t] = "none"]
       ELSE /\ got' = [got EXCEPT ![t] = "length"]
            /\ UNCHANGED <<at, request>>
    /\ UNCHANGED <<disk, alive, handled, fileSize, jump, blocked>>

Arm(t) ==
    /\ at[t] = "arm"
    /\ at' = [at EXCEPT ![t] = "copy"]
    /\ jump' = [jump EXCEPT ![t] = TRUE]
    /\ UNCHANGED <<disk, alive, handled, fileSize, request, blocked, got>>

\* Every page the read touches still holds a byte of the file; the rest of the last page
\* reads as zero.
PagesThere(t) ==
    (request[t].offset + request[t].size - 1) \div PageSize < (disk + PageSize - 1) \div PageSize

Copy(t) ==
    /\ at[t] = "copy"
    /\ PagesThere(t)
    /\ at' = [at EXCEPT ![t] = "disarm"]
    /\ UNCHANGED <<disk, alive, handled, fileSize, request, jump, blocked, got>>

Disarm(t) ==
    /\ at[t] = "disarm"
    /\ at' = [at EXCEPT ![t] = "idle"]
    /\ jump' = [jump EXCEPT ![t] = FALSE]
    /\ got' = [got EXCEPT ![t] = "value"]
    /\ UNCHANGED <<disk, alive, handled, fileSize, request, blocked>>

\* Mutant: the handler is installed without SA_NODEFER, and the jump leaves SIGBUS blocked.
SigbusDeferred(t) ==
    /\ at[t] = "copy"
    /\ ~PagesThere(t)
    /\ IF handled /\ jump[t] /\ ~blocked[t]
       THEN /\ at' = [at EXCEPT ![t] = "jumped"]
            /\ blocked' = [blocked EXCEPT ![t] = TRUE]
            /\ UNCHANGED alive
       ELSE alive' = FALSE /\ UNCHANGED <<at, blocked>>
    /\ UNCHANGED <<disk, handled, fileSize, request, jump, got>>

\* onSigbus(), installed with SA_NODEFER.  A blocked SIGBUS that a fault raises kills.
Sigbus(t) ==
    /\ at[t] = "copy"
    /\ ~PagesThere(t)
    /\ IF handled /\ jump[t] /\ ~blocked[t]
       THEN at' = [at EXCEPT ![t] = "jumped"] /\ UNCHANGED alive
       ELSE alive' = FALSE /\ UNCHANGED at
    /\ UNCHANGED <<disk, handled, fileSize, request, jump, blocked, got>>

\* sigsetjmp() returns for the second time: FileChanged.
Jumped(t) ==
    /\ at[t] = "jumped"
    /\ at' = [at EXCEPT ![t] = "idle"]
    /\ jump' = [jump EXCEPT ![t] = FALSE]
    /\ got' = [got EXCEPT ![t] = "changed"]
    /\ UNCHANGED <<disk, alive, handled, fileSize, request, blocked>>

InRead(t) == Arm(t) \/ Copy(t) \/ Disarm(t) \/ Sigbus(t) \/ Jumped(t)

(***************************************************************************)
(* Properties.                                                             *)
(***************************************************************************)

\* However often the file is truncated, and whatever the threads are reading when it is,
\* no truncation kills the process: the thread that faults has its own jump target set, and
\* can fault again after it (address_space.cpp:26-35, 92-97, 129-140).
NeverKilled == alive

\* Nothing outside the mapping is ever touched, however large the offset a header gave
\* (address_space.cpp:126).
ReadsInside ==
    \A t \in Threads : at[t] # "idle" => request[t].offset + request[t].size <= fileSize[t]

\* A thread's jump target is set exactly while it may touch the mapping; left set, it
\* would point into a dead stack frame (address_space.cpp:26, 129-141).
JumpMatchesRead ==
    \A t \in Threads : jump[t] <=> at[t] \in {"copy", "disarm", "jumped"}
=============================================================================
