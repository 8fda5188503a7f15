------------------------------ MODULE MCLoader ------------------------------
(***************************************************************************)
(* Instances of Loader for TLC: files of at most 136 bytes in 64-byte      *)
(* pages, header fields on and off the file and near the end of a word.    *)
(***************************************************************************)
EXTENDS Loader

\* 136 holds an ELF header and two entries, the second one cut off after its first 32
\* bytes: enough for a 32-bit ELF reader, too little for the others.  A name may start in
\* its last bytes, past its end, or at an offset that wraps around to its last bytes.
MCOffsets64 == {0, 64, DWordSize + 64, WordSize - 40}
MCOffsets32 == {0, 64, DWordSize - 8}
MCNameTables == {132, WordSize - 16}
MCNameOffsets == {2, 150}
=============================================================================
