--------------------------- MODULE MCMetadataSink ---------------------------
(***************************************************************************)
(* An instance of MetadataSink for TLC: one key, two file system calls and *)
(* two flush tasks at a time.  Keys share no state but the tree lock, so   *)
(* what can go wrong on a key needs no other key.                          *)
(***************************************************************************)
EXTENDS MetadataSink

CONSTANTS k1, h1, h2, t1, t2

MCKeys     == {k1}
MCHandlers == {h1, h2}
MCTasks    == {t1, t2}

=============================================================================
