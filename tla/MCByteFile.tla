----------------------------- MODULE MCByteFile -----------------------------
(***************************************************************************)
(* Instance of ByteFile for TLC.                                           *)
(***************************************************************************)
EXTENDS ByteFile
=============================================================================
