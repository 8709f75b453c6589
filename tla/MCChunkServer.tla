--------------------------- MODULE MCChunkServer ---------------------------
(***************************************************************************)
(* Instance of ChunkServer for TLC.                                        *)
(***************************************************************************)
EXTENDS ChunkServer
=============================================================================
