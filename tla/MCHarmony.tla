----------------------------- MODULE MCHarmony -----------------------------
(***************************************************************************)
(* Instance of Harmony for TLC: the attribute of one file and the location *)
(* of a chunk have the same 16 bits, the attribute of another and the list *)
(* of the swarm have theirs to themselves.                                 *)
(***************************************************************************)
EXTENDS Harmony, TLC

MCSwarm == [type |-> "CHUNKSERVER", argument |-> "swarm"]
AttrA   == [type |-> "ATTRIBUTE", argument |-> "/a"]
AttrB   == [type |-> "ATTRIBUTE", argument |-> "/b"]
ChunkB  == [type |-> "CHUNK", argument |-> "0/b"]

MCKeys == {MCSwarm, AttrA, AttrB, ChunkB}
MCHash == MCSwarm :> 65535 @@ AttrA :> 7 @@ AttrB :> 0 @@ ChunkB :> 7

=============================================================================
