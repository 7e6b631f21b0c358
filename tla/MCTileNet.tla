----------------------------- MODULE MCTileNet -----------------------------
(***************************************************************************)
(* Two connections to one worker process: a node that is listed twice.  A  *)
(* graph of four elements makes three tiles of two, one and one, or two of *)
(* two; its buffer ends in the last tile but one.                          *)
(***************************************************************************)
EXTENDS TileNet

CONSTANTS node

OneProcess == [n \in Nodes |-> node]
=============================================================================
