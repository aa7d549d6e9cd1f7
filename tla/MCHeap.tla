------------------------------- MODULE MCHeap -------------------------------
(* A heap of a few words, in which every way of cutting and joining occurs. *)
(* States are compared without what old headers have left in memory: no     *)
(* step reads it.                                                           *)
EXTENDS Heap

View == <<kind, [a \in Blocks |-> size[a]], [a \in Nodes |-> <<next[a], prev[a]>>], usage,
          [a \in Held |-> asked[a]], fault>>
=============================================================================
