----------------------------- MODULE HeapPromise -----------------------------
(* What the callers of pvPortMalloc and vPortFree rely on: every block they *)
(* hold lies inside the heap, is as long as they asked for, and shares no   *)
(* word with a block anyone else holds.                                     *)
EXTENDS Naturals

CONSTANTS Total,   \* words in the heap
          Requests \* sizes callers ask for

VARIABLE live  \* the blocks callers hold

Blocks == [at : 0 .. Total - 1, size : 1 .. Total, asked : Requests]
Inside(b) == b.at + b.size <= Total
Apart(b, c) == b.at + b.size <= c.at \/ c.at + c.size <= b.at

Init == live = {}

Alloc ==
  \E b \in Blocks :
    /\ b.asked <= b.size /\ Inside(b)
    /\ \A c \in live : Apart(b, c)
    /\ live' = live \cup {b}

Free == \E b \in live : live' = live \ {b}

Next == Alloc \/ Free
Spec == Init /\ [][Next]_live
=============================================================================
