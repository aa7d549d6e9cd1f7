-------------------------------- MODULE Heap --------------------------------
(***************************************************************************)
(* The heap behind pvPortMalloc (components/modules/heap/heap.c): one      *)
(* region of words, cut into blocks.  Free blocks form a list in the order *)
(* of their addresses; its first node is at address 0 and never leaves.    *)
(*                                                                         *)
(* An allocation runs with interrupts masked.  A release marks the block   *)
(* before it masks them, and links it into the list after, so several      *)
(* releases can be under way, of tasks and of interrupts.                  *)
(***************************************************************************)
EXTENDS Naturals, FiniteSetsExt

CONSTANTS
  Total,    \* words in the region
  UsedHdr,  \* words of struct mblock_used
  FreeHdr,  \* words of struct mblock_free
  Requests  \* sizes callers ask for

ASSUME HeapAssumption ==
  /\ Total \in Nat /\ UsedHdr \in Nat /\ FreeHdr \in Nat
  /\ 0 < UsedHdr /\ UsedHdr < FreeHdr /\ FreeHdr <= Total
  /\ Requests \subseteq Nat

VARIABLES
  kind,       \* what starts at an address: a node of the list, a block a caller
              \* holds, one a caller is releasing, or nothing (corrupt_check)
  size,       \* its size, header included
  next, prev, \* the pointers of the list
  usage,      \* heap_used
  asked,      \* what the caller of a held block asked for; no code keeps it
  fault       \* why the program stopped, if it did

list == <<next, prev>>
vars == <<kind, size, list, usage, asked, fault>>

Addrs == 0 .. Total - 1
NIL == Total + 1
Kinds == {"nothing", "node", "held", "releasing"}

Nodes == {a \in Addrs : kind[a] = "node"}
Held == {a \in Addrs : kind[a] = "held"}
Blocks == {a \in Addrs : kind[a] # "nothing"}
Last(a) == next[a] = NIL

\* heap_mem_init
Init ==
  /\ kind = [a \in Addrs |-> IF a = 0 THEN "node" ELSE "nothing"]
  /\ size = [a \in Addrs |-> IF a = 0 THEN Total ELSE 0]
  /\ next = [a \in Addrs |-> NIL]
  /\ prev = [a \in Addrs |-> NIL]
  /\ usage = 0
  /\ asked = [a \in Addrs |-> 0]
  /\ fault = "none"

-----------------------------------------------------------------------------
(***************************************************************************)
(* heap_mem_alloc                                                          *)
(***************************************************************************)
\* The header is added, and the block can hold the header of a free one later.
TotalSize(n) == IF n + UsedHdr < FreeHdr THEN FreeHdr ELSE n + UsedHdr

\* The first node must be left with room for its own header.
FitsWithoutHeader(a, t) == size[a] + UsedHdr >= t /\ (size[a] >= t + FreeHdr \/ prev[a] # NIL)
FitsInFirstToo(a, t) == size[a] >= t
Fits(a, t) == size[a] >= t /\ (size[a] >= t + FreeHdr \/ prev[a] # NIL)

\* The smallest node that fits, the first of these in the list.
Better(a, b) == size[a] < size[b] \/ (size[a] = size[b] /\ a <= b)
IsFound(a, t) ==
  a \in Nodes /\ Fits(a, t) /\ \A b \in Nodes : Fits(b, t) => Better(a, b)

TotalFree == MapThenSumSet(LAMBDA a : size[a], Nodes)

\* The whole node is used: it leaves the list.
AllocWholeOneWay(n) ==
  \E a \in Nodes :
    /\ IsFound(a, TotalSize(n)) /\ size[a] < TotalSize(n) + FreeHdr
    /\ kind' = [kind EXCEPT ![a] = "held"]
    /\ next' = [next EXCEPT ![prev[a]] = next[a]]
    /\ usage' = Total - TotalFree + size[a]
    /\ asked' = [asked EXCEPT ![a] = n]
    /\ UNCHANGED <<size, prev>>
AllocWhole(n) ==
  \E a \in Nodes :
    /\ IsFound(a, TotalSize(n)) /\ size[a] < TotalSize(n) + FreeHdr
    /\ kind' = [kind EXCEPT ![a] = "held"]
    /\ next' = [next EXCEPT ![prev[a]] = next[a]]
    /\ prev' = IF Last(a) THEN prev ELSE [prev EXCEPT ![next[a]] = prev[a]]
    /\ usage' = Total - TotalFree + size[a]
    /\ asked' = [asked EXCEPT ![a] = n]
    /\ UNCHANGED size

\* The end of the node is cut off.
AllocTail(n) ==
  \E a \in Nodes :
    LET t == TotalSize(n)
        rest == size[a] - t
    IN /\ IsFound(a, t) /\ size[a] >= t + FreeHdr
       /\ kind' = [kind EXCEPT ![a + rest] = "held"]
       /\ size' = [size EXCEPT ![a] = rest, ![a + rest] = t]
       /\ usage' = Total - TotalFree + t
       /\ asked' = [asked EXCEPT ![a + rest] = n]
       /\ UNCHANGED list

\* No node fits: the blocks are dumped, and while(1).
OutOfMemory(n) ==
  /\ \A a \in Nodes : ~Fits(a, TotalSize(n))
  /\ fault' = "out_of_memory"
  /\ usage' = Total - TotalFree
  /\ UNCHANGED <<kind, size, list, asked>>

HeapMemAlloc(n) ==
  /\ fault = "none"
  /\ \/ (AllocWhole(n) \/ AllocTail(n)) /\ UNCHANGED fault
     \/ OutOfMemory(n)

-----------------------------------------------------------------------------
(***************************************************************************)
(* heap_mem_free                                                           *)
(***************************************************************************)
\* The corruption token is checked and changed.
Release(b) ==
  /\ fault = "none" /\ kind[b] = "held"
  /\ kind' = [kind EXCEPT ![b] = "releasing"]
  /\ UNCHANGED <<size, list, usage, asked, fault>>

Releasing(b) == fault = "none" /\ kind[b] = "releasing"

\* The node the walk stops at: the last one before b.
IsBefore(p, b) == p \in Nodes /\ p < b /\ (Last(p) \/ next[p] > b)

UsedForgotten(b) == UNCHANGED <<usage, asked, fault>>
Used(b) == usage' = usage - size[b] /\ UNCHANGED <<asked, fault>>

\* b is right after node p, and right before another: the three become one.
JoinBoth(b, p) ==
  LET c == next[p]
  IN /\ IsBefore(p, b) /\ b = p + size[p] /\ c = b + size[b]
     /\ kind' = [kind EXCEPT ![b] = "nothing", ![c] = "nothing"]
     /\ size' = [size EXCEPT ![p] = @ + size[b] + size[c]]
     /\ next' = [next EXCEPT ![p] = next[c]]
     /\ prev' = IF Last(c) THEN prev ELSE [prev EXCEPT ![next[c]] = p]

JoinBeforeAddsOwnSize(b, p) ==
  /\ IsBefore(p, b) /\ b = p + size[p] /\ next[p] # b + size[b]
  /\ kind' = [kind EXCEPT ![b] = "nothing"]
  /\ size' = [size EXCEPT ![p] = @ + @]
  /\ UNCHANGED list
JoinBeforeOnly(b, p) ==
  /\ IsBefore(p, b) /\ b = p + size[p]
  /\ kind' = [kind EXCEPT ![b] = "nothing"]
  /\ size' = [size EXCEPT ![p] = @ + size[b]]
  /\ UNCHANGED list
JoinBefore(b, p) ==
  /\ IsBefore(p, b) /\ b = p + size[p] /\ next[p] # b + size[b]
  /\ kind' = [kind EXCEPT ![b] = "nothing"]
  /\ size' = [size EXCEPT ![p] = @ + size[b]]
  /\ UNCHANGED list

JoinAfter(b, p) ==
  LET c == next[p]
  IN /\ IsBefore(p, b) /\ b # p + size[p] /\ c = b + size[b]
     /\ kind' = [kind EXCEPT ![b] = "node", ![c] = "nothing"]
     /\ size' = [size EXCEPT ![b] = @ + size[c]]
     /\ next' = [next EXCEPT ![p] = b, ![b] = next[c]]
     /\ prev' = [a \in Addrs |-> IF a = b THEN p ELSE IF a = next[c] THEN b ELSE prev[a]]

Insert(b, p) ==
  LET c == next[p]
  IN /\ IsBefore(p, b) /\ b # p + size[p] /\ c # b + size[b]
     /\ kind' = [kind EXCEPT ![b] = "node"]
     /\ next' = [next EXCEPT ![p] = b, ![b] = c]
     /\ prev' = [a \in Addrs |-> IF a = b THEN p ELSE IF a = c THEN b ELSE prev[a]]
     /\ UNCHANGED size

Link(b) ==
  /\ Releasing(b)
  /\ \E p \in Nodes : JoinBoth(b, p) \/ JoinBefore(b, p) \/ JoinAfter(b, p) \/ Insert(b, p)
  /\ Used(b)

-----------------------------------------------------------------------------
Next ==
  \/ \E n \in Requests : HeapMemAlloc(n)
  \/ \E b \in Addrs : Release(b) \/ Link(b)

Spec == Init /\ [][Next]_vars

-----------------------------------------------------------------------------
\* Every variable stays within what the program can hold.
TypeOK ==
  /\ kind \in [Addrs -> Kinds]
  /\ size \in [Addrs -> 0 .. Total]
  /\ next \in [Addrs -> Addrs \cup {NIL}]
  /\ prev \in [Addrs -> Addrs \cup {NIL}]
  /\ asked \in [Addrs -> Nat]
  /\ fault \in {"none", "out_of_memory"}

\* The blocks cover the region: each ends where the next one starts, or at the
\* end, and none starts inside another (heap_dump_used_mem walks them so).
Tiled ==
  /\ kind[0] = "node"
  /\ \A a \in Blocks :
       /\ size[a] >= FreeHdr
       /\ a + size[a] \in Blocks \cup {Total}
       /\ \A b \in Blocks : a < b => a + size[a] <= b

\* The list runs through every node in the order of their addresses, and back
\* (the pointer updates of heap_mem_alloc and heap_mem_free).
Linked ==
  /\ prev[0] = NIL
  /\ \A a \in Nodes :
       /\ Last(a) \/ (next[a] \in Nodes /\ a < next[a] /\ prev[next[a]] = a)
       /\ a = 0 \/ (prev[a] \in Nodes /\ prev[a] < a /\ next[prev[a]] = a)
       /\ \A b \in Nodes : a < b => ~Last(a) /\ next[a] <= b

\* No two free blocks are neighbours, so a heap whose blocks have all been
\* released is one block again.
Coalesced ==
  /\ \A a \in Nodes : a + size[a] \notin Nodes
  /\ Blocks = {0} => size[0] = Total

\* heap_get_mem_usage is what is not in the list.
UsageExact == usage = Total - TotalFree

\* The heap implements what its callers rely on.
live == {[at |-> a + UsedHdr, size |-> size[a] - UsedHdr, asked |-> asked[a]] : a \in Held}
Promise == INSTANCE HeapPromise
Implements == Promise!Spec
=============================================================================
