----------------------------- MODULE HeapProofs -----------------------------
(* Theorems about Heap for a region and headers of any size. *)
EXTENDS Heap, TLAPS, FiniteSetTheorems, WellFoundedInduction

\* What a step leaves true if it was true before: the blocks tile the region
\* only while the list names the free ones, the list stays in order only while
\* the blocks tile, and no sum exceeds the region.
Inv == TypeOK /\ Tiled /\ Linked /\ Coalesced

-----------------------------------------------------------------------------
(* Blocks, nodes and the walk of heap_mem_free. *)

\* A block is a piece of the region.
LEMMA BlockInside ==
  ASSUME TypeOK, Tiled, NEW a \in Blocks
  PROVE  /\ a \in Nat /\ a < Total
         /\ size[a] \in Nat /\ FreeHdr <= size[a] /\ 0 < size[a]
         /\ a + size[a] <= Total
<1>1. \A x \in Blocks : x \in Nat /\ x < Total
  BY HeapAssumption DEF Blocks, Addrs
<1>2. size[a] \in Nat
  BY HeapAssumption DEF TypeOK, Blocks
<1>3. FreeHdr <= size[a] /\ a + size[a] \in Blocks \cup {Total}
  BY DEF Tiled
<1>4. a + size[a] <= Total
  BY <1>1, <1>2, <1>3, HeapAssumption
<1> QED BY <1>1, <1>2, <1>3, <1>4, HeapAssumption

\* Nodes are blocks.
LEMMA NodesAreBlocks == Nodes \subseteq Blocks /\ Held \subseteq Blocks
BY DEF Nodes, Held, Blocks

\* Where a block joins the list no node lies between its two neighbours.
LEMMA WalkSplits ==
  ASSUME Inv, NEW b \in Addrs, kind[b] = "releasing", NEW p \in Nodes, IsBefore(p, b)
  PROVE  /\ p < b /\ p + size[p] <= b
         /\ \A x \in Nodes : x <= p \/ (~Last(p) /\ next[p] <= x /\ b + size[b] <= x)
         /\ ~Last(p) => next[p] \in Nodes /\ b + size[b] <= next[p]
<1>1. b \in Blocks /\ p \in Blocks /\ p < b
  BY NodesAreBlocks DEF Blocks, IsBefore
<1>2. p + size[p] <= b
  BY <1>1 DEF Inv, Tiled
<1>3. ASSUME ~Last(p)
      PROVE  next[p] \in Nodes /\ b + size[b] <= next[p]
  <2>1. next[p] \in Nodes /\ b < next[p]
    BY <1>3 DEF Inv, Linked, IsBefore
  <2> QED BY <1>1, <2>1, NodesAreBlocks DEF Inv, Tiled
<1>4. ASSUME NEW x \in Nodes, ~(x <= p)
      PROVE  ~Last(p) /\ next[p] <= x /\ b + size[b] <= x
  <2>1. p < x
    BY <1>4, <1>1, NodesAreBlocks DEF Blocks, Addrs
  <2>2. ~Last(p) /\ next[p] <= x
    BY <2>1 DEF Inv, Linked
  <2>3. /\ x \in Nat /\ next[p] \in Nat /\ b + size[b] \in Nat
    BY <1>1, <1>3, <1>4, <2>2, BlockInside, NodesAreBlocks DEF Inv
  <2> QED BY <1>3, <2>2, <2>3
<1> QED BY <1>1, <1>2, <1>3, <1>4

\* The neighbours of a block that is linked, if they are free, are the node the
\* walk stopped at and the one after it.
LEMMA NeighboursFound ==
  ASSUME Inv, NEW b \in Addrs, kind[b] = "releasing", NEW p \in Nodes, IsBefore(p, b),
         NEW x \in Nodes
  PROVE  /\ x + size[x] = b => x = p
         /\ x = b + size[b] => x = next[p]
<1>1. b \in Blocks /\ p \in Blocks /\ x \in Blocks
  BY NodesAreBlocks DEF Blocks
<1>2. /\ x \in Nat /\ p \in Nat /\ b \in Nat
      /\ size[x] \in Nat /\ size[b] \in Nat /\ size[p] \in Nat
      /\ 0 < size[x] /\ 0 < size[p] /\ 0 < size[b]
  BY <1>1, BlockInside DEF Inv
<1>3. x < p => x + size[x] <= p
  BY <1>1 DEF Inv, Tiled
<1>4. p < b /\ (x <= p \/ (~Last(p) /\ next[p] <= x /\ b + size[b] <= x))
  BY WalkSplits
<1>5. ~Last(p) => next[p] \in Nat /\ b + size[b] <= next[p]
  BY WalkSplits, NodesAreBlocks, BlockInside DEF Inv
<1> QED BY <1>2, <1>3, <1>4, <1>5

-----------------------------------------------------------------------------
(* heap_mem_alloc. *)

\* What is cut off holds the request and its header.
LEMMA TotalSizeHolds ==
  ASSUME NEW n \in Requests
  PROVE  /\ n \in Nat /\ TotalSize(n) \in Nat
         /\ FreeHdr <= TotalSize(n) /\ n + UsedHdr <= TotalSize(n)
BY HeapAssumption DEF TotalSize

LEMMA InvAllocWhole ==
  ASSUME Inv, NEW n \in Requests, AllocWhole(n), UNCHANGED fault
  PROVE  Inv'
<1>1. PICK a \in Nodes :
        /\ Fits(a, TotalSize(n)) /\ size[a] < TotalSize(n) + FreeHdr
        /\ kind' = [kind EXCEPT ![a] = "held"]
        /\ next' = [next EXCEPT ![prev[a]] = next[a]]
        /\ prev' = IF Last(a) THEN prev ELSE [prev EXCEPT ![next[a]] = prev[a]]
        /\ asked' = [asked EXCEPT ![a] = n]
        /\ UNCHANGED size
  BY DEF AllocWhole, IsFound
<1>2. /\ a \in Addrs /\ a \in Nat /\ size[a] \in Nat /\ kind[a] = "node"
  BY BlockInside, NodesAreBlocks DEF Inv, Nodes
<1>3. /\ a # 0 /\ prev[a] \in Nodes /\ prev[a] < a /\ next[prev[a]] = a
  BY <1>1, <1>2, TotalSizeHolds, HeapAssumption DEF Inv, Fits, Linked
<1>4. Last(a) \/ (next[a] \in Nodes /\ a < next[a] /\ prev[next[a]] = a)
  BY DEF Inv, Linked
<1>5. Nodes' = Nodes \ {a} /\ Blocks' = Blocks
  BY <1>1, <1>2 DEF Inv, TypeOK, Nodes, Blocks
<1>6. TypeOK'
  BY <1>1, <1>2, <1>3, <1>4, TotalSizeHolds DEF Inv, TypeOK, Nodes, Kinds
<1>7. Tiled'
  <2>1. kind'[0] = "node"
    BY <1>1, <1>2, <1>3, HeapAssumption DEF Inv, Tiled, TypeOK
  <2> QED BY <1>1, <1>5, <2>1 DEF Inv, Tiled
<1>8. Linked'
  <2>1. \A x \in Nodes : x \in Addrs /\ x \in Nat /\ x # NIL
    BY HeapAssumption DEF Nodes, Addrs, NIL
  <2>2. \A x \in Nodes' : next'[x] = IF x = prev[a] THEN next[a] ELSE next[x]
    BY <1>1, <1>5, <2>1 DEF Inv, TypeOK
  <2>3. \A x \in Nodes' : prev'[x] = IF x = next[a] THEN prev[a] ELSE prev[x]
    BY <1>1, <1>5, <2>1 DEF Inv, TypeOK, Last
  <2>4. prev'[0] = NIL
    BY <1>1, <1>2, <1>4, <2>1, HeapAssumption DEF Inv, TypeOK, Linked, Addrs
  <2>5. ASSUME NEW x \in Nodes'
        PROVE  Last(x)' \/ (next'[x] \in Nodes' /\ x < next'[x] /\ prev'[next'[x]] = x)
    BY <1>3, <1>4, <1>5, <2>1, <2>2, <2>3 DEF Inv, Linked, Last
  <2>6. ASSUME NEW x \in Nodes'
        PROVE  x = 0 \/ (prev'[x] \in Nodes' /\ prev'[x] < x /\ next'[prev'[x]] = x)
    <3>1. CASE x = next[a]
      <4>1. ~Last(a) /\ a < x
        BY <1>4, <1>5, <2>1, <3>1 DEF Last
      <4>2. prev'[x] = prev[a] /\ prev[a] \in Nodes'
        BY <1>2, <1>3, <1>5, <2>3, <3>1
      <4>3. next'[prev[a]] = x
        BY <2>2, <3>1, <4>2
      <4>4. prev[a] \in Nat /\ x \in Nat
        BY <1>3, <1>5, <2>1
      <4>5. prev[a] < x
        BY <1>2, <1>3, <4>1, <4>4
      <4> QED BY <4>2, <4>3, <4>5
    <3>2. CASE x # next[a] /\ x # 0
      <4>1. prev'[x] = prev[x]
        BY <2>3, <3>2
      <4>2. prev[x] \in Nodes /\ prev[x] < x /\ next[prev[x]] = x
        BY <1>5, <3>2 DEF Inv, Linked
      <4>3. prev[x] # a /\ prev[x] # prev[a]
        BY <1>3, <1>5, <3>2, <4>2
      <4> QED BY <1>5, <2>2, <4>1, <4>2, <4>3
    <3> QED BY <3>1, <3>2
  <2>7. ASSUME NEW x \in Nodes', NEW y \in Nodes', x < y
        PROVE  ~Last(x)' /\ next'[x] <= y
    BY <1>2, <1>3, <1>4, <1>5, <2>1, <2>2, <2>7 DEF Inv, Linked, Last
  <2> QED BY <2>4, <2>5, <2>6, <2>7 DEF Linked
<1>9. Coalesced'
  BY <1>1, <1>2, <1>3, <1>5 DEF Inv, Coalesced
<1> QED BY <1>6, <1>7, <1>8, <1>9 DEF Inv

LEMMA InvAllocTail ==
  ASSUME Inv, NEW n \in Requests, AllocTail(n), UNCHANGED fault
  PROVE  Inv'
<1> DEFINE t == TotalSize(n)
<1>1. PICK a \in Nodes :
        /\ size[a] >= t + FreeHdr
        /\ kind' = [kind EXCEPT ![a + (size[a] - t)] = "held"]
        /\ size' = [size EXCEPT ![a] = size[a] - t, ![a + (size[a] - t)] = t]
        /\ asked' = [asked EXCEPT ![a + (size[a] - t)] = n]
        /\ UNCHANGED list
  BY DEF AllocTail
<1> DEFINE rest == size[a] - t
           b == a + rest
<1>2. /\ a \in Addrs /\ a \in Nat /\ size[a] \in Nat /\ kind[a] = "node" /\ a \in Blocks
      /\ a + size[a] <= Total
  BY BlockInside, NodesAreBlocks DEF Inv, Nodes
<1>3. /\ t \in Nat /\ FreeHdr <= t /\ rest \in Nat /\ FreeHdr <= rest /\ rest + t = size[a]
      /\ FreeHdr \in Nat /\ 0 < FreeHdr /\ Total \in Nat
  BY <1>1, <1>2, TotalSizeHolds, HeapAssumption
<1> HIDE DEF t
<1>4. b \in Addrs /\ a < b /\ b + t = a + size[a] /\ b # 0
  BY <1>2, <1>3 DEF Addrs
<1>5. b \notin Blocks
  BY <1>2, <1>3, <1>4 DEF Inv, Tiled
<1>6. Nodes' = Nodes /\ Blocks' = Blocks \cup {b}
  BY <1>1, <1>4, <1>5 DEF Inv, TypeOK, Nodes, Blocks
<1>7. \A x \in Blocks' : size'[x] = IF x = a THEN rest ELSE IF x = b THEN t ELSE size[x]
  BY <1>1, <1>2, <1>4, <1>6 DEF Inv, TypeOK, Blocks
<1>8. TypeOK'
  BY <1>1, <1>2, <1>3, <1>4, TotalSizeHolds DEF Inv, TypeOK, Kinds, list
<1>9. Tiled'
  <2>1. kind'[0] = "node"
    BY <1>1, <1>4, HeapAssumption DEF Inv, Tiled, TypeOK, Addrs
  <2>2. ASSUME NEW x \in Blocks'
        PROVE  size'[x] >= FreeHdr /\ x + size'[x] \in Blocks' \cup {Total}
    BY <1>2, <1>3, <1>4, <1>6, <1>7 DEF Inv, Tiled
  <2>3. ASSUME NEW x \in Blocks', NEW y \in Blocks', x < y
        PROVE  x + size'[x] <= y
    <3>1. \A z \in Blocks : z \in Nat /\ size[z] \in Nat /\ FreeHdr <= size[z]
      BY BlockInside DEF Inv
    <3>2. CASE x \in Blocks /\ y \in Blocks
      BY <1>2, <1>3, <1>4, <1>5, <1>7, <2>3, <3>1, <3>2 DEF Inv, Tiled
    <3>3. CASE x = b
      BY <1>2, <1>3, <1>4, <1>5, <1>6, <1>7, <2>3, <3>1, <3>3 DEF Inv, Tiled
    <3>4. CASE y = b
      <4>1. x \in Blocks /\ x < a + size[a]
        BY <1>2, <1>3, <1>4, <1>6, <2>3, <3>4
      <4>2. x = a \/ x < a
        BY <1>2, <3>1, <4>1 DEF Inv, Tiled
      <4> QED BY <1>2, <1>3, <1>4, <1>5, <1>7, <3>1, <3>4, <4>1, <4>2 DEF Inv, Tiled
    <3> QED BY <1>6, <3>2, <3>3, <3>4
  <2> QED BY <2>1, <2>2, <2>3 DEF Tiled
<1>10. Linked'
  BY <1>1, <1>6 DEF Inv, Linked, Last, list
<1>11. Coalesced'
  <2>1. b \notin Nodes /\ b # 0
    BY <1>4, <1>5, NodesAreBlocks
  <2>2. \A x \in Nodes : x # b /\ size'[x] = IF x = a THEN rest ELSE size[x]
    BY <1>6, <1>7, <2>1, NodesAreBlocks
  <2>3. \A x \in Nodes' : x + size'[x] \notin Nodes'
    BY <1>4, <1>6, <2>1, <2>2 DEF Inv, Coalesced
  <2> QED BY <1>6, <2>1, <2>3 DEF Coalesced
<1> QED BY <1>8, <1>9, <1>10, <1>11 DEF Inv

-----------------------------------------------------------------------------
(* heap_mem_free. *)

\* Marking a block changes neither the tiling nor the list.
LEMMA InvRelease ==
  ASSUME Inv, NEW b \in Addrs, Release(b)
  PROVE  Inv'
<1>1. kind[b] = "held" /\ kind' = [kind EXCEPT ![b] = "releasing"] /\ UNCHANGED <<size, next, prev>>
  BY DEF Release, list
<1>2. Nodes' = Nodes /\ Blocks' = Blocks
  BY <1>1 DEF Inv, TypeOK, Nodes, Blocks
<1>3. TypeOK'
  BY DEF Inv, TypeOK, Release, Kinds, list
<1>4. Tiled'
  BY <1>1, <1>2, HeapAssumption DEF Inv, Tiled, TypeOK, Addrs
<1>5. Linked'
  BY <1>1, <1>2 DEF Inv, Linked, Last
<1>6. Coalesced'
  BY <1>1, <1>2 DEF Inv, Coalesced
<1> QED BY <1>3, <1>4, <1>5, <1>6 DEF Inv

\* What the four ways of linking a block rely on.
LEMMA LinkFacts ==
  ASSUME Inv, NEW b \in Addrs, kind[b] = "releasing", NEW p \in Nodes, IsBefore(p, b)
  PROVE  /\ b \in Blocks /\ b \notin Nodes /\ b # 0 /\ p \in Blocks /\ p \in Addrs
         /\ b \in Nat /\ size[b] \in Nat /\ 0 < size[b] /\ FreeHdr <= size[b]
         /\ p \in Nat /\ size[p] \in Nat /\ 0 < size[p] /\ FreeHdr <= size[p]
         /\ b + size[b] <= Total /\ Total \in Nat /\ NIL = Total + 1 /\ FreeHdr \in Nat
         /\ p + size[p] <= b
         /\ \A x \in Blocks : x \in Addrs /\ x \in Nat /\ x # NIL
                              /\ size[x] \in Nat /\ 0 < size[x] /\ FreeHdr <= size[x]
                              /\ x + size[x] <= Total
<1>1. b \in Blocks /\ b \notin Nodes /\ p \in Blocks
  BY NodesAreBlocks DEF Blocks, Nodes
<1>2. b # 0
  BY <1>1, HeapAssumption DEF Inv, Tiled, Nodes
<1>3. \A x \in Blocks : x \in Addrs /\ x \in Nat /\ x # NIL
                        /\ size[x] \in Nat /\ 0 < size[x] /\ FreeHdr <= size[x]
                        /\ x + size[x] <= Total
  BY BlockInside, HeapAssumption DEF Inv, Blocks, NIL
<1>4. p + size[p] <= b
  BY WalkSplits
<1> QED BY <1>1, <1>2, <1>3, <1>4, HeapAssumption DEF NIL

\* A block that only follows a node makes it longer.
LEMMA InvJoinBefore ==
  ASSUME Inv, NEW b \in Addrs, kind[b] = "releasing", NEW p \in Nodes, JoinBefore(b, p),
         UNCHANGED <<asked, fault>>
  PROVE  Inv'
<1>1. /\ IsBefore(p, b) /\ b = p + size[p] /\ next[p] # b + size[b]
      /\ kind' = [kind EXCEPT ![b] = "nothing"]
      /\ size' = [size EXCEPT ![p] = @ + size[b]]
      /\ UNCHANGED <<next, prev>>
  BY DEF JoinBefore, list
<1>2. Nodes' = Nodes /\ Blocks' = Blocks \ {b}
  BY <1>1 DEF Inv, TypeOK, Nodes, Blocks
<1>3. \A x \in Blocks : size'[x] = IF x = p THEN size[p] + size[b] ELSE size[x]
  BY <1>1, LinkFacts DEF Inv, TypeOK
<1>4. p + size'[p] = b + size[b]
  BY <1>1, <1>3, LinkFacts
<1>5. TypeOK'
  <2>1. size[p] + size[b] \in 0 .. Total
    BY <1>1, LinkFacts
  <2> QED BY <1>1, <2>1 DEF Inv, TypeOK, Kinds
<1>6. Tiled'
  <2>1. kind'[0] = "node"
    BY <1>1, LinkFacts, HeapAssumption DEF Inv, Tiled, TypeOK, Addrs
  <2>2. ASSUME NEW x \in Blocks'
        PROVE  size'[x] >= FreeHdr
    BY <1>1, <1>2, <1>3, LinkFacts
  <2>3. ASSUME NEW x \in Blocks'
        PROVE  x + size'[x] \in Blocks' \cup {Total}
    <3>1. CASE x = p
      <4>1. b + size[b] # b /\ b + size[b] \in Blocks \cup {Total}
        BY <1>1, LinkFacts DEF Inv, Tiled
      <4> QED BY <1>2, <1>4, <3>1, <4>1
    <3>2. CASE x # p
      <4>1. x + size[x] # b
        BY <1>1, <1>2, <3>2, LinkFacts DEF Inv, Tiled
      <4> QED BY <1>2, <1>3, <3>2, <4>1 DEF Inv, Tiled
    <3> QED BY <3>1, <3>2
  <2>4. ASSUME NEW x \in Blocks', NEW y \in Blocks', x < y
        PROVE  x + size'[x] <= y
    <3>1. CASE x = p
      <4>1. b < y
        BY <1>1, <1>2, <2>4, <3>1, LinkFacts DEF Inv, Tiled
      <4> QED BY <1>1, <1>2, <1>4, <3>1, <4>1, LinkFacts DEF Inv, Tiled
    <3>2. CASE x # p
      BY <1>2, <1>3, <2>4, <3>2 DEF Inv, Tiled
    <3> QED BY <3>1, <3>2
  <2> QED BY <2>1, <2>2, <2>3, <2>4 DEF Tiled
<1>7. Linked'
  BY <1>1, <1>2 DEF Inv, Linked, Last
<1>8. Coalesced'
  <2>1. ASSUME NEW x \in Nodes
        PROVE  x + size'[x] \notin Nodes
    <3>1. CASE x = p
      BY <1>1, <1>4, <3>1, NeighboursFound
    <3>2. CASE x # p
      BY <1>3, <3>2, NodesAreBlocks DEF Inv, Coalesced
    <3> QED BY <3>1, <3>2
  <2>2. ASSUME Blocks' = {0}
        PROVE  size'[0] = Total
    <3>1. size'[0] >= FreeHdr /\ 0 + size'[0] \in {0, Total}
      BY <1>6, <2>2 DEF Tiled
    <3> QED BY <1>5, <3>1, HeapAssumption DEF TypeOK, Addrs
  <2> QED BY <1>2, <2>1, <2>2 DEF Coalesced
<1> QED BY <1>5, <1>6, <1>7, <1>8 DEF Inv

\* A block that closes the gap between two nodes makes one of the three.
LEMMA InvJoinBoth ==
  ASSUME Inv, NEW b \in Addrs, kind[b] = "releasing", NEW p \in Nodes, JoinBoth(b, p),
         UNCHANGED <<asked, fault>>
  PROVE  Inv'
<1> DEFINE c == next[p]
<1>1. /\ IsBefore(p, b) /\ b = p + size[p] /\ c = b + size[b]
      /\ kind' = [kind EXCEPT ![b] = "nothing", ![c] = "nothing"]
      /\ size' = [size EXCEPT ![p] = @ + size[b] + size[c]]
      /\ next' = [next EXCEPT ![p] = next[c]]
      /\ prev' = IF Last(c) THEN prev ELSE [prev EXCEPT ![next[c]] = p]
  BY DEF JoinBoth
<1>2. ~Last(p)
  BY <1>1, LinkFacts DEF Last
<1>3. /\ c \in Nodes /\ c \in Blocks /\ c \in Addrs /\ c \in Nat /\ size[c] \in Nat
      /\ b < c /\ p < c /\ c # 0 /\ c + size[c] <= Total
  BY <1>1, <1>2, LinkFacts, WalkSplits, NodesAreBlocks
<1>4. Nodes' = Nodes \ {c} /\ Blocks' = Blocks \ {b, c}
  BY <1>1, <1>3, LinkFacts DEF Inv, TypeOK, Nodes, Blocks
<1>5. \A x \in Blocks : size'[x] = IF x = p THEN size[p] + size[b] + size[c] ELSE size[x]
  BY <1>1, LinkFacts DEF Inv, TypeOK
<1>6. p + size'[p] = c + size[c]
  BY <1>1, <1>3, <1>5, LinkFacts
<1>7. Last(c) \/ (next[c] \in Nodes /\ c < next[c] /\ prev[next[c]] = c)
  BY <1>3 DEF Inv, Linked
<1> HIDE DEF c
<1>8. TypeOK'
  <2>1. size[p] + size[b] + size[c] \in 0 .. Total
    BY <1>1, <1>3, LinkFacts
  <2>2. next[c] \in Addrs \cup {NIL}
    BY <1>3 DEF Inv, TypeOK
  <2>3. size' \in [Addrs -> 0 .. Total]
    BY <1>1, <2>1 DEF Inv, TypeOK
  <2>4. prev' \in [Addrs -> Addrs \cup {NIL}]
    BY <1>1, LinkFacts DEF Inv, TypeOK
  <2> QED BY <1>1, <2>2, <2>3, <2>4 DEF Inv, TypeOK, Kinds
<1>9. Tiled'
  <2>1. kind'[0] = "node"
    BY <1>1, <1>3, LinkFacts, HeapAssumption DEF Inv, Tiled, TypeOK, Addrs
  <2>2. ASSUME NEW x \in Blocks'
        PROVE  size'[x] >= FreeHdr
    <3>1. size[p] + size[b] + size[c] >= FreeHdr
      BY <1>1, <1>3, LinkFacts
    <3> QED BY <1>1, <1>4, <1>5, <3>1, LinkFacts
  <2>3. ASSUME NEW x \in Blocks'
        PROVE  x + size'[x] \in Blocks' \cup {Total}
    <3>1. CASE x = p
      <4>1. c + size[c] # b /\ c + size[c] # c /\ c + size[c] \in Blocks \cup {Total}
        BY <1>1, <1>3, LinkFacts DEF Inv, Tiled
      <4> QED BY <1>4, <1>6, <3>1, <4>1
    <3>2. CASE x # p
      <4>1. x + size[x] # b /\ x + size[x] # c
        <5>1. x < p \/ x > c
          BY <1>1, <1>3, <1>4, <3>2, LinkFacts DEF Inv, Tiled
        <5>2. x < p => x + size[x] <= p
          BY <1>1, <1>4, LinkFacts DEF Inv, Tiled
        <5> QED BY <1>1, <1>3, <1>4, <5>1, <5>2, LinkFacts
      <4> QED BY <1>4, <1>5, <3>2, <4>1 DEF Inv, Tiled
    <3> QED BY <3>1, <3>2
  <2>4. ASSUME NEW x \in Blocks', NEW y \in Blocks', x < y
        PROVE  x + size'[x] <= y
    <3>1. CASE x = p
      <4>1. b < y
        BY <1>1, <1>4, <2>4, <3>1, LinkFacts DEF Inv, Tiled
      <4>2. c < y
        BY <1>1, <1>3, <1>4, <4>1, LinkFacts DEF Inv, Tiled
      <4> QED BY <1>3, <1>4, <1>6, <3>1, <4>2 DEF Inv, Tiled
    <3>2. CASE x # p
      BY <1>4, <1>5, <2>4, <3>2 DEF Inv, Tiled
    <3> QED BY <3>1, <3>2
  <2> QED BY <2>1, <2>2, <2>3, <2>4 DEF Tiled
<1>10. Linked'
  <2>1. \A x \in Nodes : x \in Addrs /\ x \in Nat /\ x # NIL
    BY <1>1, LinkFacts, NodesAreBlocks
  <2>2. \A x \in Nodes' : next'[x] = IF x = p THEN next[c] ELSE next[x]
    BY <1>1, <1>4, <2>1 DEF Inv, TypeOK
  <2>3. \A x \in Nodes' : prev'[x] = IF x = next[c] THEN p ELSE prev[x]
    BY <1>1, <1>4, <2>1 DEF Inv, TypeOK, Last
  <2>4. prev'[0] = NIL
    BY <1>1, <1>3, <1>7, <2>1, HeapAssumption DEF Inv, TypeOK, Linked, Addrs
  <2>5. next[p] = c
    BY DEF c
  <2>6. ASSUME NEW x \in Nodes'
        PROVE  Last(x)' \/ (next'[x] \in Nodes' /\ x < next'[x] /\ prev'[next'[x]] = x)
    <3>1. CASE x = p
      <4>1. CASE Last(c)
        BY <2>2, <3>1, <4>1 DEF Last
      <4>2. CASE next[c] \in Nodes /\ c < next[c]
        <5>1. next[c] \in Nat /\ next[c] # c /\ p < next[c]
          BY <1>1, <1>3, <2>1, <4>2, LinkFacts
        <5>2. next[c] \in Nodes'
          BY <1>4, <4>2, <5>1
        <5> QED BY <2>2, <2>3, <3>1, <5>1, <5>2
      <4> QED BY <1>7, <4>1, <4>2
    <3>2. CASE x # p
      <4>1. next'[x] = next[x] /\ x \in Nodes /\ x # c
        BY <1>4, <2>2, <3>2
      <4>2. CASE Last(x)
        BY <4>1, <4>2 DEF Last
      <4>3. CASE next[x] \in Nodes /\ x < next[x] /\ prev[next[x]] = x
        <5>1. next[x] # c /\ next[x] # next[c]
          BY <1>2, <1>3, <1>7, <2>5, <3>2, <4>1, <4>3 DEF Inv, Linked, Last
        <5> QED BY <1>4, <2>3, <4>1, <4>3, <5>1
      <4> QED BY <4>1, <4>2, <4>3 DEF Inv, Linked
    <3> QED BY <3>1, <3>2
  <2>7. ASSUME NEW x \in Nodes'
        PROVE  x = 0 \/ (prev'[x] \in Nodes' /\ prev'[x] < x /\ next'[prev'[x]] = x)
    <3>1. CASE x = next[c]
      <4>1. c < x
        BY <1>4, <1>7, <2>1, <3>1 DEF Last
      <4>2. prev'[x] = p /\ p \in Nodes' /\ next'[p] = x
        BY <1>1, <1>3, <1>4, <2>2, <2>3, <3>1, LinkFacts
      <4> QED BY <1>3, <1>4, <2>1, <4>1, <4>2
    <3>2. CASE x # next[c] /\ x # 0
      <4>1. prev'[x] = prev[x]
        BY <2>3, <3>2
      <4>2. prev[x] \in Nodes /\ prev[x] < x /\ next[prev[x]] = x
        BY <1>4, <3>2 DEF Inv, Linked
      <4>3. prev[x] # c /\ prev[x] # p
        BY <1>4, <2>5, <3>2, <4>2
      <4> QED BY <1>4, <2>2, <4>1, <4>2, <4>3
    <3> QED BY <3>1, <3>2
  <2>8. ASSUME NEW x \in Nodes', NEW y \in Nodes', x < y
        PROVE  ~Last(x)' /\ next'[x] <= y
    <3>1. CASE x = p
      <4>1. c <= y /\ c # y
        BY <1>4, <2>5, <2>8, <3>1 DEF Inv, Linked
      <4>2. c < y
        BY <1>3, <1>4, <2>1, <4>1
      <4> QED BY <1>3, <1>4, <2>2, <3>1, <4>2 DEF Inv, Linked, Last
    <3>2. CASE x # p
      BY <1>4, <2>2, <2>8, <3>2 DEF Inv, Linked, Last
    <3> QED BY <3>1, <3>2
  <2> QED BY <2>4, <2>6, <2>7, <2>8 DEF Linked
<1>11. Coalesced'
  <2>1. ASSUME NEW x \in Nodes'
        PROVE  x + size'[x] \notin Nodes'
    <3>1. CASE x = p
      BY <1>3, <1>4, <1>6, <3>1 DEF Inv, Coalesced
    <3>2. CASE x # p
      BY <1>4, <1>5, <3>2, NodesAreBlocks DEF Inv, Coalesced
    <3> QED BY <3>1, <3>2
  <2>2. ASSUME Blocks' = {0}
        PROVE  size'[0] = Total
    <3>1. size'[0] >= FreeHdr /\ 0 + size'[0] \in {0, Total}
      BY <1>9, <2>2 DEF Tiled
    <3> QED BY <1>8, <3>1, HeapAssumption DEF TypeOK, Addrs
  <2> QED BY <2>1, <2>2 DEF Coalesced
<1> QED BY <1>8, <1>9, <1>10, <1>11 DEF Inv

\* A block that only precedes a node takes its place.
LEMMA InvJoinAfter ==
  ASSUME Inv, NEW b \in Addrs, kind[b] = "releasing", NEW p \in Nodes, JoinAfter(b, p),
         UNCHANGED <<asked, fault>>
  PROVE  Inv'
<1> DEFINE c == next[p]
<1>1. /\ IsBefore(p, b) /\ b # p + size[p] /\ c = b + size[b]
      /\ kind' = [kind EXCEPT ![b] = "node", ![c] = "nothing"]
      /\ size' = [size EXCEPT ![b] = @ + size[c]]
      /\ next' = [next EXCEPT ![p] = b, ![b] = next[c]]
      /\ prev' = [a \in Addrs |-> IF a = b THEN p ELSE IF a = next[c] THEN b ELSE prev[a]]
  BY DEF JoinAfter
<1>2. ~Last(p)
  BY <1>1, LinkFacts DEF Last
<1>3. /\ c \in Nodes /\ c \in Blocks /\ c \in Addrs /\ c \in Nat /\ size[c] \in Nat
      /\ b < c /\ p < c /\ c # 0 /\ c + size[c] <= Total
  BY <1>1, <1>2, LinkFacts, WalkSplits, NodesAreBlocks
<1>4. Nodes' = (Nodes \ {c}) \cup {b} /\ Blocks' = Blocks \ {c}
  BY <1>1, <1>3, LinkFacts DEF Inv, TypeOK, Nodes, Blocks
<1>5. \A x \in Blocks : size'[x] = IF x = b THEN size[b] + size[c] ELSE size[x]
  BY <1>1, LinkFacts DEF Inv, TypeOK
<1>6. b + size'[b] = c + size[c]
  BY <1>1, <1>3, <1>5, LinkFacts
<1>7. Last(c) \/ (next[c] \in Nodes /\ c < next[c] /\ prev[next[c]] = c)
  BY <1>3 DEF Inv, Linked
<1>8. p < b
  BY <1>1 DEF IsBefore
<1> HIDE DEF c
<1>9. TypeOK'
  <2>1. size[b] + size[c] \in 0 .. Total
    BY <1>1, <1>3, LinkFacts
  <2>2. next[c] \in Addrs \cup {NIL}
    BY <1>3 DEF Inv, TypeOK
  <2>3. size' \in [Addrs -> 0 .. Total]
    BY <1>1, <2>1 DEF Inv, TypeOK
  <2>4. prev' \in [Addrs -> Addrs \cup {NIL}]
    BY <1>1, LinkFacts DEF Inv, TypeOK
  <2> QED BY <1>1, <2>2, <2>3, <2>4 DEF Inv, TypeOK, Kinds
<1>10. Tiled'
  <2>1. kind'[0] = "node"
    BY <1>1, <1>3, LinkFacts, HeapAssumption DEF Inv, Tiled, TypeOK, Addrs
  <2>2. ASSUME NEW x \in Blocks'
        PROVE  size'[x] >= FreeHdr
    <3>1. size[b] + size[c] >= FreeHdr
      BY <1>1, <1>3, LinkFacts
    <3> QED BY <1>1, <1>4, <1>5, <3>1, LinkFacts
  <2>3. ASSUME NEW x \in Blocks'
        PROVE  x + size'[x] \in Blocks' \cup {Total}
    <3>1. CASE x = b
      <4>1. c + size[c] # c /\ c + size[c] \in Blocks \cup {Total}
        BY <1>3, LinkFacts, <1>1 DEF Inv, Tiled
      <4> QED BY <1>4, <1>6, <3>1, <4>1
    <3>2. CASE x # b
      <4>1. x + size[x] # c
        <5>1. x < b \/ x > c
          BY <1>1, <1>3, <1>4, <3>2, LinkFacts DEF Inv, Tiled
        <5>2. x < b => x + size[x] <= b
          BY <1>1, <1>4, LinkFacts DEF Inv, Tiled
        <5> QED BY <1>1, <1>3, <1>4, <5>1, <5>2, LinkFacts
      <4> QED BY <1>4, <1>5, <3>2, <4>1 DEF Inv, Tiled
    <3> QED BY <3>1, <3>2
  <2>4. ASSUME NEW x \in Blocks', NEW y \in Blocks', x < y
        PROVE  x + size'[x] <= y
    <3>1. CASE x = b
      <4>1. c < y
        BY <1>1, <1>3, <1>4, <2>4, <3>1, LinkFacts DEF Inv, Tiled
      <4> QED BY <1>3, <1>4, <1>6, <3>1, <4>1 DEF Inv, Tiled
    <3>2. CASE x # b
      BY <1>4, <1>5, <2>4, <3>2 DEF Inv, Tiled
    <3> QED BY <3>1, <3>2
  <2> QED BY <2>1, <2>2, <2>3, <2>4 DEF Tiled
<1>11. Linked'
  <2>1. \A x \in Nodes : x \in Addrs /\ x \in Nat /\ x # NIL /\ x # b
    BY <1>1, LinkFacts, NodesAreBlocks
  <2>2. /\ next'[p] = b /\ next'[b] = next[c]
        /\ \A x \in Nodes : x # p => next'[x] = next[x]
    BY <1>1, <2>1 DEF Inv, TypeOK
  <2>3. /\ prev'[b] = p
        /\ \A x \in Nodes : prev'[x] = IF x = next[c] THEN b ELSE prev[x]
    BY <1>1, <2>1
  <2>4. prev'[0] = NIL
    BY <1>1, <1>3, <1>7, <2>1, LinkFacts, HeapAssumption DEF Inv, Linked, Addrs, Last
  <2>5. next[p] = c
    BY DEF c
  <2>6. \A x \in Nodes : x <= p \/ c <= x
    BY <1>1, <1>2, <2>5, WalkSplits
  <2>7. ASSUME NEW x \in Nodes'
        PROVE  Last(x)' \/ (next'[x] \in Nodes' /\ x < next'[x] /\ prev'[next'[x]] = x)
    <3>1. CASE x = p
      BY <1>4, <1>8, <2>2, <2>3, <3>1
    <3>2. CASE x = b
      <4>1. CASE Last(c)
        BY <2>2, <3>2, <4>1 DEF Last
      <4>2. CASE next[c] \in Nodes /\ c < next[c]
        <5>1. next[c] \in Nat /\ next[c] # c /\ b < next[c]
          BY <1>1, <1>3, <2>1, <4>2, LinkFacts
        <5>2. next[c] \in Nodes'
          BY <1>4, <4>2, <5>1
        <5> QED BY <2>2, <2>3, <3>2, <4>2, <5>1, <5>2
      <4> QED BY <1>7, <4>1, <4>2
    <3>3. CASE x # p /\ x # b
      <4>1. next'[x] = next[x] /\ x \in Nodes /\ x # c
        BY <1>4, <2>2, <3>3
      <4>2. CASE Last(x)
        BY <4>1, <4>2 DEF Last
      <4>3. CASE next[x] \in Nodes /\ x < next[x] /\ prev[next[x]] = x
        <5>1. next[x] # c /\ next[x] # next[c]
          BY <1>2, <1>3, <1>7, <2>5, <3>3, <4>1, <4>3 DEF Inv, Linked, Last
        <5> QED BY <1>4, <2>3, <4>1, <4>3, <5>1
      <4> QED BY <4>1, <4>2, <4>3 DEF Inv, Linked
    <3> QED BY <3>1, <3>2, <3>3
  <2>8. ASSUME NEW x \in Nodes'
        PROVE  x = 0 \/ (prev'[x] \in Nodes' /\ prev'[x] < x /\ next'[prev'[x]] = x)
    <3>1. CASE x = b
      <4>1. p \in Nodes'
        BY <1>3, <1>4, LinkFacts, <1>1
      <4> QED BY <1>8, <2>2, <2>3, <3>1, <4>1
    <3>2. CASE x # b /\ x = next[c]
      <4>1. c < x /\ x \in Nodes
        BY <1>4, <1>7, <2>1, <3>2 DEF Last
      <4>2. prev'[x] = b /\ b \in Nodes' /\ next'[b] = x
        BY <1>4, <2>2, <2>3, <3>2, <4>1
      <4>3. b < x
        BY <1>1, <1>3, <2>1, <4>1, LinkFacts
      <4> QED BY <4>2, <4>3
    <3>3. CASE x # b /\ x # next[c] /\ x # 0
      <4>1. prev'[x] = prev[x] /\ x \in Nodes /\ x # c
        BY <1>4, <2>3, <3>3
      <4>2. prev[x] \in Nodes /\ prev[x] < x /\ next[prev[x]] = x
        BY <3>3, <4>1 DEF Inv, Linked
      <4>3. prev[x] # c /\ prev[x] # p
        BY <2>5, <3>3, <4>1, <4>2
      <4> QED BY <1>4, <2>2, <4>1, <4>2, <4>3
    <3> QED BY <3>1, <3>2, <3>3
  <2>9. ASSUME NEW x \in Nodes', NEW y \in Nodes', x < y
        PROVE  ~Last(x)' /\ next'[x] <= y
    <3>0. b \in Nat /\ b # NIL
      BY <1>1, LinkFacts
    <3>1. CASE x = p
      <4>1. y = b \/ (y \in Nodes /\ c <= y)
        BY <1>1, <1>4, <2>1, <2>6, <2>9, <3>1, LinkFacts
      <4>2. y \in Nat
        BY <2>1, <3>0, <4>1
      <4>3. b <= y
        BY <1>3, <3>0, <4>1, <4>2
      <4> QED BY <2>2, <3>0, <3>1, <4>3 DEF Last
    <3>2. CASE x = b
      <4>1. y \in Nodes /\ y # c /\ c <= y
        BY <1>1, <1>4, <1>8, <2>1, <2>6, <2>9, <3>2, LinkFacts
      <4>2. c < y
        BY <1>3, <2>1, <4>1
      <4> QED BY <1>3, <2>2, <3>2, <4>1, <4>2 DEF Inv, Linked, Last
    <3>3. CASE x # p /\ x # b
      <4>1. x \in Nodes /\ next'[x] = next[x]
        BY <1>4, <2>2, <3>3
      <4>2. CASE y \in Nodes
        BY <2>9, <4>1, <4>2 DEF Inv, Linked, Last
      <4>3. CASE y = b
        <5>1. x < p
          BY <1>1, <1>3, <2>1, <2>6, <2>9, <3>3, <4>1, <4>3, LinkFacts
        <5>2. ~Last(x) /\ next[x] <= p
          BY <4>1, <5>1 DEF Inv, Linked
        <5>3. next[x] \in Nat
          BY <2>1, <4>1, <5>2 DEF Inv, Linked
        <5> QED BY <1>1, <1>8, <4>1, <4>3, <5>2, <5>3, LinkFacts DEF Last
      <4> QED BY <1>4, <4>2, <4>3
    <3> QED BY <3>1, <3>2, <3>3
  <2> QED BY <2>4, <2>7, <2>8, <2>9 DEF Linked
<1>12. Coalesced'
  <2>1. ASSUME NEW x \in Nodes'
        PROVE  x + size'[x] \notin Nodes'
    <3>1. CASE x = b
      <4>1. c + size[c] \notin Nodes /\ c + size[c] # b
        BY <1>1, <1>3, LinkFacts DEF Inv, Coalesced
      <4> QED BY <1>4, <1>6, <3>1, <4>1
    <3>2. CASE x # b
      <4>1. x \in Nodes /\ size'[x] = size[x]
        BY <1>4, <1>5, <3>2, NodesAreBlocks
      <4>2. x + size[x] # b
        BY <1>1, <4>1, NeighboursFound
      <4> QED BY <1>4, <4>1, <4>2 DEF Inv, Coalesced
    <3> QED BY <3>1, <3>2
  <2>2. Blocks' # {0}
    BY <1>3, <1>4, LinkFacts, <1>1
  <2> QED BY <2>1, <2>2 DEF Coalesced
<1> QED BY <1>9, <1>10, <1>11, <1>12 DEF Inv

\* A block with no free neighbour becomes a node.
LEMMA InvInsert ==
  ASSUME Inv, NEW b \in Addrs, kind[b] = "releasing", NEW p \in Nodes, Insert(b, p),
         UNCHANGED <<asked, fault>>
  PROVE  Inv'
<1> DEFINE c == next[p]
<1>1. /\ IsBefore(p, b) /\ b # p + size[p] /\ c # b + size[b]
      /\ kind' = [kind EXCEPT ![b] = "node"]
      /\ next' = [next EXCEPT ![p] = b, ![b] = c]
      /\ prev' = [a \in Addrs |-> IF a = b THEN p ELSE IF a = c THEN b ELSE prev[a]]
      /\ UNCHANGED size
  BY DEF Insert
<1>2. Nodes' = Nodes \cup {b} /\ Blocks' = Blocks
  BY <1>1, LinkFacts DEF Inv, TypeOK, Nodes, Blocks
<1>3. Last(p) \/ (c \in Nodes /\ b < c /\ prev[c] = p)
  <2>1. Last(p) \/ (c \in Nodes /\ b + size[b] <= c)
    BY <1>1, WalkSplits
  <2>2. Last(p) \/ prev[c] = p
    BY DEF Inv, Linked
  <2> QED BY <1>1, <2>1, <2>2, LinkFacts, NodesAreBlocks
<1>4. p < b
  BY <1>1 DEF IsBefore
<1>5. next[p] = c /\ (Last(p) <=> c = NIL)
  BY DEF Last
<1>6. c \in Addrs \cup {NIL}
  BY LinkFacts, <1>1 DEF Inv, TypeOK
<1> HIDE DEF c
<1>7. TypeOK'
  <2>1. prev' \in [Addrs -> Addrs \cup {NIL}]
    BY <1>1, LinkFacts DEF Inv, TypeOK
  <2> QED BY <1>1, <1>6, <2>1 DEF Inv, TypeOK, Kinds
<1>8. Tiled'
  <2>1. kind'[0] = "node"
    BY <1>1, LinkFacts, HeapAssumption DEF Inv, Tiled, TypeOK, Addrs
  <2> QED BY <1>1, <1>2, <2>1 DEF Inv, Tiled
<1>9. Linked'
  <2>1. \A x \in Nodes : x \in Addrs /\ x \in Nat /\ x # NIL /\ x # b
    BY <1>1, LinkFacts, NodesAreBlocks
  <2>2. /\ next'[p] = b /\ next'[b] = c
        /\ \A x \in Nodes : x # p => next'[x] = next[x]
    BY <1>1, <2>1 DEF Inv, TypeOK
  <2>3. /\ prev'[b] = p
        /\ \A x \in Nodes : prev'[x] = IF x = c THEN b ELSE prev[x]
    BY <1>1, <2>1
  <2>4. prev'[0] = NIL
    <3>1. c # 0
      BY <1>3, <1>5, <2>1, LinkFacts, <1>1
    <3> QED BY <1>1, <3>1, LinkFacts, HeapAssumption DEF Inv, Linked, Addrs
  <2>5. \A x \in Nodes : x <= p \/ (~Last(p) /\ c <= x)
    BY <1>1, <1>5, WalkSplits
  <2>6. b \in Nat /\ b # NIL
    BY <1>1, LinkFacts
  <2>7. ASSUME NEW x \in Nodes'
        PROVE  Last(x)' \/ (next'[x] \in Nodes' /\ x < next'[x] /\ prev'[next'[x]] = x)
    <3>1. CASE x = p
      BY <1>2, <1>4, <2>2, <2>3, <3>1
    <3>2. CASE x = b
      BY <1>2, <1>3, <1>5, <2>2, <2>3, <3>2 DEF Last
    <3>3. CASE x # p /\ x # b
      <4>1. next'[x] = next[x] /\ x \in Nodes
        BY <1>2, <2>2, <3>3
      <4>2. CASE Last(x)
        BY <4>1, <4>2 DEF Last
      <4>3. CASE next[x] \in Nodes /\ x < next[x] /\ prev[next[x]] = x
        <5>1. next[x] # c
          BY <1>3, <1>5, <2>1, <3>3, <4>3
        <5> QED BY <1>2, <2>3, <4>1, <4>3, <5>1
      <4> QED BY <4>1, <4>2, <4>3 DEF Inv, Linked
    <3> QED BY <3>1, <3>2, <3>3
  <2>8. ASSUME NEW x \in Nodes'
        PROVE  x = 0 \/ (prev'[x] \in Nodes' /\ prev'[x] < x /\ next'[prev'[x]] = x)
    <3>1. CASE x = b
      BY <1>2, <1>4, <2>2, <2>3, <3>1
    <3>2. CASE x # b /\ x = c
      <4>1. prev'[x] = b /\ b \in Nodes' /\ next'[b] = x
        BY <1>2, <2>2, <2>3, <3>2
      <4>2. b < x
        BY <1>2, <1>3, <1>5, <2>1, <3>2
      <4> QED BY <4>1, <4>2
    <3>3. CASE x # b /\ x # c /\ x # 0
      <4>1. prev'[x] = prev[x] /\ x \in Nodes
        BY <1>2, <2>3, <3>3
      <4>2. prev[x] \in Nodes /\ prev[x] < x /\ next[prev[x]] = x
        BY <3>3, <4>1 DEF Inv, Linked
      <4>3. prev[x] # p
        BY <1>5, <3>3, <4>2
      <4> QED BY <1>2, <2>2, <4>1, <4>2, <4>3
    <3> QED BY <3>1, <3>2, <3>3
  <2>9. ASSUME NEW x \in Nodes', NEW y \in Nodes', x < y
        PROVE  ~Last(x)' /\ next'[x] <= y
    <3>1. CASE x = p
      <4>1. CASE y = b
        BY <2>2, <2>6, <3>1, <4>1 DEF Last
      <4>2. CASE y # b
        <5>1. y \in Nodes /\ ~Last(p) /\ c <= y
          BY <1>2, <2>1, <2>5, <2>9, <3>1, <4>2
        <5>2. b < c /\ c \in Nat /\ y \in Nat
          BY <1>3, <2>1, <5>1
        <5> QED BY <2>2, <2>6, <3>1, <5>1, <5>2 DEF Last
      <4> QED BY <4>1, <4>2
    <3>2. CASE x = b
      <4>1. y \in Nodes
        BY <1>2, <2>6, <2>9, <3>2
      <4>2. ~Last(p) /\ c <= y
        BY <1>4, <2>1, <2>5, <2>6, <2>9, <3>2, <4>1
      <4> QED BY <1>5, <2>2, <3>2, <4>2 DEF Last
    <3>3. CASE x # p /\ x # b
      <4>1. x \in Nodes /\ next'[x] = next[x]
        BY <1>2, <2>2, <3>3
      <4>2. CASE y \in Nodes
        BY <2>9, <4>1, <4>2 DEF Inv, Linked, Last
      <4>3. CASE y = b
        <5>1. x < p
          <6>1. c \in Nat \/ Last(p)
            BY <1>3, <2>1
          <6> QED BY <1>3, <2>1, <2>5, <2>6, <2>9, <3>3, <4>1, <4>3, <6>1
        <5>2. ~Last(x) /\ next[x] <= p
          BY <4>1, <5>1 DEF Inv, Linked
        <5>3. next[x] \in Nat
          BY <2>1, <4>1, <5>2 DEF Inv, Linked
        <5> QED BY <1>4, <2>1, <2>6, <4>1, <4>3, <5>2, <5>3 DEF Last
      <4> QED BY <1>2, <4>2, <4>3
    <3> QED BY <3>1, <3>2, <3>3
  <2> QED BY <2>4, <2>7, <2>8, <2>9 DEF Linked
<1>10. Coalesced'
  <2>1. ASSUME NEW x \in Nodes'
        PROVE  x + size[x] \notin Nodes'
    <3>1. CASE x = b
      <4>1. b + size[b] # b
        BY <1>1, LinkFacts
      <4>2. b + size[b] \notin Nodes
        BY <1>1, <1>5, NeighboursFound
      <4> QED BY <1>2, <3>1, <4>1, <4>2
    <3>2. CASE x # b
      <4>1. x \in Nodes /\ x + size[x] # b
        BY <1>1, <1>2, <3>2, NeighboursFound
      <4> QED BY <1>2, <4>1 DEF Inv, Coalesced
    <3> QED BY <3>1, <3>2
  <2> QED BY <1>1, <1>2, <2>1, LinkFacts DEF Coalesced
<1> QED BY <1>7, <1>8, <1>9, <1>10 DEF Inv

-----------------------------------------------------------------------------
(* Theorems. *)

LEMMA InvInit == Init => Inv
<1> SUFFICES ASSUME Init PROVE Inv
  OBVIOUS
<1>1. 0 \in Addrs /\ Nodes = {0} /\ Blocks = {0} /\ Last(0)
  BY HeapAssumption DEF Init, Nodes, Blocks, Addrs, Last
<1>2. size[0] = Total /\ prev[0] = NIL
  BY <1>1 DEF Init
<1>3. TypeOK
  BY HeapAssumption DEF Init, TypeOK, Kinds
<1>4. Tiled
  BY <1>1, <1>2, HeapAssumption DEF Init, Tiled
<1>5. Linked
  BY <1>1, <1>2 DEF Linked
<1>6. Coalesced
  BY <1>1, <1>2, HeapAssumption DEF Coalesced
<1> QED BY <1>3, <1>4, <1>5, <1>6 DEF Inv

LEMMA InvStep == Inv /\ [Next]_vars => Inv'
<1> SUFFICES ASSUME Inv, [Next]_vars PROVE Inv'
  OBVIOUS
<1>1. ASSUME NEW n \in Requests, HeapMemAlloc(n)
      PROVE  Inv'
  <2>1. CASE (AllocWhole(n) \/ AllocTail(n)) /\ UNCHANGED fault
    BY <2>1, InvAllocWhole, InvAllocTail
  <2>2. CASE OutOfMemory(n)
    BY <2>2 DEF OutOfMemory, Inv, TypeOK, Tiled, Linked, Coalesced, Nodes, Blocks, Last, list
  <2> QED BY <1>1, <2>1, <2>2 DEF HeapMemAlloc
<1>2. ASSUME NEW b \in Addrs, Link(b)
      PROVE  Inv'
  <2>1. kind[b] = "releasing" /\ UNCHANGED <<asked, fault>>
    BY <1>2 DEF Link, Releasing, Used
  <2>2. PICK p \in Nodes : JoinBoth(b, p) \/ JoinBefore(b, p) \/ JoinAfter(b, p) \/ Insert(b, p)
    BY <1>2 DEF Link
  <2> QED BY <2>1, <2>2, InvJoinBoth, InvJoinBefore, InvJoinAfter, InvInsert
<1>3. CASE UNCHANGED vars
  BY <1>3 DEF vars, list, Inv, TypeOK, Tiled, Linked, Coalesced, Nodes, Blocks, Last
<1> QED BY <1>1, <1>2, <1>3, InvRelease DEF Next

\* Every variable stays within what the program can hold: whatever is cut and
\* joined, no size exceeds the region and no pointer leaves it.
THEOREM TypeCorrect == Spec => []TypeOK
<1> QED BY InvInit, InvStep, PTL DEF Spec, Inv

\* heap_mem_alloc and heap_mem_free keep the region tiled by blocks, whatever
\* is allocated and released in whatever order.
THEOREM AlwaysTiled == Spec => []Tiled
<1> QED BY InvInit, InvStep, PTL DEF Spec, Inv

\* The free list stays doubly linked, in the order of addresses, through every
\* pointer update of heap_mem_alloc and heap_mem_free.
THEOREM AlwaysLinked == Spec => []Linked
<1> QED BY InvInit, InvStep, PTL DEF Spec, Inv

\* heap_mem_free leaves no two free blocks side by side, and a heap of which
\* everything has been released is one block again.
THEOREM AlwaysCoalesced == Spec => []Coalesced
<1> QED BY InvInit, InvStep, PTL DEF Spec, Inv

-----------------------------------------------------------------------------
(* The sum of the sizes of the free blocks, as the loop of heap_mem_alloc    *)
(* adds them: one after the other, whatever the order.                       *)

\* One element of a set after the other, as MapThenSumSet takes them.
First(s) == CHOOSE x \in s : TRUE
Adds(g, f, S) ==
  g = [s \in SUBSET S |-> IF s = {} THEN 0 ELSE f[First(s)] + g[s \ {First(s)}]]
Sum(f, S) == (CHOOSE g : Adds(g, f, S))[S]

LEMMA FreeIsSum == TotalFree = Sum(size, Nodes) /\ TotalFree' = Sum(size', Nodes')
BY DEF MapThenSumSet, MapThenFoldSet, Adds, First, Sum, TotalFree

LEMMA Least ==
  ASSUME NEW T, T \subseteq Nat, T # {}
  PROVE  \E n \in T : \A k \in T : n <= k
<1>1. PICK n \in T : \A k \in T : ~(<<k, n>> \in OpToRel(<, Nat))
  BY WFMin, NatLessThanWellFounded
<1>2. ASSUME NEW k \in T PROVE n <= k
  <2>1. n \in Nat /\ k \in Nat /\ ~(k < n)
    BY <1>1 DEF OpToRel
  <2> QED BY <2>1
<1> QED BY <1>2

LEMMA FirstLeaves ==
  ASSUME NEW s, IsFiniteSet(s), s # {}
  PROVE  /\ First(s) \in s /\ IsFiniteSet(s \ {First(s)})
         /\ Cardinality(s \ {First(s)}) = Cardinality(s) - 1
         /\ Cardinality(s) \in Nat /\ Cardinality(s) > 0
<1>1. First(s) \in s
  BY DEF First
<1>2. Cardinality(s) \in Nat /\ Cardinality(s) # 0
  BY FS_EmptySet, FS_CardinalityType
<1> QED BY <1>1, <1>2, FS_RemoveElement

\* Such a function exists: the one that is right for sets of n elements makes
\* one that is right for sets of n + 1.
LEMMA SumExists ==
  ASSUME NEW S, IsFiniteSet(S), NEW f, \A a \in S : f[a] \in Nat
  PROVE  \E g \in [SUBSET S -> Nat] : Adds(g, f, S)
<1> DEFINE RightAt(g, s) == g[s] = IF s = {} THEN 0 ELSE f[First(s)] + g[s \ {First(s)}]
           RightTo(g, n) == \A s \in SUBSET S : Cardinality(s) <= n => RightAt(g, s)
           Wrong == {n \in Nat : \A g \in [SUBSET S -> Nat] : ~RightTo(g, n)}
<1>1. ASSUME NEW s \in SUBSET S
      PROVE  /\ IsFiniteSet(s) /\ Cardinality(s) \in Nat /\ Cardinality(s) <= Cardinality(S)
             /\ Cardinality(s) = 0 <=> s = {}
  BY FS_Subset, FS_CardinalityType, FS_EmptySet
<1>2. 0 \notin Wrong
  <2>1. [s \in SUBSET S |-> 0] \in [SUBSET S -> Nat]
    OBVIOUS
  <2>2. RightTo([s \in SUBSET S |-> 0], 0)
    <3>1. ASSUME NEW s \in SUBSET S, Cardinality(s) <= 0 PROVE s = {}
      BY <1>1, <3>1
    <3> QED BY <3>1
  <2> QED BY <2>1, <2>2
<1>3. ASSUME NEW n \in Nat, n \notin Wrong PROVE n + 1 \notin Wrong
  <2>1. PICK g \in [SUBSET S -> Nat] : RightTo(g, n)
    BY <1>3
  <2> DEFINE h == [s \in SUBSET S |-> IF s = {} THEN 0 ELSE f[First(s)] + g[s \ {First(s)}]]
  <2>2. ASSUME NEW s \in SUBSET S, s # {}
        PROVE  /\ First(s) \in S /\ s \ {First(s)} \in SUBSET S
               /\ Cardinality(s \ {First(s)}) = Cardinality(s) - 1 /\ Cardinality(s) \in Nat
    BY <1>1, <2>2, FirstLeaves
  <2>3. h \in [SUBSET S -> Nat]
    <3>1. ASSUME NEW s \in SUBSET S, s # {} PROVE f[First(s)] + g[s \ {First(s)}] \in Nat
      <4>1. f[First(s)] \in Nat /\ g[s \ {First(s)}] \in Nat
        BY <2>1, <2>2, <3>1
      <4> QED BY <4>1
    <3> QED BY <3>1
  <2>4. ASSUME NEW s \in SUBSET S, Cardinality(s) <= n PROVE h[s] = g[s]
    BY <2>1, <2>4
  <2>5. ASSUME NEW s \in SUBSET S, Cardinality(s) <= n + 1 PROVE RightAt(h, s)
    <3>1. CASE s = {}
      BY <3>1
    <3>2. CASE s # {}
      <4>1. s \ {First(s)} \in SUBSET S /\ Cardinality(s \ {First(s)}) <= n
        BY <2>2, <2>5, <3>2
      <4>2. h[s \ {First(s)}] = g[s \ {First(s)}]
        BY <2>4, <4>1
      <4> QED BY <3>2, <4>2
    <3> QED BY <3>1, <3>2
  <2> HIDE DEF h
  <2>6. RightTo(h, n + 1)
    BY <2>5
  <2> QED BY <2>3, <2>6
<1>4. Wrong = {}
  <2> SUFFICES ASSUME Wrong # {} PROVE FALSE
    OBVIOUS
  <2>1. PICK n \in Wrong : \A k \in Wrong : n <= k
    <3>1. Wrong \subseteq Nat
      OBVIOUS
    <3> HIDE DEF Wrong
    <3> QED BY <3>1, Least
  <2>2. n \in Nat
    OBVIOUS
  <2> HIDE DEF Wrong
  <2>3. n # 0
    BY <1>2
  <2>4. n - 1 \in Nat /\ n - 1 \notin Wrong /\ (n - 1) + 1 = n
    BY <2>1, <2>2, <2>3
  <2> QED BY <1>3, <2>4
<1>5. Cardinality(S) \in Nat
  BY FS_CardinalityType
<1>6. PICK g \in [SUBSET S -> Nat] : RightTo(g, Cardinality(S))
  BY <1>4, <1>5
<1>7. \A s \in SUBSET S : RightAt(g, s)
  BY <1>1, <1>6
<1>8. g = [s \in SUBSET S |-> g[s]]
  OBVIOUS
<1> QED BY <1>7, <1>8 DEF Adds

\* Two such functions agree where what they add does.
LEMMA SumsAgree ==
  ASSUME NEW S, IsFiniteSet(S), NEW f, NEW g, Adds(g, f, S),
         NEW S2, NEW f2, NEW g2, Adds(g2, f2, S2),
         NEW T, T \subseteq S, T \subseteq S2, \A a \in T : f[a] = f2[a]
  PROVE  g[T] = g2[T]
<1> DEFINE Differ == {s \in SUBSET T : g[s] # g2[s]}
           Sizes == {Cardinality(s) : s \in Differ}
<1>1. ASSUME NEW s \in SUBSET T PROVE IsFiniteSet(s) /\ Cardinality(s) \in Nat
  <2>1. s \in SUBSET S
    BY <1>1
  <2> QED BY <2>1, FS_Subset, FS_CardinalityType
<1>2. SUFFICES Differ = {}
  OBVIOUS
<1>3. SUFFICES ASSUME Differ # {} PROVE FALSE
  OBVIOUS
<1>4. PICK n \in Sizes : \A k \in Sizes : n <= k
  <2>1. Sizes \subseteq Nat /\ Sizes # {}
    BY <1>1, <1>3
  <2> HIDE DEF Sizes
  <2> QED BY <2>1, Least
<1>5. PICK s \in Differ : n = Cardinality(s)
  OBVIOUS
<1>6. ASSUME NEW t \in SUBSET T, Cardinality(t) < n PROVE g[t] = g2[t]
  <2>1. CASE t \in Differ
    <3>1. Cardinality(t) \in Sizes
      BY <2>1
    <3>2. n <= Cardinality(t) /\ n \in Nat /\ Cardinality(t) \in Nat
      BY <1>1, <1>4, <1>5, <3>1
    <3> QED BY <1>6, <3>2
  <2> QED BY <2>1
<1>7. /\ g[s] = IF s = {} THEN 0 ELSE f[First(s)] + g[s \ {First(s)}]
      /\ g2[s] = IF s = {} THEN 0 ELSE f2[First(s)] + g2[s \ {First(s)}]
  <2>1. s \in SUBSET S /\ s \in SUBSET S2
    OBVIOUS
  <2> QED BY <2>1 DEF Adds
<1>8. CASE s = {}
  BY <1>5, <1>7, <1>8
<1>9. CASE s # {}
  <2>1. First(s) \in s /\ Cardinality(s \ {First(s)}) = Cardinality(s) - 1 /\ Cardinality(s) \in Nat
    BY <1>1, <1>9, FirstLeaves
  <2>2. s \ {First(s)} \in SUBSET T /\ Cardinality(s \ {First(s)}) < n
    BY <1>5, <2>1
  <2>3. g[s \ {First(s)}] = g2[s \ {First(s)}]
    BY <1>6, <2>2
  <2>4. f[First(s)] = f2[First(s)]
    BY <2>1
  <2>5. g[s] = g2[s]
    BY <1>7, <1>9, <2>3, <2>4
  <2> QED BY <1>5, <2>5
<1> QED BY <1>8, <1>9

\* Any element may be the one that is added last.
LEMMA SumSplits ==
  ASSUME NEW S, IsFiniteSet(S), NEW f, \A a \in S : f[a] \in Nat,
         NEW g \in [SUBSET S -> Nat], Adds(g, f, S), NEW x \in S
  PROVE  g[S] = f[x] + g[S \ {x}]
<1> DEFINE Off == {s \in SUBSET S : \E y \in s : g[s] # f[y] + g[s \ {y}]}
           Sizes == {Cardinality(s) : s \in Off}
<1>1. ASSUME NEW s \in SUBSET S PROVE IsFiniteSet(s) /\ Cardinality(s) \in Nat
  BY <1>1, FS_Subset, FS_CardinalityType
<1>2. SUFFICES Off = {}
  OBVIOUS
<1>3. SUFFICES ASSUME Off # {} PROVE FALSE
  OBVIOUS
<1>4. PICK n \in Sizes : \A k \in Sizes : n <= k
  <2>1. Sizes \subseteq Nat /\ Sizes # {}
    BY <1>1, <1>3
  <2> HIDE DEF Sizes
  <2> QED BY <2>1, Least
<1>5. PICK s \in Off : n = Cardinality(s)
  OBVIOUS
<1>6. PICK y \in s : g[s] # f[y] + g[s \ {y}]
  BY <1>5
<1>7. ASSUME NEW t \in SUBSET S, Cardinality(t) < n, NEW z \in t
      PROVE  g[t] = f[z] + g[t \ {z}]
  <2>1. CASE t \in Off
    <3>1. Cardinality(t) \in Sizes
      BY <2>1
    <3>2. n <= Cardinality(t) /\ n \in Nat /\ Cardinality(t) \in Nat
      BY <1>1, <1>4, <1>5, <3>1
    <3> QED BY <1>7, <3>2
  <2> QED BY <2>1, <1>7
<1> DEFINE c == First(s)
<1>8. s \in SUBSET S /\ s # {}
  BY <1>6
<1>9. /\ c \in s /\ IsFiniteSet(s) /\ n \in Nat
      /\ Cardinality(s \ {c}) = n - 1 /\ Cardinality(s \ {y}) = n - 1
  <2>1. IsFiniteSet(s) /\ Cardinality(s) \in Nat
    BY <1>1, <1>8
  <2> QED BY <1>5, <1>6, <1>8, <2>1, FirstLeaves, FS_RemoveElement
<1>10. g[s] = f[c] + g[s \ {c}]
  BY <1>8 DEF Adds
<1> HIDE DEF c
<1>11. y # c
  BY <1>6, <1>10
<1>12. g[s \ {c}] = f[y] + g[(s \ {c}) \ {y}]
  <2>1. s \ {c} \in SUBSET S /\ Cardinality(s \ {c}) < n /\ y \in s \ {c}
    BY <1>8, <1>9, <1>11
  <2> QED BY <1>7, <2>1
<1>13. g[s \ {y}] = f[c] + g[(s \ {y}) \ {c}]
  <2>1. s \ {y} \in SUBSET S /\ Cardinality(s \ {y}) < n /\ c \in s \ {y}
    BY <1>8, <1>9, <1>11
  <2> QED BY <1>7, <2>1
<1>14. (s \ {c}) \ {y} = (s \ {y}) \ {c}
  OBVIOUS
<1>15. f[c] \in Nat /\ f[y] \in Nat /\ g[(s \ {y}) \ {c}] \in Nat
  <2>1. c \in S /\ y \in S /\ (s \ {y}) \ {c} \in SUBSET S
    BY <1>8, <1>9
  <2> QED BY <2>1
<1>16. f[c] + (f[y] + g[(s \ {y}) \ {c}]) = f[y] + (f[c] + g[(s \ {y}) \ {c}])
  BY <1>15
<1>17. g[s] = f[c] + (f[y] + g[(s \ {y}) \ {c}])
  BY <1>10, <1>12, <1>14
<1> QED BY <1>6, <1>13, <1>16, <1>17

\* What the proofs use of Sum.
LEMMA SumOf ==
  ASSUME NEW S, IsFiniteSet(S), NEW f, \A a \in S : f[a] \in Nat
  PROVE  /\ Sum(f, S) \in Nat
         /\ S = {} => Sum(f, S) = 0
         /\ \A x \in S : Sum(f, S) = f[x] + Sum(f, S \ {x})
         /\ \A h : (\A a \in S : h[a] = f[a]) => Sum(h, S) = Sum(f, S)
<1>1. PICK g \in [SUBSET S -> Nat] : Adds(g, f, S)
  BY SumExists
<1>2. ASSUME NEW T \in SUBSET S, NEW h, \A a \in T : h[a] = f[a]
      PROVE  Sum(h, T) = g[T]
  <2>1. IsFiniteSet(T) /\ \A a \in T : h[a] \in Nat
    BY <1>2, FS_Subset
  <2>2. \E k : Adds(k, h, T)
    BY <2>1, SumExists
  <2> DEFINE k == CHOOSE k : Adds(k, h, T)
  <2>3. Adds(k, h, T)
    BY <2>2
  <2> HIDE DEF k
  <2>4. k[T] = g[T]
    BY <1>1, <1>2, <2>1, <2>3, SumsAgree
  <2> QED BY <2>4 DEF k, Sum
<1>3. Sum(f, S) = g[S] /\ \A x \in S : Sum(f, S \ {x}) = g[S \ {x}]
  BY <1>2
<1>4. S = {} => g[S] = 0
  BY <1>1 DEF Adds
<1>5. \A x \in S : g[S] = f[x] + g[S \ {x}]
  BY <1>1, SumSplits
<1>6. \A h : (\A a \in S : h[a] = f[a]) => Sum(h, S) = g[S]
  BY <1>2
<1> QED BY <1>1, <1>3, <1>4, <1>5, <1>6

\* A node that comes, or whose size changes, changes the sum by that much.
LEMMA SumAdds ==
  ASSUME NEW S, IsFiniteSet(S), NEW f, NEW x, x \notin S, \A a \in S \cup {x} : f[a] \in Nat
  PROVE  Sum(f, S \cup {x}) = f[x] + Sum(f, S)
<1>1. IsFiniteSet(S \cup {x}) /\ (S \cup {x}) \ {x} = S /\ x \in S \cup {x}
  BY FS_AddElement
<1> QED BY <1>1, SumOf

LEMMA SumChanges ==
  ASSUME NEW S, IsFiniteSet(S), NEW f, NEW h, NEW x \in S,
         \A a \in S : f[a] \in Nat /\ h[a] \in Nat, \A a \in S \ {x} : h[a] = f[a]
  PROVE  Sum(h, S) = Sum(f, S) - f[x] + h[x]
<1>1. IsFiniteSet(S \ {x})
  BY FS_RemoveElement
<1>2. Sum(h, S \ {x}) = Sum(f, S \ {x}) /\ Sum(f, S \ {x}) \in Nat
  BY <1>1, SumOf
<1>3. Sum(f, S) = f[x] + Sum(f, S \ {x}) /\ Sum(h, S) = h[x] + Sum(h, S \ {x})
  BY SumOf
<1>4. f[x] \in Nat /\ h[x] \in Nat
  OBVIOUS
<1> QED BY <1>2, <1>3, <1>4

\* The nodes have a sum, and each has its part in it.
LEMMA FreeFacts ==
  ASSUME Inv
  PROVE  /\ IsFiniteSet(Nodes) /\ TotalFree \in Nat /\ Total \in Nat
         /\ \A a \in Blocks : size[a] \in Nat
         /\ \A a \in Nodes : size[a] \in Nat /\ TotalFree = size[a] + Sum(size, Nodes \ {a})
         /\ \A a \in Nodes : Sum(size, Nodes \ {a}) \in Nat
<1>1. IsFiniteSet(Nodes)
  <2>1. 0 \in Int /\ Total - 1 \in Int
    BY HeapAssumption
  <2>2. IsFiniteSet(Addrs)
    BY <2>1, FS_Interval DEF Addrs
  <2> QED BY <2>2, FS_Subset DEF Nodes
<1>2. (\A a \in Blocks : size[a] \in Nat) /\ \A a \in Nodes : size[a] \in Nat
  BY BlockInside, NodesAreBlocks DEF Inv
<1>3. /\ Sum(size, Nodes) \in Nat
      /\ \A x \in Nodes : Sum(size, Nodes) = size[x] + Sum(size, Nodes \ {x})
  BY <1>1, <1>2, SumOf
<1>4. ASSUME NEW a \in Nodes PROVE Sum(size, Nodes \ {a}) \in Nat
  <2>1. IsFiniteSet(Nodes \ {a}) /\ \A x \in Nodes \ {a} : size[x] \in Nat
    BY <1>1, <1>2, FS_RemoveElement
  <2> QED BY <2>1, SumOf
<1> QED BY <1>1, <1>2, <1>3, <1>4, FreeIsSum, HeapAssumption

\* An allocation takes as much off the list as it counts.
LEMMA UsageAlloc ==
  ASSUME Inv, Inv', NEW n \in Requests, AllocWhole(n) \/ AllocTail(n)
  PROVE  UsageExact'
<1>1. CASE AllocWhole(n)
  <2>1. PICK a \in Nodes :
          /\ kind' = [kind EXCEPT ![a] = "held"]
          /\ usage' = Total - TotalFree + size[a]
          /\ UNCHANGED size
    BY <1>1 DEF AllocWhole
  <2>2. Nodes' = Nodes \ {a}
    BY <2>1 DEF Inv, TypeOK, Nodes
  <2>3. TotalFree' = Sum(size, Nodes \ {a})
    BY <2>1, <2>2, FreeIsSum
  <2>4. /\ TotalFree = size[a] + Sum(size, Nodes \ {a}) /\ Total \in Nat
        /\ size[a] \in Nat /\ Sum(size, Nodes \ {a}) \in Nat
    BY FreeFacts
  <2>5. usage' = Total - TotalFree'
    BY <2>1, <2>3, <2>4
  <2> QED BY <2>5 DEF UsageExact
<1>2. CASE AllocTail(n)
  <2> DEFINE t == TotalSize(n)
  <2>1. PICK a \in Nodes :
          /\ size[a] >= t + FreeHdr
          /\ kind' = [kind EXCEPT ![a + (size[a] - t)] = "held"]
          /\ size' = [size EXCEPT ![a] = size[a] - t, ![a + (size[a] - t)] = t]
          /\ usage' = Total - TotalFree + t
    BY <1>2 DEF AllocTail
  <2> DEFINE b == a + (size[a] - t)
  <2>2. /\ a \in Blocks /\ a \in Addrs /\ a \in Nat /\ size[a] \in Nat /\ a + size[a] <= Total
        /\ t \in Nat /\ FreeHdr <= t /\ FreeHdr \in Nat /\ 0 < FreeHdr /\ Total \in Nat
    BY BlockInside, NodesAreBlocks, TotalSizeHolds, HeapAssumption DEF Inv, Nodes
  <2> HIDE DEF t
  <2>3. b \in Addrs /\ a < b /\ b < a + size[a] /\ size[a] - t \in Nat
    BY <2>1, <2>2 DEF Addrs
  <2>4. b \notin Nodes
    BY <2>2, <2>3, NodesAreBlocks DEF Inv, Tiled
  <2> HIDE DEF b
  <2>5. kind' = [kind EXCEPT ![b] = "held"] /\ size' = [size EXCEPT ![a] = size[a] - t, ![b] = t]
    BY <2>1 DEF b
  <2>6. Nodes' = Nodes
    BY <2>3, <2>4, <2>5 DEF Inv, TypeOK, Nodes
  <2>7. a # b
    BY <2>2, <2>3 DEF Addrs
  <2>8. size'[a] = size[a] - t /\ \A x \in Nodes \ {a} : size'[x] = size[x]
    BY <2>2, <2>4, <2>5, <2>7 DEF Inv, TypeOK, Nodes
  <2>9. \A x \in Nodes : size[x] \in Nat /\ size'[x] \in Nat
    BY <2>3, <2>8, FreeFacts
  <2>10. Sum(size', Nodes) = Sum(size, Nodes) - size[a] + size'[a]
    BY <2>8, <2>9, FreeFacts, SumChanges
  <2>11. TotalFree' = TotalFree - size[a] + (size[a] - t)
    BY <2>6, <2>8, <2>10, FreeIsSum
  <2>12. TotalFree \in Nat
    BY FreeFacts
  <2>13. usage' = Total - TotalFree'
    BY <2>1, <2>2, <2>11, <2>12
  <2> QED BY <2>13 DEF UsageExact
<1> QED BY <1>1, <1>2

\* A release puts as much on the list as it counts, whether its block becomes a
\* node or part of one, and whether a node becomes part of it.
LEMMA UsageLink ==
  ASSUME Inv, UsageExact, NEW b \in Addrs, Link(b)
  PROVE  UsageExact'
<1>1. PICK p \in Nodes : JoinBoth(b, p) \/ JoinBefore(b, p) \/ JoinAfter(b, p) \/ Insert(b, p)
  BY DEF Link
<1>2. kind[b] = "releasing" /\ IsBefore(p, b) /\ usage' = usage - size[b]
  BY <1>1 DEF Link, Releasing, Used, JoinBoth, JoinBefore, JoinAfter, Insert
<1>3. /\ b \notin Nodes /\ b \in Blocks /\ p \in Addrs /\ p # b /\ size[b] \in Nat
  BY <1>2, LinkFacts
<1>4. /\ IsFiniteSet(Nodes) /\ TotalFree \in Nat /\ Total \in Nat
      /\ \A x \in Nodes : size[x] \in Nat /\ Sum(size, Nodes \ {x}) \in Nat
                          /\ TotalFree = size[x] + Sum(size, Nodes \ {x})
  BY FreeFacts
<1>5. SUFFICES TotalFree' = TotalFree + size[b]
  <2>1. ASSUME TotalFree' = TotalFree + size[b] PROVE usage - size[b] = Total - TotalFree'
    BY <1>3, <1>4, <2>1 DEF UsageExact
  <2> QED BY <1>2, <2>1 DEF UsageExact
<1>6. CASE JoinBefore(b, p)
  <2>1. /\ kind' = [kind EXCEPT ![b] = "nothing"]
        /\ size' = [size EXCEPT ![p] = @ + size[b]]
    BY <1>6 DEF JoinBefore
  <2>2. Nodes' = Nodes
    BY <1>2, <2>1 DEF Inv, TypeOK, Nodes
  <2>3. size'[p] = size[p] + size[b] /\ \A x \in Nodes \ {p} : size'[x] = size[x]
    BY <1>3, <2>1 DEF Inv, TypeOK, Nodes
  <2>4. ASSUME NEW x \in Nodes PROVE size[x] \in Nat /\ size'[x] \in Nat
    <3>1. size[x] \in Nat /\ size[p] \in Nat
      BY <1>4
    <3>2. size[p] + size[b] \in Nat
      BY <1>3, <3>1
    <3> QED BY <2>3, <3>1, <3>2
  <2>5. Sum(size', Nodes) = Sum(size, Nodes) - size[p] + size'[p]
    BY <1>4, <2>3, <2>4, SumChanges
  <2>6. TotalFree' = TotalFree - size[p] + (size[p] + size[b])
    BY <2>2, <2>3, <2>5, FreeIsSum
  <2>7. size[p] \in Nat
    BY <1>4
  <2> QED BY <1>3, <1>4, <2>6, <2>7
<1>7. CASE Insert(b, p)
  <2>1. kind' = [kind EXCEPT ![b] = "node"] /\ UNCHANGED size
    BY <1>7 DEF Insert
  <2>2. Nodes' = Nodes \cup {b}
    BY <2>1 DEF Inv, TypeOK, Nodes
  <2>3. Sum(size, Nodes \cup {b}) = size[b] + Sum(size, Nodes)
    BY <1>3, <1>4, SumAdds
  <2>4. TotalFree' = size[b] + TotalFree
    BY <2>1, <2>2, <2>3, FreeIsSum
  <2> QED BY <1>3, <1>4, <2>4
<1> DEFINE c == next[p]
<1>8. ASSUME c = b + size[b]
      PROVE  c \in Nodes /\ c # b /\ c # p /\ c \in Addrs
  <2>1. ~Last(p)
    BY <1>2, <1>8, LinkFacts DEF Last
  <2>2. c \in Nodes /\ b + size[b] <= c
    BY <1>2, <2>1, WalkSplits
  <2>3. 0 < size[b] /\ b \in Nat /\ p \in Nat /\ p < b /\ c \in Nat
    BY <1>2, <2>2, LinkFacts, NodesAreBlocks DEF IsBefore
  <2> QED BY <1>3, <2>2, <2>3 DEF Nodes
<1>9. CASE JoinBoth(b, p)
  <2>1. /\ c = b + size[b]
        /\ kind' = [kind EXCEPT ![b] = "nothing", ![c] = "nothing"]
        /\ size' = [size EXCEPT ![p] = @ + size[b] + size[c]]
    BY <1>9 DEF JoinBoth
  <2>2. c \in Nodes /\ c # b /\ c # p
    BY <1>8, <2>1
  <2> HIDE DEF c
  <2>3. Nodes' = Nodes \ {c}
    BY <1>3, <2>1, <2>2 DEF Inv, TypeOK, Nodes
  <2>4. size'[p] = size[p] + size[b] + size[c] /\ \A x \in Nodes \ {p} : size'[x] = size[x]
    BY <1>3, <2>1 DEF Inv, TypeOK, Nodes
  <2>5. /\ \A x \in Nodes \ {c} : size[x] \in Nat /\ size'[x] \in Nat
        /\ IsFiniteSet(Nodes \ {c}) /\ p \in Nodes \ {c}
    <3>1. IsFiniteSet(Nodes \ {c}) /\ p \in Nodes \ {c}
      BY <1>4, <2>2, FS_RemoveElement
    <3>2. size[p] \in Nat /\ size[c] \in Nat
      BY <1>4, <2>2
    <3>3. size[p] + size[b] + size[c] \in Nat
      BY <1>3, <3>2
    <3> QED BY <1>4, <2>4, <3>1, <3>3
  <2>6. Sum(size', Nodes \ {c}) = Sum(size, Nodes \ {c}) - size[p] + size'[p]
    BY <2>4, <2>5, SumChanges
  <2>7. TotalFree' = Sum(size, Nodes \ {c}) - size[p] + (size[p] + size[b] + size[c])
    BY <2>3, <2>4, <2>6, FreeIsSum
  <2>8. /\ TotalFree = size[c] + Sum(size, Nodes \ {c}) /\ size[c] \in Nat
        /\ Sum(size, Nodes \ {c}) \in Nat /\ size[p] \in Nat
    BY <1>4, <2>2
  <2> QED BY <1>3, <2>7, <2>8
<1>10. CASE JoinAfter(b, p)
  <2>1. /\ c = b + size[b]
        /\ kind' = [kind EXCEPT ![b] = "node", ![c] = "nothing"]
        /\ size' = [size EXCEPT ![b] = @ + size[c]]
    BY <1>10 DEF JoinAfter
  <2>2. c \in Nodes /\ c # b /\ c # p
    BY <1>8, <2>1
  <2> HIDE DEF c
  <2>3. Nodes' = (Nodes \ {c}) \cup {b}
    BY <1>3, <2>1, <2>2 DEF Inv, TypeOK, Nodes
  <2>4. size'[b] = size[b] + size[c] /\ \A x \in Nodes \ {c} : size'[x] = size[x]
    BY <1>3, <2>1 DEF Inv, TypeOK, Nodes
  <2>5. /\ \A x \in (Nodes \ {c}) \cup {b} : size'[x] \in Nat
        /\ \A x \in Nodes \ {c} : size[x] \in Nat
        /\ IsFiniteSet(Nodes \ {c}) /\ b \notin Nodes \ {c}
    <3>1. IsFiniteSet(Nodes \ {c}) /\ b \notin Nodes \ {c}
      BY <1>3, <1>4, FS_RemoveElement
    <3>2. size[c] \in Nat
      BY <1>4, <2>2
    <3>3. size[b] + size[c] \in Nat
      BY <1>3, <3>2
    <3> QED BY <1>4, <2>4, <3>1, <3>3
  <2>6. Sum(size', (Nodes \ {c}) \cup {b}) = size'[b] + Sum(size', Nodes \ {c})
    BY <2>5, SumAdds
  <2>7. Sum(size', Nodes \ {c}) = Sum(size, Nodes \ {c})
    BY <2>4, <2>5, SumOf
  <2>8. TotalFree' = (size[b] + size[c]) + Sum(size, Nodes \ {c})
    BY <2>3, <2>4, <2>6, <2>7, FreeIsSum
  <2>9. /\ TotalFree = size[c] + Sum(size, Nodes \ {c}) /\ size[c] \in Nat
        /\ Sum(size, Nodes \ {c}) \in Nat
    BY <1>4, <2>2
  <2> QED BY <1>3, <2>8, <2>9
<1> QED BY <1>1, <1>6, <1>7, <1>9, <1>10

\* heap_get_mem_usage is what is not in the list, though allocations recompute it
\* from the list and releases count it down.
THEOREM UsageIsExact == Spec => []UsageExact
<1>1. Init => UsageExact
  <2> SUFFICES ASSUME Init PROVE UsageExact
    OBVIOUS
  <2>1. Inv /\ Nodes = {0} /\ size[0] = Total /\ usage = 0
    BY InvInit, HeapAssumption DEF Init, Nodes, Addrs
  <2>2. TotalFree = size[0] + Sum(size, Nodes \ {0})
    BY <2>1, FreeFacts
  <2>3. Sum(size, Nodes \ {0}) = 0
    <3>1. Nodes \ {0} = {} /\ IsFiniteSet({}) /\ \A x \in {} : size[x] \in Nat
      BY <2>1, FS_EmptySet
    <3> QED BY <3>1, SumOf
  <2> QED BY <2>1, <2>2, <2>3, HeapAssumption DEF UsageExact
<1>2. Inv /\ Inv' /\ UsageExact /\ [Next]_vars => UsageExact'
  <2> SUFFICES ASSUME Inv, Inv', UsageExact, [Next]_vars PROVE UsageExact'
    OBVIOUS
  <2>1. ASSUME Nodes' = Nodes, size' = size, usage' = usage \/ usage' = Total - TotalFree
        PROVE  UsageExact'
    BY <2>1, FreeIsSum DEF UsageExact
  <2>2. ASSUME NEW n \in Requests, HeapMemAlloc(n) PROVE UsageExact'
    <3>1. CASE OutOfMemory(n)
      BY <2>1, <3>1 DEF OutOfMemory, Nodes
    <3> QED BY <2>2, <3>1, UsageAlloc DEF HeapMemAlloc
  <2>3. ASSUME NEW b \in Addrs, Release(b) PROVE UsageExact'
    <3>1. Nodes' = Nodes
      BY <2>3 DEF Release, Inv, TypeOK, Nodes
    <3> QED BY <2>1, <2>3, <3>1 DEF Release
  <2>4. CASE UNCHANGED vars
    BY <2>1, <2>4 DEF vars, Nodes
  <2> QED BY <2>2, <2>3, <2>4, UsageLink DEF Next
<1> QED BY <1>1, <1>2, InvInit, InvStep, PTL DEF Spec

-----------------------------------------------------------------------------
(* What the callers rely on. *)

\* The part of a held block its caller sees.
Given(a) == [at |-> a + UsedHdr, size |-> size[a] - UsedHdr, asked |-> asked[a]]

LEMMA LiveIsGiven == live = {Given(a) : a \in Held}
BY DEF live, Given

\* The end of a block is the end of what its caller sees.
LEMMA GivenInside ==
  ASSUME Inv, NEW a \in Held
  PROVE  /\ Given(a).at \in 0 .. Total - 1 /\ Given(a).size \in 1 .. Total
         /\ Given(a).at = a + UsedHdr
         /\ Given(a).at + Given(a).size = a + size[a]
         /\ Given(a).at + Given(a).size <= Total
         /\ a \in Nat /\ size[a] \in Nat
<1>1. /\ a \in Nat /\ a < Total /\ size[a] \in Nat /\ FreeHdr <= size[a]
      /\ a + size[a] <= Total
  BY BlockInside, NodesAreBlocks DEF Inv
<1> QED BY <1>1, HeapAssumption DEF Given

\* Handing out a block that was not held is an Alloc of the promise.
LEMMA HandsOut ==
  ASSUME Inv, Inv', NEW b \in Addrs, NEW n \in Requests,
         Held' = Held \cup {b}, b \notin Held,
         \A x \in Held : size'[x] = size[x] /\ asked'[x] = asked[x],
         asked'[b] = n, n + UsedHdr <= size'[b]
  PROVE  Promise!Alloc
<1>1. /\ Given(b)'.at \in 0 .. Total - 1 /\ Given(b)'.size \in 1 .. Total
      /\ Given(b)'.at = b + UsedHdr
      /\ Given(b)'.at + Given(b)'.size = b + size'[b]
      /\ Given(b)'.at + Given(b)'.size <= Total
      /\ b \in Nat /\ size'[b] \in Nat
  <2>1. b \in Blocks'
    BY DEF Held, Blocks
  <2>2. b \in Nat /\ b < Total
    BY HeapAssumption DEF Addrs
  <2>3. size'[b] \in Nat /\ FreeHdr <= size'[b]
    BY <2>1, HeapAssumption DEF Inv, TypeOK, Tiled
  <2>4. b + size'[b] <= Total
    <3>1. b + size'[b] \in Addrs \cup {Total}
      BY <2>1 DEF Inv, Tiled, Blocks
    <3> QED BY <3>1, HeapAssumption DEF Addrs
  <2> QED BY <2>2, <2>3, <2>4, HeapAssumption DEF Given
<1>2. Given(b)' \in Promise!Blocks
  BY <1>1 DEF Given, Promise!Blocks
<1>3. live' = live \cup {Given(b)'}
  <2>1. \A x \in Held : Given(x)' = Given(x)
    BY DEF Given
  <2>2. live' = {Given(x)' : x \in Held'}
    BY DEF live, Given
  <2> QED BY <2>1, <2>2, LiveIsGiven
<1>4. ASSUME NEW c \in live
      PROVE  Promise!Apart(Given(b)', c)
  <2>1. PICK x \in Held : c = Given(x)
    BY LiveIsGiven
  <2>2. x \in Blocks' /\ b \in Blocks' /\ x # b /\ size'[x] = size[x]
    BY DEF Held, Blocks
  <2>3. /\ c.at = x + UsedHdr /\ c.at + c.size = x + size[x]
        /\ x \in Nat /\ size[x] \in Nat
    BY <2>1, GivenInside
  <2>4. b + size'[b] <= x \/ x + size[x] <= b
    BY <1>1, <2>2, <2>3 DEF Inv, Tiled
  <2> QED BY <1>1, <2>3, <2>4, HeapAssumption DEF Promise!Apart
<1>5. Given(b)'.asked = n /\ n <= Given(b)'.size
  BY <1>1, HeapAssumption DEF Given
<1> QED BY <1>1, <1>2, <1>3, <1>4, <1>5 DEF Promise!Alloc, Promise!Inside

LEMMA AllocKeepsPromise ==
  ASSUME Inv, Inv', NEW n \in Requests, AllocWhole(n) \/ AllocTail(n)
  PROVE  Promise!Alloc
<1>0. n \in Nat /\ TotalSize(n) \in Nat /\ n + UsedHdr <= TotalSize(n) /\ UsedHdr \in Nat
  BY TotalSizeHolds, HeapAssumption
<1>1. CASE AllocWhole(n)
  <2>1. PICK a \in Nodes :
          /\ Fits(a, TotalSize(n))
          /\ kind' = [kind EXCEPT ![a] = "held"]
          /\ asked' = [asked EXCEPT ![a] = n]
          /\ UNCHANGED size
    BY <1>1 DEF AllocWhole, IsFound
  <2>2. a \in Addrs /\ kind[a] = "node"
    BY DEF Nodes
  <2>3. Held' = Held \cup {a} /\ a \notin Held
    BY <2>1, <2>2 DEF Inv, TypeOK, Held
  <2>4. n + UsedHdr <= size'[a]
    BY <1>0, <2>1, BlockInside, NodesAreBlocks DEF Inv, Fits
  <2>5. asked'[a] = n /\ \A x \in Held : size'[x] = size[x] /\ asked'[x] = asked[x]
    BY <2>1, <2>2, <2>3 DEF Inv, TypeOK, Held
  <2> QED BY <2>2, <2>3, <2>4, <2>5, HandsOut
<1>2. CASE AllocTail(n)
  <2> DEFINE t == TotalSize(n)
  <2>1. PICK a \in Nodes :
          /\ size[a] >= t + FreeHdr
          /\ kind' = [kind EXCEPT ![a + (size[a] - t)] = "held"]
          /\ size' = [size EXCEPT ![a] = size[a] - t, ![a + (size[a] - t)] = t]
          /\ asked' = [asked EXCEPT ![a + (size[a] - t)] = n]
    BY <1>2 DEF AllocTail
  <2> DEFINE b == a + (size[a] - t)
  <2>2. /\ a \in Blocks /\ a \in Nat /\ size[a] \in Nat /\ a + size[a] <= Total
        /\ t \in Nat /\ FreeHdr <= t /\ FreeHdr \in Nat /\ 0 < FreeHdr /\ Total \in Nat
    BY TotalSizeHolds, BlockInside, NodesAreBlocks, HeapAssumption DEF Inv
  <2> HIDE DEF t
  <2>3. b \in Addrs /\ a < b /\ b < a + size[a]
    BY <2>1, <2>2 DEF Addrs
  <2>4. b \notin Blocks
    BY <2>2, <2>3 DEF Inv, Tiled
  <2>5. Held' = Held \cup {b} /\ b \notin Held
    BY <2>1, <2>3, <2>4 DEF Inv, TypeOK, Held, Blocks
  <2>6. size'[b] = t /\ asked'[b] = n
    BY <2>1, <2>3 DEF Inv, TypeOK
  <2>7. \A x \in Held : size'[x] = size[x] /\ asked'[x] = asked[x]
    BY <2>1, <2>5 DEF Inv, TypeOK, Held, Nodes
  <2>8. n + UsedHdr <= size'[b]
    BY <1>0, <2>6 DEF t
  <2> QED BY <2>3, <2>5, <2>6, <2>7, <2>8, HandsOut
<1> QED BY <1>1, <1>2

LEMMA ReleaseKeepsPromise ==
  ASSUME Inv, NEW b \in Addrs, Release(b)
  PROVE  Promise!Free
<1>1. b \in Held /\ Held' = Held \ {b} /\ UNCHANGED <<size, asked>>
  BY DEF Inv, TypeOK, Release, Held
<1>2. live' = {Given(x) : x \in Held \ {b}}
  BY <1>1 DEF live, Given
<1>3. \A x \in Held : x # b => Given(x) # Given(b)
  <2>1. \A x \in Held : Given(x).at = x + UsedHdr /\ x \in Nat
    BY GivenInside
  <2> QED BY <1>1, <2>1, HeapAssumption
<1>4. live' = live \ {Given(b)}
  BY <1>1, <1>2, <1>3, LiveIsGiven
<1>5. Given(b) \in live
  BY <1>1, LiveIsGiven
<1> QED BY <1>4, <1>5 DEF Promise!Free

\* Joining blocks touches none that a caller holds.
LEMMA LinkKeepsPromise ==
  ASSUME Inv, NEW b \in Addrs, Link(b)
  PROVE  UNCHANGED live
<1>1. kind[b] = "releasing" /\ UNCHANGED asked
  BY DEF Link, Releasing, Used
<1>2. PICK p \in Nodes : JoinBoth(b, p) \/ JoinBefore(b, p) \/ JoinAfter(b, p) \/ Insert(b, p)
  BY DEF Link
<1>3. IsBefore(p, b)
  BY <1>2 DEF JoinBoth, JoinBefore, JoinAfter, Insert
<1>4. next[p] = b + size[b] => next[p] \in Nodes
  BY <1>1, <1>3, WalkSplits, LinkFacts DEF Last
<1>5. Held' = Held
  BY <1>1, <1>2, <1>4 DEF Inv, TypeOK, Held, Nodes, JoinBoth, JoinBefore, JoinAfter, Insert
<1>6. \A x \in Held : size'[x] = size[x]
  BY <1>1, <1>2 DEF Inv, TypeOK, Held, Nodes, JoinBoth, JoinBefore, JoinAfter, Insert
<1> QED BY <1>1, <1>5, <1>6 DEF live

LEMMA PromiseStep == Inv /\ Inv' /\ [Next]_vars => [Promise!Next]_live
<1> SUFFICES ASSUME Inv, Inv', [Next]_vars PROVE [Promise!Next]_live
  OBVIOUS
<1>1. ASSUME NEW n \in Requests, HeapMemAlloc(n)
      PROVE  Promise!Next \/ UNCHANGED live
  <2>1. CASE AllocWhole(n) \/ AllocTail(n)
    BY <2>1, AllocKeepsPromise DEF Promise!Next
  <2>2. CASE OutOfMemory(n)
    BY <2>2 DEF OutOfMemory, live, Held
  <2> QED BY <1>1, <2>1, <2>2 DEF HeapMemAlloc
<1>2. ASSUME NEW b \in Addrs, Release(b)
      PROVE  Promise!Next
  BY <1>2, ReleaseKeepsPromise DEF Promise!Next
<1>3. ASSUME NEW b \in Addrs, Link(b)
      PROVE  UNCHANGED live
  BY <1>3, LinkKeepsPromise
<1>4. CASE UNCHANGED vars
  BY <1>4 DEF vars, live, Held
<1> QED BY <1>1, <1>2, <1>3, <1>4 DEF Next

\* The heap keeps its promise to the callers of pvPortMalloc and vPortFree, for
\* any region, any headers and any requests: a block is as long as was asked,
\* inside the region, and apart from every other that is held.
THEOREM KeepsPromise == Spec => Implements
<1>1. Init => Promise!Init
  BY DEF Init, Promise!Init, live, Held
<1>2. Inv /\ Inv' /\ [Next]_vars => [Promise!Next]_live
  BY PromiseStep
<1> QED BY <1>1, <1>2, InvInit, InvStep, PTL DEF Spec, Implements, Promise!Spec

=============================================================================
