------------------------------- MODULE CoList -------------------------------
(***************************************************************************)
(* Singly linked lists (components/modules/common/src/co_list.c).  The     *)
(* modules of the audio parts treat a list as a sequence; this one is the  *)
(* pointers that make it one.  Callers lock, so one function runs at a     *)
(* time; a search is a step per element, since its answer rests on every   *)
(* element it has passed.                                                  *)
(*                                                                         *)
(* co_list_pool_init is InitList and then PushBack for each element: both  *)
(* branches of its loop come to that, for a ring as well.                  *)
(***************************************************************************)
EXTENDS Naturals, Sequences

CONSTANTS
  Lists, Elems, NULL,
  MaxChain   \* bound: elements pushed at once

VARIABLES
  first, last,  \* of each list
  next,         \* of each element
  walk,         \* the search that runs, with its locals
  held          \* history: the sequence each list should be

vars == <<first, last, next, walk, held>>

Pointers == Elems \cup {NULL}
Wrap == 65536    \* a size is 16 bits wide
Idle == [op |-> "none", list |-> NULL, target |-> NULL, add |-> NULL,
         prev |-> NULL, curr |-> NULL, count |-> 0, at |-> 1]

Init ==
  /\ first = [l \in Lists |-> NULL] /\ last = [l \in Lists |-> NULL]
  /\ next \in [Elems -> Pointers]    \* nobody initialises the headers
  /\ walk = Idle
  /\ held = [l \in Lists |-> <<>>]

Members(l) == {held[l][i] : i \in DOMAIN held[l]}
Free(e) == \A l \in Lists : e \notin Members(l)

\* Elements linked together that are in no list.
Chain(c) ==
  /\ c \in Seq(Elems) /\ c # <<>>
  /\ \A i \in 1 .. Len(c) : Free(c[i])
  /\ \A i, j \in 1 .. Len(c) : c[i] = c[j] => i = j
  /\ \A i \in 1 .. Len(c) - 1 : next[c[i]] = c[i + 1]

Chains == UNION {[1 .. n -> Elems] : n \in 1 .. MaxChain}

-----------------------------------------------------------------------------
(***************************************************************************)
(* The pointer surgery                                                     *)
(***************************************************************************)
PushBackSublist(l, c) ==
  /\ Chain(c)
  /\ first' = IF first[l] = NULL THEN [first EXCEPT ![l] = c[1]] ELSE first
  /\ next' = IF first[l] = NULL THEN [next EXCEPT ![c[Len(c)]] = NULL]
             ELSE [next EXCEPT ![last[l]] = c[1], ![c[Len(c)]] = NULL]
  /\ last' = [last EXCEPT ![l] = c[Len(c)]]
  /\ held' = [held EXCEPT ![l] = held[l] \o c]

PushBack(l, e) == PushBackSublist(l, <<e>>)

PushFront(l, e) ==
  /\ Free(e)
  /\ last' = IF first[l] = NULL THEN [last EXCEPT ![l] = e] ELSE last
  /\ next' = [next EXCEPT ![e] = first[l]]
  /\ first' = [first EXCEPT ![l] = e]
  /\ held' = [held EXCEPT ![l] = <<e>> \o held[l]]

\* The elements after the i-th, up to the j-th, leave the list.
Without(s, i, j) == SubSeq(s, 1, i) \o SubSeq(s, j + 1, Len(s))

\* An element after the k-th.
With(s, e, k) == SubSeq(s, 1, k) \o <<e>> \o SubSeq(s, k + 1, Len(s))

\* What follows ref up to end leaves list l; they stay linked together.
Unlink(l, ref, end) ==
  /\ first' = IF ref = NULL THEN [first EXCEPT ![l] = next[end]] ELSE first
  /\ next' = IF ref = NULL THEN next ELSE [next EXCEPT ![ref] = next[end]]
  /\ last' = IF end = last[l] THEN [last EXCEPT ![l] = ref] ELSE last

\* The element before the i-th, as the loops' prev has it.
Before(s, i) == IF i = 1 THEN NULL ELSE s[i - 1]

-----------------------------------------------------------------------------
(***************************************************************************)
(* Functions without a loop                                                *)
(***************************************************************************)
InitList(l) ==
  /\ first' = [first EXCEPT ![l] = NULL] /\ last' = [last EXCEPT ![l] = NULL]
  /\ held' = [held EXCEPT ![l] = <<>>]
  /\ UNCHANGED next

PopFront(l) ==
  /\ first[l] # NULL
  /\ first' = [first EXCEPT ![l] = next[first[l]]]
  /\ last' = IF first'[l] = NULL THEN [last EXCEPT ![l] = NULL] ELSE last
  /\ held' = [held EXCEPT ![l] = Without(held[l], 0, 1)]
  /\ UNCHANGED next

PopSubfront(l) ==
  /\ first[l] # NULL /\ next[first[l]] # NULL
  /\ LET after == next[next[first[l]]] IN
     next' = IF after = NULL THEN [next EXCEPT ![first[l]] = NULL, ![last[l]] = first[l]]
             ELSE [next EXCEPT ![first[l]] = after]
  /\ held' = [held EXCEPT ![l] = Without(held[l], 1, 2)]
  /\ UNCHANGED <<first, last>>

\* Also co_list_extract_after, where one element leaves.
ExtractSublist(l, i, j) ==
  /\ Unlink(l, IF i = 0 THEN NULL ELSE held[l][i], held[l][j])
  /\ held' = [held EXCEPT ![l] = Without(held[l], i, j)]

Merge(l, m) ==
  /\ first' = [first EXCEPT ![l] = IF first[l] = NULL THEN first[m] ELSE @, ![m] = NULL]
  /\ next' = IF first[l] = NULL THEN next ELSE [next EXCEPT ![last[l]] = first[m]]
  /\ last' = [last EXCEPT ![l] = last[m]]
  /\ held' = [held EXCEPT ![l] = held[l] \o held[m], ![m] = <<>>]

-----------------------------------------------------------------------------
(***************************************************************************)
(* Functions that search                                                   *)
(***************************************************************************)
Ops == {"find", "extract", "insert_before", "insert_after", "size"}

Begin(o, l, t, a) ==
  /\ walk' = [op |-> o, list |-> l, target |-> t, add |-> a,
              prev |-> NULL, curr |-> first[l], count |-> 0, at |-> 1]
  /\ UNCHANGED <<first, last, next, held>>

Look ==
  /\ walk.op # "none" /\ walk.curr \notin {walk.target, NULL}
  /\ walk' = [walk EXCEPT !.prev = walk.curr, !.curr = next[walk.curr],
                          !.count = (@ + 1) % Wrap, !.at = @ + 1]
  /\ UNCHANGED <<first, last, next, held>>

Stopped == walk.op # "none" /\ walk.curr \in {walk.target, NULL}

\* co_list_find and co_list_size answer; co_list_extract finds nothing.
Answer ==
  /\ Stopped /\ walk.op \in {"find", "size", "extract"}
  /\ walk.op = "extract" => walk.curr # walk.target
  /\ walk' = Idle
  /\ UNCHANGED <<first, last, next, held>>

ExtractFound ==
  /\ Stopped /\ walk.op = "extract" /\ walk.curr = walk.target
  /\ Unlink(walk.list, walk.prev, walk.target)
  /\ held' = [held EXCEPT ![walk.list] = Without(@, walk.at - 1, walk.at)]
  /\ walk' = Idle

InsertFound ==
  /\ Stopped /\ walk.op \in {"insert_before", "insert_after"}
  /\ walk' = Idle
  /\ \/ /\ walk.op = "insert_before" /\ walk.prev = NULL
        /\ PushFront(walk.list, walk.add)
     \/ /\ walk.op = "insert_after" /\ walk.curr = NULL
        /\ PushBack(walk.list, walk.add)
     \/ /\ walk.op = "insert_before" /\ walk.prev # NULL
        /\ next' = [next EXCEPT ![walk.prev] = walk.add, ![walk.add] = walk.curr]
        /\ held' = [held EXCEPT ![walk.list] = With(@, walk.add, walk.at - 1)]
        /\ UNCHANGED <<first, last>>
     \/ /\ walk.op = "insert_after" /\ walk.curr # NULL
        /\ next' = [next EXCEPT ![walk.add] = next[walk.curr], ![walk.curr] = walk.add]
        /\ last' = IF next[walk.curr] = NULL THEN [last EXCEPT ![walk.list] = walk.add] ELSE last
        /\ held' = [held EXCEPT ![walk.list] = With(@, walk.add, walk.at)]
        /\ UNCHANGED first

-----------------------------------------------------------------------------
\* Callers keep to what the functions need: an element is inserted into one list
\* only, the reference is in the list, what is cut out is there.  Two calls the
\* header allows are kept out because the list does not survive them: removing
\* the second of two elements, and merging an empty list into another.
Call(l) ==
  \/ InitList(l)
  \/ \E c \in Chains : PushBackSublist(l, c)
  \/ \E e \in Elems : PushFront(l, e)
  \/ PopFront(l)
  \/ Len(held[l]) # 2 /\ PopSubfront(l)
  \/ \E j \in 1 .. Len(held[l]) : \E i \in 0 .. j - 1 : ExtractSublist(l, i, j)
  \/ \E m \in Lists \ {l} : (held[m] # <<>> \/ held[l] = <<>>) /\ Merge(l, m)

Search(l) ==
  \/ Begin("size", l, NULL, NULL)
  \/ \E e \in Elems : Begin("find", l, e, NULL) \/ Begin("extract", l, e, NULL)
  \/ \E e, r \in Elems :
       /\ Free(e)
       /\ \/ (r \in Members(l) \/ held[l] = <<>>) /\ Begin("insert_before", l, r, e)
          \/ Begin("insert_after", l, r, e)

Next ==
  \/ walk.op = "none" /\ \E l \in Lists : Call(l) /\ UNCHANGED walk
  \/ walk.op = "none" /\ \E l \in Lists : Search(l)
  \/ Look \/ Answer \/ ExtractFound \/ InsertFound

Spec == Init /\ [][Next]_vars

-----------------------------------------------------------------------------
(***************************************************************************)
(* Properties                                                              *)
(***************************************************************************)
TypeOK ==
  /\ first \in [Lists -> Pointers] /\ last \in [Lists -> Pointers]
  /\ next \in [Elems -> Pointers]
  /\ walk \in [op : Ops \cup {"none"}, list : Lists \cup {NULL}, target : Pointers,
               add : Pointers, prev : Pointers, curr : Pointers,
               count : 0 .. Wrap - 1, at : Nat \ {0}]
  /\ held \in [Lists -> Seq(Elems)]

\* The pointers f, la and nx hold the sequence s.
Is(f, la, nx, s) ==
  /\ f = (IF s = <<>> THEN NULL ELSE s[1])
  /\ s # <<>> => la = s[Len(s)] /\ nx[s[Len(s)]] = NULL
  /\ \A i \in 1 .. Len(s) - 1 : nx[s[i]] = s[i + 1]

\* A list is the sequence of the elements put into it, whatever is done to this
\* list and to others: nothing is lost, and last is the last one (co_list.c:89).
Represents == \A l \in Lists : Is(first[l], last[l], next, held[l])

\* An element is in one list, once.
Apart ==
  \A l, m \in Lists : \A i \in DOMAIN held[l], j \in DOMAIN held[m] :
    held[l][i] = held[m][j] => l = m /\ i = j

\* A search ends where it should: it has found its element exactly if that is in
\* the list, and the size is the number of elements, in 16 bits (co_list.c:185, 276, 390).
AnswersRight ==
  Stopped =>
    /\ walk.op # "size" => (walk.curr = walk.target <=> walk.target \in Members(walk.list))
    /\ walk.op = "size" => walk.count = Len(held[walk.list]) % Wrap

\* A search has passed the elements before the at-th, and none was its target.
WalkSound ==
  walk.op # "none" =>
    LET s == held[walk.list] IN
    /\ walk.list \in Lists
    /\ walk.op = "size" => walk.target = NULL
    /\ walk.op # "size" => walk.target \in Elems
    /\ walk.at \in 1 .. Len(s) + 1 /\ walk.count = (walk.at - 1) % Wrap
    /\ walk.prev = Before(s, walk.at)
    /\ walk.curr = (IF walk.at <= Len(s) THEN s[walk.at] ELSE NULL)
    /\ \A i \in 1 .. walk.at - 1 : s[i] # walk.target
    /\ walk.op \in {"insert_before", "insert_after"} => walk.add \in Elems /\ Free(walk.add)
    /\ walk.op = "insert_before" => walk.target \in Members(walk.list) \/ s = <<>>
=============================================================================
