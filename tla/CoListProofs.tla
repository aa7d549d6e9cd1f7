---------------------------- MODULE CoListProofs ----------------------------
(***************************************************************************)
(* The functions of co_list.c keep every list the sequence it should be.   *)
(* NULL is the address of no element.                                      *)
(***************************************************************************)
EXTENDS CoList, TLAPS

\* The lists, without the search that runs.
Pointed ==
  /\ first \in [Lists -> Pointers] /\ last \in [Lists -> Pointers]
  /\ next \in [Elems -> Pointers] /\ held \in [Lists -> Seq(Elems)]
Whole == Pointed /\ Represents /\ Apart

Linked(nx, s) == \A i \in 1 .. Len(s) - 1 : nx[s[i]] = s[i + 1]
Inj(s) == \A i, j \in 1 .. Len(s) : s[i] = s[j] => i = j
Elem(s, x) == \E i \in 1 .. Len(s) : s[i] = x

-----------------------------------------------------------------------------
(***************************************************************************)
(* Sequences                                                               *)
(***************************************************************************)
\* What a concatenation holds, and at which place.
LEMMA ConcatIndex ==
  ASSUME NEW s \in Seq(Elems), NEW t \in Seq(Elems)
  PROVE  /\ s \o t \in Seq(Elems)
         /\ Len(s \o t) = Len(s) + Len(t)
         /\ \A i \in 1 .. Len(s) : (s \o t)[i] = s[i]
         /\ \A i \in 1 .. Len(t) : (s \o t)[Len(s) + i] = t[i]
         /\ \A i \in Len(s) + 1 .. Len(s) + Len(t) : (s \o t)[i] = t[i - Len(s)]
  OBVIOUS

\* The first and the last of a concatenation.
LEMMA ConcatEnds ==
  ASSUME NEW s \in Seq(Elems), NEW t \in Seq(Elems), t # <<>>
  PROVE  /\ s \o t \in Seq(Elems) /\ s \o t # <<>> /\ Len(s \o t) = Len(s) + Len(t)
         /\ (s \o t)[Len(s \o t)] = t[Len(t)]
         /\ (s \o t)[1] = IF s = <<>> THEN t[1] ELSE s[1]
<1>1. Len(t) \in 1 .. Len(t) /\ 1 \in 1 .. Len(t) /\ Len(s) \in Nat  OBVIOUS
<1>2. s \o t \in Seq(Elems) /\ Len(s \o t) = Len(s) + Len(t)  BY ConcatIndex
<1>3. s \o t # <<>>
  <2>1. Len(s \o t) # 0  BY <1>1, <1>2
  <2> QED  BY <2>1
<1>4. (s \o t)[Len(s) + Len(t)] = t[Len(t)]  BY <1>1, ConcatIndex
<1>5. CASE s = <<>>
  <2>1. Len(s) = 0 /\ (s \o t)[Len(s) + 1] = t[1]  BY <1>1, <1>5, ConcatIndex
  <2>2. (s \o t)[1] = t[1]  BY <2>1
  <2> QED  BY <1>2, <1>3, <1>4, <1>5, <2>2
<1>6. CASE s # <<>>
  <2>1. 1 \in 1 .. Len(s)  BY <1>6
  <2> QED  BY <1>2, <1>3, <1>4, <1>6, <2>1, ConcatIndex
<1> QED  BY <1>5, <1>6

\* A concatenation holds what the two sequences hold.
LEMMA ConcatMembers ==
  ASSUME NEW s \in Seq(Elems), NEW t \in Seq(Elems), NEW k \in 1 .. Len(s \o t)
  PROVE  \/ \E n \in 1 .. Len(s) : (s \o t)[k] = s[n]
         \/ \E n \in 1 .. Len(t) : (s \o t)[k] = t[n]
<1>1. Len(s \o t) = Len(s) + Len(t)  BY ConcatIndex
<1>2. CASE k <= Len(s)
  <2>1. k \in 1 .. Len(s)  BY <1>1, <1>2
  <2> QED  BY <2>1, ConcatIndex
<1>3. CASE k > Len(s)
  <2>1. k \in Len(s) + 1 .. Len(s) + Len(t) /\ k - Len(s) \in 1 .. Len(t)  BY <1>1, <1>3
  <2>2. (s \o t)[k] = t[k - Len(s)]  BY <2>1, ConcatIndex
  <2> QED  BY <2>1, <2>2
<1> QED  BY <1>1, <1>2, <1>3

\* What a part of a sequence holds.
LEMMA PartIndex ==
  ASSUME NEW s \in Seq(Elems), NEW i \in 1 .. Len(s) + 1, NEW j \in 0 .. Len(s), i <= j + 1
  PROVE  /\ SubSeq(s, i, j) \in Seq(Elems)
         /\ Len(SubSeq(s, i, j)) = j - i + 1
         /\ \A k \in 1 .. j - i + 1 : SubSeq(s, i, j)[k] = s[i + k - 1]
  OBVIOUS

\* Two linked sequences, the first linked to the second, are one.
LEMMA LinkedConcat ==
  ASSUME NEW s \in Seq(Elems), NEW t \in Seq(Elems), NEW nx,
         Linked(nx, s), Linked(nx, t),
         s # <<>> /\ t # <<>> => nx[s[Len(s)]] = t[1]
  PROVE  Linked(nx, s \o t)
<1> SUFFICES ASSUME NEW i \in 1 .. Len(s \o t) - 1
             PROVE  nx[(s \o t)[i]] = (s \o t)[i + 1]
  BY DEF Linked
<1>1. Len(s \o t) = Len(s) + Len(t)  BY ConcatIndex
<1>2. CASE i < Len(s)
  <2>1. (s \o t)[i] = s[i] /\ (s \o t)[i + 1] = s[i + 1]  BY <1>2, ConcatIndex
  <2> QED  BY <1>2, <2>1 DEF Linked
<1>3. CASE i = Len(s)
  <2>1. i \in 1 .. Len(s) /\ 1 \in 1 .. Len(t) /\ s # <<>> /\ t # <<>>  BY <1>1, <1>3
  <2>2. (s \o t)[i] = s[i] /\ (s \o t)[i + 1] = t[1]  BY <1>3, <2>1, ConcatIndex
  <2> QED  BY <1>3, <2>1, <2>2
<1>4. CASE i > Len(s)
  <2>1. i - Len(s) \in 1 .. Len(t) - 1  BY <1>1, <1>4
  <2>2. (s \o t)[i] = t[i - Len(s)]  BY <1>1, <1>4, ConcatIndex
  <2>3. (s \o t)[i + 1] = t[i + 1 - Len(s)]  BY <1>1, <1>4, ConcatIndex
  <2>4. i + 1 - Len(s) = (i - Len(s)) + 1  OBVIOUS
  <2> QED  BY <2>1, <2>2, <2>3, <2>4 DEF Linked
<1> QED  BY <1>2, <1>3, <1>4

\* A part of a linked sequence is linked.
LEMMA LinkedPart ==
  ASSUME NEW s \in Seq(Elems), NEW i \in 1 .. Len(s) + 1, NEW j \in 0 .. Len(s), i <= j + 1,
         NEW nx, Linked(nx, s)
  PROVE  Linked(nx, SubSeq(s, i, j))
<1> SUFFICES ASSUME NEW k \in 1 .. Len(SubSeq(s, i, j)) - 1
             PROVE  nx[SubSeq(s, i, j)[k]] = SubSeq(s, i, j)[k + 1]
  BY DEF Linked
<1>1. k \in 1 .. j - i /\ i + k - 1 \in 1 .. Len(s) - 1  BY PartIndex
<1>2. SubSeq(s, i, j)[k] = s[i + k - 1] /\ SubSeq(s, i, j)[k + 1] = s[i + k]  BY <1>1, PartIndex
<1>3. nx[s[i + k - 1]] = s[(i + k - 1) + 1]  BY <1>1 DEF Linked
<1> QED  BY <1>1, <1>2, <1>3

\* A concatenation of sequences without repetition and in common has none.
LEMMA InjConcat ==
  ASSUME NEW s \in Seq(Elems), NEW t \in Seq(Elems), Inj(s), Inj(t),
         \A i \in 1 .. Len(s), j \in 1 .. Len(t) : s[i] # t[j]
  PROVE  Inj(s \o t)
<1> SUFFICES ASSUME NEW i \in 1 .. Len(s \o t), NEW j \in 1 .. Len(s \o t),
                    (s \o t)[i] = (s \o t)[j]
             PROVE  i = j
  BY DEF Inj
<1>1. Len(s \o t) = Len(s) + Len(t)  BY ConcatIndex
<1>2. \A k \in 1 .. Len(s \o t) :
        \/ k \in 1 .. Len(s) /\ (s \o t)[k] = s[k]
        \/ k - Len(s) \in 1 .. Len(t) /\ (s \o t)[k] = t[k - Len(s)]
  <2> SUFFICES ASSUME NEW k \in 1 .. Len(s \o t)
               PROVE  \/ k \in 1 .. Len(s) /\ (s \o t)[k] = s[k]
                      \/ k - Len(s) \in 1 .. Len(t) /\ (s \o t)[k] = t[k - Len(s)]
    OBVIOUS
  <2>1. Len(s) \in Nat /\ Len(t) \in Nat  OBVIOUS
  <2>2. CASE k <= Len(s)
    <3>1. k \in 1 .. Len(s)  BY <2>1, <2>2
    <3> QED  BY <3>1, ConcatIndex
  <2>3. CASE ~(k <= Len(s))
    <3>1. k \in Len(s) + 1 .. Len(s) + Len(t) /\ k - Len(s) \in 1 .. Len(t)
      BY <1>1, <2>1, <2>3
    <3> QED  BY <3>1, ConcatIndex
  <2> QED  BY <2>2, <2>3
<1>3. CASE i \in 1 .. Len(s) /\ j \in 1 .. Len(s)  BY <1>3, ConcatIndex DEF Inj
<1>4. CASE i - Len(s) \in 1 .. Len(t) /\ j - Len(s) \in 1 .. Len(t)
  <2>1. (s \o t)[i] = t[i - Len(s)] /\ (s \o t)[j] = t[j - Len(s)]  BY <1>2, <1>4
  <2>2. i - Len(s) = j - Len(s)  BY <1>4, <2>1 DEF Inj
  <2> QED  BY <2>2
<1>5. CASE i \in 1 .. Len(s) /\ j - Len(s) \in 1 .. Len(t)  BY <1>2, <1>5
<1>6. CASE j \in 1 .. Len(s) /\ i - Len(s) \in 1 .. Len(t)  BY <1>2, <1>6
<1> QED  BY <1>2, <1>3, <1>4, <1>5, <1>6

\* Two parts of a sequence without repetition have nothing in common.
LEMMA InjParts ==
  ASSUME NEW s \in Seq(Elems), Inj(s), NEW i \in 0 .. Len(s), NEW j \in 0 .. Len(s), i <= j
  PROVE  /\ Inj(SubSeq(s, 1, i)) /\ Inj(SubSeq(s, j + 1, Len(s)))
         /\ \A a \in 1 .. Len(SubSeq(s, 1, i)), b \in 1 .. Len(SubSeq(s, j + 1, Len(s))) :
              SubSeq(s, 1, i)[a] # SubSeq(s, j + 1, Len(s))[b]
<1>1. /\ Len(SubSeq(s, 1, i)) = i
      /\ \A k \in 1 .. i : SubSeq(s, 1, i)[k] = s[k]
  BY PartIndex
<1>2. /\ Len(SubSeq(s, j + 1, Len(s))) = Len(s) - j
      /\ \A k \in 1 .. Len(s) - j : SubSeq(s, j + 1, Len(s))[k] = s[j + k]
  BY PartIndex
<1>3. Inj(SubSeq(s, 1, i))  BY <1>1 DEF Inj
<1>4. Inj(SubSeq(s, j + 1, Len(s)))
  <2> SUFFICES ASSUME NEW a \in 1 .. Len(s) - j, NEW b \in 1 .. Len(s) - j, s[j + a] = s[j + b]
               PROVE  a = b
    BY <1>2 DEF Inj
  <2>1. j + a \in 1 .. Len(s) /\ j + b \in 1 .. Len(s)  OBVIOUS
  <2>2. j + a = j + b  BY <2>1 DEF Inj
  <2> QED  BY <2>2
<1>5. ASSUME NEW a \in 1 .. i, NEW b \in 1 .. Len(s) - j
      PROVE  s[a] # s[j + b]
  <2>1. a \in 1 .. Len(s) /\ j + b \in 1 .. Len(s) /\ a # j + b  OBVIOUS
  <2> QED  BY <2>1 DEF Inj
<1> QED  BY <1>1, <1>2, <1>3, <1>4, <1>5

-----------------------------------------------------------------------------
(***************************************************************************)
(* One list changes, the others stay                                       *)
(***************************************************************************)
\* An element is free or in list l: no other list has it.
Own(l, e) == e \in Members(l) \/ Free(e)

\* The pointers of a linked sequence hold it.
LEMMA IsOf ==
  ASSUME NEW s \in Seq(Elems), s # <<>>, NEW nx, Linked(nx, s), nx[s[Len(s)]] = NULL
  PROVE  Is(s[1], s[Len(s)], nx, s)
  BY DEF Is, Linked

\* What Is says of a list.
LEMMA ListOf ==
  ASSUME Whole, NEW l \in Lists
  PROVE  /\ held[l] \in Seq(Elems) /\ Linked(next, held[l]) /\ Inj(held[l])
         /\ held[l] = <<>> => first[l] = NULL
         /\ held[l] # <<>> => /\ Len(held[l]) \in Nat \ {0}
                              /\ first[l] = held[l][1] /\ last[l] = held[l][Len(held[l])]
                              /\ next[held[l][Len(held[l])]] = NULL
  BY DEF Whole, Pointed, Represents, Apart, Is, Linked, Inj

\* An element a list owns is in no other.
LEMMA OwnApart ==
  ASSUME Whole, NEW l \in Lists, NEW m \in Lists, l # m, NEW e, Own(l, e)
  PROVE  \A i \in 1 .. Len(held[m]) : held[m][i] # e
<1>1. held[l] \in Seq(Elems) /\ held[m] \in Seq(Elems)  BY DEF Whole, Pointed
<1>2. CASE Free(e)  BY <1>1, <1>2 DEF Free, Members
<1>3. CASE e \in Members(l)  BY <1>1, <1>3 DEF Whole, Members, Apart
<1> QED  BY <1>2, <1>3 DEF Own

\* A function that changes list l only, moves elements that are in no other, and
\* leaves pointers that hold the sequence it promises, keeps everything whole.
LEMMA OneList ==
  ASSUME Whole, NEW l \in Lists, NEW t \in Seq(Elems),
         Inj(t), \A i \in 1 .. Len(t) : Own(l, t[i]),
         held' = [held EXCEPT ![l] = t],
         \A m \in Lists \ {l} : first'[m] = first[m] /\ last'[m] = last[m],
         \A e \in Elems : next'[e] # next[e] => Own(l, e),
         Is(first'[l], last'[l], next', t)
  PROVE  held' \in [Lists -> Seq(Elems)] /\ Represents' /\ Apart'
<1>1. held'[l] = t /\ \A m \in Lists \ {l} : held'[m] = held[m]  BY DEF Whole, Pointed
<1>2. \A m \in Lists : held[m] \in Seq(Elems) /\ held'[m] \in Seq(Elems)  BY <1>1 DEF Whole, Pointed
<1>3. Represents'
  <2> SUFFICES ASSUME NEW m \in Lists  PROVE Is(first'[m], last'[m], next', held'[m])
    BY DEF Represents
  <2>1. CASE m = l  BY <1>1, <2>1
  <2>2. CASE m # l
    <3>1. Is(first[m], last[m], next, held[m])  BY DEF Whole, Represents
    <3>2. \A i \in 1 .. Len(held[m]) : next'[held[m][i]] = next[held[m][i]]
      BY <1>2, <2>2, OwnApart
    <3>3. held[m] # <<>> => Len(held[m]) \in 1 .. Len(held[m])  BY <1>2
    <3>4. \A i \in 1 .. Len(held[m]) - 1 : i \in 1 .. Len(held[m])  BY <1>2
    <3>5. Is(first[m], last[m], next', held[m])
      <4>1. first[m] = (IF held[m] = <<>> THEN NULL ELSE held[m][1])  BY <3>1 DEF Is
      <4>2. held[m] # <<>> => last[m] = held[m][Len(held[m])] /\ next'[held[m][Len(held[m])]] = NULL
        BY <3>1, <3>2, <3>3 DEF Is
      <4>3. \A i \in 1 .. Len(held[m]) - 1 : next'[held[m][i]] = held[m][i + 1]
        BY <3>1, <3>2, <3>4 DEF Is
      <4> QED  BY <4>1, <4>2, <4>3 DEF Is
    <3>6. first'[m] = first[m] /\ last'[m] = last[m] /\ held'[m] = held[m]  BY <1>1, <2>2
    <3> QED  BY <3>5, <3>6
  <2> QED  BY <2>1, <2>2
<1>4. ASSUME NEW m \in Lists, NEW n \in Lists,
             NEW i \in 1 .. Len(held'[m]), NEW j \in 1 .. Len(held'[n]),
             held'[m][i] = held'[n][j]
      PROVE  m = n /\ i = j
  <2>1. CASE m = l /\ n = l  BY <1>1, <1>4, <2>1 DEF Inj
  <2>2. CASE m = l /\ n # l  BY <1>1, <1>4, <2>2, OwnApart
  <2>3. CASE m # l /\ n = l  BY <1>1, <1>4, <2>3, OwnApart
  <2>4. CASE m # l /\ n # l  BY <1>1, <1>2, <1>4, <2>4 DEF Whole, Apart
  <2> QED  BY <2>1, <2>2, <2>3, <2>4
<1>6. Apart'
  <2>1. \A m \in Lists : DOMAIN held'[m] = 1 .. Len(held'[m])  BY <1>2
  <2> QED  BY <1>4, <2>1 DEF Apart
<1>5. held' \in [Lists -> Seq(Elems)]  BY DEF Whole, Pointed
<1> QED  BY <1>3, <1>5, <1>6

-----------------------------------------------------------------------------
(***************************************************************************)
(* Each function                                                           *)
(***************************************************************************)
\* Appending elements that are in no list.
LEMMA AppendStep ==
  ASSUME NULL \notin Elems, Whole, NEW l \in Lists, NEW c, PushBackSublist(l, c)
  PROVE  Whole'
<1> DEFINE s == held[l]
           t == s \o c
<1>1. /\ s \in Seq(Elems) /\ c \in Seq(Elems) /\ c # <<>>
      /\ Linked(next, s) /\ Linked(next, c) /\ Inj(s) /\ Inj(c)
  BY ListOf DEF PushBackSublist, Chain, Linked, Inj
<1>2. Len(c) \in 1 .. Len(c) /\ 1 \in 1 .. Len(c) /\ c[1] \in Elems /\ c[Len(c)] \in Elems
  BY <1>1
<1>3. \A i \in 1 .. Len(c) : Free(c[i])  BY DEF PushBackSublist, Chain
<1>4. \A i \in 1 .. Len(s), j \in 1 .. Len(c) : s[i] # c[j]
  BY <1>1, <1>3 DEF Free, Members
<1>5. s # <<>> => Len(s) \in 1 .. Len(s) /\ s[Len(s)] \in Elems /\ s[1] \in Elems  BY <1>1
<1>6. /\ s = <<>> => first[l] = NULL
      /\ s # <<>> => first[l] = s[1] /\ first[l] # NULL /\ last[l] = s[Len(s)]
  BY <1>5, ListOf
<1>7. /\ \A x \in Elems : x # c[Len(c)] /\ (s # <<>> => x # s[Len(s)]) => next'[x] = next[x]
      /\ next'[c[Len(c)]] = NULL
      /\ s # <<>> => next'[s[Len(s)]] = c[1]
      /\ next' \in [Elems -> Pointers]
  <2>1. next \in [Elems -> Pointers]  BY DEF Whole, Pointed
  <2>2. CASE s = <<>>
    <3>1. next' = [next EXCEPT ![c[Len(c)]] = NULL]  BY <1>6, <2>2 DEF PushBackSublist
    <3> QED  BY <1>2, <2>1, <2>2, <3>1 DEF Pointers
  <2>3. CASE s # <<>>
    <3>1. next' = [next EXCEPT ![s[Len(s)]] = c[1], ![c[Len(c)]] = NULL]
      BY <1>6, <2>3 DEF PushBackSublist
    <3>2. s[Len(s)] # c[Len(c)]  BY <1>2, <1>4, <1>5, <2>3
    <3> QED  BY <1>2, <1>5, <2>1, <2>3, <3>1, <3>2 DEF Pointers
  <2> QED  BY <2>2, <2>3
<1>8. t \in Seq(Elems) /\ Len(t) = Len(s) + Len(c) /\ t[Len(t)] = c[Len(c)] /\ t # <<>>
      /\ t[1] = IF s = <<>> THEN c[1] ELSE s[1]
  BY <1>1, ConcatEnds
<1>9. Linked(next', t)
  <2>1. Linked(next', s)
    <3> SUFFICES ASSUME NEW i \in 1 .. Len(s) - 1  PROVE next'[s[i]] = s[i + 1]  BY DEF Linked
    <3>1. s[i] \in Elems /\ s[i] # s[Len(s)] /\ s[i] # c[Len(c)]
      BY <1>1, <1>2, <1>4 DEF Inj
    <3> QED  BY <1>1, <1>7, <3>1 DEF Linked
  <2>2. Linked(next', c)
    <3> SUFFICES ASSUME NEW i \in 1 .. Len(c) - 1  PROVE next'[c[i]] = c[i + 1]  BY DEF Linked
    <3>1. c[i] \in Elems /\ c[i] # c[Len(c)] /\ (s # <<>> => c[i] # s[Len(s)])
      BY <1>1, <1>2, <1>4, <1>5 DEF Inj
    <3> QED  BY <1>1, <1>7, <3>1 DEF Linked
  <2> QED  BY <1>1, <1>7, <2>1, <2>2, LinkedConcat
<1>10. Inj(t)  BY <1>1, <1>4, InjConcat
<1>11. \A i \in 1 .. Len(t) : Own(l, t[i])
  <2> SUFFICES ASSUME NEW i \in 1 .. Len(t)  PROVE Own(l, t[i])  OBVIOUS
  <2>1. (\E n \in 1 .. Len(s) : t[i] = s[n]) \/ (\E n \in 1 .. Len(c) : t[i] = c[n])
    BY <1>1, ConcatMembers
  <2> QED  BY <1>1, <1>3, <2>1 DEF Own, Members
<1>12. \A x \in Elems : next'[x] # next[x] => Own(l, x)
  BY <1>2, <1>3, <1>5, <1>7 DEF Own, Members
<1>13. /\ first' \in [Lists -> Pointers] /\ last' \in [Lists -> Pointers]
       /\ first'[l] = t[1] /\ last'[l] = t[Len(t)]
       /\ \A m \in Lists \ {l} : first'[m] = first[m] /\ last'[m] = last[m]
  BY <1>2, <1>6, <1>8 DEF Whole, Pointed, Pointers, PushBackSublist
<1>14. Is(first'[l], last'[l], next', t)  BY <1>7, <1>8, <1>9, <1>13, IsOf
<1>15. held' = [held EXCEPT ![l] = t]  BY DEF PushBackSublist
<1>16. held' \in [Lists -> Seq(Elems)] /\ Represents' /\ Apart'
  BY <1>8, <1>10, <1>11, <1>12, <1>13, <1>14, <1>15, OneList
<1> QED  BY <1>7, <1>13, <1>16 DEF Whole, Pointed

\* Pushing an element in front.
LEMMA FrontStep ==
  ASSUME NULL \notin Elems, Whole, NEW l \in Lists, NEW e \in Elems, PushFront(l, e)
  PROVE  Whole'
<1> DEFINE s == held[l]
           c == <<e>>
           t == c \o s
<1>1. /\ s \in Seq(Elems) /\ Linked(next, s) /\ Inj(s)
      /\ s = <<>> => first[l] = NULL
      /\ s # <<>> => /\ Len(s) \in 1 .. Len(s) /\ 1 \in 1 .. Len(s) /\ s[1] \in Elems
                     /\ first[l] = s[1] /\ last[l] = s[Len(s)] /\ next[s[Len(s)]] = NULL
  BY ListOf
<1>2. c \in Seq(Elems) /\ c # <<>> /\ Len(c) = 1 /\ c[1] = e /\ Inj(c)  BY DEF Inj
<1>3. Free(e) /\ \A i \in 1 .. Len(s) : s[i] # e
  BY <1>1 DEF PushFront, Free, Members
<1>4. /\ next' \in [Elems -> Pointers] /\ next'[e] = first[l]
      /\ \A x \in Elems : x # e => next'[x] = next[x]
  BY DEF Whole, Pointed, Pointers, PushFront
<1>5. t \in Seq(Elems) /\ t # <<>> /\ t[1] = e /\ Inj(t)
      /\ t[Len(t)] = IF s = <<>> THEN e ELSE s[Len(s)]
  <2>1. t \in Seq(Elems) /\ Len(t) = 1 + Len(s) /\ t[1] = e
    BY <1>1, <1>2, ConcatIndex
  <2>2. t # <<>>
    <3>1. Len(t) # 0  BY <1>1, <2>1
    <3> QED  BY <3>1
  <2>3. Inj(t)
    <3>1. \A i \in 1 .. Len(c), j \in 1 .. Len(s) : c[i] # s[j]  BY <1>2, <1>3
    <3> HIDE DEF c
    <3> QED  BY <1>1, <1>2, <3>1, InjConcat
  <2>4. CASE s = <<>>  BY <2>1, <2>2, <2>3, <2>4
  <2>5. CASE s # <<>>
    <3>1. t[Len(t)] = s[Len(s)]  BY <1>1, <1>2, <2>5, ConcatEnds
    <3> QED  BY <2>1, <2>2, <2>3, <2>5, <3>1
  <2> QED  BY <2>4, <2>5
<1>6. Linked(next', t)
  <2>1. Linked(next', s)
    <3> SUFFICES ASSUME NEW i \in 1 .. Len(s) - 1  PROVE next'[s[i]] = s[i + 1]  BY DEF Linked
    <3>1. s[i] \in Elems /\ s[i] # e  BY <1>1, <1>3
    <3> QED  BY <1>1, <1>4, <3>1 DEF Linked
  <2>2. Linked(next', c)  BY <1>2 DEF Linked
  <2> QED  BY <1>1, <1>2, <1>4, <2>1, <2>2, LinkedConcat
<1>7. next'[t[Len(t)]] = NULL  BY <1>1, <1>3, <1>4, <1>5
<1>8. \A i \in 1 .. Len(t) : Own(l, t[i])
  <2> SUFFICES ASSUME NEW i \in 1 .. Len(t)  PROVE Own(l, t[i])  OBVIOUS
  <2>1. (\E n \in 1 .. Len(c) : t[i] = c[n]) \/ (\E n \in 1 .. Len(s) : t[i] = s[n])
    BY <1>1, <1>2, ConcatMembers
  <2> QED  BY <1>1, <1>2, <1>3, <2>1 DEF Own, Members
<1>9. \A x \in Elems : next'[x] # next[x] => Own(l, x)  BY <1>3, <1>4 DEF Own
<1>10. /\ first' \in [Lists -> Pointers] /\ last' \in [Lists -> Pointers]
       /\ first'[l] = t[1] /\ last'[l] = t[Len(t)]
       /\ \A m \in Lists \ {l} : first'[m] = first[m] /\ last'[m] = last[m]
  <2>1. first \in [Lists -> Pointers] /\ last \in [Lists -> Pointers]  BY DEF Whole, Pointed
  <2>2. first' = [first EXCEPT ![l] = e]
        /\ last' = IF first[l] = NULL THEN [last EXCEPT ![l] = e] ELSE last
    BY DEF PushFront
  <2>3. CASE s = <<>>  BY <1>1, <1>5, <2>1, <2>2, <2>3 DEF Pointers
  <2>4. CASE s # <<>>  BY <1>1, <1>5, <2>1, <2>2, <2>4 DEF Pointers
  <2> QED  BY <2>3, <2>4
<1>11. Is(first'[l], last'[l], next', t)  BY <1>5, <1>6, <1>7, <1>10, IsOf
<1>12. held' = [held EXCEPT ![l] = t]  BY DEF PushFront
<1>13. held' \in [Lists -> Seq(Elems)] /\ Represents' /\ Apart'
  BY <1>5, <1>8, <1>9, <1>10, <1>11, <1>12, OneList
<1> QED  BY <1>4, <1>10, <1>13 DEF Whole, Pointed

\* The sequence s without its elements from i + 1 to j, linked by ny.
Cut(s, nx, ny, i, j) ==
  LET t == Without(s, i, j) IN
  /\ t \in Seq(Elems) /\ Inj(t)
  /\ \A k \in 1 .. Len(t) : \E n \in 1 .. Len(s) : t[k] = s[n]
  /\ t = <<>> <=> i = 0 /\ j = Len(s)
  /\ t # <<>> => /\ Linked(ny, t) /\ ny[t[Len(t)]] = NULL
                 /\ t[1] = IF i = 0 THEN s[j + 1] ELSE s[1]
                 /\ t[Len(t)] = IF j = Len(s) THEN s[i] ELSE s[Len(s)]

\* What a list keeps when a stretch of it is cut out.
LEMMA WithoutIs ==
  ASSUME NEW s \in Seq(Elems), Inj(s), NEW nx, NEW ny, Linked(nx, s),
         NEW i \in Nat, NEW j \in 1 .. Len(s), i < j,
         nx[s[Len(s)]] = NULL,
         \A x \in Elems : (i > 0 => x # s[i]) => ny[x] = nx[x],
         i > 0 => ny[s[i]] = nx[s[j]]
  PROVE  Cut(s, nx, ny, i, j)
<1> DEFINE a == SubSeq(s, 1, i)
           b == SubSeq(s, j + 1, Len(s))
           t == Without(s, i, j)
<1>1. i \in 0 .. Len(s) /\ j \in 0 .. Len(s) /\ Len(s) \in Nat /\ i <= j  OBVIOUS
<1>2. a \in Seq(Elems) /\ Len(a) = i /\ \A k \in 1 .. i : a[k] = s[k]  BY <1>1, PartIndex
<1>3. b \in Seq(Elems) /\ Len(b) = Len(s) - j /\ \A k \in 1 .. Len(s) - j : b[k] = s[j + k]
  BY <1>1, PartIndex
<1>4. t = a \o b  BY DEF Without
<1>6. Inj(t)  BY <1>1, <1>2, <1>3, <1>4, InjParts, InjConcat
<1> HIDE DEF a, b, t
<1>5. t \in Seq(Elems) /\ Len(t) = i + (Len(s) - j)  BY <1>2, <1>3, <1>4, ConcatIndex
<1>7. \A k \in 1 .. Len(t) : \E n \in 1 .. Len(s) : t[k] = s[n]
  <2> SUFFICES ASSUME NEW k \in 1 .. Len(t)  PROVE \E n \in 1 .. Len(s) : t[k] = s[n]  OBVIOUS
  <2>1. CASE k <= i
    <3>1. t[k] = s[k] /\ k \in 1 .. Len(s)  BY <1>1, <1>2, <1>3, <1>4, <2>1, ConcatIndex
    <3> QED  BY <3>1
  <2>2. CASE k > i
    <3>1. k \in Len(a) + 1 .. Len(a) + Len(b) /\ k - i \in 1 .. Len(s) - j
      BY <1>1, <1>2, <1>3, <1>5, <2>2
    <3>2. t[k] = b[k - i]  BY <1>2, <1>3, <1>4, <3>1, ConcatIndex
    <3>3. b[k - i] = s[j + (k - i)]  BY <1>3, <3>1
    <3>4. j + (k - i) \in 1 .. Len(s)  BY <1>1, <3>1
    <3> QED  BY <3>2, <3>3, <3>4
  <2> QED  BY <1>1, <2>1, <2>2
<1>8. t = <<>> <=> i = 0 /\ j = Len(s)
  <2>1. t = <<>> <=> Len(t) = 0  BY <1>5
  <2> QED  BY <1>1, <1>5, <2>1
<1>9. ASSUME t # <<>>
      PROVE  /\ Linked(ny, t) /\ ny[t[Len(t)]] = NULL
             /\ t[1] = IF i = 0 THEN s[j + 1] ELSE s[1]
             /\ t[Len(t)] = IF j = Len(s) THEN s[i] ELSE s[Len(s)]
  <2>1. \A k \in 1 .. Len(s) : s[k] \in Elems /\ (k # i => ny[s[k]] = nx[s[k]])
    <3> SUFFICES ASSUME NEW k \in 1 .. Len(s)
                 PROVE  s[k] \in Elems /\ (k # i => ny[s[k]] = nx[s[k]])
      OBVIOUS
    <3>1. i > 0 => i \in 1 .. Len(s)  BY <1>1
    <3>2. k # i /\ i > 0 => s[k] # s[i]  BY <3>1 DEF Inj
    <3> QED  BY <3>2
  <2>2. Linked(ny, a)
    <3> SUFFICES ASSUME NEW k \in 1 .. i - 1  PROVE ny[a[k]] = a[k + 1]  BY <1>2 DEF Linked
    <3>1. k \in 1 .. i /\ k + 1 \in 1 .. i /\ k \in 1 .. Len(s) - 1 /\ k # i  BY <1>1
    <3>2. ny[s[k]] = s[k + 1]  BY <2>1, <3>1 DEF Linked
    <3> QED  BY <1>2, <3>1, <3>2
  <2>3. Linked(ny, b)
    <3> SUFFICES ASSUME NEW k \in 1 .. Len(s) - j - 1  PROVE ny[b[k]] = b[k + 1]
      BY <1>3 DEF Linked
    <3>1. k \in 1 .. Len(s) - j /\ k + 1 \in 1 .. Len(s) - j /\ j + k \in 1 .. Len(s) - 1 /\ j + k # i
      BY <1>1
    <3>2. ny[s[j + k]] = s[(j + k) + 1]  BY <2>1, <3>1 DEF Linked
    <3> QED  BY <1>3, <3>1, <3>2
  <2>4. CASE j = Len(s)
    <3>1. i > 0 /\ i \in 1 .. Len(s)  BY <1>1, <1>8, <1>9, <2>4
    <3>2. b = <<>>  BY <1>3, <2>4
    <3>3. t = a  BY <1>2, <1>4, <3>2
    <3>4. t[Len(t)] = s[i] /\ t[1] = s[1]  BY <1>2, <3>1, <3>3
    <3> QED  BY <2>2, <2>4, <3>1, <3>3, <3>4
  <2>5. CASE j < Len(s)
    <3>1. b # <<>> /\ 1 \in 1 .. Len(s) - j /\ Len(b) \in 1 .. Len(s) - j  BY <1>1, <1>3, <2>5
    <3>2. b[1] = s[j + 1] /\ b[Len(b)] = s[Len(s)]
      <4>1. b[Len(b)] = s[j + Len(b)] /\ b[1] = s[j + 1]  BY <1>3, <3>1
      <4>2. j + Len(b) = Len(s)  BY <1>1, <1>3
      <4> QED  BY <4>1, <4>2
    <3>3. /\ t[Len(t)] = b[Len(b)]
          /\ t[1] = IF a = <<>> THEN b[1] ELSE a[1]
      BY <1>2, <1>3, <1>4, <3>1, ConcatEnds
    <3>4. a = <<>> <=> i = 0  BY <1>2
    <3>5. i > 0 => a[1] = s[1]  BY <1>2
    <3>6. nx[s[j]] = s[j + 1]  BY <1>1, <2>5 DEF Linked
    <3>7. Linked(ny, t)
      <4>1. a # <<>> /\ b # <<>> => ny[a[Len(a)]] = b[1]  BY <1>1, <1>2, <3>2, <3>4, <3>6
      <4> QED  BY <1>2, <1>3, <1>4, <2>2, <2>3, <4>1, LinkedConcat
    <3>8. ny[s[Len(s)]] = NULL
      <4>1. Len(s) \in 1 .. Len(s) /\ Len(s) # i  BY <1>1, <2>5
      <4> QED  BY <2>1, <4>1
    <3> QED  BY <1>1, <2>5, <3>2, <3>3, <3>4, <3>5, <3>7, <3>8
  <2> QED  BY <1>1, <2>4, <2>5
<1> QED  BY <1>5, <1>6, <1>7, <1>8, <1>9 DEF t, Cut

\* Cutting out the elements from i + 1 to j, whatever function does it.
LEMMA UnlinkStep ==
  ASSUME NULL \notin Elems, Whole, NEW l \in Lists,
         NEW i \in Nat, NEW j \in 1 .. Len(held[l]), i < j,
         NEW ref, ref = IF i = 0 THEN NULL ELSE held[l][i],
         Unlink(l, ref, held[l][j]),
         held' = [held EXCEPT ![l] = Without(held[l], i, j)]
  PROVE  Whole'
<1> DEFINE s == held[l]
           t == Without(s, i, j)
<1>1. /\ s \in Seq(Elems) /\ Linked(next, s) /\ Inj(s) /\ s # <<>>
      /\ Len(s) \in 1 .. Len(s) /\ 1 \in 1 .. Len(s) /\ j \in 1 .. Len(s)
      /\ first[l] = s[1] /\ last[l] = s[Len(s)] /\ next[s[Len(s)]] = NULL
  <2>1. s \in Seq(Elems)  BY ListOf
  <2>2. s # <<>> /\ Len(s) \in 1 .. Len(s) /\ 1 \in 1 .. Len(s)  BY <2>1
  <2> QED  BY <2>1, <2>2, ListOf
<1>2. i > 0 => i \in 1 .. Len(s) /\ s[i] \in Elems /\ ref = s[i] /\ ref # NULL  BY <1>1
<1>3. /\ next \in [Elems -> Pointers] /\ first \in [Lists -> Pointers] /\ last \in [Lists -> Pointers]
  BY DEF Whole, Pointed
<1>4. s[j] \in Elems /\ next[s[j]] \in Pointers  BY <1>1, <1>3
<1>5. /\ first' = IF ref = NULL THEN [first EXCEPT ![l] = next[s[j]]] ELSE first
      /\ next' = IF ref = NULL THEN next ELSE [next EXCEPT ![ref] = next[s[j]]]
      /\ last' = IF s[j] = last[l] THEN [last EXCEPT ![l] = ref] ELSE last
  BY DEF Unlink
<1>6. /\ next' \in [Elems -> Pointers]
      /\ \A x \in Elems : (i > 0 => x # s[i]) => next'[x] = next[x]
      /\ i > 0 => next'[s[i]] = next[s[j]]
  <2>1. CASE i = 0  BY <1>3, <1>5, <2>1
  <2>2. CASE i > 0
    <3>1. next' = [next EXCEPT ![s[i]] = next[s[j]]]  BY <1>2, <1>5, <2>2
    <3> QED  BY <1>2, <1>3, <1>4, <2>2, <3>1
  <2> QED  BY <2>1, <2>2
<1>7. /\ t \in Seq(Elems) /\ Inj(t)
      /\ \A k \in 1 .. Len(t) : \E n \in 1 .. Len(s) : t[k] = s[n]
      /\ t = <<>> <=> i = 0 /\ j = Len(s)
      /\ t # <<>> => /\ Linked(next', t) /\ next'[t[Len(t)]] = NULL
                     /\ t[1] = IF i = 0 THEN s[j + 1] ELSE s[1]
                     /\ t[Len(t)] = IF j = Len(s) THEN s[i] ELSE s[Len(s)]
  <2> HIDE DEF s, t
  <2>1. Cut(s, next, next', i, j)  BY <1>1, <1>6, WithoutIs
  <2> QED  BY <2>1 DEF Cut, t
<1> HIDE DEF t
<1>8. s[j] = last[l] <=> j = Len(s)  BY <1>1 DEF Inj
<1>9. next[s[j]] = IF j = Len(s) THEN NULL ELSE s[j + 1]  BY <1>1 DEF Linked
<1>10. /\ first' \in [Lists -> Pointers] /\ last' \in [Lists -> Pointers]
       /\ \A m \in Lists \ {l} : first'[m] = first[m] /\ last'[m] = last[m]
  <2>1. ref \in Pointers
    <3>1. CASE i = 0  BY <3>1 DEF Pointers
    <3>2. CASE i > 0  BY <1>2, <3>2 DEF Pointers
    <3> QED  BY <3>1, <3>2
  <2> HIDE DEF s
  <2>2. first' \in [Lists -> Pointers] /\ \A m \in Lists \ {l} : first'[m] = first[m]
    <3>1. first' = first \/ first' = [first EXCEPT ![l] = next[s[j]]]  BY <1>5
    <3> QED  BY <1>3, <1>4, <3>1
  <2>3. last' \in [Lists -> Pointers] /\ \A m \in Lists \ {l} : last'[m] = last[m]
    <3>1. last' = last \/ last' = [last EXCEPT ![l] = ref]  BY <1>5
    <3> QED  BY <1>3, <2>1, <3>1
  <2> QED  BY <2>2, <2>3
<1>11. Is(first'[l], last'[l], next', t)
  <2>1. CASE t = <<>>
    <3>1. first'[l] = NULL  BY <1>3, <1>5, <1>7, <1>9, <2>1
    <3> QED  BY <2>1, <3>1 DEF Is
  <2>2. CASE t # <<>>
    <3>1. first'[l] = t[1]
      <4>1. CASE i = 0  BY <1>3, <1>5, <1>7, <1>9, <2>2, <4>1
      <4>2. CASE i > 0  BY <1>1, <1>2, <1>5, <1>7, <2>2, <4>2
      <4> QED  BY <4>1, <4>2
    <3>2. last'[l] = t[Len(t)]
      <4>1. CASE j = Len(s)
        <5>1. i > 0  BY <1>7, <2>2, <4>1
        <5>2. last' = [last EXCEPT ![l] = ref]
          <6> HIDE DEF s
          <6> QED  BY <1>5, <1>8, <4>1
        <5> QED  BY <1>2, <1>3, <1>7, <2>2, <4>1, <5>1, <5>2
      <4>2. CASE j # Len(s)  BY <1>1, <1>5, <1>7, <1>8, <2>2, <4>2
      <4> QED  BY <4>1, <4>2
    <3> QED  BY <1>7, <2>2, <3>1, <3>2, IsOf
  <2> QED  BY <2>1, <2>2
<1>12. \A k \in 1 .. Len(t) : Own(l, t[k])  BY <1>1, <1>7 DEF Own, Members
<1>13. \A x \in Elems : next'[x] # next[x] => Own(l, x)  BY <1>1, <1>2, <1>6 DEF Own, Members
<1>14. held' = [held EXCEPT ![l] = t]  BY DEF t
<1>15. held' \in [Lists -> Seq(Elems)] /\ Represents' /\ Apart'
  BY <1>7, <1>10, <1>11, <1>12, <1>13, <1>14, OneList
<1> QED  BY <1>6, <1>10, <1>15 DEF Whole, Pointed

\* The first element leaves.
LEMMA PopFrontStep ==
  ASSUME NULL \notin Elems, Whole, NEW l \in Lists, PopFront(l)
  PROVE  Whole'
<1> DEFINE s == held[l]
<1>1. /\ s \in Seq(Elems) /\ s # <<>> /\ 1 \in 1 .. Len(s) /\ Linked(next, s) /\ Inj(s)
      /\ first[l] = s[1] /\ last[l] = s[Len(s)] /\ next[s[Len(s)]] = NULL
  <2>1. s \in Seq(Elems) /\ s # <<>>  BY ListOf DEF PopFront
  <2>2. 1 \in 1 .. Len(s)  BY <2>1
  <2> QED  BY <2>1, <2>2, ListOf
<1>2. first \in [Lists -> Pointers]  BY DEF Whole, Pointed
<1>3. first' = [first EXCEPT ![l] = next[s[1]]]  BY <1>1 DEF PopFront
<1>4. first'[l] = NULL <=> s[1] = last[l]
  <2>1. CASE Len(s) = 1  BY <1>1, <1>2, <1>3, <2>1
  <2>2. CASE Len(s) # 1
    <3>1. Len(s) \in Nat /\ Len(s) > 1
      <4> DEFINE n == Len(s)
      <4>1. n \in Nat /\ n # 0 /\ n # 1  BY <1>1, <2>2
      <4> HIDE DEF n
      <4>2. n > 1  BY <4>1
      <4> QED  BY <4>1, <4>2 DEF n
    <3>2. s[1] # s[Len(s)]  BY <1>1, <3>1 DEF Inj
    <3>3. next[s[1]] = s[1 + 1] /\ s[1 + 1] \in Elems  BY <1>1, <3>1 DEF Linked
    <3> QED  BY <1>1, <1>2, <1>3, <3>2, <3>3
  <2> QED  BY <2>1, <2>2
<1>5. Unlink(l, NULL, s[1])  BY <1>3, <1>4 DEF Unlink, PopFront
<1>6. held' = [held EXCEPT ![l] = Without(s, 0, 1)]  BY DEF PopFront
<1> DEFINE i == 0
<1>7. i \in Nat /\ i < 1 /\ NULL = IF i = 0 THEN NULL ELSE held[l][i]  OBVIOUS
<1> HIDE DEF i
<1>8. held' = [held EXCEPT ![l] = Without(held[l], i, 1)]  BY <1>6 DEF i
<1> QED  BY <1>1, <1>5, <1>7, <1>8, UnlinkStep

\* The second element leaves, of a list that has not exactly two.
LEMMA PopSubfrontStep ==
  ASSUME NULL \notin Elems, Whole, NEW l \in Lists, Len(held[l]) # 2, PopSubfront(l)
  PROVE  Whole'
<1> DEFINE s == held[l]
<1>1. /\ s \in Seq(Elems) /\ s # <<>> /\ Linked(next, s) /\ Inj(s)
      /\ first[l] = s[1] /\ last[l] = s[Len(s)] /\ next[s[Len(s)]] = NULL
  <2>1. s \in Seq(Elems) /\ s # <<>>  BY ListOf DEF PopSubfront
  <2> QED  BY <2>1, ListOf
<1>2. Len(s) > 2
  <2> DEFINE n == Len(s)
  <2>1. n \in Nat /\ n # 0 /\ n # 2  BY <1>1
  <2>2. n # 1  BY <1>1 DEF PopSubfront
  <2> HIDE DEF n
  <2>3. n > 2  BY <2>1, <2>2
  <2> QED  BY <2>3 DEF n
<1>3. /\ 2 \in 1 .. Len(s) /\ 1 \in Nat /\ 1 < 2 /\ s[1] \in Elems /\ s[3] \in Elems
      /\ next[s[1]] = s[2] /\ next[s[2]] = s[3] /\ s[2] # s[Len(s)]
  <2>1. next[s[1]] = s[1 + 1] /\ next[s[2]] = s[2 + 1]  BY <1>1, <1>2 DEF Linked
  <2>2. s[2] # s[Len(s)]  BY <1>1, <1>2 DEF Inj
  <2> QED  BY <1>1, <1>2, <2>1, <2>2
<1>4. Unlink(l, s[1], s[2])
  <2>1. next' = [next EXCEPT ![s[1]] = next[s[2]]] /\ UNCHANGED <<first, last>>
    BY <1>1, <1>3 DEF PopSubfront
  <2>2. s[1] # NULL /\ s[2] # last[l]  BY <1>1, <1>3
  <2> QED  BY <2>1, <2>2 DEF Unlink
<1>5. held' = [held EXCEPT ![l] = Without(s, 1, 2)]  BY DEF PopSubfront
<1> DEFINE i == 1
<1>6. i \in Nat /\ i < 2 /\ s[1] = IF i = 0 THEN NULL ELSE held[l][i]  OBVIOUS
<1> HIDE DEF i
<1>7. held' = [held EXCEPT ![l] = Without(held[l], i, 2)]  BY <1>5 DEF i
<1> QED  BY <1>3, <1>4, <1>6, <1>7, UnlinkStep

\* co_list_init forgets what the list held.
LEMMA InitStep ==
  ASSUME Whole, NEW l \in Lists, InitList(l)
  PROVE  Whole'
<1>1. <<>> \in Seq(Elems) /\ Inj(<<>>) /\ \A i \in 1 .. Len(<<>>) : Own(l, <<>>[i])  BY DEF Inj
<1>2. /\ first' \in [Lists -> Pointers] /\ last' \in [Lists -> Pointers]
      /\ next' \in [Elems -> Pointers] /\ first'[l] = NULL
      /\ \A m \in Lists \ {l} : first'[m] = first[m] /\ last'[m] = last[m]
  BY DEF Whole, Pointed, Pointers, InitList
<1>3. Is(first'[l], last'[l], next', <<>>)  BY <1>2 DEF Is
<1>4. \A e \in Elems : next'[e] # next[e] => Own(l, e)  BY DEF InitList
<1>5. held' = [held EXCEPT ![l] = <<>>]  BY DEF InitList
<1>6. held' \in [Lists -> Seq(Elems)] /\ Represents' /\ Apart'
  BY <1>1, <1>2, <1>3, <1>4, <1>5, OneList
<1> QED  BY <1>2, <1>6 DEF Whole, Pointed

\* One list goes behind another.
LEMMA MergeStep ==
  ASSUME NULL \notin Elems, Whole, NEW l \in Lists, NEW m \in Lists, m # l,
         held[m] # <<>> \/ held[l] = <<>>, Merge(l, m)
  PROVE  Whole'
<1> DEFINE s == held[l]
           c == held[m]
           t == s \o c
<1>1. /\ s \in Seq(Elems) /\ Linked(next, s) /\ Inj(s)
      /\ s = <<>> => first[l] = NULL
      /\ s # <<>> => /\ first[l] = s[1] /\ last[l] = s[Len(s)]
  BY ListOf
<1>2. /\ c \in Seq(Elems) /\ Linked(next, c) /\ Inj(c)
      /\ c = <<>> => first[m] = NULL
      /\ c # <<>> => /\ first[m] = c[1] /\ last[m] = c[Len(c)] /\ next[c[Len(c)]] = NULL
  BY ListOf
<1>3. \A i \in 1 .. Len(s), j \in 1 .. Len(c) : s[i] # c[j]
  BY <1>1, <1>2 DEF Whole, Apart
<1>4. s # <<>> => /\ Len(s) \in 1 .. Len(s) /\ 1 \in 1 .. Len(s) /\ s[Len(s)] \in Elems
                  /\ s[1] \in Elems /\ first[l] # NULL
  BY <1>1
<1>5. c # <<>> => Len(c) \in 1 .. Len(c) /\ 1 \in 1 .. Len(c) /\ c[1] \in Elems /\ c[Len(c)] \in Elems
  BY <1>2
<1>6. first \in [Lists -> Pointers] /\ last \in [Lists -> Pointers] /\ next \in [Elems -> Pointers]
      /\ held \in [Lists -> Seq(Elems)]
  BY DEF Whole, Pointed
<1>7. /\ first' = [first EXCEPT ![l] = IF first[l] = NULL THEN first[m] ELSE @, ![m] = NULL]
      /\ next' = IF first[l] = NULL THEN next ELSE [next EXCEPT ![last[l]] = first[m]]
      /\ last' = [last EXCEPT ![l] = last[m]]
      /\ held' = [held EXCEPT ![l] = t, ![m] = <<>>]
  BY DEF Merge
<1>8. /\ next' \in [Elems -> Pointers]
      /\ \A x \in Elems : (s # <<>> => x # s[Len(s)]) => next'[x] = next[x]
      /\ s # <<>> => c # <<>> /\ next'[s[Len(s)]] = c[1]
  <2>1. CASE s = <<>>  BY <1>1, <1>6, <1>7, <2>1
  <2>2. CASE s # <<>>
    <3>1. next' = [next EXCEPT ![s[Len(s)]] = first[m]] /\ c # <<>>
      BY <1>1, <1>4, <1>7, <2>2
    <3> QED  BY <1>2, <1>4, <1>6, <2>2, <3>1
  <2> QED  BY <2>1, <2>2
<1>9. /\ first' \in [Lists -> Pointers] /\ last' \in [Lists -> Pointers]
      /\ first'[l] = (IF s = <<>> THEN first[m] ELSE first[l]) /\ first'[m] = NULL
      /\ last'[l] = last[m]
      /\ \A n \in Lists \ {l, m} : first'[n] = first[n] /\ last'[n] = last[n]
  <2>1. first[l] = NULL <=> s = <<>>  BY <1>1, <1>4
  <2> HIDE DEF s, c, t
  <2>2. NULL \in Pointers  BY DEF Pointers
  <2> QED  BY <1>6, <1>7, <2>1, <2>2
<1>10. t \in Seq(Elems) /\ Inj(t)  BY <1>1, <1>2, <1>3, ConcatIndex, InjConcat
<1>11. /\ held' \in [Lists -> Seq(Elems)] /\ held'[l] = t /\ held'[m] = <<>>
       /\ \A n \in Lists \ {l, m} : held'[n] = held[n]
  <2> HIDE DEF s, c, t
  <2>1. <<>> \in Seq(Elems)  OBVIOUS
  <2> QED  BY <1>6, <1>7, <1>10, <2>1
<1>12. Is(first'[l], last'[l], next', t)
  <2>1. CASE c = <<>>
    <3>1. s = <<>> /\ first'[l] = NULL  BY <1>2, <1>8, <1>9, <2>1
    <3>2. t = <<>>  BY <2>1, <3>1
    <3> HIDE DEF t
    <3> QED  BY <3>1, <3>2 DEF Is
  <2>2. CASE c # <<>>
    <3>1. Linked(next', s)
      <4> SUFFICES ASSUME NEW i \in 1 .. Len(s) - 1  PROVE next'[s[i]] = s[i + 1]  BY DEF Linked
      <4>1. s[i] \in Elems /\ s[i] # s[Len(s)]  BY <1>1 DEF Inj
      <4> QED  BY <1>1, <1>8, <4>1 DEF Linked
    <3>2. \A i \in 1 .. Len(c) : next'[c[i]] = next[c[i]]
      BY <1>2, <1>3, <1>4, <1>8
    <3>3. Linked(next', c)  BY <1>2, <3>2 DEF Linked
    <3>4. next'[c[Len(c)]] = NULL  BY <1>2, <1>5, <2>2, <3>2
    <3>5. Linked(next', t)
      <4> HIDE DEF s, c
      <4> QED  BY <1>1, <1>2, <1>8, <3>1, <3>3, LinkedConcat
    <3>6. /\ t # <<>> /\ t[Len(t)] = c[Len(c)]
          /\ t[1] = IF s = <<>> THEN c[1] ELSE s[1]
      BY <1>1, <1>2, <2>2, ConcatEnds
    <3>7. first'[l] = t[1] /\ last'[l] = t[Len(t)]
      <4> HIDE DEF s, c, t
      <4> QED  BY <1>1, <1>2, <1>9, <2>2, <3>6
    <3>8. t \in Seq(Elems) /\ t # <<>> /\ next'[t[Len(t)]] = NULL  BY <1>10, <3>4, <3>6
    <3> HIDE DEF t
    <3> QED  BY <3>5, <3>7, <3>8, IsOf
  <2> QED  BY <2>1, <2>2
<1>13. Represents'
  <2> SUFFICES ASSUME NEW n \in Lists  PROVE Is(first'[n], last'[n], next', held'[n])
    BY DEF Represents
  <2>1. CASE n = l  BY <1>11, <1>12, <2>1
  <2>2. CASE n = m  BY <1>9, <1>11, <2>2 DEF Is
  <2>3. CASE n # l /\ n # m
    <3> DEFINE u == held[n]
    <3>1. /\ u \in Seq(Elems) /\ Linked(next, u)
          /\ u = <<>> => first[n] = NULL
          /\ u # <<>> => first[n] = u[1] /\ last[n] = u[Len(u)] /\ next[u[Len(u)]] = NULL
      BY ListOf
    <3>2. \A i \in 1 .. Len(u) : u[i] \in Elems /\ (s # <<>> => u[i] # s[Len(s)])
      BY <1>1, <1>4, <2>3, <3>1 DEF Whole, Apart
    <3>3. \A i \in 1 .. Len(u) : next'[u[i]] = next[u[i]]  BY <1>8, <3>2
    <3>4. first'[n] = first[n] /\ last'[n] = last[n] /\ held'[n] = u  BY <1>9, <1>11, <2>3
    <3> HIDE DEF u
    <3>5. Linked(next', u)  BY <3>1, <3>3 DEF Linked
    <3>6. u # <<>> => Len(u) \in 1 .. Len(u)  BY <3>1
    <3>7. CASE u = <<>>  BY <3>1, <3>4, <3>7 DEF Is
    <3>8. CASE u # <<>>  BY <3>1, <3>3, <3>4, <3>5, <3>6, <3>8, IsOf
    <3> QED  BY <3>7, <3>8
  <2> QED  BY <2>1, <2>2, <2>3
<1>14. ASSUME NEW n \in Lists, NEW o \in Lists,
              NEW i \in 1 .. Len(held'[n]), NEW j \in 1 .. Len(held'[o]),
              held'[n][i] = held'[o][j]
       PROVE  n = o /\ i = j
  <2>1. \A k \in 1 .. Len(t) : \E p \in {l, m} : \E q \in 1 .. Len(held[p]) : t[k] = held[p][q]
    <3> SUFFICES ASSUME NEW k \in 1 .. Len(t)
                 PROVE  \E p \in {l, m} : \E q \in 1 .. Len(held[p]) : t[k] = held[p][q]
      OBVIOUS
    <3>1. (\E q \in 1 .. Len(s) : t[k] = s[q]) \/ (\E q \in 1 .. Len(c) : t[k] = c[q])
      BY <1>1, <1>2, ConcatMembers
    <3> QED  BY <3>1
  <2> HIDE DEF s, c, t
  <2>2. n # m /\ o # m  BY <1>11
  <2>3. CASE n = l /\ o = l  BY <1>10, <1>11, <1>14, <2>3 DEF Inj
  <2>4. CASE n = l /\ o # l
    <3>1. PICK p \in {l, m} : \E q \in 1 .. Len(held[p]) : t[i] = held[p][q]
      BY <1>11, <2>1, <2>4
    <3>2. held[o][j] = t[i] /\ j \in 1 .. Len(held[o])  BY <1>11, <1>14, <2>2, <2>4
    <3> QED  BY <1>6, <2>2, <2>4, <3>1, <3>2 DEF Whole, Apart
  <2>5. CASE n # l /\ o = l
    <3>1. PICK p \in {l, m} : \E q \in 1 .. Len(held[p]) : t[j] = held[p][q]
      BY <1>11, <2>1, <2>5
    <3>2. held[n][i] = t[j] /\ i \in 1 .. Len(held[n])  BY <1>11, <1>14, <2>2, <2>5
    <3> QED  BY <1>6, <2>2, <2>5, <3>1, <3>2 DEF Whole, Apart
  <2>6. CASE n # l /\ o # l  BY <1>6, <1>11, <1>14, <2>2, <2>6 DEF Whole, Apart
  <2> QED  BY <2>3, <2>4, <2>5, <2>6
<1>15. Apart'
  <2>1. \A n \in Lists : DOMAIN held'[n] = 1 .. Len(held'[n])  BY <1>11
  <2> QED  BY <1>14, <2>1 DEF Apart
<1> QED  BY <1>8, <1>9, <1>11, <1>13, <1>15 DEF Whole, Pointed

\* The sequence s with e after its k-th element, linked by ny.
Inserted(s, ny, e, k) ==
  LET t == With(s, e, k) IN
  /\ t \in Seq(Elems) /\ t # <<>> /\ Inj(t) /\ Linked(ny, t) /\ ny[t[Len(t)]] = NULL
  /\ \A n \in 1 .. Len(t) : t[n] = e \/ \E m \in 1 .. Len(s) : t[n] = s[m]
  /\ t[1] = s[1] /\ t[Len(t)] = IF k = Len(s) THEN e ELSE s[Len(s)]

LEMMA InsertIs ==
  ASSUME NEW s \in Seq(Elems), Inj(s), NEW nx, NEW ny, Linked(nx, s), nx[s[Len(s)]] = NULL,
         NEW k \in 1 .. Len(s), NEW e \in Elems, \A i \in 1 .. Len(s) : s[i] # e,
         \A x \in Elems : x # e /\ x # s[k] => ny[x] = nx[x],
         ny[s[k]] = e, ny[e] = nx[s[k]]
  PROVE  Inserted(s, ny, e, k)
<1> DEFINE a == SubSeq(s, 1, k)
           b == SubSeq(s, k + 1, Len(s))
           c == <<e>>
           t == a \o c \o b
<1>1. k \in 0 .. Len(s) /\ Len(s) \in 1 .. Len(s) /\ k + 1 \in 1 .. Len(s) + 1  OBVIOUS
<1>2. a \in Seq(Elems) /\ Len(a) = k /\ \A i \in 1 .. k : a[i] = s[i]  BY <1>1, PartIndex
<1>3. b \in Seq(Elems) /\ Len(b) = Len(s) - k /\ \A i \in 1 .. Len(s) - k : b[i] = s[k + i]
  BY <1>1, PartIndex
<1>4. c \in Seq(Elems) /\ c # <<>> /\ Len(c) = 1 /\ c[1] = e /\ Inj(c)  BY DEF Inj
<1>5. /\ Inj(a) /\ Inj(b)
      /\ \A i \in 1 .. Len(a), j \in 1 .. Len(b) : a[i] # b[j]
  <2>1. k \in 0 .. Len(s) /\ k <= k  BY <1>1
  <2> QED  BY <2>1, InjParts, Zenon
<1>6. \A i \in 1 .. Len(a) : a[i] # e  BY <1>1, <1>2
<1>7. ASSUME NEW i \in 1 .. Len(b)  PROVE b[i] # e /\ (\E m \in 1 .. Len(s) : b[i] = s[m])
  <2>1. b[i] = s[k + i] /\ k + i \in 1 .. Len(s)  BY <1>1, <1>3
  <2> QED  BY <2>1
<1>8. \A i \in 1 .. Len(s) : s[i] \in Elems /\ (i # k => ny[s[i]] = nx[s[i]])
  BY DEF Inj
<1>9. Linked(ny, a)
  <2> SUFFICES ASSUME NEW i \in 1 .. k - 1  PROVE ny[a[i]] = a[i + 1]  BY <1>2 DEF Linked
  <2>1. i \in 1 .. k /\ i + 1 \in 1 .. k /\ i \in 1 .. Len(s) - 1 /\ i # k  BY <1>1
  <2>2. ny[s[i]] = s[i + 1]  BY <1>8, <2>1 DEF Linked
  <2> QED  BY <1>2, <2>1, <2>2
<1>10. Linked(ny, b)
  <2> SUFFICES ASSUME NEW i \in 1 .. Len(s) - k - 1  PROVE ny[b[i]] = b[i + 1]
    BY <1>3 DEF Linked
  <2>1. i \in 1 .. Len(s) - k /\ i + 1 \in 1 .. Len(s) - k /\ k + i \in 1 .. Len(s) - 1 /\ k + i # k
    BY <1>1
  <2>2. ny[s[k + i]] = s[(k + i) + 1]  BY <1>8, <2>1 DEF Linked
  <2>3. b[i] = s[k + i] /\ b[i + 1] = s[k + (i + 1)]  BY <1>3, <2>1
  <2>4. (k + i) + 1 = k + (i + 1)  OBVIOUS
  <2> QED  BY <2>2, <2>3, <2>4
<1>11. a[Len(a)] = s[k] /\ a[1] = s[1] /\ a # <<>>
  <2>1. 1 \in 1 .. k /\ k \in 1 .. k  OBVIOUS
  <2> QED  BY <1>2, <2>1
<1>12. Linked(ny, c)  BY <1>4 DEF Linked
<1>13. b # <<>> => k < Len(s) /\ b[1] = s[k + 1] /\ b[Len(b)] = s[Len(s)]
  <2> SUFFICES ASSUME b # <<>>
               PROVE  k < Len(s) /\ b[1] = s[k + 1] /\ b[Len(b)] = s[Len(s)]
    OBVIOUS
  <2> HIDE DEF b
  <2>1. Len(b) # 0 /\ Len(b) \in Nat  BY <1>3
  <2>2. k < Len(s)  BY <1>1, <1>3, <2>1
  <2>3. 1 \in 1 .. Len(s) - k /\ Len(b) \in 1 .. Len(s) - k  BY <1>1, <1>3, <2>2
  <2>4. b[1] = s[k + 1] /\ b[Len(b)] = s[k + Len(b)]  BY <1>3, <2>3
  <2>5. k + Len(b) = Len(s)  BY <1>1, <1>3
  <2> QED  BY <2>2, <2>4, <2>5
<1>14. b = <<>> => k = Len(s)
  <2> HIDE DEF b
  <2>1. b = <<>> => Len(b) = 0  OBVIOUS
  <2> QED  BY <1>1, <1>3, <2>1
<1>15. t = With(s, e, k)  BY DEF With
<1> HIDE DEF a, b, c
<1> DEFINE d == a \o c
<1>16. /\ d \in Seq(Elems) /\ d # <<>> /\ d[Len(d)] = e /\ d[1] = s[1]
       /\ Inj(d) /\ Linked(ny, d)
  <2>1. d \in Seq(Elems) /\ d # <<>> /\ d[Len(d)] = e /\ d[1] = s[1]
    BY <1>2, <1>4, <1>11, ConcatEnds
  <2>2. \A i \in 1 .. Len(a), j \in 1 .. Len(c) : a[i] # c[j]  BY <1>4, <1>6
  <2>3. Inj(d)  BY <1>2, <1>4, <1>5, <2>2, InjConcat
  <2>4. Linked(ny, d)  BY <1>2, <1>4, <1>9, <1>11, <1>12, LinkedConcat
  <2> QED  BY <2>1, <2>3, <2>4
<1>17. \A i \in 1 .. Len(d) : d[i] = e \/ \E n \in 1 .. Len(a) : d[i] = a[n]
  <2> SUFFICES ASSUME NEW i \in 1 .. Len(d)
               PROVE  d[i] = e \/ \E n \in 1 .. Len(a) : d[i] = a[n]
    OBVIOUS
  <2>1. (\E n \in 1 .. Len(a) : d[i] = a[n]) \/ (\E n \in 1 .. Len(c) : d[i] = c[n])
    BY <1>2, <1>4, ConcatMembers
  <2> QED  BY <1>4, <2>1
<1>18. t = d \o b  OBVIOUS
<1> HIDE DEF d, t
<1>19. t \in Seq(Elems) /\ t # <<>> /\ Inj(t)
  <2>1. \A i \in 1 .. Len(d), j \in 1 .. Len(b) : d[i] # b[j]  BY <1>5, <1>7, <1>17
  <2>2. Inj(t)  BY <1>3, <1>5, <1>16, <1>18, <2>1, InjConcat
  <2>3. CASE b = <<>>
    <3>1. t = d  BY <1>16, <1>18, <2>3
    <3> QED  BY <1>16, <3>1
  <2>4. CASE b # <<>>  BY <1>3, <1>16, <1>18, <2>2, <2>4, ConcatEnds
  <2> QED  BY <2>3, <2>4
<1>20. \A n \in 1 .. Len(t) : t[n] = e \/ \E m \in 1 .. Len(s) : t[n] = s[m]
  <2> SUFFICES ASSUME NEW n \in 1 .. Len(t)
               PROVE  t[n] = e \/ \E m \in 1 .. Len(s) : t[n] = s[m]
    OBVIOUS
  <2>1. (\E m \in 1 .. Len(d) : t[n] = d[m]) \/ (\E m \in 1 .. Len(b) : t[n] = b[m])
    BY <1>3, <1>16, <1>18, ConcatMembers
  <2>2. \A m \in 1 .. Len(a) : a[m] = s[m] /\ m \in 1 .. Len(s)  BY <1>1, <1>2
  <2> QED  BY <1>7, <1>17, <2>1, <2>2
<1>21. Linked(ny, t)
  <2>1. b # <<>> => ny[d[Len(d)]] = b[1]
    <3>1. k < Len(s) => nx[s[k]] = s[k + 1]  BY <1>1 DEF Linked
    <3> QED  BY <1>13, <1>16, <3>1
  <2> QED  BY <1>3, <1>10, <1>16, <1>18, <2>1, LinkedConcat
<1>22. /\ t[1] = s[1] /\ t[Len(t)] = IF k = Len(s) THEN e ELSE s[Len(s)]
       /\ ny[t[Len(t)]] = NULL
  <2>1. CASE b = <<>>
    <3>1. t = d  BY <1>16, <1>18, <2>1
    <3> QED  BY <1>14, <1>16, <2>1, <3>1
  <2>2. CASE b # <<>>
    <3>1. t[Len(t)] = b[Len(b)] /\ t[1] = d[1]  BY <1>3, <1>16, <1>18, <2>2, ConcatEnds
    <3>2. ny[s[Len(s)]] = nx[s[Len(s)]]  BY <1>1, <1>8, <1>13, <2>2
    <3> QED  BY <1>13, <1>16, <2>2, <3>1, <3>2
  <2> QED  BY <2>1, <2>2
<1> QED  BY <1>15, <1>19, <1>20, <1>21, <1>22 DEF Inserted

\* A free element is inserted after the k-th.
Insert(l, e, k) ==
  /\ Free(e) /\ next' \in [Elems -> Pointers]
  /\ \A x \in Elems : x # e /\ x # held[l][k] => next'[x] = next[x]
  /\ next'[held[l][k]] = e /\ next'[e] = next[held[l][k]]
  /\ first' = first
  /\ last' = IF k = Len(held[l]) THEN [last EXCEPT ![l] = e] ELSE last
  /\ held' = [held EXCEPT ![l] = With(held[l], e, k)]

LEMMA InsertStep ==
  ASSUME NULL \notin Elems, Whole, NEW l \in Lists, NEW e \in Elems, NEW k \in 1 .. Len(held[l]),
         Insert(l, e, k)
  PROVE  Whole'
<1>0. /\ Free(e) /\ next' \in [Elems -> Pointers]
      /\ \A x \in Elems : x # e /\ x # held[l][k] => next'[x] = next[x]
      /\ next'[held[l][k]] = e /\ next'[e] = next[held[l][k]]
      /\ first' = first
      /\ last' = IF k = Len(held[l]) THEN [last EXCEPT ![l] = e] ELSE last
      /\ held' = [held EXCEPT ![l] = With(held[l], e, k)]
  BY DEF Insert
<1> USE <1>0
<1> DEFINE s == held[l]
           t == With(s, e, k)
<1>1. /\ s \in Seq(Elems) /\ Linked(next, s) /\ Inj(s) /\ s # <<>>
      /\ first[l] = s[1] /\ last[l] = s[Len(s)] /\ next[s[Len(s)]] = NULL
  <2>1. s \in Seq(Elems)  BY ListOf
  <2>2. s # <<>>  BY <2>1
  <2> QED  BY <2>1, <2>2, ListOf
<1>2. \A i \in 1 .. Len(s) : s[i] # e  BY <1>1 DEF Free, Members
<1>3. /\ t \in Seq(Elems) /\ t # <<>> /\ Inj(t) /\ Linked(next', t) /\ next'[t[Len(t)]] = NULL
      /\ \A n \in 1 .. Len(t) : t[n] = e \/ \E m \in 1 .. Len(s) : t[n] = s[m]
      /\ t[1] = s[1] /\ t[Len(t)] = IF k = Len(s) THEN e ELSE s[Len(s)]
  <2>1. k \in 1 .. Len(s) /\ next'[s[k]] = e /\ next'[e] = next[s[k]]
        /\ \A x \in Elems : x # e /\ x # s[k] => next'[x] = next[x]
    OBVIOUS
  <2> HIDE DEF s, t
  <2>2. Inserted(s, next', e, k)  BY <1>1, <1>2, <2>1, InsertIs
  <2> QED  BY <2>2 DEF Inserted, t
<1> HIDE DEF t
<1>4. /\ first' \in [Lists -> Pointers] /\ last' \in [Lists -> Pointers]
      /\ first'[l] = t[1] /\ last'[l] = t[Len(t)]
      /\ \A m \in Lists \ {l} : first'[m] = first[m] /\ last'[m] = last[m]
  BY <1>1, <1>3 DEF Whole, Pointed, Pointers
<1>5. Is(first'[l], last'[l], next', t)  BY <1>3, <1>4, IsOf
<1>6. \A n \in 1 .. Len(t) : Own(l, t[n])  BY <1>1, <1>3 DEF Own, Members
<1>7. \A x \in Elems : next'[x] # next[x] => Own(l, x)  BY <1>1 DEF Own, Members
<1>8. held' = [held EXCEPT ![l] = t]  BY DEF t
<1>9. held' \in [Lists -> Seq(Elems)] /\ Represents' /\ Apart'
  BY <1>3, <1>4, <1>5, <1>6, <1>7, <1>8, OneList
<1> QED  BY <1>4, <1>9 DEF Whole, Pointed

-----------------------------------------------------------------------------
(***************************************************************************)
(* The searches                                                            *)
(***************************************************************************)
Inv == Whole /\ TypeOK /\ WalkSound

LEMMA InitInv ==
  ASSUME NULL \notin Elems, Init
  PROVE  Inv
<1>1. \A l \in Lists : held[l] = <<>> /\ first[l] = NULL  BY DEF Init
<1>2. Pointed  BY DEF Init, Pointed, Pointers
<1>3. Represents
  <2>1. \A f, la, nx : f = NULL => Is(f, la, nx, <<>>)  BY DEF Is
  <2> QED  BY <1>1, <2>1 DEF Represents
<1>4. Apart  BY <1>1 DEF Apart
<1>5. TypeOK /\ WalkSound
  <2>1. 0 \in 0 .. Wrap - 1  BY DEF Wrap
  <2>2. walk = Idle  BY DEF Init
  <2> QED  BY <1>2, <2>1, <2>2 DEF TypeOK, Pointed, WalkSound, Idle, Pointers
<1> QED  BY <1>2, <1>3, <1>4, <1>5 DEF Inv, Whole

\* Where no search runs, only the lists count.
LEMMA NoSearch ==
  ASSUME Inv, Whole', walk' = Idle
  PROVE  Inv'
<1>1. 0 \in 0 .. Wrap - 1  BY DEF Wrap
<1> QED  BY <1>1 DEF Inv, Whole, Pointed, TypeOK, WalkSound, Idle, Pointers

\* A call keeps the lists whole.
LEMMA CallStep ==
  ASSUME NULL \notin Elems, Inv, NEW l \in Lists, Call(l)
  PROVE  Whole'
<1>1. Whole  BY DEF Inv
<1>2. CASE InitList(l)  BY <1>1, <1>2, InitStep
<1>3. CASE \E c \in Chains : PushBackSublist(l, c)  BY <1>1, <1>3, AppendStep
<1>4. CASE \E e \in Elems : PushFront(l, e)  BY <1>1, <1>4, FrontStep
<1>5. CASE PopFront(l)  BY <1>1, <1>5, PopFrontStep
<1>6. CASE Len(held[l]) # 2 /\ PopSubfront(l)  BY <1>1, <1>6, PopSubfrontStep
<1>7. CASE \E j \in 1 .. Len(held[l]) : \E i \in 0 .. j - 1 : ExtractSublist(l, i, j)
  <2>0. PICK j \in 1 .. Len(held[l]) : \E i \in 0 .. j - 1 : ExtractSublist(l, i, j)  BY <1>7
  <2>1. PICK i \in 0 .. j - 1 : ExtractSublist(l, i, j)  BY <2>0
  <2> DEFINE ref == IF i = 0 THEN NULL ELSE held[l][i]
  <2>2. i \in Nat /\ i < j /\ ref = IF i = 0 THEN NULL ELSE held[l][i]  OBVIOUS
  <2>3. Unlink(l, ref, held[l][j]) /\ held' = [held EXCEPT ![l] = Without(held[l], i, j)]
    BY <2>1 DEF ExtractSublist
  <2> HIDE DEF ref
  <2> QED  BY <1>1, <2>2, <2>3, UnlinkStep
<1>8. CASE \E m \in Lists \ {l} : (held[m] # <<>> \/ held[l] = <<>>) /\ Merge(l, m)
  BY <1>1, <1>8, MergeStep
<1> QED  BY <1>2, <1>3, <1>4, <1>5, <1>6, <1>7, <1>8 DEF Call

\* A search starts at the first element.
LEMMA SearchStep ==
  ASSUME NULL \notin Elems, Inv, NEW l \in Lists, Search(l)
  PROVE  Inv'
<1> DEFINE s == held[l]
<1>1. /\ s \in Seq(Elems)
      /\ s = <<>> => first[l] = NULL
      /\ s # <<>> => first[l] = s[1]
  BY ListOf DEF Inv
<1>2. PICK o \in Ops, t \in Pointers, a \in Pointers :
        /\ Begin(o, l, t, a)
        /\ o = "size" => t = NULL
        /\ o # "size" => t \in Elems
        /\ o \in {"insert_before", "insert_after"} => a \in Elems /\ Free(a)
        /\ o = "insert_before" => t \in Members(l) \/ s = <<>>
  BY DEF Search, Ops, Pointers
<1>3. /\ walk' = [op |-> o, list |-> l, target |-> t, add |-> a,
                  prev |-> NULL, curr |-> first[l], count |-> 0, at |-> 1]
      /\ UNCHANGED <<first, last, next, held>>
  BY <1>2 DEF Begin
<1>4. 0 \in 0 .. Wrap - 1 /\ 0 % Wrap = 0  BY DEF Wrap
<1>5. first[l] \in Pointers /\ NULL \in Pointers  BY DEF Inv, Whole, Pointed, Pointers
<1>6. TypeOK'  BY <1>3, <1>4, <1>5 DEF Inv, TypeOK
<1>7. Whole'  BY <1>3 DEF Inv, Whole, Pointed, Represents, Apart, Is
<1>8. 1 \in 1 .. Len(s) + 1 /\ first[l] = IF 1 <= Len(s) THEN s[1] ELSE NULL
  <2>1. s = <<>> => Len(s) = 0  OBVIOUS
  <2>2. s # <<>> => Len(s) \in Nat /\ Len(s) # 0  BY <1>1
  <2>3. Len(s) \in Nat  BY <1>1
  <2> HIDE DEF s
  <2> QED  BY <1>1, <2>1, <2>2, <2>3
<1>9. Free(a) => (Free(a))'  BY <1>3 DEF Free, Members
<1>10. t \in Members(l) => (t \in Members(l))'  BY <1>3 DEF Members
<1>11. WalkSound'
  <2>1. /\ walk'.op = o /\ walk'.list = l /\ walk'.target = t /\ walk'.add = a /\ walk'.prev = NULL
        /\ walk'.curr = first[l] /\ walk'.count = 0 /\ walk'.at = 1 /\ held' = held
    BY <1>3
  <2> HIDE DEF s
  <2> QED  BY <1>2, <1>4, <1>8, <1>9, <1>10, <2>1 DEF WalkSound, Before, s, Free, Members
<1> QED  BY <1>6, <1>7, <1>11 DEF Inv

\* What a search that runs has found out so far.
LEMMA SearchState ==
  ASSUME Inv, walk.op # "none"
  PROVE  /\ walk.op \in Ops /\ walk.list \in Lists /\ held[walk.list] \in Seq(Elems)
         /\ walk.at \in 1 .. Len(held[walk.list]) + 1
         /\ walk.curr = (IF walk.at <= Len(held[walk.list]) THEN held[walk.list][walk.at] ELSE NULL)
         /\ walk.prev = Before(held[walk.list], walk.at)
         /\ \A i \in 1 .. walk.at - 1 : held[walk.list][i] # walk.target
         /\ walk.op \in {"insert_before", "insert_after"} => walk.add \in Elems /\ Free(walk.add)
<1>1. walk.op \in Ops /\ walk.list \in Lists  BY DEF Inv, TypeOK, WalkSound
<1>2. held[walk.list] \in Seq(Elems)  BY <1>1 DEF Inv, TypeOK
<1> QED  BY <1>1, <1>2 DEF Inv, WalkSound

\* A size is counted in 16 bits.
LEMMA NextCount ==
  ASSUME NEW m \in Nat
  PROVE  ((m % Wrap) + 1) % Wrap \in 0 .. Wrap - 1 /\ ((m % Wrap) + 1) % Wrap = (m + 1) % Wrap
<1>1. \A k \in Nat : k % Wrap \in 0 .. Wrap - 1  BY SMTT(60) DEF Wrap
<1>2. (m + 1) % Wrap \in 0 .. Wrap - 1
  <2>1. m + 1 \in Nat  OBVIOUS
  <2> QED  BY <1>1, <2>1
<1>3. ((m % Wrap) + 1) % Wrap = (m + 1) % Wrap  BY SMTT(60) DEF Wrap
<1> QED  BY <1>2, <1>3

\* A search passes an element that is not its target.
LEMMA LookStep ==
  ASSUME NULL \notin Elems, Inv, Look
  PROVE  Inv'
<1> DEFINE l == walk.list
           s == held[l]
           n == walk.at
<1>1. /\ l \in Lists /\ s \in Seq(Elems) /\ walk.op # "none" /\ walk.op \in Ops
      /\ n \in 1 .. Len(s) + 1
      /\ walk.curr = (IF n <= Len(s) THEN s[n] ELSE NULL)
      /\ walk.curr # NULL /\ walk.curr # walk.target
      /\ \A i \in 1 .. n - 1 : s[i] # walk.target
  BY SearchState DEF Look
<1>2. walk' = [walk EXCEPT !.prev = walk.curr, !.curr = next[walk.curr],
                           !.count = (walk.count + 1) % Wrap, !.at = walk.at + 1]
      /\ UNCHANGED <<first, last, next, held>>
  BY DEF Look
<1>3. Len(s) \in Nat /\ n \in 1 .. Len(s) /\ walk.curr = s[n] /\ s[n] \in Elems
  BY <1>1
<1>4. next[s[n]] = IF n + 1 <= Len(s) THEN s[n + 1] ELSE NULL
  <2>1. Linked(next, s) /\ (s # <<>> => next[s[Len(s)]] = NULL)  BY <1>1, ListOf DEF Inv
  <2>2. s # <<>>  BY <1>3
  <2>3. CASE n = Len(s)  BY <1>3, <2>1, <2>2, <2>3
  <2>4. CASE n # Len(s)
    <3>1. n \in 1 .. Len(s) - 1  BY <1>3, <2>4
    <3> QED  BY <1>3, <2>1, <3>1 DEF Linked
  <2> QED  BY <2>3, <2>4
<1>5. next[walk.curr] \in Pointers /\ walk.curr \in Pointers
  BY <1>3 DEF Inv, Whole, Pointed, Pointers
<1>6. walk.count \in 0 .. Wrap - 1 /\ walk.count = (n - 1) % Wrap
  BY <1>1 DEF Inv, TypeOK, WalkSound
<1>7. (walk.count + 1) % Wrap \in 0 .. Wrap - 1 /\ (walk.count + 1) % Wrap = ((n + 1) - 1) % Wrap
  <2>1. n - 1 \in Nat /\ (n + 1) - 1 = (n - 1) + 1  BY <1>3
  <2> HIDE DEF n
  <2> QED  BY <1>6, <2>1, NextCount
<1>8. TypeOK'
  <2>1. walk \in [op : Ops \cup {"none"}, list : Lists \cup {NULL}, target : Pointers,
                  add : Pointers, prev : Pointers, curr : Pointers,
                  count : 0 .. Wrap - 1, at : Nat \ {0}]
    BY DEF Inv, TypeOK
  <2>2. walk.at + 1 \in Nat \ {0}  BY <1>3
  <2>3. walk' \in [op : Ops \cup {"none"}, list : Lists \cup {NULL}, target : Pointers,
                   add : Pointers, prev : Pointers, curr : Pointers,
                   count : 0 .. Wrap - 1, at : Nat \ {0}]
    BY <1>2, <1>5, <1>7, <2>1, <2>2
  <2> QED  BY <1>2, <2>3 DEF Inv, TypeOK
<1>9. Whole'  BY <1>2 DEF Inv, Whole, Pointed, Represents, Apart, Is
<1>10. WalkSound'
  <2>1. walk \in [op : Ops \cup {"none"}, list : Lists \cup {NULL}, target : Pointers,
                  add : Pointers, prev : Pointers, curr : Pointers,
                  count : 0 .. Wrap - 1, at : Nat \ {0}]
    BY DEF Inv, TypeOK
  <2>2. /\ walk'.op = walk.op /\ walk'.list = l /\ walk'.target = walk.target
        /\ walk'.add = walk.add /\ walk'.prev = s[n] /\ walk'.curr = next[s[n]]
        /\ walk'.count = (walk.count + 1) % Wrap /\ walk'.at = n + 1
    BY <1>2, <1>3, <2>1
  <2>3. held' = held  BY <1>2
  <2>4. n + 1 \in 1 .. Len(s) + 1 /\ s[n] = Before(s, n + 1)  BY <1>3 DEF Before
  <2>5. \A i \in 1 .. (n + 1) - 1 : s[i] # walk.target  BY <1>1, <1>3
  <2>6. /\ walk.op = "size" => walk.target = NULL
        /\ walk.op # "size" => walk.target \in Elems
        /\ walk.op \in {"insert_before", "insert_after"} => walk.add \in Elems /\ Free(walk.add)
        /\ walk.op = "insert_before" => walk.target \in Members(l) \/ s = <<>>
    BY <1>1 DEF Inv, WalkSound
  <2> HIDE DEF n
  <2> QED
    BY <1>1, <1>4, <1>7, <2>2, <2>3, <2>4, <2>5, <2>6 DEF WalkSound, Free, Members
<1> QED  BY <1>8, <1>9, <1>10 DEF Inv

\* The element a search has found leaves.
LEMMA ExtractFoundStep ==
  ASSUME NULL \notin Elems, Inv, ExtractFound
  PROVE  Inv'
<1> DEFINE l == walk.list
           s == held[l]
           i == walk.at - 1
           j == walk.at
<1>1. /\ l \in Lists /\ s \in Seq(Elems)
      /\ j \in 1 .. Len(s) + 1
      /\ walk.curr = (IF j <= Len(s) THEN s[j] ELSE NULL) /\ walk.prev = Before(s, j)
  BY SearchState DEF ExtractFound, Stopped
<1>2. walk.curr = walk.target /\ walk.target \in Elems  BY DEF ExtractFound, Stopped, Inv, WalkSound
<1>3. j \in 1 .. Len(s) /\ i \in Nat /\ i < j /\ walk.target = s[j]
  BY <1>1, <1>2
<1>4. walk.prev = IF i = 0 THEN NULL ELSE s[i]  BY <1>1, <1>3 DEF Before
<1>5. /\ Unlink(l, walk.prev, s[j]) /\ walk' = Idle
      /\ held' = [held EXCEPT ![l] = Without(s, i, j)]
  BY <1>3 DEF ExtractFound
<1>6. Whole'
  <2> HIDE DEF i, j
  <2> QED  BY <1>1, <1>3, <1>4, <1>5, UnlinkStep DEF Inv
<1> QED  BY <1>5, <1>6, NoSearch

\* The element to insert is put next to the reference, or at an end.
LEMMA InsertFoundStep ==
  ASSUME NULL \notin Elems, Inv, InsertFound
  PROVE  Inv'
<1> DEFINE l == walk.list
           s == held[l]
           n == walk.at
           e == walk.add
<1>1. /\ l \in Lists /\ s \in Seq(Elems) /\ Len(s) \in Nat
      /\ n \in 1 .. Len(s) + 1
      /\ walk.curr = (IF n <= Len(s) THEN s[n] ELSE NULL) /\ walk.prev = Before(s, n)
      /\ e \in Elems /\ Free(e)
      /\ \A i \in 1 .. n - 1 : s[i] # walk.target
  BY SearchState DEF InsertFound, Stopped
<1>2. next \in [Elems -> Pointers] /\ Linked(next, s) /\ Inj(s)
      /\ (s # <<>> => next[s[Len(s)]] = NULL) /\ Whole
  BY <1>1, ListOf DEF Inv, Whole, Pointed
<1>3. \A i \in 1 .. Len(s) : s[i] \in Elems /\ s[i] # e  BY <1>1 DEF Free, Members
<1>4. \A i \in 1 .. Len(s) : next[s[i]] = IF i = Len(s) THEN NULL ELSE s[i + 1]
  <2> SUFFICES ASSUME NEW i \in 1 .. Len(s)
               PROVE  next[s[i]] = IF i = Len(s) THEN NULL ELSE s[i + 1]
    OBVIOUS
  <2>1. CASE i = Len(s)
    <3>1. s # <<>>  OBVIOUS
    <3> QED  BY <1>2, <2>1, <3>1
  <2>2. CASE i # Len(s)
    <3>1. i \in 1 .. Len(s) - 1  BY <1>1, <2>2
    <3> QED  BY <1>2, <2>2, <3>1 DEF Linked
  <2> QED  BY <2>1, <2>2
<1>5. walk' = Idle  BY DEF InsertFound
<1>6. CASE walk.op = "insert_before" /\ walk.prev = NULL /\ PushFront(l, e)
  BY <1>1, <1>2, <1>5, <1>6, FrontStep, NoSearch
<1>7. CASE walk.op = "insert_after" /\ walk.curr = NULL /\ PushBack(l, e)
  BY <1>1, <1>2, <1>5, <1>7, AppendStep, NoSearch DEF PushBack
<1>8. CASE /\ walk.op = "insert_before" /\ walk.prev # NULL
           /\ next' = [next EXCEPT ![walk.prev] = e, ![e] = walk.curr]
           /\ held' = [held EXCEPT ![l] = With(s, e, n - 1)]
           /\ UNCHANGED <<first, last>>
  <2> DEFINE k == n - 1
  <2>1. n # 1 /\ walk.prev = s[k]  BY <1>1, <1>8 DEF Before
  <2>2. n <= Len(s)
    <3>1. walk.curr \in {walk.target, NULL} /\ walk.target \in Elems
          /\ (walk.target \in Members(l) \/ s = <<>>)
      BY <1>8 DEF InsertFound, Stopped, Inv, WalkSound
    <3>2. CASE n = Len(s) + 1
      <4>1. \A i \in 1 .. Len(s) : s[i] # walk.target  BY <1>1, <3>2
      <4>2. DOMAIN s = 1 .. Len(s)  BY <1>1
      <4>3. walk.target \notin Members(l)
        <5> HIDE DEF l
        <5> QED  BY <4>1, <4>2 DEF Members
      <4>4. s = <<>>  BY <3>1, <4>3
      <4> QED  BY <1>1, <2>1, <3>2, <4>4
    <3> QED  BY <1>1, <3>2
  <2>3. k \in 1 .. Len(s) /\ k # Len(s) /\ walk.curr = s[k + 1]  BY <1>1, <2>1, <2>2
  <2> HIDE DEF k, s, l, e
  <2>4. s[k] # e /\ s[k] \in Elems /\ e \in Elems /\ next[s[k]] = s[k + 1] /\ s[k + 1] \in Pointers
    BY <1>1, <1>2, <1>3, <1>4, <2>3
  <2>5. next' = [next EXCEPT ![s[k]] = e, ![e] = s[k + 1]]  BY <1>8, <2>1, <2>3
  <2>6. /\ next' \in [Elems -> Pointers]
        /\ \A x \in Elems : x # e /\ x # s[k] => next'[x] = next[x]
        /\ next'[s[k]] = e /\ next'[e] = next[s[k]]
    BY <1>1, <1>2, <2>4, <2>5 DEF Pointers
  <2>7. /\ first' = first
        /\ last' = IF k = Len(s) THEN [last EXCEPT ![l] = e] ELSE last
        /\ held' = [held EXCEPT ![l] = With(s, e, k)]
    BY <1>8, <2>3 DEF k
  <2>8. Whole'
    <3>1. l \in Lists /\ e \in Elems /\ k \in 1 .. Len(held[l])  BY <1>1, <1>2, <2>3, <2>6, <2>7 DEF s
    <3>2. Insert(l, e, k)  BY <1>1, <1>2, <2>3, <2>6, <2>7 DEF s, Insert
    <3> QED  BY <1>2, <3>1, <3>2, InsertStep
  <2> QED  BY <1>5, <2>8, NoSearch
<1>9. CASE /\ walk.op = "insert_after" /\ walk.curr # NULL
           /\ next' = [next EXCEPT ![e] = next[walk.curr], ![walk.curr] = e]
           /\ last' = IF next[walk.curr] = NULL THEN [last EXCEPT ![l] = e] ELSE last
           /\ held' = [held EXCEPT ![l] = With(s, e, n)]
           /\ UNCHANGED first
  <2>1. n \in 1 .. Len(s) /\ walk.curr = s[n]  BY <1>1, <1>9
  <2> HIDE DEF n, s, l, e
  <2>2. s[n] # e /\ s[n] \in Elems /\ next[s[n]] \in Pointers  BY <1>2, <1>3, <2>1
  <2>3. next[s[n]] = NULL <=> n = Len(s)
    <3>1. CASE n = Len(s)  BY <1>4, <2>1, <3>1
    <3>2. CASE n # Len(s)
      <4>1. n + 1 \in 1 .. Len(s)  BY <1>1, <2>1, <3>2
      <4>2. s[n + 1] # NULL /\ next[s[n]] = s[n + 1]  BY <1>3, <1>4, <2>1, <3>2, <4>1
      <4> QED  BY <3>2, <4>2
    <3> QED  BY <3>1, <3>2
  <2>4. /\ next' \in [Elems -> Pointers]
        /\ \A x \in Elems : x # e /\ x # s[n] => next'[x] = next[x]
        /\ next'[s[n]] = e /\ next'[e] = next[s[n]]
    BY <1>1, <1>2, <1>9, <2>1, <2>2 DEF Pointers
  <2>5. /\ first' = first
        /\ last' = IF n = Len(s) THEN [last EXCEPT ![l] = e] ELSE last
        /\ held' = [held EXCEPT ![l] = With(s, e, n)]
    BY <1>9, <2>1, <2>3
  <2>6. Whole'
    <3>1. l \in Lists /\ e \in Elems /\ n \in 1 .. Len(held[l])  BY <1>1, <1>2, <2>1, <2>4, <2>5 DEF s
    <3>2. Insert(l, e, n)  BY <1>1, <1>2, <2>1, <2>4, <2>5 DEF s, Insert
    <3> QED  BY <1>2, <3>1, <3>2, InsertStep
  <2> QED  BY <1>5, <2>6, NoSearch
<1> QED  BY <1>6, <1>7, <1>8, <1>9 DEF InsertFound

-----------------------------------------------------------------------------
(***************************************************************************)
(* The specification                                                       *)
(***************************************************************************)
LEMMA InvStep ==
  ASSUME NULL \notin Elems, Inv, [Next]_vars
  PROVE  Inv'
<1>1. CASE walk.op = "none" /\ \E l \in Lists : Call(l) /\ UNCHANGED walk
  <2>1. PICK l \in Lists : Call(l) /\ UNCHANGED walk  BY <1>1
  <2>2. Whole'  BY <2>1, CallStep
  <2>3. TypeOK'  BY <2>1, <2>2 DEF Inv, TypeOK, Whole, Pointed
  <2>4. WalkSound'  BY <1>1, <2>1 DEF WalkSound
  <2> QED  BY <2>2, <2>3, <2>4 DEF Inv
<1>2. CASE walk.op = "none" /\ \E l \in Lists : Search(l)  BY <1>2, SearchStep
<1>3. CASE Look  BY <1>3, LookStep
<1>4. CASE Answer
  <2>1. walk' = Idle /\ UNCHANGED <<first, last, next, held>>  BY <1>4 DEF Answer
  <2>2. Whole'  BY <2>1 DEF Inv, Whole, Pointed, Represents, Apart, Is
  <2> QED  BY <2>1, <2>2, NoSearch
<1>5. CASE ExtractFound  BY <1>5, ExtractFoundStep
<1>6. CASE InsertFound  BY <1>6, InsertFoundStep
<1>7. CASE UNCHANGED vars
  <2>1. UNCHANGED <<first, last, next, walk, held>>  BY <1>7 DEF vars
  <2>2. Whole'  BY <2>1 DEF Inv, Whole, Pointed, Represents, Apart, Is
  <2>3. TypeOK'  BY <2>1 DEF Inv, TypeOK
  <2>4. WalkSound'  BY <2>1 DEF Inv, WalkSound, Members, Free
  <2> QED  BY <2>2, <2>3, <2>4 DEF Inv
<1> QED  BY <1>1, <1>2, <1>3, <1>4, <1>5, <1>6, <1>7 DEF Next

LEMMA InvAlways ==
  ASSUME NULL \notin Elems
  PROVE  Spec => []Inv
<1>1. Init => Inv  BY InitInv
<1>2. Inv /\ [Next]_vars => Inv'  BY InvStep
<1> QED  BY <1>1, <1>2, PTL DEF Spec

\* Where a search stops, what it has passed decides the answer.
LEMMA StoppedRight ==
  ASSUME NULL \notin Elems, Inv
  PROVE  AnswersRight
<1> SUFFICES ASSUME Stopped  PROVE  AnswersRight  BY DEF AnswersRight
<1> DEFINE l == walk.list
           s == held[l]
           n == walk.at
<1>1. /\ walk.op # "none" /\ walk.curr \in {walk.target, NULL}
      /\ l \in Lists /\ s \in Seq(Elems) /\ Len(s) \in Nat
      /\ n \in 1 .. Len(s) + 1
      /\ walk.curr = (IF n <= Len(s) THEN s[n] ELSE NULL)
      /\ \A i \in 1 .. n - 1 : s[i] # walk.target
  BY SearchState DEF Stopped
<1>2. DOMAIN s = 1 .. Len(s) /\ \A i \in 1 .. Len(s) : s[i] \in Elems  BY <1>1
<1>3. walk.count = (n - 1) % Wrap  BY <1>1 DEF Inv, WalkSound
<1>4. CASE walk.op = "size"
  <2>1. walk.curr = NULL  BY <1>1, <1>4 DEF Inv, WalkSound
  <2>2. ~(n <= Len(s))
    <3>1. SUFFICES ASSUME n <= Len(s)  PROVE  FALSE  OBVIOUS
    <3>2. n \in 1 .. Len(s) /\ s[n] = NULL  BY <1>1, <2>1, <3>1
    <3> QED  BY <1>2, <3>2
  <2>3. n - 1 = Len(s)  BY <1>1, <2>2
  <2> QED  BY <1>3, <1>4, <2>3 DEF AnswersRight
<1>5. CASE walk.op # "size"
  <2>1. walk.target \in Elems  BY <1>1, <1>5 DEF Inv, WalkSound
  <2>2. CASE n <= Len(s)
    <3>1. n \in DOMAIN s /\ walk.curr = s[n] /\ s[n] \in Elems  BY <1>1, <1>2, <2>2
    <3>2. walk.curr = walk.target  BY <1>1, <3>1
    <3>3. walk.target \in Members(l)  BY <3>1, <3>2 DEF Members
    <3> QED  BY <1>5, <3>2, <3>3 DEF AnswersRight
  <2>3. CASE ~(n <= Len(s))
    <3>1. walk.curr = NULL /\ walk.curr # walk.target  BY <1>1, <2>1, <2>3
    <3>2. \A i \in DOMAIN s : s[i] # walk.target
      <4>1. n - 1 = Len(s)  BY <1>1, <2>3
      <4> HIDE DEF s, n
      <4> QED  BY <1>1, <1>2, <4>1
    <3>3. walk.target \notin Members(l)
      <4> HIDE DEF l
      <4> QED  BY <3>2 DEF Members
    <3> QED  BY <1>5, <3>1, <3>3 DEF AnswersRight
  <2> QED  BY <2>2, <2>3
<1> QED  BY <1>4, <1>5

\* The state has its type, with a size in 16 bits (co_list_size, co_list.c:390).
THEOREM TypeCorrect ==
  ASSUME NULL \notin Elems
  PROVE  Spec => []TypeOK
<1>1. Inv => TypeOK  BY DEF Inv
<1> QED  BY <1>1, InvAlways, PTL

\* Whatever is pushed, popped, cut out, inserted and merged, on however many
\* lists, each list is the sequence it should be, its last pointer included, and
\* no element is in two lists (co_list.c:34-402).
THEOREM ListsStayWhole ==
  ASSUME NULL \notin Elems
  PROVE  Spec => [](Represents /\ Apart)
<1>1. Inv => Represents /\ Apart  BY DEF Inv, Whole
<1> QED  BY <1>1, InvAlways, PTL

\* co_list_find and co_list_extract find an element exactly if it is in the list,
\* and co_list_size counts every element (co_list.c:185, 276, 390).
THEOREM SearchesAnswerRight ==
  ASSUME NULL \notin Elems
  PROVE  Spec => []AnswersRight
<1>1. Inv => AnswersRight  BY StoppedRight
<1> QED  BY <1>1, InvAlways, PTL

-----------------------------------------------------------------------------
(***************************************************************************)
(* The two calls Call leaves out                                           *)
(***************************************************************************)
LEMMA SingleSeq ==
  ASSUME NEW t \in Seq(Elems), Len(t) = 1
  PROVE  t = <<t[1]>>
  OBVIOUS

\* co_list_pop_subfront "extracts the second element"; of two it leaves last on
\* the one it has removed, so the next push is lost (co_list.c:163).
THEOREM PopSubfrontOfTwo ==
  ASSUME NULL \notin Elems, Whole, NEW l \in Lists, Len(held[l]) = 2, PopSubfront(l)
  PROVE  last'[l] = held[l][2] /\ ~Represents'
<1> DEFINE s == held[l]
<1>1. s \in Seq(Elems) /\ Inj(s) /\ s # <<>> /\ last[l] = s[Len(s)]
  <2>1. s \in Seq(Elems)  BY ListOf
  <2>2. s # <<>>
    <3>1. Len(s) = 2 /\ Len(<<>>) = 0  OBVIOUS
    <3> HIDE DEF s
    <3> QED  BY <3>1
  <2> QED  BY <2>1, <2>2, ListOf
<1>2. last[l] = s[2] /\ s[1] # s[2]
  <2> HIDE DEF s
  <2>1. Len(s) = 2  BY DEF s
  <2> QED  BY <1>1, <2>1 DEF Inj
<1>3. last' = last /\ held' = [held EXCEPT ![l] = Without(s, 1, 2)]  BY DEF PopSubfront
<1>4. Without(s, 1, 2) = <<s[1]>>
  <2>1. Len(s) = 2  OBVIOUS
  <2> HIDE DEF s
  <2>2. SubSeq(s, 1, 1) \in Seq(Elems) /\ Len(SubSeq(s, 1, 1)) = 1 /\ SubSeq(s, 1, 1)[1] = s[1]
    BY <1>1, <2>1
  <2>3. SubSeq(s, 1, 1) = <<s[1]>>  BY <2>2, SingleSeq
  <2>4. SubSeq(s, 3, 2) \in Seq(Elems) /\ Len(SubSeq(s, 3, 2)) = 0  BY <1>1, <2>1
  <2>5. SubSeq(s, 3, 2) = <<>>  BY <2>4
  <2>6. s[1] \in Elems  BY <1>1, <2>1
  <2>7. <<s[1]>> \o <<>> = <<s[1]>>  BY <2>6
  <2>8. Without(s, 1, 2) = SubSeq(s, 1, 1) \o SubSeq(s, 3, 2)  BY <2>1 DEF Without
  <2> QED  BY <2>3, <2>5, <2>7, <2>8
<1>5. held'[l] = <<s[1]>>  BY <1>3, <1>4 DEF Whole, Pointed
<1>6. SUFFICES ASSUME Represents'  PROVE  FALSE  BY <1>2, <1>3
<1>7. last'[l] = held'[l][Len(held'[l])]
  <2>1. held'[l] # <<>>  BY <1>5
  <2> QED  BY <1>6, <2>1 DEF Represents, Is
<1> QED  BY <1>2, <1>3, <1>5, <1>7

\* co_list_merge takes last from the second list, whatever is in it: merging an
\* empty list into another leaves last on what the empty one last held, and the
\* next push is lost (co_list.c:292).
THEOREM MergeOfEmpty ==
  ASSUME Whole, NEW l \in Lists, NEW m \in Lists \ {l},
         held[l] # <<>>, held[m] = <<>>, last[m] # last[l], Merge(l, m)
  PROVE  last'[l] = last[m] /\ ~Represents'
<1> DEFINE s == held[l]
<1>1. s \in Seq(Elems) /\ s # <<>> /\ last[l] = s[Len(s)]  BY ListOf
<1>2. /\ last' = [last EXCEPT ![l] = last[m]]
      /\ held' = [held EXCEPT ![l] = s \o held[m], ![m] = <<>>]
  BY DEF Merge
<1>3. last'[l] = last[m]  BY <1>2 DEF Whole, Pointed
<1>4. s \o <<>> = s  BY <1>1
<1>5. held'[l] = s  BY <1>2, <1>4 DEF Whole, Pointed
<1>6. SUFFICES ASSUME Represents'  PROVE  FALSE  BY <1>3
<1>7. last'[l] = s[Len(s)]
  <2> HIDE DEF s
  <2> QED  BY <1>1, <1>5, <1>6 DEF Represents, Is
<1> QED  BY <1>1, <1>3, <1>7
=============================================================================
