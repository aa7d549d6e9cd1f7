------------------------- MODULE AudioDecoderProofs -------------------------
(* Theorems about AudioDecoder for rings of any length, any decoders and     *)
(* outputs, frames and thresholds, and about A2dpSink, which extends it.     *)
EXTENDS A2dpSink, TLAPS, WellFoundedInduction, FiniteSetTheorems

-----------------------------------------------------------------------------
(* The ring, as a distance from the read pointer on. *)

LEMMA Sizes ==
  /\ N \in Nat /\ Rsv \in Nat /\ ReqThd \in Nat /\ FullThd \in Nat
  /\ Pull \in Nat /\ MaxPending \in Nat /\ MaxMissed \in Nat
  /\ 0 < FullThd /\ FullThd < Rsv /\ Rsv <= N - 3 /\ 4 < N
  /\ 0 \in Slots /\ N - Rsv \in Slots
  /\ STALE \notin Decoders /\ NULL \notin Decoders /\ NULL \notin Outputs
<1>1. /\ N \in Nat /\ Rsv \in Nat /\ ReqThd \in Nat /\ FullThd \in Nat
      /\ Pull \in Nat /\ MaxPending \in Nat /\ MaxMissed \in Nat
  BY DecoderAssumption
<1> QED BY <1>1, DecoderAssumption DEF Slots, STALE

\* Where the k-th slot after a is, seen from r.
LEMMA AheadOfPlus ==
  ASSUME NEW r \in Slots, NEW a \in Slots, NEW k \in Nat, Ahead(r, a) + k < N
  PROVE  /\ Plus(a, k) \in Slots
         /\ Ahead(r, Plus(a, k)) = Ahead(r, a) + k
BY Sizes DEF Ahead, Plus, Slots

LEMMA AheadIs ==
  ASSUME NEW r \in Slots, NEW a \in Slots
  PROVE  /\ Ahead(r, a) \in 0 .. N - 1
         /\ Ahead(r, r) = 0
         /\ Ahead(r, a) = 0 <=> a = r
BY Sizes DEF Ahead, Slots

\* Seen from another slot.
LEMMA AheadFrom ==
  ASSUME NEW r \in Slots, NEW a \in Slots, NEW b \in Slots
  PROVE  Ahead(a, b) = IF Ahead(r, b) >= Ahead(r, a) THEN Ahead(r, b) - Ahead(r, a)
                                                     ELSE Ahead(r, b) + N - Ahead(r, a)
BY Sizes DEF Ahead, Slots

LEMMA SamePlace ==
  ASSUME NEW r \in Slots, NEW a \in Slots, NEW b \in Slots, Ahead(r, a) = Ahead(r, b)
  PROVE  a = b
BY Sizes DEF Ahead, Slots

LEMMA PlusIsSlot ==
  ASSUME NEW a \in Slots, NEW k \in 0 .. N - 1
  PROVE  Plus(a, k) \in Slots /\ Ahead(a, Plus(a, k)) = k
BY Sizes DEF Ahead, Plus, Slots

\* AUDIO_DECODER_MIXED_STORE_UPPER, and the slot before it.
LEMMA BeforeIs ==
  ASSUME NEW r \in Slots
  PROVE  /\ Before(Before(r)) \in Slots
         /\ Ahead(r, Before(Before(r))) = N - 2
BY Sizes DEF Ahead, Before, Slots

-----------------------------------------------------------------------------
(* Minima and maxima. *)

LEMMA MinIs ==
  ASSUME NEW S, S \subseteq Nat, S # {}
  PROVE  Min(S) \in S /\ \A x \in S : Min(S) <= x
<1>1. PICK x \in S : \A y \in S : ~(<<y, x>> \in OpToRel(<, Nat))
  BY WFMin, NatLessThanWellFounded
<1>2. ASSUME NEW y \in S PROVE x <= y
  <2>1. x \in Nat /\ y \in Nat
    BY <1>2
  <2>2. ~(y < x)
    BY <1>1, <1>2, <2>1 DEF OpToRel
  <2> QED BY <2>1, <2>2
<1> QED BY <1>2 DEF Min

LEMMA MaxIs ==
  ASSUME NEW S, NEW k \in Nat, S \subseteq 0 .. k, S # {}
  PROVE  Max(S) \in S /\ \A x \in S : x <= Max(S)
<1> DEFINE T == {k - x : x \in S}
<1>1. T \subseteq Nat /\ T # {}
  <2>1. \A x \in S : x \in Nat /\ x <= k
    OBVIOUS
  <2>2. \A x \in S : k - x \in Nat
    BY <2>1
  <2> QED BY <2>2
<1> HIDE DEF T
<1>2. PICK t \in T : \A y \in T : ~(<<y, t>> \in OpToRel(<, Nat))
  BY <1>1, WFMin, NatLessThanWellFounded
<1>3. PICK x \in S : t = k - x
  BY DEF T
<1>4. \A y \in S : k - y \in T
  BY DEF T
<1>5. ASSUME NEW y \in S PROVE y <= x
  <2>0. x \in Nat /\ y \in Nat
    BY <1>3, <1>5
  <2>1. k - y \in T /\ k - y \in Nat /\ t \in Nat
    BY <1>1, <1>2, <1>4, <1>5
  <2>2. ~(k - y < t)
    BY <1>2, <2>1 DEF OpToRel
  <2> QED BY <1>3, <2>0, <2>1, <2>2
<1> QED BY <1>5 DEF Max

\* Of two numbers.
LEMMA MinOfTwo ==
  ASSUME NEW x \in Nat, NEW y \in Nat
  PROVE  Min({x, y}) = IF x <= y THEN x ELSE y
<1>1. {x, y} \subseteq Nat /\ {x, y} # {}
  OBVIOUS
<1>2. Min({x, y}) \in {x, y} /\ \A z \in {x, y} : Min({x, y}) <= z
  BY <1>1, MinIs
<1> QED BY <1>2

-----------------------------------------------------------------------------
(* The list of started decoders. *)

Distinct(s) == \A i, j \in DOMAIN s : s[i] = s[j] => i = j

LEMMA RangeIs ==
  ASSUME NEW S, NEW s \in Seq(S)
  PROVE  /\ Range(s) \subseteq S /\ DOMAIN s = 1 .. Len(s) /\ Len(s) \in Nat
         /\ \A i \in DOMAIN s : s[i] \in Range(s)
         /\ s = <<>> => Range(s) = {}
         /\ s # <<>> => Range(s) # {}
<1>1. DOMAIN s = 1 .. Len(s) /\ Len(s) \in Nat /\ \A i \in 1 .. Len(s) : s[i] \in S
  OBVIOUS
<1>2. ASSUME s # <<>> PROVE s[1] \in Range(s)
  <2>1. 1 \in DOMAIN s
    BY <1>2
  <2> QED BY <2>1 DEF Range
<1>3. s = <<>> => Range(s) = {}
  BY DEF Range
<1> QED BY <1>1, <1>2, <1>3 DEF Range

LEMMA WithoutIs ==
  ASSUME list \in Seq(Decoders), Distinct(list), NEW d
  PROVE  /\ Without(d) \in Seq(Decoders) /\ Distinct(Without(d))
         /\ Range(Without(d)) = Range(list) \ {d}
         /\ d \notin Range(list) => Without(d) = list
<1>1. CASE \E i \in 1 .. Len(list) : list[i] = d
  <2> DEFINE I == {i \in 1 .. Len(list) : list[i] = d}
             k == SelectInSeq(list, LAMBDA v : v = d)
  <2>1. k = Min(I)
    BY <1>1 DEF SelectInSeq
  <2> HIDE DEF k
  <2>2. k \in 1 .. Len(list) /\ list[k] = d
    <3>1. I \subseteq Nat /\ I # {}
      BY <1>1
    <3>2. Min(I) \in I
      BY <3>1, MinIs
    <3> QED BY <2>1, <3>2
  <2> DEFINE t == SubSeq(list, 1, k - 1) \o SubSeq(list, k + 1, Len(list))
  <2>3. Without(d) = t
    BY <1>1 DEF Without, RemoveFirst, RemoveAt, k
  <2>4. /\ t \in Seq(Decoders) /\ DOMAIN t = 1 .. Len(list) - 1
        /\ \A i \in 1 .. Len(list) - 1 : t[i] = IF i < k THEN list[i] ELSE list[i + 1]
    <3>1. /\ SubSeq(list, 1, k - 1) \in Seq(Decoders) /\ Len(SubSeq(list, 1, k - 1)) = k - 1
          /\ \A i \in 1 .. k - 1 : SubSeq(list, 1, k - 1)[i] = list[i]
      BY <2>2
    <3>2. /\ SubSeq(list, k + 1, Len(list)) \in Seq(Decoders)
          /\ Len(SubSeq(list, k + 1, Len(list))) = Len(list) - k
          /\ \A i \in 1 .. Len(list) - k : SubSeq(list, k + 1, Len(list))[i] = list[i + k]
      BY <2>2
    <3>3. k \in Nat /\ 1 <= k /\ k <= Len(list) /\ Len(list) \in Nat
      BY <2>2
    <3> DEFINE u == SubSeq(list, 1, k - 1)
               v == SubSeq(list, k + 1, Len(list))
    <3>4. t = u \o v
      OBVIOUS
    <3> HIDE DEF t, u, v
    <3>5. u \in Seq(Decoders) /\ v \in Seq(Decoders) /\ Len(u) = k - 1 /\ Len(v) = Len(list) - k
      BY <3>1, <3>2 DEF u, v
    <3>6. t \in Seq(Decoders) /\ Len(t) = Len(list) - 1
      <4>1. t \in Seq(Decoders)
        BY <3>4, <3>5
      <4>2. Len(t) = Len(u) + Len(v)
        <5>1. u \in Seq(Decoders) /\ v \in Seq(Decoders)
          BY <3>5
        <5>2. Len(u \o v) = Len(u) + Len(v)
          BY <5>1
        <5> QED BY <3>4, <5>2
      <4> QED BY <3>3, <3>5, <4>1, <4>2
    <3>7. ASSUME NEW i \in 1 .. Len(list) - 1
          PROVE  t[i] = IF i < k THEN list[i] ELSE list[i + 1]
      <4>1. CASE i < k
        <5>1. t[i] = u[i]
          BY <3>3, <3>4, <3>5, <3>7, <4>1
        <5>2. i \in 1 .. k - 1
          BY <3>3, <3>7, <4>1
        <5>3. u[i] = list[i]
          BY <3>1, <5>2 DEF u
        <5> QED BY <4>1, <5>1, <5>3
      <4>2. CASE i >= k
        <5>1. t[i] = v[i - (k - 1)]
          BY <3>3, <3>4, <3>5, <3>7, <4>2
        <5>2. i - (k - 1) \in 1 .. Len(list) - k /\ i - (k - 1) + k = i + 1 /\ ~(i < k)
          BY <3>3, <3>7, <4>2
        <5>3. v[i - (k - 1)] = list[i - (k - 1) + k]
          BY <3>2, <5>2 DEF v
        <5> QED BY <5>1, <5>2, <5>3
      <4>3. i < k \/ i >= k
        BY <3>3, <3>7
      <4> QED BY <4>1, <4>2, <4>3
    <3>8. DOMAIN t = 1 .. Len(list) - 1
      BY <3>6
    <3> QED BY <3>6, <3>7, <3>8
  <2> HIDE DEF t
  <2>5. Distinct(t)
    <3> SUFFICES ASSUME NEW i \in DOMAIN t, NEW j \in DOMAIN t, t[i] = t[j] PROVE i = j
      BY DEF Distinct
    <3>1. /\ i \in DOMAIN list /\ i + 1 \in DOMAIN list
          /\ j \in DOMAIN list /\ j + 1 \in DOMAIN list
      BY <2>2, <2>4
    <3> QED BY <2>2, <2>4, <3>1 DEF Distinct
  <2>6. Range(t) = Range(list) \ {d}
    <3>1. ASSUME NEW i \in DOMAIN t PROVE t[i] \in Range(list) \ {d}
      BY <2>2, <2>4 DEF Range, Distinct
    <3>2. ASSUME NEW i \in DOMAIN list, list[i] # d PROVE \E j \in DOMAIN t : t[j] = list[i]
      <4>1. CASE i < k
        BY <2>2, <2>4, <4>1
      <4>2. CASE i > k
        <5>1. i - 1 \in DOMAIN t /\ t[i - 1] = list[i]
          BY <2>2, <2>4, <4>2
        <5> QED BY <5>1
      <4> QED BY <2>2, <3>2, <4>1, <4>2
    <3> QED BY <3>1, <3>2 DEF Range
  <2>7. d \in Range(list)
    BY <2>2 DEF Range
  <2> QED BY <2>3, <2>4, <2>5, <2>6, <2>7
<1>2. CASE ~ \E i \in 1 .. Len(list) : list[i] = d
  BY <1>2 DEF Without, RemoveFirst, Range
<1> QED BY <1>1, <1>2

LEMMA AppendIs ==
  ASSUME NEW s \in Seq(Decoders), Distinct(s), NEW d \in Decoders, d \notin Range(s)
  PROVE  /\ Append(s, d) \in Seq(Decoders) /\ Distinct(Append(s, d))
         /\ Range(Append(s, d)) = Range(s) \cup {d}
<1>1. /\ Append(s, d) \in Seq(Decoders) /\ DOMAIN Append(s, d) = 1 .. Len(s) + 1
      /\ \A i \in 1 .. Len(s) : Append(s, d)[i] = s[i] /\ i \in DOMAIN s
      /\ Append(s, d)[Len(s) + 1] = d /\ Len(s) \in Nat /\ DOMAIN s = 1 .. Len(s)
  OBVIOUS
<1>2. Distinct(Append(s, d))
  BY <1>1 DEF Distinct, Range
<1>3. Range(Append(s, d)) = Range(s) \cup {d}
  <2>1. Range(Append(s, d)) \subseteq Range(s) \cup {d}
    BY <1>1 DEF Range
  <2>2. d \in Range(Append(s, d))
    BY <1>1 DEF Range
  <2>3. Range(s) \subseteq Range(Append(s, d))
    BY <1>1 DEF Range
  <2> QED BY <2>1, <2>2, <2>3
<1> QED BY <1>1, <1>2, <1>3

LEMMA LengthIsCardinality ==
  ASSUME NEW s \in Seq(Decoders), Distinct(s)
  PROVE  Len(s) = Cardinality(Range(s))
<1>1. Len(s) \in Nat /\ IsFiniteSet(1 .. Len(s)) /\ Cardinality(1 .. Len(s)) = Len(s)
  <2>1. 1 \in Int /\ Len(s) \in Int /\ Len(s) >= 0
    OBVIOUS
  <2>2. /\ IsFiniteSet(1 .. Len(s))
        /\ Cardinality(1 .. Len(s)) = IF 1 > Len(s) THEN 0 ELSE Len(s) - 1 + 1
    BY <2>1, FS_Interval
  <2> QED BY <2>1, <2>2
<1>2. s \in Bijection(1 .. Len(s), Range(s))
  <2>1. s \in [1 .. Len(s) -> Range(s)]
    BY DEF Range
  <2>2. s \in Injection(1 .. Len(s), Range(s))
    BY <2>1 DEF Injection, IsInjective, Distinct
  <2>3. s \in Surjection(1 .. Len(s), Range(s))
    BY <2>1 DEF Surjection, Range
  <2> QED BY <2>2, <2>3 DEF Bijection
<1> QED BY <1>1, <1>2, FS_Bijection DEF ExistsBijection

-----------------------------------------------------------------------------
(* The inductive invariant. *)

\* Nobody's input ends, and the interrupt stops no decoder but one that is alone
\* and whose frames are no longer than the ring.
Quiet ==
  /\ InputEnds = FALSE
  /\ \/ Host = NULL
     \/ Decoders = {Host} /\ \A f \in Frames : f <= N

Irqs == [at : {"none", "check", "consumed", "missed"}, output : Outputs \cup {NULL}, index : Nat]

RingTyped ==
  /\ wr \in Slots /\ rd \in Slots /\ ring \in [Slots -> Content]
  /\ dwr \in [Decoders -> Slots]

ListTyped ==
  /\ list \in Seq(Decoders) /\ Distinct(list)
  /\ at \in [Decoders -> {"none", "wait_start", "decoder_list"}]
  /\ state \in [Decoders -> {"idle", "decoding"}]
  /\ \A d \in Decoders : at[d] = "decoder_list" <=> Listed(d)
  /\ \A d \in Decoders : state[d] = "decoding" <=> Listed(d)
  /\ pending \in [Decoders -> 0 .. MaxPending] /\ req \subseteq Decoders

OutputsTyped ==
  /\ outs \subseteq Outputs /\ ord \in [Outputs -> Slots]
  /\ missed \in [Outputs -> 0 .. MaxMissed + Pull]

TaskTyped ==
  /\ pc \in Steps \ {"over"} /\ cur \in Decoders \cup {NULL}
  /\ resume \in {"idle", "status", "input"}
  /\ fast \in Slots /\ dist \in Slots /\ min \in Slots
  /\ blk \in 0 .. MaxPending /\ dealt \in 0 .. MaxPending
  /\ irq \in Irqs /\ (irq.at # "none" => irq.index > 0)
  /\ fault = "none"

\* The task works on a started decoder, unless the interrupt has stopped the
\* only one, and on a block that is there.
TaskSound ==
  /\ pc # "idle" => cur \in Decoders /\ (Listed(cur) \/ Host # NULL)
  /\ pc \in {"mix_save", "mix_advance"} => blk \in Blocks(pending[cur])
  /\ pc = "mix_advance" => dealt <= blk

Empty == list = <<>> /\ outs = {} /\ pc = "idle" /\ \A d \in Decoders : at[d] = "none"

Typed ==
  /\ inited \in BOOLEAN /\ (~inited => Empty)
  /\ RingTyped /\ ListTyped /\ OutputsTyped /\ TaskTyped /\ TaskSound

From(x) == Ahead(rd, x)

\* Up to the k-th slot from the read pointer on nothing is of an earlier lap, and
\* a decoder is in the mix.
Fresh(k) == \A i \in Slots : From(i) < k => STALE \notin ring[i]
Has(d, k) == \A i \in Slots : From(i) < k => d \in ring[i] /\ STALE \notin ring[i]

Ordered ==
  /\ From(wr) <= N - 2
  /\ \A d \in Range(list) : From(wr) <= From(dwr[d]) /\ From(dwr[d]) <= N - 2

Behind ==
  /\ outs # {} => \E o \in outs : ord[o] = rd
  /\ \A o \in outs : From(ord[o]) <= From(wr)

Mixture ==
  /\ Fresh(From(wr))
  /\ \A d \in Range(list) : Has(d, From(dwr[d]))

\* While the task mixes, fast is the furthest decoder: the one that was when it
\* began (dist), or its own once it has come past it.  Nothing moves the write
\* pointer between its being read and the search.
Furthest == IF From(dwr[cur]) > From(wr) + dist THEN From(dwr[cur]) ELSE From(wr) + dist
MixSound ==
  /\ pc = "mix_search" => fast = wr
  /\ pc \in {"mix_pick", "mix_save", "mix_advance"} /\ Listed(cur) =>
       /\ From(fast) = Furthest /\ From(fast) <= N - 2 /\ Fresh(From(fast))
       /\ \A d \in Range(list) : d # cur => From(dwr[d]) <= From(wr) + dist
       /\ pc = "mix_advance" => /\ From(dwr[cur]) + dealt <= N - 2
                                /\ Has(cur, From(dwr[cur]) + dealt)

\* Between the halves of update_wr_ptr the distance stays what it was for.
CommitSound ==
  pc = "update_commit" =>
    /\ From(wr) + min <= N - 2 /\ Fresh(From(wr) + min)
    /\ \A d \in Range(list) : From(wr) + min <= From(dwr[d])

Sound == Ordered /\ Behind /\ Mixture /\ MixSound /\ CommitSound
IInv == Typed /\ Sound

-----------------------------------------------------------------------------
(* The pointers of the module. *)

LEMMA FromIs ==
  ASSUME RingTyped
  PROVE  /\ \A x \in Slots : From(x) \in 0 .. N - 1
         /\ From(wr) \in 0 .. N - 1 /\ From(rd) = 0
         /\ \A d \in Decoders : dwr[d] \in Slots /\ From(dwr[d]) \in 0 .. N - 1
BY AheadIs DEF RingTyped, From

\* update_wr_ptr moves up to the slowest decoder.
LEMMA SlowestIs ==
  ASSUME NEW r \in Slots, NEW l \in Seq(Decoders), NEW w \in [Decoders -> Slots], NEW from \in Slots,
         Ahead(r, from) <= N - 2,
         \A d \in Range(l) : Ahead(r, from) <= Ahead(r, w[d]) /\ Ahead(r, w[d]) <= N - 2
  PROVE  /\ Slowest(l, w, from) \in Slots
         /\ Ahead(r, from) <= Ahead(r, Slowest(l, w, from))
         /\ Ahead(r, Slowest(l, w, from)) <= N - 2
         /\ \A d \in Range(l) : Ahead(r, Slowest(l, w, from)) <= Ahead(r, w[d])
         /\ \/ Slowest(l, w, from) = from
            \/ \E d \in Range(l) : Ahead(r, Slowest(l, w, from)) = Ahead(r, w[d])
         /\ l # <<>> =>
              /\ MinDistance(l, w, from) \in 0 .. N - 1
              /\ Slowest(l, w, from) = Plus(from, MinDistance(l, w, from))
              /\ Ahead(r, Slowest(l, w, from)) = Ahead(r, from) + MinDistance(l, w, from)
<1>1. CASE l = <<>>
  <2>1. Slowest(l, w, from) = from /\ Range(l) = {}
    BY <1>1, RangeIs DEF Slowest
  <2>2. Ahead(r, from) \in 0 .. N - 1
    BY AheadIs
  <2> QED BY <1>1, <2>1, <2>2
<1>2. CASE l # <<>>
  <2> DEFINE S == {Ahead(from, w[d]) : d \in Range(l)}
             m == Min(S)
  <2>1. ASSUME NEW d \in Range(l)
        PROVE  /\ w[d] \in Slots /\ Ahead(r, w[d]) \in 0 .. N - 1 /\ Ahead(r, from) \in 0 .. N - 1
               /\ Ahead(from, w[d]) = Ahead(r, w[d]) - Ahead(r, from)
               /\ Ahead(from, w[d]) \in 0 .. N - 1
    <3>1. w[d] \in Slots
      BY RangeIs
    <3>2. /\ Ahead(r, w[d]) \in 0 .. N - 1 /\ Ahead(r, from) \in 0 .. N - 1
          /\ Ahead(from, w[d]) \in 0 .. N - 1
      BY <3>1, AheadIs
    <3>3. Ahead(r, w[d]) >= Ahead(r, from)
      BY <3>2
    <3> QED BY <3>1, <3>2, <3>3, AheadFrom
  <2>2. S \subseteq Nat /\ S # {}
    BY <1>2, <2>1, RangeIs
  <2>3. m \in S /\ \A x \in S : m <= x
    BY <2>2, MinIs
  <2> HIDE DEF m
  <2>4. PICK e \in Range(l) : m = Ahead(from, w[e])
    BY <2>3
  <2>5. m \in 0 .. N - 1 /\ Ahead(r, from) \in 0 .. N - 1 /\ Ahead(r, from) + m = Ahead(r, w[e])
    BY <2>1, <2>4
  <2>6. Ahead(r, from) + m < N /\ m \in Nat
    BY <2>1, <2>5, Sizes
  <2>7. Plus(from, m) \in Slots /\ Ahead(r, Plus(from, m)) = Ahead(r, from) + m
    BY <2>6, AheadOfPlus
  <2>8. Slowest(l, w, from) = Plus(from, m) /\ MinDistance(l, w, from) = m
    BY <1>2 DEF Slowest, MinDistance, m
  <2>9. ASSUME NEW d \in Range(l) PROVE Ahead(r, from) + m <= Ahead(r, w[d])
    <3>1. m <= Ahead(from, w[d])
      BY <2>3
    <3> QED BY <2>1, <2>5, <3>1
  <2> QED BY <1>2, <2>5, <2>6, <2>7, <2>8, <2>9
<1> QED BY <1>1, <1>2

\* The fastest decoder, of which nothing behind is of an earlier lap.
LEMMA FastestIs ==
  ASSUME RingTyped, ListTyped, Ordered, Mixture
  PROVE  /\ MaxDistance \in 0 .. N - 1 /\ MaxDistance \in Slots /\ Fastest \in Slots
         /\ From(Fastest) = From(wr) + MaxDistance /\ From(Fastest) <= N - 2
         /\ \A d \in Range(list) : From(dwr[d]) <= From(Fastest)
         /\ Fresh(From(Fastest))
<1> DEFINE S == {Ahead(wr, dwr[d]) : d \in Range(list)} \cup {0}
           m == Max(S)
<1>0. /\ N \in Nat /\ N > 0 /\ wr \in Slots /\ rd \in Slots
      /\ \A d \in Range(list) : d \in Decoders /\ dwr[d] \in Slots
  BY Sizes, RangeIs DEF RingTyped, ListTyped
<1>1. ASSUME NEW d \in Range(list)
      PROVE  /\ Ahead(wr, dwr[d]) = From(dwr[d]) - From(wr)
             /\ Ahead(wr, dwr[d]) \in 0 .. N - 1
             /\ From(dwr[d]) \in 0 .. N - 1
  <2>1. From(dwr[d]) >= From(wr)
    BY <1>0, FromIs DEF Ordered
  <2>2. Ahead(wr, dwr[d]) \in 0 .. N - 1 /\ From(dwr[d]) \in 0 .. N - 1
    BY <1>0, AheadIs DEF From
  <2> QED BY <1>0, <2>1, <2>2, AheadFrom DEF From
<1>2. S \subseteq 0 .. N - 1 /\ S # {} /\ N - 1 \in Nat
  BY <1>0, <1>1
<1>3. m \in S /\ \A x \in S : x <= m
  BY <1>2, MaxIs
<1> HIDE DEF m
<1>4. m \in 0 .. N - 1
  BY <1>2, <1>3
<1>5. From(wr) + m = From(wr) \/ \E d \in Range(list) : From(wr) + m = From(dwr[d])
  <2>1. CASE m = 0
    BY <1>0, <2>1, FromIs
  <2>2. CASE \E d \in Range(list) : m = Ahead(wr, dwr[d])
    BY <1>0, <1>1, <2>2, FromIs
  <2> QED BY <1>3, <2>1, <2>2
<1>6. From(wr) \in 0 .. N - 1
  BY FromIs
<1>7. From(wr) + m <= N - 2 /\ From(wr) + m < N /\ m \in Nat
  BY <1>0, <1>1, <1>4, <1>5, <1>6 DEF Ordered
<1>8. Plus(wr, m) \in Slots /\ From(Plus(wr, m)) = From(wr) + m
  BY <1>0, <1>7, AheadOfPlus DEF From
<1>9. MaxDistance = m /\ Fastest = Plus(wr, m)
  BY DEF MaxDistance, Fastest, m
<1>10. ASSUME NEW d \in Range(list) PROVE From(dwr[d]) <= From(wr) + m
  <2>1. Ahead(wr, dwr[d]) <= m
    BY <1>3
  <2> QED BY <1>1, <1>4, <1>6, <2>1
<1>11. Fresh(From(wr) + m)
  BY <1>5 DEF Mixture, Fresh, Has
<1> QED BY <1>0, <1>4, <1>7, <1>8, <1>9, <1>10, <1>11 DEF Slots

-----------------------------------------------------------------------------
(* save_data_to_mixed_buffer. *)

LEMMA DealtIs ==
  ASSUME RingTyped, NEW d \in Decoders, NEW f \in Slots, NEW k \in Nat
  PROVE  /\ Added(d, f, k) \in Nat /\ Copied(d, f, k) \in Nat
         /\ Dealt(d, f, k) \in 0 .. k
         /\ Added(d, f, k) <= Ahead(dwr[d], f)
         /\ Copied(d, f, k) > 0 => Added(d, f, k) = Ahead(dwr[d], f)
         /\ Copied(d, f, k) <= Ahead(f, Before(Before(rd)))
<1>1. rd \in Slots /\ dwr[d] \in Slots
  BY DEF RingTyped
<1>2. Before(Before(rd)) \in Slots
  BY <1>1, BeforeIs
<1> DEFINE a == Ahead(dwr[d], f)
           b == Ahead(f, Before(Before(rd)))
<1>3. a \in Nat /\ b \in Nat
  BY <1>1, <1>2, AheadIs
<1>4. Added(d, f, k) = IF k > a THEN a ELSE k
  BY DEF Added
<1>5. Copied(d, f, k) = IF k <= a THEN 0 ELSE Min({k - a, b})
  BY DEF Copied
<1> HIDE DEF a, b
<1>6. k > a => k - a \in Nat
  BY <1>3
<1>7. Copied(d, f, k) = IF k <= a THEN 0 ELSE IF k - a <= b THEN k - a ELSE b
  BY <1>3, <1>5, <1>6, MinOfTwo
<1>8. /\ Added(d, f, k) \in Nat /\ Copied(d, f, k) \in Nat
      /\ Added(d, f, k) + Copied(d, f, k) \in 0 .. k
      /\ Added(d, f, k) <= a
      /\ Copied(d, f, k) > 0 => Added(d, f, k) = a
      /\ Copied(d, f, k) <= b
  BY <1>3, <1>4, <1>7
<1> QED BY <1>8 DEF Dealt, a, b

\* No old sample gets into the mix, nothing behind the fastest decoder gets lost,
\* and the samples are there, one after the other, as far as there is space.
LEMMA MixedIs ==
  ASSUME RingTyped, NEW d \in Decoders, NEW f \in Slots, NEW k \in Nat
  PROVE  /\ Mixed(d, f, k) \in [Slots -> Content]
         /\ \A i \in Slots : STALE \notin ring[i] => STALE \notin Mixed(d, f, k)[i]
         /\ From(dwr[d]) <= From(f) /\ From(f) <= N - 2 =>
              /\ From(dwr[d]) + Dealt(d, f, k) <= N - 2
              /\ \A i \in Slots : From(i) < From(f) => ring[i] \subseteq Mixed(d, f, k)[i]
              /\ \A i \in Slots :
                   From(dwr[d]) <= From(i) /\ From(i) < From(dwr[d]) + Dealt(d, f, k) =>
                     /\ d \in Mixed(d, f, k)[i]
                     /\ From(i) >= From(f) => Mixed(d, f, k)[i] = {d}
<1> DEFINE a == Added(d, f, k)
           c == Copied(d, f, k)
<1>1. rd \in Slots /\ dwr[d] \in Slots /\ N \in Nat /\ N > 4 /\ STALE \notin Decoders
  BY Sizes DEF RingTyped
<1>2. /\ a \in Nat /\ c \in Nat /\ Dealt(d, f, k) = a + c
      /\ a <= Ahead(dwr[d], f) /\ (c > 0 => a = Ahead(dwr[d], f))
      /\ c <= Ahead(f, Before(Before(rd)))
  BY DealtIs DEF Dealt
<1>3. Mixed(d, f, k) = [i \in Slots |-> IF Ahead(f, i) < c THEN {d}
                                        ELSE IF Ahead(dwr[d], i) < a THEN ring[i] \cup {d}
                                        ELSE ring[i]]
  BY DEF Mixed, Span
<1> HIDE DEF a, c
<1>4. Mixed(d, f, k) \in [Slots -> Content]
  BY <1>3 DEF Content, RingTyped
<1>5. ASSUME NEW i \in Slots, STALE \notin ring[i] PROVE STALE \notin Mixed(d, f, k)[i]
  BY <1>1, <1>3, <1>5
<1>6. ASSUME From(dwr[d]) <= From(f), From(f) <= N - 2
      PROVE  /\ From(dwr[d]) + Dealt(d, f, k) <= N - 2
             /\ \A i \in Slots : From(i) < From(f) => ring[i] \subseteq Mixed(d, f, k)[i]
             /\ \A i \in Slots :
                  From(dwr[d]) <= From(i) /\ From(i) < From(dwr[d]) + Dealt(d, f, k) =>
                    /\ d \in Mixed(d, f, k)[i]
                    /\ From(i) >= From(f) => Mixed(d, f, k)[i] = {d}
  <2>1. Before(Before(rd)) \in Slots /\ From(Before(Before(rd))) = N - 2
    BY <1>1, BeforeIs DEF From
  <2>2. From(f) \in 0 .. N - 1 /\ From(dwr[d]) \in 0 .. N - 1
    BY <1>1, AheadIs DEF From
  <2>3. Ahead(f, Before(Before(rd))) = N - 2 - From(f)
    BY <1>1, <1>6, <2>1, <2>2, AheadFrom DEF From
  <2>4. Ahead(dwr[d], f) = From(f) - From(dwr[d])
    BY <1>1, <1>6, <2>2, AheadFrom DEF From
  <2>5. From(dwr[d]) + Dealt(d, f, k) <= N - 2
    BY <1>1, <1>2, <1>6, <2>2, <2>3, <2>4
  <2>6. ASSUME NEW i \in Slots
        PROVE  /\ From(i) \in 0 .. N - 1
               /\ Ahead(f, i) = IF From(i) >= From(f) THEN From(i) - From(f) ELSE From(i) + N - From(f)
               /\ Ahead(dwr[d], i) = IF From(i) >= From(dwr[d]) THEN From(i) - From(dwr[d])
                                     ELSE From(i) + N - From(dwr[d])
    BY <1>1, AheadIs, AheadFrom DEF From
  <2>7. ASSUME NEW i \in Slots, From(i) < From(f) PROVE ring[i] \subseteq Mixed(d, f, k)[i]
    <3>1. ~(Ahead(f, i) < c)
      BY <1>1, <1>2, <2>2, <2>3, <2>6, <2>7
    <3> QED BY <1>3, <3>1
  <2>8. ASSUME NEW i \in Slots, From(dwr[d]) <= From(i), From(i) < From(dwr[d]) + Dealt(d, f, k)
        PROVE  /\ d \in Mixed(d, f, k)[i]
               /\ From(i) >= From(f) => Mixed(d, f, k)[i] = {d}
    <3>1. CASE From(i) >= From(f)
      <4>1. Ahead(f, i) < c
        BY <1>1, <1>2, <2>2, <2>4, <2>6, <2>8, <3>1
      <4> QED BY <1>3, <4>1
    <3>2. CASE From(i) < From(f)
      <4>1. Ahead(dwr[d], i) < a
        BY <1>1, <1>2, <2>2, <2>4, <2>6, <2>8, <3>2
      <4>2. ~(From(i) >= From(f))
        BY <2>2, <2>6, <3>2
      <4> QED BY <1>3, <4>1, <4>2
    <3> QED BY <2>2, <2>6, <3>1, <3>2
  <2> QED BY <2>5, <2>7, <2>8
<1> QED BY <1>4, <1>5, <1>6

-----------------------------------------------------------------------------
(* Steps of the pointers. *)

\* Nothing of the ring changes.
LEMMA RingSame ==
  ASSUME Ordered, Behind, Mixture, UNCHANGED <<wr, rd, ring, list, dwr, outs, ord>>
  PROVE  Ordered' /\ Behind' /\ Mixture'
BY DEF Ordered, Behind, Mixture, Fresh, Has, From

\* A step of the interrupt that leaves the ring alone.
LEMMA TaskSame ==
  ASSUME MixSound, CommitSound, UNCHANGED <<wr, rd, ring, list, dwr>>,
         UNCHANGED <<pc, cur, fast, dist, dealt, min>>
  PROVE  MixSound' /\ CommitSound'
BY DEF MixSound, CommitSound, Furthest, Fresh, Has, From, Listed

\* Outside of a mix and of update_wr_ptr nothing is promised of their locals.
LEMMA TaskElsewhere ==
  ASSUME pc' \notin {"mix_search", "mix_pick", "mix_save", "mix_advance", "update_commit"}
  PROVE  MixSound' /\ CommitSound'
BY DEF MixSound, CommitSound

\* A decoder leaves the list; the write pointer goes on to the slowest of the rest.
LEMMA LeaveList ==
  ASSUME RingTyped, OutputsTyped, list \in Seq(Decoders), Distinct(list), Ordered, Behind, Mixture,
         NEW d \in Decoders, list' = Without(d),
         wr' = IF Listed(d) THEN Slowest(Without(d), dwr, wr) ELSE wr,
         UNCHANGED <<rd, ring, dwr, outs, ord>>
  PROVE  /\ RingTyped' /\ Ordered' /\ Behind' /\ Mixture'
         /\ list' \in Seq(Decoders) /\ Distinct(list') /\ Range(list') = Range(list) \ {d}
         /\ Decoders = {d} => list' = <<>> /\ wr' = wr
<1>1. list' \in Seq(Decoders) /\ Distinct(list') /\ Range(list') = Range(list) \ {d}
  BY WithoutIs
<1>2. \A x \in Range(list) : x \in Decoders
  BY RangeIs
<1>3. Decoders = {d} => list' = <<>> /\ wr' = wr
  <2> SUFFICES ASSUME Decoders = {d} PROVE list' = <<>> /\ wr' = wr
    OBVIOUS
  <2>1. Range(list') = {}
    BY <1>1, <1>2
  <2>2. list' = <<>>
    BY <1>1, <2>1, RangeIs
  <2> QED BY <2>2 DEF Slowest
<1>4. CASE ~Listed(d)
  <2>1. list' = list /\ wr' = wr
    BY <1>4, WithoutIs DEF Listed
  <2>2. Ordered' /\ Behind' /\ Mixture'
    BY <2>1, RingSame
  <2> QED BY <1>1, <1>3, <2>1, <2>2 DEF RingTyped
<1>5. CASE Listed(d)
  <2>0. wr' = Slowest(list', dwr, wr)
    BY <1>5
  <2>1. /\ rd \in Slots /\ wr \in Slots /\ dwr \in [Decoders -> Slots]
        /\ From(wr) <= N - 2
        /\ \A x \in Range(list') : From(wr) <= From(dwr[x]) /\ From(dwr[x]) <= N - 2
    BY <1>1 DEF RingTyped, Ordered
  <2>2. /\ wr' \in Slots /\ From(wr) <= From(wr') /\ From(wr') <= N - 2
        /\ \A x \in Range(list') : From(wr') <= From(dwr[x])
        /\ wr' = wr \/ \E x \in Range(list') : From(wr') = From(dwr[x])
    BY <1>1, <2>0, <2>1, SlowestIs DEF From
  <2>3. Ordered'
    BY <2>1, <2>2 DEF Ordered, From
  <2>4. Behind'
    <3>1. ASSUME NEW o \in outs PROVE From(ord[o]) <= From(wr')
      <4>1. ord[o] \in Slots
        BY DEF OutputsTyped
      <4>2. From(ord[o]) \in 0 .. N - 1 /\ From(wr) \in 0 .. N - 1 /\ From(wr') \in 0 .. N - 1
        BY <2>2, <4>1, FromIs
      <4> QED BY <2>2, <4>2, Sizes DEF Behind
    <3> QED BY <3>1 DEF Behind, From
  <2>5. Mixture'
    <3>1. Fresh(From(wr'))
      BY <1>1, <2>2 DEF Mixture, Fresh, Has
    <3> QED BY <1>1, <3>1 DEF Mixture, Fresh, Has, From
  <2> QED BY <1>1, <1>3, <2>2, <2>3, <2>4, <2>5 DEF RingTyped
<1> QED BY <1>4, <1>5

\* update_rd_ptr moves up to the slowest output.
LEMMA SlowestOutputIs ==
  ASSUME RingTyped, Ordered, NEW os \in SUBSET Outputs, os # {}, NEW p \in [Outputs -> Slots],
         \A o \in os : From(p[o]) <= From(wr)
  PROVE  \E k \in 0 .. From(wr) :
           /\ SlowestOutput(os, p) = Plus(rd, k)
           /\ \A o \in os : k <= From(p[o])
           /\ \E o \in os : k = From(p[o])
<1> DEFINE S == {Ahead(rd, p[o]) : o \in os}
           k == Min(S)
<1>1. ASSUME NEW o \in os PROVE From(p[o]) \in Nat /\ p[o] \in Slots
  <2>1. p[o] \in Slots
    OBVIOUS
  <2> QED BY <2>1, FromIs
<1>2. S \subseteq Nat /\ S # {}
  BY <1>1 DEF From
<1>3. k \in S /\ \A x \in S : k <= x
  BY <1>2, MinIs
<1>4. SlowestOutput(os, p) = Plus(rd, k)
  BY DEF SlowestOutput
<1> HIDE DEF k
<1>5. PICK o \in os : k = From(p[o])
  BY <1>3 DEF From
<1>6. \A x \in os : k <= From(p[x])
  BY <1>3 DEF From
<1>7. k \in 0 .. From(wr)
  BY <1>1, <1>5, FromIs
<1> QED BY <1>4, <1>5, <1>6, <1>7

\* The read pointer moves; what is behind it is old from then on.
LEMMA ReadMoves ==
  ASSUME RingTyped, list \in Seq(Decoders), Ordered, Mixture, MixSound, CommitSound, TaskTyped,
         NEW k \in 0 .. From(wr), rd' = Plus(rd, k),
         ring' = [i \in Slots |-> IF i \in Span(rd, Ahead(rd, rd')) THEN {STALE} ELSE ring[i]],
         UNCHANGED <<wr, list, dwr, pc, cur, fast, dist, dealt, min>>
  PROVE  /\ RingTyped' /\ Ordered' /\ Mixture' /\ MixSound' /\ CommitSound'
         /\ \A x \in Slots : From(x) >= k => Ahead(rd', x) = From(x) - k
<1>1. N \in Nat /\ rd \in Slots /\ wr \in Slots /\ From(wr) \in 0 .. N - 1 /\ k \in 0 .. N - 1
  BY Sizes, FromIs DEF RingTyped
<1>2. rd' \in Slots /\ Ahead(rd, rd') = k
  BY <1>1, PlusIsSlot
<1>3. ASSUME NEW x \in Slots
      PROVE  /\ Ahead(rd', x) = IF From(x) >= k THEN From(x) - k ELSE From(x) + N - k
             /\ From(x) \in 0 .. N - 1
  <2>1. Ahead(rd', x) = IF Ahead(rd, x) >= Ahead(rd, rd') THEN Ahead(rd, x) - Ahead(rd, rd')
                        ELSE Ahead(rd, x) + N - Ahead(rd, rd')
    BY <1>1, <1>2, AheadFrom
  <2>2. Ahead(rd, x) \in 0 .. N - 1
    BY <1>1, AheadIs
  <2> QED BY <1>2, <2>1, <2>2 DEF From
<1>4. RingTyped'
  <2>1. {STALE} \in Content
    BY DEF Content
  <2> QED BY <1>2, <2>1 DEF RingTyped
<1>5. ASSUME NEW i \in Slots PROVE ring'[i] = IF From(i) < k THEN {STALE} ELSE ring[i]
  BY <1>2 DEF Span, From
<1>6. ASSUME NEW n \in Int, n <= N - 2, Fresh(n), NEW i \in Slots, Ahead(rd', i) < n - k
      PROVE  STALE \notin ring'[i]
  <2>1. From(i) >= k /\ From(i) < n
    BY <1>1, <1>3, <1>6
  <2> QED BY <1>1, <1>3, <1>5, <1>6, <2>1 DEF Fresh
<1>7. ASSUME NEW d, NEW n \in Int, n <= N - 2, Has(d, n), NEW i \in Slots, Ahead(rd', i) < n - k
      PROVE  d \in ring'[i] /\ STALE \notin ring'[i]
  <2>1. From(i) >= k /\ From(i) < n
    BY <1>1, <1>3, <1>7
  <2> QED BY <1>1, <1>3, <1>5, <1>7, <2>1 DEF Has
<1>8. Ahead(rd', wr) = From(wr) - k /\ From(wr) <= N - 2
  BY <1>1, <1>3 DEF Ordered
<1>9. ASSUME NEW d \in Range(list)
      PROVE  /\ dwr[d] \in Slots /\ From(dwr[d]) \in 0 .. N - 1 /\ From(dwr[d]) <= N - 2
             /\ From(dwr[d]) >= From(wr)
             /\ Ahead(rd', dwr[d]) = From(dwr[d]) - k
  <2>1. d \in Decoders
    BY RangeIs
  <2>2. dwr[d] \in Slots
    BY <2>1 DEF RingTyped
  <2>3. From(dwr[d]) >= From(wr) /\ From(dwr[d]) <= N - 2
    BY DEF Ordered
  <2> QED BY <1>1, <1>3, <2>2, <2>3
<1>10. Ordered'
  BY <1>1, <1>8, <1>9 DEF Ordered, From
<1>11. Mixture'
  <2>1. ASSUME NEW i \in Slots, Ahead(rd', i) < Ahead(rd', wr) PROVE STALE \notin ring'[i]
    BY <1>1, <1>6, <1>8, <2>1 DEF Mixture
  <2>2. ASSUME NEW d \in Range(list), NEW i \in Slots, Ahead(rd', i) < Ahead(rd', dwr[d])
        PROVE  d \in ring'[i] /\ STALE \notin ring'[i]
    BY <1>1, <1>7, <1>9, <2>2 DEF Mixture
  <2> QED BY <2>1, <2>2 DEF Mixture, Fresh, Has, From
<1>12. CommitSound'
  <2> SUFFICES ASSUME pc = "update_commit" PROVE CommitSound'
    BY DEF CommitSound
  <2>0. min \in Nat
    BY DEF TaskTyped, Slots
  <2>1. /\ From(wr) + min <= N - 2 /\ Fresh(From(wr) + min)
        /\ \A d \in Range(list) : From(wr) + min <= From(dwr[d])
    BY DEF CommitSound
  <2>2. Ahead(rd', wr) + min = From(wr) + min - k
    BY <1>1, <1>8, <2>0
  <2>3. ASSUME NEW i \in Slots, Ahead(rd', i) < Ahead(rd', wr) + min PROVE STALE \notin ring'[i]
    BY <1>1, <1>6, <2>0, <2>1, <2>2, <2>3
  <2>4. ASSUME NEW d \in Range(list) PROVE Ahead(rd', wr) + min <= Ahead(rd', dwr[d])
    BY <1>1, <1>9, <2>0, <2>1, <2>2
  <2>5. Ahead(rd', wr) + min <= N - 2
    BY <1>1, <2>0, <2>1, <2>2
  <2> QED BY <2>3, <2>4, <2>5 DEF CommitSound, Fresh, From
<1>13. MixSound'
  <2> SUFFICES ASSUME pc \in {"mix_pick", "mix_save", "mix_advance"}, Listed(cur) PROVE MixSound'
    BY DEF MixSound, Listed
  <2>0. fast \in Slots /\ dist \in Nat /\ dealt \in Nat /\ cur \in Range(list)
    BY DEF TaskTyped, Slots, Listed
  <2>1. /\ From(fast) = Furthest /\ From(fast) <= N - 2 /\ Fresh(From(fast))
        /\ \A d \in Range(list) : d # cur => From(dwr[d]) <= From(wr) + dist
        /\ pc = "mix_advance" => /\ From(dwr[cur]) + dealt <= N - 2
                                 /\ Has(cur, From(dwr[cur]) + dealt)
    BY DEF MixSound
  <2>2. From(fast) >= From(wr) /\ Ahead(rd', fast) = From(fast) - k
    BY <1>1, <1>3, <1>9, <2>0, <2>1 DEF Furthest
  <2>3. Ahead(rd', fast) = IF Ahead(rd', dwr[cur]) > Ahead(rd', wr) + dist
                           THEN Ahead(rd', dwr[cur]) ELSE Ahead(rd', wr) + dist
    BY <1>1, <1>8, <1>9, <2>0, <2>1, <2>2 DEF Furthest
  <2>4. ASSUME NEW i \in Slots, Ahead(rd', i) < Ahead(rd', fast) PROVE STALE \notin ring'[i]
    BY <1>1, <1>3, <1>6, <2>0, <2>1, <2>2, <2>4
  <2>5. ASSUME NEW d \in Range(list), d # cur PROVE Ahead(rd', dwr[d]) <= Ahead(rd', wr) + dist
    BY <1>1, <1>8, <1>9, <2>0, <2>1, <2>5
  <2>6. ASSUME pc = "mix_advance"
        PROVE  /\ Ahead(rd', dwr[cur]) + dealt <= N - 2
               /\ \A i \in Slots : Ahead(rd', i) < Ahead(rd', dwr[cur]) + dealt =>
                    cur \in ring'[i] /\ STALE \notin ring'[i]
    <3>1. PICK n \in Int : n = From(dwr[cur]) + dealt
      BY <1>9, <2>0
    <3>2. n <= N - 2 /\ Has(cur, n) /\ Ahead(rd', dwr[cur]) + dealt = n - k
      BY <1>1, <1>9, <2>0, <2>1, <2>6, <3>1
    <3>3. ASSUME NEW i \in Slots, Ahead(rd', i) < n - k PROVE cur \in ring'[i] /\ STALE \notin ring'[i]
      BY <1>7, <3>2, <3>3
    <3> QED BY <1>1, <3>1, <3>2, <3>3
  <2>7. Ahead(rd', fast) <= N - 2
    BY <1>1, <1>3, <2>0, <2>1, <2>2
  <2> QED BY <2>3, <2>4, <2>5, <2>6, <2>7 DEF MixSound, Furthest, Fresh, Has, From, Listed
<1>14. \A x \in Slots : From(x) >= k => Ahead(rd', x) = From(x) - k
  BY <1>3
<1> QED BY <1>4, <1>10, <1>11, <1>12, <1>13, <1>14

-----------------------------------------------------------------------------
(* Calls. *)

LEMMA SlotsAre == 0 \in Slots /\ 0 \in 0 .. MaxPending /\ 0 \in 0 .. MaxMissed + Pull /\ NoIrq \in Irqs
BY Sizes DEF NoIrq, Irq, Irqs

LEMMA InitSound == Init => IInv
<1> SUFFICES ASSUME Init PROVE IInv
  OBVIOUS
<1>1. Range(list) = {} /\ list \in Seq(Decoders) /\ Distinct(list)
  BY DEF Init, Range, Distinct
<1>2. From(wr) = 0 /\ \A x \in Slots : From(x) \in 0 .. N - 1
  BY AheadIs, SlotsAre DEF Init, From
<1>3. RingTyped
  BY SlotsAre DEF Init, RingTyped, Content
<1>4. ListTyped
  BY <1>1, SlotsAre DEF Init, ListTyped, Listed
<1>5. OutputsTyped
  BY SlotsAre DEF Init, OutputsTyped
<1>6. TaskTyped /\ TaskSound
  BY SlotsAre DEF Init, TaskTyped, TaskSound, NoIrq, Irq, Steps
<1>7. Typed
  BY <1>3, <1>4, <1>5, <1>6 DEF Init, Typed, Empty
<1>8. Ordered /\ Behind /\ Mixture
  <2>1. Fresh(From(wr))
    BY <1>2 DEF Fresh
  <2> QED BY <1>1, <1>2, <2>1, Sizes DEF Init, Ordered, Behind, Mixture
<1>9. MixSound /\ CommitSound
  BY DEF Init, MixSound, CommitSound
<1> QED BY <1>7, <1>8, <1>9 DEF IInv, Sound

\* A call leaves the task, and what the interrupt does, as they are.
LEMMA CallKeepsTask ==
  ASSUME Typed, pc = "idle", UNCHANGED task, fault' = fault, irq' \in Irqs, irq'.at # "none" => irq'.index > 0
  PROVE  TaskTyped' /\ TaskSound' /\ MixSound' /\ CommitSound'
<1>1. pc' = "idle"
  BY DEF task
<1>2. TaskTyped'
  BY DEF Typed, TaskTyped, task, locals
<1> QED BY <1>1, <1>2, TaskElsewhere DEF TaskSound

LEMMA IrqSame ==
  ASSUME Typed, UNCHANGED irq
  PROVE  irq' \in Irqs /\ (irq'.at # "none" => irq'.index > 0)
BY DEF Typed, TaskTyped

LEMMA InitKeeps ==
  ASSUME IInv, DecoderInit
  PROVE  IInv'
<1>1. /\ Typed /\ Sound /\ pc = "idle" /\ list = <<>> /\ outs = {} /\ UNCHANGED <<list, outs>>
      /\ rd' = N - Rsv /\ wr' = 0 /\ inited'
      /\ ring' = [i \in Slots |-> IF i >= N - Rsv THEN {} ELSE {STALE}]
  BY DEF IInv, Typed, Empty, DecoderInit, TaskFree, decoders, outputs
<1>2. TaskTyped' /\ TaskSound' /\ MixSound' /\ CommitSound'
  BY <1>1, CallKeepsTask, IrqSame DEF DecoderInit
<1>3. OutputsTyped' /\ ListTyped'
  BY <1>1 DEF Typed, OutputsTyped, ListTyped, Listed, DecoderInit, outputs, decoders
<1>4. RingTyped'
  BY <1>1, Sizes DEF Typed, RingTyped, DecoderInit, decoders, Content
<1>5. Ahead(rd', wr') = Rsv /\ \A i \in Slots : Ahead(rd', i) < Rsv => i >= N - Rsv
  BY <1>1, Sizes DEF Ahead, Slots
<1>6. Range(list') = {}
  BY <1>1 DEF Range
<1>7. Ordered' /\ Behind'
  BY <1>1, <1>5, <1>6, Sizes DEF Ordered, Behind, From
<1>8. Mixture'
  BY <1>1, <1>5, <1>6 DEF Mixture, Fresh, From
<1> QED BY <1>1, <1>2, <1>3, <1>4, <1>7, <1>8 DEF IInv, Typed, Sound

LEMMA AddKeeps ==
  ASSUME IInv, NEW d \in Decoders, DecoderAdd(d)
  PROVE  IInv'
<1>1. /\ Typed /\ Sound /\ pc = "idle" /\ inited /\ UNCHANGED <<inited, wr, rd, ring, list, outs, ord, missed, req>>
      /\ d \notin Range(list)
  BY DEF IInv, Typed, ListTyped, Listed, DecoderAdd, TaskFree, stream, outputs
<1>2. TaskTyped' /\ TaskSound' /\ MixSound' /\ CommitSound'
  BY <1>1, CallKeepsTask, IrqSame DEF DecoderAdd
<1>3. RingTyped' /\ OutputsTyped'
  BY <1>1, SlotsAre DEF Typed, RingTyped, OutputsTyped, DecoderAdd
<1>4. ListTyped'
  BY <1>1, SlotsAre DEF Typed, ListTyped, Listed, DecoderAdd
<1>5. \A x \in Range(list) : dwr'[x] = dwr[x]
  <2>1. \A x \in Range(list) : x \in Decoders /\ x # d
    BY <1>1, RangeIs DEF Typed, ListTyped
  <2> QED BY <2>1 DEF DecoderAdd, Typed, RingTyped
<1>6. Ordered' /\ Behind' /\ Mixture'
  BY <1>1, <1>5 DEF Sound, Ordered, Behind, Mixture, Fresh, Has, From
<1> QED BY <1>1, <1>2, <1>3, <1>4, <1>6 DEF IInv, Typed, Sound

\* A decoder starts at the fastest one, or Rsv ahead of the reader; what is
\* played before is silence of it.
LEMMA StartKeeps ==
  ASSUME IInv, NEW d \in Decoders, DecoderStart(d)
  PROVE  IInv'
<1>1. /\ Typed /\ Sound /\ pc = "idle" /\ UNCHANGED <<inited, rd, pending, outs, ord, missed, req>>
      /\ inited /\ d \notin Range(list)
      /\ RingTyped /\ ListTyped /\ Ordered /\ Behind /\ Mixture
  BY DEF IInv, Typed, Sound, Empty, ListTyped, Listed, DecoderStart, TaskFree, outputs
<1>2. TaskTyped' /\ TaskSound' /\ MixSound' /\ CommitSound'
  BY <1>1, CallKeepsTask, IrqSame DEF DecoderStart
<1>3. /\ N \in Nat /\ Rsv \in Nat /\ 0 < Rsv /\ Rsv <= N - 3 /\ rd \in Slots /\ wr \in Slots
      /\ dwr \in [Decoders -> Slots] /\ STALE # d
  BY <1>1, Sizes DEF RingTyped
<1>4. /\ Fastest \in Slots /\ From(Fastest) \in 0 .. N - 1 /\ From(Fastest) <= N - 2
      /\ From(wr) <= From(Fastest)
      /\ \A x \in Range(list) : From(dwr[x]) <= From(Fastest)
      /\ Fresh(From(Fastest))
  BY <1>1, FastestIs, FromIs
<1>5. /\ StartsAt \in Slots /\ From(StartsAt) <= N - 2 /\ From(StartsAt) \in 0 .. N - 1
      /\ From(Fastest) <= From(StartsAt)
  <2>1. Plus(rd, Rsv) \in Slots /\ From(Plus(rd, Rsv)) = Rsv
    <3>1. Rsv \in 0 .. N - 1
      BY <1>3
    <3> QED BY <1>3, <3>1, PlusIsSlot DEF From
  <2>2. CASE From(Fastest) < Rsv
    <3>1. StartsAt = Plus(rd, Rsv)
      BY <2>2 DEF StartsAt, From
    <3> QED BY <1>3, <1>4, <2>1, <2>2, <3>1
  <2>3. CASE ~(From(Fastest) < Rsv)
    <3>1. StartsAt = Fastest
      BY <2>3 DEF StartsAt, From
    <3> QED BY <1>3, <1>4, <3>1
  <2> QED BY <2>2, <2>3
<1> DEFINE s == StartsAt
           f == Fastest
<1>6. /\ dwr' = [dwr EXCEPT ![d] = s] /\ list' = Append(list, d) /\ wr' = Slowest(list', dwr', wr)
      /\ at' = [at EXCEPT ![d] = "decoder_list"] /\ state' = [state EXCEPT ![d] = "decoding"]
      /\ ring' = [i \in Slots |-> (IF Ahead(f, i) < Ahead(f, s) THEN {} ELSE ring[i])
                                    \cup (IF From(i) < From(s) THEN {d} ELSE {})]
  BY DEF DecoderStart, Zeroed, Span, From
<1> HIDE DEF s, f
<1>7. /\ list' \in Seq(Decoders) /\ Distinct(list') /\ Range(list') = Range(list) \cup {d}
      /\ dwr' \in [Decoders -> Slots] /\ dwr'[d] = s
      /\ \A x \in Range(list) : x \in Decoders /\ dwr'[x] = dwr[x]
  <2>1. s \in Slots
    BY <1>5 DEF s
  <2>2. \A x \in Range(list) : x \in Decoders /\ x # d
    BY <1>1, RangeIs DEF ListTyped
  <2> QED BY <1>1, <1>3, <1>6, <2>1, <2>2, AppendIs DEF ListTyped
<1>8. \A x \in Range(list') : From(wr) <= From(dwr'[x]) /\ From(dwr'[x]) <= N - 2
  <2>1. From(wr) <= From(s) /\ From(s) <= N - 2
    <3>1. From(wr) \in 0 .. N - 1
      BY <1>1, FromIs
    <3> QED BY <1>4, <1>5, <3>1 DEF s
  <2> QED BY <1>1, <1>7, <2>1 DEF Ordered
<1>9. /\ wr' \in Slots /\ From(wr) <= From(wr') /\ From(wr') <= N - 2
      /\ \A x \in Range(list') : From(wr') <= From(dwr'[x])
  <2>1. From(wr) <= N - 2
    BY <1>1 DEF Ordered
  <2> QED BY <1>3, <1>6, <1>7, <1>8, <2>1, SlowestIs DEF From
<1>10. ASSUME NEW i \in Slots
       PROVE  /\ From(i) < From(s) => d \in ring'[i] /\ STALE \notin ring'[i]
              /\ \A x \in Range(list) : From(i) < From(dwr[x]) => x \in ring'[i] /\ STALE \notin ring'[i]
  <2>1. From(i) \in 0 .. N - 1 /\ From(s) \in 0 .. N - 1 /\ From(f) \in 0 .. N - 1
        /\ From(f) <= From(s) /\ f \in Slots /\ s \in Slots
    BY <1>1, <1>4, <1>5, FromIs DEF s, f
  <2>2. /\ Ahead(f, s) = From(s) - From(f)
        /\ Ahead(f, i) = IF From(i) >= From(f) THEN From(i) - From(f) ELSE From(i) + N - From(f)
    <3>1. /\ Ahead(f, s) = IF From(s) >= From(f) THEN From(s) - From(f) ELSE From(s) + N - From(f)
          /\ Ahead(f, i) = IF From(i) >= From(f) THEN From(i) - From(f) ELSE From(i) + N - From(f)
      BY <1>3, <2>1, AheadFrom DEF From
    <3> QED BY <2>1, <3>1
  <2>3. From(i) < From(f) => ~(Ahead(f, i) < Ahead(f, s)) /\ STALE \notin ring[i]
    <3>1. From(i) < From(f) => STALE \notin ring[i]
      BY <1>4 DEF Fresh, f
    <3> QED BY <1>3, <2>1, <2>2, <3>1
  <2>4. From(i) >= From(f) /\ From(i) < From(s) => Ahead(f, i) < Ahead(f, s)
    BY <1>3, <2>1, <2>2
  <2>5. From(i) < From(s) => d \in ring'[i] /\ STALE \notin ring'[i]
    BY <1>3, <1>6, <2>1, <2>3, <2>4
  <2>6. ASSUME NEW x \in Range(list), From(i) < From(dwr[x])
        PROVE  x \in ring'[i] /\ STALE \notin ring'[i]
    <3>1. From(dwr[x]) \in 0 .. N - 1 /\ From(dwr[x]) <= From(f)
      BY <1>1, <1>4, <1>7, FromIs DEF f
    <3>2. From(i) < From(f) /\ From(i) < From(s)
      BY <2>1, <2>6, <3>1
    <3>3. x \in ring[i]
      BY <1>1, <2>6 DEF Mixture, Has
    <3> QED BY <1>6, <2>3, <2>5, <3>2, <3>3
  <2> QED BY <2>5, <2>6
<1>11. Ordered'
  BY <1>1, <1>8, <1>9 DEF Ordered, From
<1>12. Behind'
  <2>1. ASSUME NEW o \in outs PROVE From(ord[o]) <= From(wr')
    <3>1. ord[o] \in Slots
      BY <1>1 DEF Typed, OutputsTyped
    <3>2. From(ord[o]) \in 0 .. N - 1 /\ From(wr) \in 0 .. N - 1 /\ From(wr') \in 0 .. N - 1
      BY <1>1, <1>9, <3>1, FromIs
    <3> QED BY <1>1, <1>9, <3>2 DEF Behind
  <2> QED BY <1>1, <2>1 DEF Behind, From
<1>13. Mixture'
  <2>1. ASSUME NEW i \in Slots, From(i) < From(wr') PROVE STALE \notin ring'[i]
    <3>1. From(wr') <= From(s)
      BY <1>7, <1>9
    <3>2. From(i) \in 0 .. N - 1 /\ From(wr') \in 0 .. N - 1 /\ From(s) \in 0 .. N - 1
      BY <1>1, <1>5, <1>9, FromIs DEF s
    <3> QED BY <1>10, <2>1, <3>1, <3>2
  <2>2. ASSUME NEW x \in Range(list'), NEW i \in Slots, From(i) < From(dwr'[x])
        PROVE  x \in ring'[i] /\ STALE \notin ring'[i]
    BY <1>7, <1>10, <2>2
  <2> QED BY <1>1, <2>1, <2>2 DEF Mixture, Fresh, Has, From
<1>14. RingTyped'
  <2>1. \A i \in Slots : ring'[i] \in Content
    BY <1>1, <1>6 DEF RingTyped, Content
  <2>2. ring' \in [Slots -> Content]
    BY <1>6, <2>1
  <2> QED BY <1>1, <1>3, <1>7, <1>9, <2>2 DEF RingTyped
<1>15. ListTyped'
  BY <1>1, <1>6, <1>7 DEF ListTyped, Listed
<1>16. OutputsTyped'
  BY <1>1 DEF Typed, OutputsTyped
<1> QED BY <1>1, <1>2, <1>11, <1>12, <1>13, <1>14, <1>15, <1>16 DEF IInv, Typed, Sound

LEMMA StopKeeps ==
  ASSUME IInv, NEW d \in Decoders, DecoderStop(d)
  PROVE  IInv'
<1>1. /\ Typed /\ Sound /\ pc = "idle" /\ UNCHANGED <<inited, rd, ring, dwr, pending, outs, ord, missed, req>>
      /\ RingTyped /\ ListTyped /\ OutputsTyped /\ Ordered /\ Behind /\ Mixture /\ Listed(d)
  BY DEF IInv, Typed, Sound, DecoderStop, TaskFree, outputs
<1>2. TaskTyped' /\ TaskSound' /\ MixSound' /\ CommitSound'
  BY <1>1, CallKeepsTask, IrqSame DEF DecoderStop
<1>3. /\ RingTyped' /\ Ordered' /\ Behind' /\ Mixture'
      /\ list' \in Seq(Decoders) /\ Distinct(list') /\ Range(list') = Range(list) \ {d}
  BY <1>1, LeaveList DEF DecoderStop, Stop, ListTyped
<1>4. ListTyped' /\ OutputsTyped'
  BY <1>1, <1>3 DEF ListTyped, OutputsTyped, Listed, DecoderStop, Stop
<1>5. inited'
  <2>1. inited
    BY <1>1 DEF Typed, Empty, ListTyped
  <2> QED BY <1>1, <2>1
<1> QED BY <1>1, <1>2, <1>3, <1>4, <1>5 DEF IInv, Typed, Sound

LEMMA RemoveKeeps ==
  ASSUME IInv, NEW d \in Decoders, DecoderRemove(d)
  PROVE  IInv'
<1>1. /\ Typed /\ Sound /\ pc = "idle" /\ UNCHANGED <<inited, rd, ring, dwr, outs, ord, missed>>
      /\ RingTyped /\ ListTyped /\ OutputsTyped /\ Ordered /\ Behind /\ Mixture /\ at[d] # "none"
  BY DEF IInv, Typed, Sound, DecoderRemove, TaskFree, outputs
<1>2. TaskTyped' /\ TaskSound' /\ MixSound' /\ CommitSound'
  BY <1>1, CallKeepsTask, IrqSame DEF DecoderRemove
<1>3. /\ RingTyped' /\ Ordered' /\ Behind' /\ Mixture'
      /\ list' \in Seq(Decoders) /\ Distinct(list') /\ Range(list') = Range(list) \ {d}
  BY <1>1, LeaveList DEF DecoderRemove, ListTyped
<1>4. ListTyped' /\ OutputsTyped'
  BY <1>1, <1>3, SlotsAre DEF ListTyped, OutputsTyped, Listed, DecoderRemove
<1>5. inited'
  <2>1. inited
    BY <1>1 DEF Typed, Empty
  <2> QED BY <1>1, <2>1
<1> QED BY <1>1, <1>2, <1>3, <1>4, <1>5 DEF IInv, Typed, Sound

LEMMA OutputAddKeeps ==
  ASSUME IInv, NEW o \in Outputs, OutputAdd(o)
  PROVE  IInv'
<1>1. /\ Typed /\ Sound /\ pc = "idle"
      /\ UNCHANGED <<inited, wr, rd, ring, list, at, state, dwr, pending, req>>
      /\ inited /\ RingTyped /\ ListTyped /\ OutputsTyped /\ Ordered /\ Behind /\ Mixture
  BY DEF IInv, Typed, Sound, OutputAdd, TaskFree, stream, decoders
<1>2. TaskTyped' /\ TaskSound' /\ MixSound' /\ CommitSound'
  BY <1>1, CallKeepsTask, IrqSame DEF OutputAdd
<1>3. RingTyped' /\ ListTyped'
  BY <1>1 DEF RingTyped, ListTyped, Listed
<1>4. OutputsTyped'
  BY <1>1, SlotsAre DEF RingTyped, OutputsTyped, OutputAdd
<1>5. Ordered' /\ Mixture'
  BY <1>1 DEF Ordered, Mixture, Fresh, Has, From
<1>6. Behind'
  <2>1. ord'[o] = rd /\ \A x \in outs : x # o => ord'[x] = ord[x]
    BY <1>1 DEF OutputAdd, OutputsTyped
  <2>2. From(rd) <= From(wr)
    BY <1>1, FromIs
  <2> QED BY <1>1, <2>1, <2>2 DEF Behind, OutputAdd, From
<1> QED BY <1>1, <1>2, <1>3, <1>4, <1>5, <1>6 DEF IInv, Typed, Sound

LEMMA OutputRemoveKeeps ==
  ASSUME IInv, NEW o \in Outputs, OutputRemove(o)
  PROVE  IInv'
<1> DEFINE os == outs \ {o}
<1>1. /\ Typed /\ Sound /\ pc = "idle"
      /\ UNCHANGED <<inited, wr, list, at, state, dwr, pending, ord, missed, req, pc, cur, fast, dist, dealt, min>>
      /\ outs' = os /\ os # {} /\ os \in SUBSET Outputs
      /\ rd' = SlowestOutput(os, ord)
      /\ ring' = [i \in Slots |-> IF i \in Span(rd, Ahead(rd, rd')) THEN {STALE} ELSE ring[i]]
      /\ RingTyped /\ ListTyped /\ OutputsTyped /\ TaskTyped /\ Ordered /\ Behind /\ Mixture
      /\ MixSound /\ CommitSound
  BY DEF IInv, Typed, Sound, OutputsTyped, OutputRemove, TaskFree, decoders, task, locals
<1>2. TaskTyped' /\ TaskSound' /\ MixSound' /\ CommitSound'
  <2>1. irq' \in Irqs /\ (irq'.at # "none" => irq'.index > 0)
    <3>1. Irq("check", NULL, 1) \in Irqs /\ Irq("check", NULL, 1).index = 1 /\ NoIrq.at = "none"
      BY DEF Irq, Irqs, NoIrq
    <3> QED BY <3>1, SlotsAre DEF OutputRemove
  <2> QED BY <1>1, <2>1, CallKeepsTask DEF OutputRemove
<1>3. PICK k \in 0 .. From(wr) :
        /\ rd' = Plus(rd, k)
        /\ \A x \in os : k <= From(ord[x])
        /\ \E x \in os : k = From(ord[x])
  <2>1. \A x \in os : From(ord[x]) <= From(wr)
    BY <1>1 DEF Behind
  <2> QED BY <1>1, <2>1, SlowestOutputIs DEF OutputsTyped
<1>4. /\ RingTyped' /\ Ordered' /\ Mixture'
      /\ \A x \in Slots : From(x) >= k => Ahead(rd', x) = From(x) - k
  BY <1>1, <1>3, ReadMoves DEF ListTyped
<1>5. Behind'
  <2>0. k \in Nat /\ From(wr) \in 0 .. N - 1 /\ wr \in Slots /\ rd' \in Slots
    BY <1>1, <1>3, <1>4, FromIs DEF RingTyped
  <2>1. ASSUME NEW x \in os
        PROVE  /\ ord[x] \in Slots /\ From(ord[x]) \in 0 .. N - 1 /\ From(ord[x]) >= k
               /\ From(ord[x]) <= From(wr) /\ Ahead(rd', ord[x]) = From(ord[x]) - k
    <3>1. ord[x] \in Slots
      BY <1>1 DEF OutputsTyped
    <3>2. From(ord[x]) \in 0 .. N - 1
      BY <1>1, <3>1, FromIs
    <3>3. From(ord[x]) >= k
      BY <1>3, <3>2
    <3> QED BY <1>1, <1>4, <3>1, <3>2, <3>3 DEF Behind
  <2>2. Ahead(rd', wr) = From(wr) - k
    BY <1>3, <1>4, <2>0
  <2>3. \A x \in os : Ahead(rd', ord[x]) <= Ahead(rd', wr)
    BY <2>0, <2>1, <2>2
  <2>4. PICK x \in os : k = From(ord[x])
    BY <1>3
  <2>5. Ahead(rd', ord[x]) = 0
    BY <2>0, <2>1, <2>4
  <2>6. ord[x] = rd'
    BY <2>0, <2>1, <2>5, AheadIs
  <2> QED BY <1>1, <2>3, <2>6 DEF Behind, From
<1>6. ListTyped' /\ OutputsTyped'
  BY <1>1 DEF ListTyped, OutputsTyped, Listed
<1>7. inited'
  BY <1>1 DEF Typed, Empty
<1> QED BY <1>1, <1>2, <1>4, <1>5, <1>6, <1>7 DEF IInv, Typed, Sound

LEMMA DestroyKeeps ==
  ASSUME IInv, DecoderDestroy
  PROVE  IInv'
<1>1. Typed /\ pc = "idle" /\ pc' = "idle"
  BY DEF IInv, DecoderDestroy, TaskFree, task
<1>2. TaskTyped' /\ TaskSound' /\ MixSound' /\ CommitSound'
  BY <1>1, CallKeepsTask, IrqSame DEF DecoderDestroy
<1>3. Range(list') = {} /\ list' \in Seq(Decoders) /\ Distinct(list')
  BY DEF DecoderDestroy, Range, Distinct
<1>4. Ahead(rd', wr') = 0 /\ \A x \in Slots : Ahead(rd', x) \in 0 .. N - 1
  BY AheadIs, SlotsAre DEF DecoderDestroy
<1>5. RingTyped'
  BY SlotsAre DEF DecoderDestroy, RingTyped, Content
<1>6. ListTyped'
  BY <1>3, SlotsAre DEF DecoderDestroy, ListTyped, Listed
<1>7. OutputsTyped'
  BY SlotsAre DEF DecoderDestroy, OutputsTyped
<1>8. Typed'
  BY <1>1, <1>2, <1>5, <1>6, <1>7 DEF DecoderDestroy, Typed, Empty
<1>9. Ordered' /\ Behind' /\ Mixture'
  <2>1. Fresh(From(wr))'
    BY <1>4 DEF Fresh, From
  <2> QED BY <1>3, <1>4, <2>1, Sizes DEF DecoderDestroy, Ordered, Behind, Mixture, From
<1> QED BY <1>2, <1>8, <1>9 DEF IInv, Sound

-----------------------------------------------------------------------------
(* The task decodes and mixes. *)

LEMMA Working ==
  ASSUME Quiet, IInv, pc # "idle"
  PROVE  /\ inited /\ cur \in Decoders
         /\ (Listed(cur) \/ (Decoders = {Host} /\ \A f \in Frames : f <= N))
         /\ RingTyped /\ ListTyped /\ OutputsTyped /\ TaskTyped /\ TaskSound
         /\ Ordered /\ Behind /\ Mixture /\ MixSound /\ CommitSound
BY DEF IInv, Typed, Sound, Empty, TaskSound, Quiet

LEMMA FramesAre == Frames \subseteq 1 .. MaxPending /\ MaxPending \in Nat
BY DecoderAssumption

\* A step that only changes what the task and the requests are about.
LEMMA TaskStep ==
  ASSUME IInv, inited, UNCHANGED <<stream, list, at, state, dwr, outputs>>,
         pending' \in [Decoders -> 0 .. MaxPending], req' \subseteq Decoders,
         TaskTyped', TaskSound', MixSound', CommitSound'
  PROVE  IInv'
<1>1. Ordered' /\ Behind' /\ Mixture'
  BY RingSame DEF IInv, Sound, stream, outputs
<1>2. RingTyped' /\ ListTyped' /\ OutputsTyped' /\ inited'
  BY DEF IInv, Typed, RingTyped, ListTyped, OutputsTyped, Listed, stream, outputs
<1> QED BY <1>1, <1>2 DEF IInv, Typed, Sound

LEMMA DecodeKeeps ==
  ASSUME IInv, NEW d \in Decoders, Decode(d)
  PROVE  IInv'
<1>1. /\ inited /\ RingTyped /\ ListTyped /\ TaskTyped
      /\ UNCHANGED <<stream, list, at, state, dwr, outputs, pending, fast, dist, blk, dealt, min, irq, fault>>
  BY DEF IInv, Typed, Empty, Decode, decoders
<1>2. req' \subseteq Decoders
  BY <1>1 DEF ListTyped, Decode
<1>3. CASE state[d] # "decoding"
  <2>1. UNCHANGED <<pc, cur, resume>> /\ pc = "idle"
    BY <1>3 DEF Decode, TaskAt
  <2>2. TaskTyped' /\ TaskSound'
    BY <1>1, <2>1 DEF TaskTyped, TaskSound
  <2>3. MixSound' /\ CommitSound'
    BY <2>1, TaskElsewhere
  <2> QED BY <1>1, <1>2, <2>2, <2>3, TaskStep DEF ListTyped
<1>4. CASE state[d] = "decoding"
  <2>1. cur' = d /\ resume' = "status" /\ pc' \in {"mix", "input"} /\ Listed(d)
    BY <1>1, <1>4 DEF Decode, Goto, ListTyped
  <2>2. TaskTyped' /\ TaskSound'
    BY <1>1, <2>1 DEF TaskTyped, TaskSound, Steps, Listed
  <2>3. MixSound' /\ CommitSound'
    BY <2>1, TaskElsewhere
  <2> QED BY <1>1, <1>2, <2>2, <2>3, TaskStep DEF ListTyped
<1> QED BY <1>3, <1>4

LEMMA StatusKeeps ==
  ASSUME Quiet, IInv, Status \/ InputUsedUp
  PROVE  IInv'
<1>1. /\ pc # "idle" /\ pc' \in {"idle", "input"}
      /\ UNCHANGED <<stream, list, at, state, dwr, outputs, pending, req, fast, dist, blk, dealt, min, irq, fault>>
      /\ pc' # "idle" => UNCHANGED <<cur, resume>>
      /\ pc' = "idle" => cur' = NULL /\ resume' = "idle"
  BY DEF Status, InputUsedUp, TaskAt, Goto, Done, decoders
<1>2. /\ inited /\ ListTyped /\ TaskTyped /\ TaskSound
  BY <1>1, Working
<1>3. TaskTyped' /\ TaskSound'
  BY <1>1, <1>2 DEF TaskTyped, TaskSound, Steps, Listed
<1>4. MixSound' /\ CommitSound'
  BY <1>1, TaskElsewhere
<1> QED BY <1>1, <1>2, <1>3, <1>4, TaskStep DEF ListTyped

LEMMA DecodeFrameKeeps ==
  ASSUME Quiet, IInv, DecodeFrame
  PROVE  IInv'
<1>1. /\ pc # "idle" /\ pc' = "mix" /\ resume' = "input"
      /\ UNCHANGED <<stream, list, at, state, dwr, outputs, req, cur, fast, dist, blk, dealt, min, irq, fault>>
  BY DEF DecodeFrame, Save, TaskAt, Goto
<1>2. /\ inited /\ ListTyped /\ TaskTyped /\ TaskSound /\ cur \in Decoders
  BY <1>1, Working
<1>3. PICK f \in Frames : pending[cur] + f <= MaxPending /\ pending' = [pending EXCEPT ![cur] = @ + f]
  BY DEF DecodeFrame, Save
<1>4. pending' \in [Decoders -> 0 .. MaxPending]
  <2>1. f \in Nat /\ pending[cur] \in Nat
    BY <1>2, FramesAre DEF ListTyped
  <2>2. pending[cur] + f \in 0 .. MaxPending
    BY <1>3, <2>1, FramesAre
  <2> QED BY <1>2, <1>3, <2>2 DEF ListTyped
<1>5. TaskTyped' /\ TaskSound'
  BY <1>1, <1>2 DEF TaskTyped, TaskSound, Steps, Listed
<1>6. MixSound' /\ CommitSound'
  BY <1>1, TaskElsewhere
<1> QED BY <1>1, <1>2, <1>4, <1>5, <1>6, TaskStep DEF ListTyped

\* Return goes back to where the mix was called.
LEMMA ReturnGoes ==
  ASSUME TaskTyped, TaskSound, pc # "idle", Return, UNCHANGED <<list, irq, fault>>,
         fast' \in Slots, dist' \in Slots, min' \in Slots,
         UNCHANGED <<blk, dealt>>
  PROVE  TaskTyped' /\ TaskSound' /\ MixSound' /\ CommitSound'
<1>1. /\ pc' \in {"idle", "status", "input"} /\ cur' \in {cur, NULL} /\ resume' \in {"idle", "status", "input"}
      /\ pc' # "idle" => cur' = cur
  BY DEF Return, Done, Goto, TaskTyped
<1>2. TaskTyped' /\ TaskSound'
  BY <1>1 DEF TaskTyped, TaskSound, Steps, Listed
<1> QED BY <1>1, <1>2, TaskElsewhere

LEMMA MixBeginKeeps ==
  ASSUME Quiet, IInv, MixBegin
  PROVE  IInv'
<1>1. /\ pc # "idle"
      /\ UNCHANGED <<stream, list, at, state, dwr, outputs, pending, req, dist, blk, dealt, min, irq, fault>>
  BY DEF MixBegin, TaskAt, decoders
<1>2. /\ inited /\ RingTyped /\ ListTyped /\ TaskTyped /\ TaskSound /\ cur \in Decoders
  BY <1>1, Working
<1>3. CASE pending[cur] = 0
  <2>1. Return /\ UNCHANGED fast
    BY <1>3 DEF MixBegin
  <2>2. TaskTyped' /\ TaskSound' /\ MixSound' /\ CommitSound'
    BY <1>1, <1>2, <2>1, ReturnGoes DEF TaskTyped
  <2> QED BY <1>1, <1>2, <2>2, TaskStep DEF ListTyped
<1>4. CASE pending[cur] # 0
  <2>1. fast' = wr /\ pc' = "mix_search" /\ UNCHANGED <<cur, resume>>
    BY <1>4 DEF MixBegin, Goto
  <2>2. TaskTyped' /\ TaskSound'
    BY <1>1, <1>2, <2>1 DEF TaskTyped, TaskSound, Steps, Listed, RingTyped
  <2>3. MixSound' /\ CommitSound'
    BY <1>1, <2>1 DEF MixSound, CommitSound, stream
  <2> QED BY <1>1, <1>2, <2>2, <2>3, TaskStep DEF ListTyped
<1> QED BY <1>3, <1>4

LEMMA MixSearchKeeps ==
  ASSUME Quiet, IInv, MixSearch
  PROVE  IInv'
<1>1. /\ pc = "mix_search" /\ pc' = "mix_pick" /\ dist' = MaxDistance
      /\ UNCHANGED <<stream, list, at, state, dwr, outputs, pending, req, cur, resume, blk, dealt, min, irq, fault>>
  BY DEF MixSearch, TaskAt, decoders, Goto
<1>2. /\ inited /\ RingTyped /\ ListTyped /\ TaskTyped /\ TaskSound
      /\ Ordered /\ Mixture /\ MixSound /\ cur \in Decoders
  BY <1>1, Working
<1>3. /\ MaxDistance \in 0 .. N - 1 /\ MaxDistance \in Slots /\ Fastest \in Slots
      /\ From(Fastest) = From(wr) + MaxDistance /\ From(Fastest) <= N - 2
      /\ \A d \in Range(list) : From(dwr[d]) <= From(Fastest)
      /\ Fresh(From(Fastest))
  BY <1>2, FastestIs
<1>4. fast' = Fastest
  <2>1. fast = wr /\ wr \in 0 .. N - 1
    BY <1>1, <1>2 DEF MixSound, RingTyped, Slots
  <2>2. MaxDistance = 0 => Fastest = wr
    BY <2>1, Sizes DEF Fastest, Plus
  <2> QED BY <2>1, <2>2 DEF MixSearch
<1>5. TaskTyped' /\ TaskSound'
  BY <1>1, <1>2, <1>3, <1>4 DEF TaskTyped, TaskSound, Steps, Listed
<1>6. CommitSound'
  BY <1>1 DEF CommitSound
<1>7. MixSound'
  <2> SUFFICES ASSUME Listed(cur) PROVE MixSound'
    BY <1>1 DEF MixSound, Listed
  <2>1. From(dwr[cur]) <= From(wr) + MaxDistance
    BY <1>3 DEF Listed
  <2>2. From(wr) + MaxDistance = IF From(dwr[cur]) > From(wr) + MaxDistance
                                 THEN From(dwr[cur]) ELSE From(wr) + MaxDistance
    BY <1>2, <1>3, <2>1, FromIs
  <2> QED BY <1>1, <1>3, <1>4, <2>2 DEF MixSound, Furthest, Fresh, From, stream
<1> QED BY <1>1, <1>2, <1>5, <1>6, <1>7, TaskStep DEF ListTyped

LEMMA PickIs ==
  ASSUME NEW left \in 0 .. MaxPending, Pick(left)
  PROVE  /\ blk' \in 0 .. MaxPending
         /\ pc' = "mix_end" \/ (pc' = "mix_save" /\ blk' \in Blocks(left))
<1>1. CASE left = 0
  BY <1>1, SlotsAre DEF Pick, Goto
<1>2. CASE left # 0
  <2>1. pc' = "mix_save" /\ blk' \in Blocks(left)
    BY <1>2 DEF Pick, Goto
  <2>2. blk' \in 0 .. MaxPending
    BY <2>1, FramesAre DEF Blocks
  <2> QED BY <2>1, <2>2
<1> QED BY <1>1, <1>2

LEMMA MixPickKeeps ==
  ASSUME Quiet, IInv, MixPick
  PROVE  IInv'
<1>1. /\ pc = "mix_pick" /\ Pick(pending[cur])
      /\ UNCHANGED <<stream, list, at, state, dwr, outputs, pending, req, cur, resume, fast, dist, dealt, min, irq, fault>>
  BY DEF MixPick, TaskAt, decoders
<1>2. /\ inited /\ RingTyped /\ ListTyped /\ TaskTyped /\ TaskSound /\ MixSound /\ cur \in Decoders
  BY <1>1, Working
<1>3. /\ blk' \in 0 .. MaxPending
      /\ pc' = "mix_end" \/ (pc' = "mix_save" /\ blk' \in Blocks(pending[cur]))
  BY <1>1, <1>2, PickIs DEF ListTyped
<1>4. TaskTyped' /\ TaskSound'
  BY <1>1, <1>2, <1>3 DEF TaskTyped, TaskSound, Steps, Listed
<1>5. CommitSound'
  BY <1>3 DEF CommitSound
<1>6. MixSound'
  BY <1>1, <1>2, <1>3 DEF MixSound, Furthest, Fresh, From, Listed, stream
<1> QED BY <1>1, <1>2, <1>4, <1>5, <1>6, TaskStep DEF ListTyped

\* The samples are in the ring, and the offset does not say so yet.
LEMMA MixSaveKeeps ==
  ASSUME Quiet, IInv, MixSave
  PROVE  IInv'
<1>1. /\ pc = "mix_save"
      /\ UNCHANGED <<inited, wr, rd, list, at, state, dwr, pending, outs, ord, missed, req,
                     cur, resume, fast, dist, blk, min, irq>>
  BY DEF MixSave, TaskAt, decoders, outputs
<1>2. /\ inited /\ RingTyped /\ ListTyped /\ OutputsTyped /\ TaskTyped /\ TaskSound /\ cur \in Decoders
      /\ Listed(cur) \/ Decoders = {Host}
      /\ Ordered /\ Behind /\ Mixture /\ MixSound /\ CommitSound
  BY <1>1, Working
<1>3. /\ blk \in Blocks(pending[cur]) /\ blk \in Nat /\ blk > 0 /\ blk <= MaxPending
  BY <1>1, <1>2, FramesAre DEF TaskSound, TaskTyped, Blocks
<1>4. /\ ring' = Mixed(cur, fast, blk) /\ dealt' = Dealt(cur, fast, blk) /\ pc' = "mix_advance"
      /\ fault' = fault
  BY <1>3 DEF MixSave, Goto
<1>5. fast \in Slots /\ dist \in Nat
  BY <1>2 DEF TaskTyped, Slots
<1>6. /\ ring' \in [Slots -> Content] /\ dealt' \in 0 .. blk
      /\ \A i \in Slots : STALE \notin ring[i] => STALE \notin ring'[i]
  BY <1>2, <1>3, <1>4, <1>5, DealtIs, MixedIs
<1>7. Listed(cur) =>
        /\ From(dwr[cur]) + dealt' <= N - 2
        /\ \A i \in Slots : From(i) < From(fast) => ring[i] \subseteq ring'[i]
        /\ \A i \in Slots :
             From(dwr[cur]) <= From(i) /\ From(i) < From(dwr[cur]) + dealt' =>
               /\ cur \in ring'[i]
               /\ From(i) >= From(fast) => ring'[i] = {cur}
  <2> SUFFICES ASSUME Listed(cur)
               PROVE  From(dwr[cur]) <= From(fast) /\ From(fast) <= N - 2
    BY <1>2, <1>3, <1>4, <1>5, MixedIs
  <2>1. From(fast) = Furthest /\ From(fast) <= N - 2
    BY <1>1, <1>2 DEF MixSound
  <2>2. From(dwr[cur]) \in Nat /\ From(wr) \in Nat
    BY <1>2, FromIs
  <2> QED BY <1>5, <2>1, <2>2 DEF Furthest
<1>8. RingTyped' /\ ListTyped' /\ OutputsTyped'
  BY <1>1, <1>2, <1>6 DEF RingTyped, ListTyped, OutputsTyped, Listed
<1>9. TaskTyped' /\ TaskSound'
  <2>1. dealt' \in 0 .. MaxPending /\ dealt' <= blk
    BY <1>3, <1>6, FramesAre
  <2> QED BY <1>1, <1>2, <1>3, <1>4, <2>1 DEF TaskTyped, TaskSound, Steps, Listed
<1>10. Ordered' /\ Behind'
  BY <1>1, <1>2 DEF Ordered, Behind, From
<1>11. ASSUME NEW d \in Range(list)
       PROVE  /\ d \in Decoders /\ Listed(cur)
              /\ From(dwr[d]) \in 0 .. N - 1 /\ From(dwr[d]) <= From(fast)
  <2>1. d \in Decoders
    BY <1>2, RangeIs DEF ListTyped
  <2>2. Listed(cur)
    BY <1>2, <2>1 DEF Listed
  <2>3. From(fast) = Furthest /\ (d # cur => From(dwr[d]) <= From(wr) + dist)
    BY <1>1, <1>2, <2>2 DEF MixSound
  <2>4. From(dwr[d]) \in 0 .. N - 1 /\ From(dwr[cur]) \in 0 .. N - 1 /\ From(wr) \in 0 .. N - 1
    BY <1>2, <2>1, FromIs
  <2>5. CASE d = cur
    BY <1>5, <2>1, <2>2, <2>3, <2>4, <2>5 DEF Furthest
  <2>6. CASE d # cur
    BY <1>5, <2>1, <2>2, <2>3, <2>4, <2>6 DEF Furthest
  <2> QED BY <2>5, <2>6
<1>12. Mixture'
  <2>1. ASSUME NEW i \in Slots, From(i) < From(wr) PROVE STALE \notin ring'[i]
    BY <1>2, <1>6, <2>1 DEF Mixture, Fresh
  <2>2. ASSUME NEW d \in Range(list), NEW i \in Slots, From(i) < From(dwr[d])
        PROVE  d \in ring'[i] /\ STALE \notin ring'[i]
    <3>1. d \in ring[i] /\ STALE \notin ring[i]
      BY <1>2, <2>2 DEF Mixture, Has
    <3>2. From(i) < From(fast)
      <4>1. From(i) \in 0 .. N - 1 /\ From(fast) \in 0 .. N - 1
        BY <1>2, <1>5, FromIs
      <4> QED BY <1>11, <2>2, <4>1
    <3> QED BY <1>6, <1>7, <1>11, <3>1, <3>2
  <2> QED BY <1>1, <2>1, <2>2 DEF Mixture, Fresh, Has, From
<1>13. CommitSound'
  BY <1>4 DEF CommitSound
<1>14. MixSound'
  <2> SUFFICES ASSUME Listed(cur) PROVE MixSound'
    BY <1>1, <1>4 DEF MixSound, Listed
  <2>0. /\ From(dwr[cur]) \in 0 .. N - 1 /\ From(fast) \in 0 .. N - 1 /\ dealt' \in Nat
    BY <1>2, <1>5, <1>6, FromIs
  <2>1. /\ From(fast) = Furthest /\ From(fast) <= N - 2 /\ Fresh(From(fast))
        /\ \A d \in Range(list) : d # cur => From(dwr[d]) <= From(wr) + dist
    BY <1>1, <1>2 DEF MixSound
  <2>2. ASSUME NEW i \in Slots, From(i) < From(fast) PROVE STALE \notin ring'[i]
    BY <1>6, <2>1, <2>2 DEF Fresh
  <2>3. ASSUME NEW i \in Slots, From(i) < From(dwr[cur]) + dealt'
        PROVE  cur \in ring'[i] /\ STALE \notin ring'[i]
    <3>0. From(i) \in 0 .. N - 1
      BY <1>2, FromIs
    <3>1. CASE From(i) < From(dwr[cur])
      BY <1>12, <3>1, <1>1 DEF Mixture, Has, From, Listed
    <3>2. CASE From(i) >= From(dwr[cur]) /\ From(i) < From(fast)
      BY <1>7, <2>2, <2>3, <3>2
    <3>3. CASE From(i) >= From(dwr[cur]) /\ From(i) >= From(fast)
      <4>1. ring'[i] = {cur}
        BY <1>7, <2>3, <3>3
      <4> QED BY <1>2, <4>1, Sizes
    <3> QED BY <2>0, <3>0, <3>1, <3>2, <3>3
  <2> QED BY <1>1, <1>4, <1>7, <2>1, <2>2, <2>3 DEF MixSound, Furthest, Fresh, Has, From
<1>15. inited'
  BY <1>1, <1>2
<1> QED BY <1>8, <1>9, <1>10, <1>12, <1>13, <1>14, <1>15 DEF IInv, Typed, Sound

\* The offset goes past what has been mixed, and maybe past the furthest decoder.
LEMMA MixAdvanceKeeps ==
  ASSUME Quiet, IInv, MixAdvance
  PROVE  IInv'
<1> DEFINE past == Plus(dwr[cur], dealt)
<1>1. /\ pc = "mix_advance"
      /\ UNCHANGED <<inited, wr, rd, ring, list, at, state, outs, ord, missed, req,
                     cur, resume, dist, min, irq>>
      /\ dealt' = 0
  BY DEF MixAdvance, TaskAt, stream, outputs
<1>2. /\ inited /\ RingTyped /\ ListTyped /\ OutputsTyped /\ TaskTyped /\ TaskSound /\ cur \in Decoders
      /\ (Listed(cur) \/ (Decoders = {Host} /\ \A f \in Frames : f <= N))
      /\ Ordered /\ Behind /\ Mixture /\ MixSound /\ CommitSound
  BY <1>1, Working
<1>3. /\ blk \in Nat /\ blk > 0 /\ blk <= pending[cur] /\ pending[cur] \in 0 .. MaxPending
      /\ dealt \in Nat /\ dealt <= blk /\ blk \in Blocks(pending[cur])
  BY <1>1, <1>2, FramesAre DEF TaskSound, TaskTyped, ListTyped, Blocks
<1>4. /\ dwr' = [dwr EXCEPT ![cur] = past] /\ pending' = [pending EXCEPT ![cur] = @ - dealt]
      /\ fault' = fault
      /\ \/ dealt < blk /\ pc' = "mix_end" /\ blk' = 0 /\ UNCHANGED fast
         \/ Pick(pending[cur] - dealt) /\ fast' = IF Ahead(wr, past) > dist THEN past ELSE fast
  BY <1>3 DEF MixAdvance, Goto
<1> HIDE DEF past
<1>5. /\ wr \in Slots /\ rd \in Slots /\ fast \in Slots /\ dist \in Nat /\ dwr[cur] \in Slots /\ N \in Nat
      /\ From(dwr[cur]) \in 0 .. N - 1 /\ From(wr) \in 0 .. N - 1 /\ From(fast) \in 0 .. N - 1
  BY <1>2, FromIs, Sizes DEF RingTyped, TaskTyped, Slots
<1>6. Listed(cur) =>
        /\ past \in Slots /\ From(past) = From(dwr[cur]) + dealt /\ From(past) <= N - 2
        /\ Has(cur, From(past)) /\ Ahead(wr, past) = From(past) - From(wr) /\ From(past) >= From(wr)
  <2> SUFFICES ASSUME Listed(cur)
               PROVE  /\ past \in Slots /\ From(past) = From(dwr[cur]) + dealt /\ From(past) <= N - 2
                      /\ Has(cur, From(past)) /\ Ahead(wr, past) = From(past) - From(wr)
                      /\ From(past) >= From(wr)
    OBVIOUS
  <2>1. From(dwr[cur]) + dealt <= N - 2 /\ Has(cur, From(dwr[cur]) + dealt)
    BY <1>1, <1>2 DEF MixSound
  <2>2. From(dwr[cur]) + dealt < N
    BY <1>3, <1>5, <2>1
  <2>3. past \in Slots /\ From(past) = From(dwr[cur]) + dealt
    BY <1>3, <1>5, <2>2, AheadOfPlus DEF From, past
  <2>4. From(dwr[cur]) >= From(wr)
    BY <1>2 DEF Ordered, Listed
  <2>5. From(past) >= From(wr)
    BY <1>3, <1>5, <2>3, <2>4
  <2>6. Ahead(wr, past) = From(past) - From(wr)
    BY <1>5, <2>3, <2>5, AheadFrom DEF From
  <2> QED BY <2>1, <2>3, <2>5, <2>6
<1>7. past \in Slots
  <2>1. CASE Listed(cur)
    BY <1>6, <2>1
  <2>2. CASE \A f \in Frames : f <= N
    <3>1. dealt <= N
      BY <1>3, <1>5, <2>2, FramesAre DEF Blocks
    <3> QED BY <1>3, <1>5, <3>1 DEF Plus, Slots, past
  <2> QED BY <1>2, <2>1, <2>2
<1>8. pending[cur] - dealt \in 0 .. MaxPending
  BY <1>3, FramesAre
<1>9. /\ pc' = "mix_end" \/ (pc' = "mix_save" /\ blk' \in Blocks(pending'[cur]))
      /\ blk' \in 0 .. MaxPending /\ fast' \in Slots
  <2>1. pending'[cur] = pending[cur] - dealt
    BY <1>2, <1>4 DEF ListTyped
  <2>2. CASE dealt < blk /\ pc' = "mix_end" /\ blk' = 0 /\ UNCHANGED fast
    BY <1>5, <2>2, SlotsAre
  <2>3. CASE Pick(pending[cur] - dealt) /\ fast' = IF Ahead(wr, past) > dist THEN past ELSE fast
    <3>1. /\ blk' \in 0 .. MaxPending
          /\ pc' = "mix_end" \/ (pc' = "mix_save" /\ blk' \in Blocks(pending[cur] - dealt))
      BY <1>8, <2>3, PickIs
    <3>2. fast' \in Slots
      BY <1>5, <1>7, <2>3
    <3> QED BY <2>1, <3>1, <3>2
  <2> QED BY <1>4, <2>2, <2>3
<1>10. RingTyped' /\ ListTyped' /\ OutputsTyped'
  BY <1>1, <1>2, <1>4, <1>7, <1>8 DEF RingTyped, ListTyped, OutputsTyped, Listed
<1>11. TaskTyped' /\ TaskSound'
  BY <1>1, <1>2, <1>4, <1>9, SlotsAre DEF TaskTyped, TaskSound, Steps, Listed
<1>12. /\ \A d \in Range(list) : d \in Decoders /\ dwr'[d] = IF d = cur THEN past ELSE dwr[d]
       /\ Range(list') = Range(list)
  <2>1. \A d \in Range(list) : d \in Decoders
    BY <1>2, RangeIs DEF ListTyped
  <2> QED BY <1>1, <1>2, <1>4, <2>1 DEF RingTyped
<1>13. Ordered'
  <2>1. ASSUME NEW d \in Range(list) PROVE From(wr) <= From(dwr'[d]) /\ From(dwr'[d]) <= N - 2
    <3>1. CASE d = cur
      BY <1>5, <1>6, <1>12, <2>1, <3>1 DEF Listed
    <3>2. CASE d # cur
      BY <1>2, <1>12, <2>1, <3>2 DEF Ordered
    <3> QED BY <3>1, <3>2
  <2>2. From(wr) <= N - 2
    BY <1>2 DEF Ordered
  <2> QED BY <1>1, <1>12, <2>1, <2>2 DEF Ordered, From
<1>14. Behind'
  BY <1>1, <1>2 DEF Behind, From
<1>15. Mixture'
  <2>1. ASSUME NEW d \in Range(list) PROVE Has(d, From(dwr'[d]))
    <3>1. CASE d = cur
      BY <1>6, <1>12, <2>1, <3>1 DEF Listed
    <3>2. CASE d # cur
      BY <1>2, <1>12, <2>1, <3>2 DEF Mixture
    <3> QED BY <3>1, <3>2
  <2>2. Fresh(From(wr))
    BY <1>2 DEF Mixture
  <2> QED BY <1>1, <1>12, <2>1, <2>2 DEF Mixture, Fresh, Has, From
<1>16. CommitSound'
  BY <1>9 DEF CommitSound
<1>17. MixSound'
  <2> SUFFICES ASSUME Listed(cur), pc' = "mix_save" PROVE MixSound'
    BY <1>1, <1>9 DEF MixSound, Listed
  <2>1. fast' = IF Ahead(wr, past) > dist THEN past ELSE fast
    BY <1>4
  <2>2. /\ From(fast) = Furthest /\ From(fast) <= N - 2 /\ Fresh(From(fast))
        /\ \A d \in Range(list) : d # cur => From(dwr[d]) <= From(wr) + dist
    BY <1>1, <1>2 DEF MixSound
  <2>3. From(past) \in 0 .. N - 1
    BY <1>2, <1>7, FromIs
  <2>4. From(fast') = IF From(past) > From(wr) + dist THEN From(past) ELSE From(wr) + dist
    <3>1. CASE From(past) > From(wr) + dist
      <4>1. Ahead(wr, past) > dist
        BY <1>5, <1>6, <2>3, <3>1
      <4> QED BY <2>1, <3>1, <4>1
    <3>2. CASE ~(From(past) > From(wr) + dist)
      <4>1. ~(Ahead(wr, past) > dist) /\ ~(From(dwr[cur]) > From(wr) + dist)
        BY <1>3, <1>5, <1>6, <2>3, <3>2
      <4> QED BY <2>1, <2>2, <3>2, <4>1 DEF Furthest
    <3> QED BY <3>1, <3>2
  <2>5. Fresh(From(fast')) /\ From(fast') <= N - 2
    BY <1>6, <2>1, <2>2 DEF Has, Fresh
  <2>6. dwr'[cur] = past /\ \A d \in Range(list) : d # cur => From(dwr'[d]) <= From(wr) + dist
    BY <1>12, <2>2 DEF Listed
  <2> QED BY <1>1, <1>12, <2>4, <2>5, <2>6 DEF MixSound, Furthest, Fresh, From
<1>18. inited'
  BY <1>1, <1>2
<1> QED BY <1>10, <1>11, <1>13, <1>14, <1>15, <1>16, <1>17, <1>18 DEF IInv, Typed, Sound

LEMMA MixEndKeeps ==
  ASSUME Quiet, IInv, MixEnd
  PROVE  IInv'
<1>1. /\ pc = "mix_end" /\ pc' = "update_min" /\ fast' = 0 /\ dist' = 0
      /\ UNCHANGED <<inited, rd, ring, dwr, pending, outputs, req, cur, resume, blk, dealt, min, irq, fault>>
  BY DEF MixEnd, TaskAt, Goto
<1>2. /\ inited /\ ListTyped /\ TaskTyped /\ TaskSound /\ cur \in Decoders
  BY <1>1, Working
<1>3. UNCHANGED <<wr, list, at, state>>
  <2>1. state[cur] # "input_over"
    BY <1>2 DEF ListTyped
  <2> QED BY <2>1 DEF MixEnd
<1>4. TaskTyped' /\ TaskSound'
  BY <1>1, <1>2, <1>3, SlotsAre DEF TaskTyped, TaskSound, Steps, Listed
<1>5. MixSound' /\ CommitSound'
  BY <1>1, TaskElsewhere
<1> QED BY <1>1, <1>2, <1>3, <1>4, <1>5, TaskStep DEF ListTyped, stream

LEMMA UpdateMinKeeps ==
  ASSUME Quiet, IInv, UpdateMin
  PROVE  IInv'
<1>1. /\ pc = "update_min" /\ pc' = "update_commit"
      /\ min' = IF list = <<>> THEN 0 ELSE MinDistance(list, dwr, wr)
      /\ UNCHANGED <<stream, list, at, state, dwr, pending, outputs, req, cur, resume, fast, dist, blk, dealt, irq, fault>>
  BY DEF UpdateMin, TaskAt, Goto, decoders
<1>2. /\ inited /\ RingTyped /\ ListTyped /\ TaskTyped /\ TaskSound /\ cur \in Decoders
      /\ Ordered /\ Mixture
  BY <1>1, Working
<1>3. From(wr) \in 0 .. N - 1 /\ From(wr) <= N - 2 /\ N \in Nat /\ N > 4 /\ 0 \in 0 .. N - 1
  BY <1>2, FromIs, Sizes DEF Ordered
<1>4. /\ min' \in 0 .. N - 1 /\ From(wr) + min' <= N - 2 /\ Fresh(From(wr) + min')
      /\ \A d \in Range(list) : From(wr) + min' <= From(dwr[d])
  <2>1. CASE list = <<>>
    <3>1. min' = 0 /\ Range(list) = {} /\ From(wr) + 0 = From(wr)
      <4>1. Range(list) = {}
        BY <1>2, <2>1, RangeIs DEF ListTyped
      <4>2. min' = 0
        BY <1>1, <2>1
      <4> QED BY <1>3, <4>1, <4>2
    <3> QED BY <1>2, <1>3, <3>1 DEF Mixture
  <2>2. CASE list # <<>>
    <3> DEFINE s == Slowest(list, dwr, wr)
               m == MinDistance(list, dwr, wr)
    <3>1. /\ rd \in Slots /\ list \in Seq(Decoders) /\ dwr \in [Decoders -> Slots] /\ wr \in Slots
          /\ From(wr) <= N - 2
          /\ \A d \in Range(list) : From(wr) <= From(dwr[d]) /\ From(dwr[d]) <= N - 2
      BY <1>2 DEF RingTyped, ListTyped, Ordered
    <3>2. /\ s \in Slots /\ From(s) <= N - 2
          /\ \A d \in Range(list) : From(s) <= From(dwr[d])
          /\ s = wr \/ \E d \in Range(list) : From(s) = From(dwr[d])
          /\ m \in 0 .. N - 1 /\ From(s) = From(wr) + m
      BY <2>2, <3>1, SlowestIs DEF From
    <3>3. Fresh(From(s))
      BY <1>2, <3>2 DEF Mixture, Fresh, Has
    <3>4. min' = m
      BY <1>1, <2>2
    <3> HIDE DEF s, m
    <3>5. From(wr) + min' = From(s)
      BY <3>2, <3>4
    <3> QED BY <3>2, <3>3, <3>4, <3>5
  <2> QED BY <2>1, <2>2
<1>5. TaskTyped' /\ TaskSound'
  BY <1>1, <1>2, <1>4 DEF TaskTyped, TaskSound, Steps, Listed, Slots
<1>6. MixSound'
  BY <1>1 DEF MixSound
<1>7. CommitSound'
  BY <1>1, <1>4 DEF CommitSound, Fresh, From, stream
<1> QED BY <1>1, <1>2, <1>5, <1>6, <1>7, TaskStep DEF ListTyped

LEMMA UpdateCommitKeeps ==
  ASSUME Quiet, IInv, UpdateCommit
  PROVE  IInv'
<1>1. /\ pc = "update_commit" /\ wr' = Plus(wr, min) /\ min' = 0 /\ Return
      /\ UNCHANGED <<inited, rd, ring, list, at, state, dwr, pending, outs, ord, missed, req,
                     fast, dist, blk, dealt, irq, fault>>
  BY DEF UpdateCommit, TaskAt, decoders, outputs
<1>2. /\ inited /\ RingTyped /\ ListTyped /\ OutputsTyped /\ TaskTyped /\ TaskSound
      /\ Ordered /\ Behind /\ Mixture /\ CommitSound
  BY <1>1, Working
<1>3. TaskTyped' /\ TaskSound' /\ MixSound' /\ CommitSound'
  BY <1>1, <1>2, ReturnGoes, SlotsAre DEF TaskTyped
<1>4. /\ From(wr) + min <= N - 2 /\ Fresh(From(wr) + min)
      /\ \A d \in Range(list) : From(wr) + min <= From(dwr[d])
  BY <1>1, <1>2 DEF CommitSound
<1>5. wr \in Slots /\ rd \in Slots /\ min \in Nat /\ N \in Nat /\ From(wr) \in 0 .. N - 1
  BY <1>2, FromIs, Sizes DEF RingTyped, TaskTyped, Slots
<1>6. wr' \in Slots /\ From(wr') = From(wr) + min
  <2>1. From(wr) + min < N
    BY <1>4, <1>5
  <2> QED BY <1>1, <1>5, <2>1, AheadOfPlus DEF From
<1>7. RingTyped' /\ ListTyped' /\ OutputsTyped' /\ inited'
  BY <1>1, <1>2, <1>6 DEF RingTyped, ListTyped, OutputsTyped, Listed
<1>8. Ordered'
  BY <1>1, <1>2, <1>4, <1>6 DEF Ordered, From
<1>9. Behind'
  <2>1. ASSUME NEW o \in outs PROVE From(ord[o]) <= From(wr')
    <3>1. ord[o] \in Slots
      BY <1>2 DEF OutputsTyped
    <3>2. From(ord[o]) \in 0 .. N - 1
      BY <1>2, <3>1, FromIs
    <3> QED BY <1>2, <1>5, <1>6, <3>2 DEF Behind
  <2> QED BY <1>1, <1>2, <2>1 DEF Behind, From
<1>10. Mixture'
  <2>1. Fresh(From(wr'))
    BY <1>4, <1>6
  <2> QED BY <1>1, <1>2, <2>1 DEF Mixture, Fresh, Has, From
<1> QED BY <1>3, <1>7, <1>8, <1>9, <1>10 DEF IInv, Typed, Sound

-----------------------------------------------------------------------------
(* The interrupt. *)

\* The interrupt leaves the task where it is.
LEMMA IsrKeepsTask ==
  ASSUME Typed, UNCHANGED task, UNCHANGED <<list, pending, fault>>,
         irq' \in Irqs, irq'.at # "none" => irq'.index > 0
  PROVE  TaskTyped' /\ TaskSound'
BY DEF Typed, TaskTyped, TaskSound, task, locals, Listed

\* How much an output discards and takes: not more than there is.
LEMMA TakesIs ==
  ASSUME NEW m \in Nat, NEW avail \in Nat
  PROVE  /\ Min({m, avail}) \in 0 .. avail /\ Min({m, avail}) <= m
         /\ Min({avail - Min({m, avail}), Pull}) \in 0 .. Pull
         /\ Min({m, avail}) + Min({avail - Min({m, avail}), Pull}) <= avail
<1> DEFINE k == Min({m, avail})
           t == Min({avail - k, Pull})
<1>1. k = IF m <= avail THEN m ELSE avail
  BY MinOfTwo
<1> HIDE DEF k
<1>2. avail - k \in Nat /\ Pull \in Nat
  BY <1>1, Sizes
<1>3. t = IF avail - k <= Pull THEN avail - k ELSE Pull
  BY <1>2, MinOfTwo
<1> HIDE DEF t
<1>4. /\ k \in 0 .. avail /\ k <= m
      /\ t \in 0 .. Pull /\ k + t <= avail
  BY <1>1, <1>2, <1>3
<1> QED BY <1>4 DEF k, t

LEMMA PullKeeps ==
  ASSUME IInv, NEW o \in Outputs, IsrPull(o)
  PROVE  IInv'
<1> DEFINE avail == Ahead(ord[o], wr)
           discard == Min({missed[o], avail})
           take == Min({avail - discard, Pull})
           zeros == IF o \in Immediate THEN Pull - take ELSE 0
<1>1. /\ inited /\ RingTyped /\ ListTyped /\ OutputsTyped /\ TaskTyped /\ Typed
      /\ Ordered /\ Behind /\ Mixture /\ MixSound /\ CommitSound
  BY DEF IInv, Typed, Sound, IsrPull
<1>3. /\ ord' = [ord EXCEPT ![o] = Plus(@, discard + take)]
      /\ missed' = [missed EXCEPT ![o] = @ - discard + zeros]
      /\ rd' = SlowestOutput(outs, ord')
      /\ ring' = [i \in Slots |-> IF i \in Span(rd, Ahead(rd, rd')) THEN {STALE} ELSE ring[i]]
      /\ \E w \in {"check", "consumed"} : irq' = Irq(w, o, 1)
      /\ UNCHANGED <<inited, wr, list, at, state, dwr, pending, outs, req, task, fault>>
      /\ o \in outs /\ missed[o] <= MaxMissed
  BY DEF IsrPull, decoders
<1>4. /\ wr \in Slots /\ rd \in Slots /\ ord[o] \in Slots /\ missed[o] \in 0 .. MaxMissed
      /\ From(wr) \in 0 .. N - 1 /\ From(ord[o]) \in 0 .. N - 1 /\ From(ord[o]) <= From(wr)
      /\ From(wr) <= N - 2 /\ N \in Nat /\ Pull \in Nat /\ MaxMissed \in Nat
  <2>1. ord[o] \in Slots /\ missed[o] \in 0 .. MaxMissed + Pull
    BY <1>1 DEF OutputsTyped
  <2>2. missed[o] \in 0 .. MaxMissed
    BY <1>3, <2>1, Sizes
  <2>3. From(ord[o]) <= From(wr)
    BY <1>1, <1>3 DEF Behind
  <2> QED BY <1>1, <2>1, <2>2, <2>3, FromIs, Sizes DEF RingTyped, Ordered
<1>5. avail \in Nat /\ avail = From(wr) - From(ord[o])
  <2>1. avail = From(wr) - From(ord[o])
    BY <1>4, AheadFrom DEF From
  <2> QED BY <1>4, <2>1
<1> HIDE DEF avail
<1>6. /\ discard \in 0 .. avail /\ discard <= missed[o] /\ take \in 0 .. Pull
      /\ discard + take <= avail
  <2>1. missed[o] \in Nat
    BY <1>4
  <2>2. avail \in Nat
    BY <1>5
  <2> QED BY ONLY <2>1, <2>2, TakesIs
<1> HIDE DEF discard, take
<1>7. zeros \in 0 .. Pull
  BY <1>4, <1>6
<1> HIDE DEF zeros
<1>8. missed[o] - discard + zeros \in 0 .. MaxMissed + Pull
  BY <1>4, <1>5, <1>6, <1>7
<1>9. /\ ord' \in [Outputs -> Slots]
      /\ \A x \in Outputs : x # o => ord'[x] = ord[x]
      /\ From(ord'[o]) <= From(wr)
  <2>1. discard + take \in Nat /\ From(ord[o]) + (discard + take) < N
    BY <1>4, <1>5, <1>6
  <2>2. /\ Plus(ord[o], discard + take) \in Slots
        /\ From(Plus(ord[o], discard + take)) = From(ord[o]) + (discard + take)
    BY <1>4, <2>1, AheadOfPlus DEF From
  <2>3. From(ord[o]) + (discard + take) <= From(wr)
    BY <1>4, <1>5, <1>6
  <2>4. ord'[o] = Plus(ord[o], discard + take)
    BY <1>1, <1>3 DEF OutputsTyped
  <2> QED BY <1>1, <1>3, <2>2, <2>3, <2>4 DEF OutputsTyped
<1>10. \A x \in outs : From(ord'[x]) <= From(wr)
  <2>1. \A x \in outs : x # o => ord'[x] = ord[x] /\ From(ord[x]) <= From(wr)
    BY <1>1, <1>9 DEF OutputsTyped, Behind
  <2> QED BY <1>9, <2>1
<1>11. PICK k \in 0 .. From(wr) :
         /\ rd' = Plus(rd, k)
         /\ \A x \in outs : k <= From(ord'[x])
         /\ \E x \in outs : k = From(ord'[x])
  <2>1. outs \in SUBSET Outputs /\ outs # {}
    BY <1>1, <1>3 DEF OutputsTyped
  <2>2. PICK p \in [Outputs -> Slots] : p = ord'
    BY <1>9
  <2>3. \A x \in outs : From(p[x]) <= From(wr)
    BY <1>10, <2>2
  <2>4. \E k \in 0 .. From(wr) :
          /\ SlowestOutput(outs, p) = Plus(rd, k)
          /\ \A x \in outs : k <= From(p[x])
          /\ \E x \in outs : k = From(p[x])
    BY <1>1, <2>1, <2>3, SlowestOutputIs
  <2> QED BY <1>3, <2>2, <2>4
<1>12. /\ RingTyped' /\ Ordered' /\ Mixture' /\ MixSound' /\ CommitSound'
       /\ \A x \in Slots : From(x) >= k => Ahead(rd', x) = From(x) - k
  BY <1>1, <1>3, <1>11, ReadMoves DEF ListTyped, task, locals
<1>13. Behind'
  <2>0. k \in Nat /\ rd' \in Slots
    BY <1>4, <1>11, <1>12 DEF RingTyped
  <2>1. ASSUME NEW x \in outs
        PROVE  /\ ord'[x] \in Slots /\ From(ord'[x]) \in 0 .. N - 1 /\ From(ord'[x]) >= k
               /\ From(ord'[x]) <= From(wr) /\ Ahead(rd', ord'[x]) = From(ord'[x]) - k
    <3>1. ord'[x] \in Slots
      BY <1>1, <1>9 DEF OutputsTyped
    <3>2. From(ord'[x]) \in 0 .. N - 1
      BY <1>1, <3>1, FromIs
    <3>3. From(ord'[x]) >= k
      BY <1>11, <3>2
    <3> QED BY <1>10, <1>12, <3>1, <3>2, <3>3
  <2>2. Ahead(rd', wr) = From(wr) - k
    BY <1>4, <1>11, <1>12
  <2>3. \A x \in outs : Ahead(rd', ord'[x]) <= Ahead(rd', wr)
    BY <1>4, <2>0, <2>1, <2>2
  <2>4. PICK x \in outs : k = From(ord'[x])
    BY <1>11
  <2>5. Ahead(rd', ord'[x]) = 0
    BY <2>0, <2>1, <2>4
  <2>6. ord'[x] = rd'
    BY <2>0, <2>1, <2>5, AheadIs
  <2> QED BY <1>3, <2>3, <2>6 DEF Behind, From
<1>14. ListTyped' /\ OutputsTyped' /\ inited'
  BY <1>1, <1>3, <1>8, <1>9 DEF ListTyped, OutputsTyped, Listed
<1>15. TaskTyped' /\ TaskSound'
  <2>1. irq' \in Irqs /\ (irq'.at # "none" => irq'.index > 0)
    <3>1. ASSUME NEW w \in {"check", "consumed"} PROVE Irq(w, o, 1) \in Irqs /\ Irq(w, o, 1).index = 1
      BY DEF Irq, Irqs
    <3> QED BY <1>3, <3>1
  <2> QED BY <1>1, <1>3, <2>1, IsrKeepsTask
<1> QED BY <1>12, <1>13, <1>14, <1>15 DEF IInv, Typed, Sound

\* A step of the interrupt on its own place and the requests only.
LEMMA IsrStep ==
  ASSUME IInv, UNCHANGED <<stream, decoders, outputs, task, fault>>, req' \subseteq Decoders,
         irq' \in Irqs, irq'.at # "none" => irq'.index > 0
  PROVE  IInv'
<1>1. Typed /\ Sound
  BY DEF IInv
<1>2. TaskTyped' /\ TaskSound'
  BY <1>1, IsrKeepsTask DEF decoders
<1>3. MixSound' /\ CommitSound'
  BY <1>1, TaskSame DEF Sound, stream, decoders, task, locals
<1>4. Ordered' /\ Behind' /\ Mixture'
  BY <1>1, RingSame DEF Sound, stream, decoders, outputs
<1>5. RingTyped' /\ ListTyped' /\ OutputsTyped'
  BY <1>1 DEF Typed, RingTyped, ListTyped, OutputsTyped, Listed, stream, decoders, outputs
<1>6. inited' \in BOOLEAN /\ (~inited' => Empty')
  BY <1>1 DEF Typed, Empty, stream, decoders, outputs, task
<1> QED BY <1>2, <1>3, <1>4, <1>5, <1>6 DEF IInv, Typed, Sound

\* While nobody's input is over the interrupt only asks.
LEMMA CheckKeeps ==
  ASSUME IInv, IsrCheck
  PROVE  IInv'
<1> DEFINE d == list[irq.index]
<1>1. /\ ListTyped /\ TaskTyped /\ irq.at = "check"
      /\ UNCHANGED <<inited, rd, outputs, pc, cur, resume, fast, dist, dealt, min, fault>>
  BY DEF IInv, Typed, IsrCheck
<1>2. /\ irq \in Irqs /\ irq.index \in Nat /\ irq.index > 0 /\ irq.output \in Outputs \cup {NULL}
  BY <1>1 DEF TaskTyped, Irqs
<1>3. CASE irq.index > Len(list)
  <2>1. /\ irq' = IF irq.output = NULL THEN NoIrq ELSE Irq("consumed", irq.output, 1)
        /\ UNCHANGED <<wr, ring, decoders, req, blk>>
    BY <1>3 DEF IsrCheck
  <2>2. irq' \in Irqs /\ (irq'.at # "none" => irq'.index > 0)
    <3>1. NoIrq \in Irqs /\ NoIrq.at = "none"
      BY SlotsAre DEF NoIrq, Irq
    <3>2. Irq("consumed", irq.output, 1) \in Irqs /\ Irq("consumed", irq.output, 1).index = 1
      BY <1>2 DEF Irq, Irqs
    <3> QED BY <2>1, <3>1, <3>2
  <2>3. req' \subseteq Decoders
    BY <1>1, <2>1 DEF ListTyped
  <2> QED BY <1>1, <2>1, <2>2, <2>3, IsrStep DEF stream, task, locals
<1>4. CASE ~(irq.index > Len(list))
  <2>1. d \in Decoders /\ Listed(d) /\ state[d] = "decoding"
    <3>1. irq.index \in DOMAIN list
      BY <1>1, <1>2, <1>4 DEF ListTyped
    <3>2. d \in Range(list) /\ d \in Decoders
      BY <1>1, <3>1, RangeIs DEF ListTyped
    <3> QED BY <1>1, <3>2 DEF ListTyped, Listed
  <2>2. /\ req' = IF NeedMore(d) THEN req \cup {d} ELSE req
        /\ UNCHANGED <<wr, ring, decoders, blk>>
        /\ irq' = [irq EXCEPT !.index = IF d \in Range(list') THEN @ + 1 ELSE N]
    BY <1>4, <2>1 DEF IsrCheck
  <2>3. irq' = [irq EXCEPT !.index = irq.index + 1]
    BY <2>1, <2>2 DEF Listed, decoders
  <2>4. irq' \in Irqs /\ irq'.index > 0
    BY <1>2, <2>3 DEF Irqs
  <2>5. req' \subseteq Decoders
    BY <1>1, <2>1, <2>2 DEF ListTyped
  <2> QED BY <1>1, <2>2, <2>4, <2>5, IsrStep DEF stream, task, locals
<1> QED BY <1>3, <1>4

LEMMA ConsumedKeeps ==
  ASSUME IInv, IsrConsumed
  PROVE  IInv'
<1>1. ListTyped /\ TaskTyped
  BY DEF IInv, Typed
<1>2. \A d \in Decoders : ~Consumed(d)
  BY <1>1 DEF ListTyped, Consumed
<1>3. at' = at /\ state' = state
  BY <1>1, <1>2 DEF IsrConsumed, ListTyped
<1>4. irq' \in Irqs /\ irq'.index > 0
  <2>1. irq.output \in Outputs \cup {NULL}
    BY <1>1 DEF TaskTyped, Irqs
  <2> QED BY <2>1 DEF IsrConsumed, Irq, Irqs
<1> QED BY <1>1, <1>3, <1>4, IsrStep DEF IsrConsumed, ListTyped, decoders

\* The interrupt stops the only decoder, whatever the task is doing with it.
LEMMA MissedKeeps ==
  ASSUME Quiet, IInv, IsrMissed
  PROVE  IInv'
<1>1. NoIrq \in Irqs /\ NoIrq.at = "none"
  BY SlotsAre DEF NoIrq, Irq
<1>2. /\ irq' = NoIrq
      /\ UNCHANGED <<inited, rd, ring, dwr, pending, outs, ord, req, task, fault>>
      /\ Typed /\ RingTyped /\ ListTyped /\ OutputsTyped /\ TaskTyped /\ TaskSound
      /\ Ordered /\ Behind /\ Mixture /\ MixSound /\ CommitSound
  BY DEF IsrMissed, IInv, Typed, Sound
<1>3. CASE UNCHANGED <<wr, list, at, state, missed>>
  <2>1. req' \subseteq Decoders
    BY <1>2 DEF ListTyped
  <2> QED BY <1>1, <1>2, <1>3, <2>1, IsrStep DEF stream, decoders, outputs
<1>4. CASE Host # NULL /\ Stop(Host) /\ missed' = [missed EXCEPT ![irq.output] = 0]
  <2>1. Decoders = {Host} /\ Host \in Decoders
    BY <1>4 DEF Quiet
  <2>2. /\ RingTyped' /\ Ordered' /\ Behind' /\ Mixture'
        /\ list' \in Seq(Decoders) /\ Distinct(list') /\ Range(list') = Range(list) \ {Host}
        /\ list' = <<>> /\ wr' = wr
    BY <1>2, <1>4, <2>1, LeaveList DEF Stop, ListTyped
  <2>3. ListTyped'
    BY <1>2, <1>4, <2>1, <2>2 DEF ListTyped, Listed, Stop
  <2>4. OutputsTyped'
    BY <1>2, <1>4, SlotsAre DEF OutputsTyped
  <2>5. TaskTyped' /\ TaskSound'
    BY <1>1, <1>2, <1>4 DEF TaskTyped, TaskSound, task, locals
  <2>6. Range(list') = {}
    BY <2>2, RangeIs
  <2>7. MixSound'
    BY <1>2, <2>2, <2>6 DEF MixSound, Listed, task, locals
  <2>8. CommitSound'
    BY <1>2, <2>2, <2>6 DEF CommitSound, Fresh, From, task, locals
  <2>9. inited' \in BOOLEAN /\ (~inited' => Empty')
    <3>1. ~inited => at' = at
      <4>1. ~inited => ~Listed(Host)
        BY <1>2, <2>1 DEF Typed, Empty, ListTyped
      <4> QED BY <1>4, <4>1 DEF Stop
    <3> QED BY <1>2, <2>2, <3>1 DEF Typed, Empty, task
  <2> QED BY <2>2, <2>3, <2>4, <2>5, <2>7, <2>8, <2>9 DEF IInv, Typed, Sound
<1> QED BY <1>3, <1>4 DEF IsrMissed

-----------------------------------------------------------------------------
(* The theorems. *)

LEMMA StepKeeps ==
  ASSUME Quiet, IInv, Next
  PROVE  IInv'
<1>1. CASE Calls
  BY <1>1, InitKeeps, DestroyKeeps, AddKeeps, StartKeeps, StopKeeps, RemoveKeeps, DecodeKeeps,
     OutputAddKeeps, OutputRemoveKeeps DEF Calls
<1>2. CASE Decoding
  <2>1. ~InputOver
    BY DEF InputOver, Quiet
  <2>2. ~LastFrame /\ ~NoLastFrame
    BY DEF LastFrame, NoLastFrame, TaskAt, IInv, Typed, TaskTyped
  <2> QED BY <1>2, <2>1, <2>2, StatusKeeps, DecodeFrameKeeps, MixBeginKeeps, MixSearchKeeps,
             MixPickKeeps, MixSaveKeeps, MixAdvanceKeeps, MixEndKeeps, UpdateMinKeeps,
             UpdateCommitKeeps DEF Decoding
<1>3. CASE InterruptGoesOn
  BY <1>3, CheckKeeps, ConsumedKeeps, MissedKeeps DEF InterruptGoesOn
<1>4. CASE \E o \in Outputs : IsrPull(o)
  BY <1>4, PullKeeps
<1> QED BY <1>1, <1>2, <1>3, <1>4 DEF Next

LEMMA StutterKeeps ==
  ASSUME IInv, UNCHANGED vars
  PROVE  IInv'
<1>1. UNCHANGED <<stream, decoders, outputs, task, fault>> /\ req' = req /\ irq' = irq
  BY DEF vars
<1>2. Typed /\ req \subseteq Decoders
  BY DEF IInv, Typed, ListTyped
<1> QED BY <1>1, <1>2, IrqSame, IsrStep

LEMMA Invariant ==
  ASSUME Quiet
  PROVE  Spec => []IInv
<1>1. IInv /\ [Next]_vars => IInv'
  BY StepKeeps, StutterKeeps
<1> QED BY InitSound, <1>1, PTL DEF Spec

\* The variables stay within what the program can hold: no offset leaves the
\* ring, and the list is that of the decoders that say they are started.
THEOREM TypeCorrect ==
  ASSUME Quiet PROVE Spec => []TypeOK
<1>1. IInv => TypeOK
  <2> SUFFICES ASSUME IInv PROVE TypeOK
    OBVIOUS
  <2>1. RingTyped /\ ListTyped /\ OutputsTyped /\ TaskTyped /\ inited \in BOOLEAN
    BY DEF IInv, Typed
  <2>2. Range(list) \subseteq Decoders /\ Len(list) = Cardinality(Range(list))
    BY <2>1, RangeIs, LengthIsCardinality DEF ListTyped
  <2>3. at \in [Decoders -> Lists] /\ state \in [Decoders -> States]
    BY <2>1 DEF ListTyped, Lists, States
  <2>4. pc \in Steps /\ irq.at \in {"none", "check", "consumed", "missed"}
    BY <2>1 DEF TaskTyped, Irqs
  <2> QED BY <2>1, <2>2, <2>3, <2>4 DEF TypeOK, RingTyped, ListTyped, OutputsTyped, TaskTyped
<1> QED BY <1>1, Invariant, PTL

\* The pointers keep their order around the ring whatever the interrupt comes
\* between, and the read pointer is where the slowest output is (update_rd_ptr,
\* update_wr_ptr, save_data_to_mixed_buffer).
THEOREM PointersStayOrdered ==
  ASSUME Quiet PROVE Spec => []WindowOrdered
<1>1. IInv => WindowOrdered
  BY DEF IInv, Sound, Ordered, Behind, WindowOrdered, From
<1> QED BY <1>1, Invariant, PTL

\* Every started decoder is in the mix up to its own offset, and nothing of an
\* earlier lap is.
THEOREM EverythingIsMixed ==
  ASSUME Quiet PROVE Spec => []AllMixed
<1>1. IInv => AllMixed
  BY DEF IInv, Sound, Mixture, Has, AllMixed, Span, From
<1> QED BY <1>1, Invariant, PTL

\* What an output may take is of this lap: audio_decoder_get_pcm never plays what
\* the ring held before.
THEOREM NothingOldIsPlayed ==
  ASSUME Quiet PROVE Spec => []NothingStaleIsPlayed
<1>1. IInv => NothingStaleIsPlayed
  BY DEF IInv, Sound, Mixture, Fresh, NothingStaleIsPlayed, Span, From
<1> QED BY <1>1, Invariant, PTL

\* As long as no input ends, the task never uses a block that was freed under it
\* nor hangs in mix_decoded_data: ending inputs are the only way there.
THEOREM BlocksStayIntact ==
  ASSUME Quiet PROVE Spec => []BlocksIntact
<1>1. IInv => BlocksIntact
  BY DEF IInv, Typed, TaskTyped, BlocksIntact
<1> QED BY <1>1, Invariant, PTL

-----------------------------------------------------------------------------
(* The A2DP sink. *)

\* The scene's decoder is alone on the ring.
Alone == Quiet /\ Decoders = {Host} /\ Speaker \in Outputs

\* Every step of the scene is one of the decoder module, or takes its request.
LEMMA SinkSteps ==
  ASSUME Alone, SinkNext
  PROVE  Next \/ UNCHANGED vars \/ DecoderRequestRawData
<1>0. Host \in Decoders /\ Speaker \in Outputs
  BY DEF Alone
<1>1. CASE SceneCalls
  BY <1>0, <1>1 DEF SceneCalls, SceneInit, SceneAddDecoder, SceneAddOutput, SceneDestroy, Next, Calls
<1>2. CASE RecvFrame
  BY <1>0, <1>2 DEF RecvFrame, FrameDropped, FrameKept, Start, Next, Calls
<1>3. CASE SinkTask
  BY <1>0, <1>3 DEF SinkTask, ReqFrame, PickFrame, SinkStatus, SinkDecodeFrame, SinkReturns, SinkMixes,
                    RequestTooLate, Next, Calls, Decoding
<1>4. CASE SinkPull \/ SinkIsr
  BY <1>0, <1>4 DEF SinkPull, SinkIsr, SinkPullGoesOn, SinkMissed, Next, InterruptGoesOn
<1> QED BY <1>1, <1>2, <1>3, <1>4 DEF SinkNext

LEMMA RequestKeeps ==
  ASSUME IInv, DecoderRequestRawData
  PROVE  IInv'
<1>1. UNCHANGED <<stream, decoders, outputs, task, fault>> /\ req' \subseteq Decoders /\ irq' = irq
  BY DEF DecoderRequestRawData
<1>2. Typed
  BY DEF IInv
<1> QED BY <1>1, <1>2, IrqSame, IsrStep

LEMMA SinkInvariant ==
  ASSUME Alone
  PROVE  SinkSpec => []IInv
<1>1. SinkInit => IInv
  BY InitSound DEF SinkInit
<1>2. IInv /\ [SinkNext]_sinkVars => IInv'
  <2> SUFFICES ASSUME IInv, [SinkNext]_sinkVars PROVE IInv'
    OBVIOUS
  <2>1. CASE UNCHANGED vars
    BY <2>1, StutterKeeps
  <2>2. CASE Next
    BY <2>2, StepKeeps DEF Alone
  <2>3. CASE DecoderRequestRawData
    BY <2>3, RequestKeeps
  <2> QED BY <2>1, <2>2, <2>3, SinkSteps DEF sinkVars
<1> QED BY <1>1, <1>2, PTL DEF SinkSpec

\* The scene's counters.  While the task serves its list there is a frame in it,
\* and frames are counted from the start or not at all; a decoder starts only
\* when the count is over, so what is in the list and what is still counted
\* make up the reserve.
Counters ==
  /\ thd \in 0 .. ReadyThd /\ nb \in 0 .. MaxThd + 1 /\ reqs \in 0 .. MaxReqs
  /\ step \in {"off", "adding", "opening", "wait", "asked", "next", "frame", "decoded"}
  /\ pc # "idle" => step \in {"asked", "frame", "decoded"} /\ resume # "idle"
  /\ step \in {"next", "frame", "decoded"} => nb > 0 /\ thd \in {0, ReadyThd}
  /\ step # "off" /\ thd > 0 => nb + thd >= ReadyThd

LEMMA Thresholds ==
  /\ ReadyThd \in Nat /\ ReadyThd > 0 /\ MaxThd \in Nat /\ ReadyThd < MaxThd
  /\ MaxReqs \in Nat /\ MaxReqs > 0
BY SinkAssumption

\* Where a mix goes on.
LEMMA MixGoes ==
  ASSUME Counters,
         \/ MixBegin \/ MixSearch \/ MixPick \/ MixSave \/ MixAdvance \/ MixEnd
         \/ UpdateMin \/ UpdateCommit
  PROVE  pc # "idle" /\ resume' = resume
<1>1. pc # "idle"
  BY DEF MixBegin, MixSearch, MixPick, MixSave, MixAdvance, MixEnd, UpdateMin, UpdateCommit, TaskAt
<1>2. Return => resume' = resume
  BY <1>1 DEF Return, Counters
<1> QED BY <1>1, <1>2
        DEF MixBegin, MixSearch, MixPick, MixSave, MixAdvance, MixEnd, UpdateMin, UpdateCommit

\* The interrupt moves neither the task nor, but for the count, the scene.
LEMMA CountersSame ==
  ASSUME Counters, UNCHANGED <<thd, nb, step, pc, resume>>, reqs' \in 0 .. MaxReqs
  PROVE  Counters'
BY DEF Counters

LEMMA CountersStep ==
  ASSUME Alone, IInv, Counters, SinkNext
  PROVE  Counters'
<1>0. /\ thd \in 0 .. ReadyThd /\ nb \in 0 .. MaxThd + 1 /\ reqs \in 0 .. MaxReqs
      /\ step \in {"off", "adding", "opening", "wait", "asked", "next", "frame", "decoded"}
  BY DEF Counters
<1>1. CASE DecoderRequestRawData
  <2>1. UNCHANGED <<thd, nb, step, pc, resume>> /\ reqs' = IF reqs < MaxReqs THEN reqs + 1 ELSE reqs
    BY <1>1 DEF DecoderRequestRawData, task, locals
  <2>2. reqs' \in 0 .. MaxReqs
    BY <1>0, <2>1, Thresholds
  <2> QED BY <2>1, <2>2, CountersSame
<1>2. CASE SceneCalls
  <2>1. /\ pc = "idle" /\ pc' = pc /\ reqs' = reqs
        /\ \/ step' \in {"adding", "off"} /\ nb' = 0 /\ thd' \in {thd, ReadyThd}
              /\ (step' = "adding" => thd' = ReadyThd)
           \/ step \in {"adding", "opening"} /\ step' \in {"opening", "wait"} /\ UNCHANGED <<thd, nb>>
    BY <1>2 DEF SceneCalls, SceneInit, SceneAddDecoder, SceneAddOutput, SceneDestroy,
                DecoderInit, DecoderAdd, OutputAdd, DecoderDestroy, TaskFree, task
  <2> QED BY <1>0, <2>1, Thresholds DEF Counters
<1>3. CASE RecvFrame
  <2>1. pc = "idle" /\ pc' = pc /\ UNCHANGED <<reqs, step>> /\ step = "wait"
    BY <1>3 DEF RecvFrame, FrameDropped, FrameKept, Start, DecoderStart, TaskFree, task, vars
  <2>2. \/ UNCHANGED <<thd, nb>>
        \/ nb <= MaxThd /\ nb' = nb + 1 /\ thd' = IF thd > 0 THEN thd - 1 ELSE 0
    BY <1>3 DEF RecvFrame, FrameDropped, FrameKept
  <2> QED BY <1>0, <2>1, <2>2, Thresholds DEF Counters
<1>4. CASE ReqFrame
  <2>1. /\ step = "wait" /\ reqs > 0 /\ reqs' = reqs - 1 /\ UNCHANGED <<thd, nb>> /\ pc = "idle"
        /\ \/ state[Host] = "decoding" /\ step' = "asked" /\ resume' = "status"
           \/ state[Host] # "decoding" /\ step' = "wait" /\ pc' = "idle"
    BY <1>4 DEF ReqFrame, Decode, TaskAt
  <2> QED BY <1>0, <2>1, Thresholds DEF Counters
<1>5. CASE PickFrame
  <2>1. /\ step = "next" /\ UNCHANGED <<thd, nb, reqs>> /\ pc = "idle"
        /\ \/ state[Host] = "decoding" /\ step' = "frame" /\ resume' = "status"
           \/ state[Host] # "decoding" /\ step' = "wait" /\ pc' = "idle"
    BY <1>5 DEF PickFrame, Decode, TaskAt
  <2> QED BY <1>0, <2>1, Thresholds DEF Counters
<1>6. CASE SinkStatus
  <2>1. /\ pc = "status" /\ UNCHANGED <<thd, nb, reqs>>
        /\ \/ step' = "wait" /\ pc' = "idle"
           \/ step' = step /\ pc' = "input" /\ resume' = resume
    BY <1>6 DEF SinkStatus, Status, TaskAt, Done, Goto
  <2> QED BY <1>0, <2>1, Thresholds DEF Counters
<1>7. CASE SinkDecodeFrame
  <2>1. step = "frame" /\ step' = "decoded" /\ resume' = "input" /\ UNCHANGED <<thd, nb, reqs>>
    BY <1>7 DEF SinkDecodeFrame, DecodeFrame
  <2> QED BY <1>0, <2>1, Thresholds DEF Counters
<1>8. CASE SinkReturns
  <2>1. pc = "input" /\ pc' = "idle" /\ UNCHANGED <<thd, reqs>>
    BY <1>8 DEF SinkReturns, InputUsedUp, TaskAt, Done
  <2>2. CASE step = "asked"
    <3>1. nb' = nb /\ (step' = "wait" \/ (step' = "next" /\ thd = 0 /\ nb > 0))
      BY <1>8, <2>2 DEF SinkReturns, Continues
    <3> QED BY <1>0, <2>1, <3>1, Thresholds DEF Counters
  <2>3. CASE step # "asked"
    <3>1. nb' = nb - 1 /\ (step' = "wait" \/ (step' = "next" /\ nb - 1 > 0))
      BY <1>8, <2>3 DEF SinkReturns, Continues
    <3>2. step \in {"frame", "decoded"} /\ nb > 0 /\ thd \in {0, ReadyThd}
      BY <2>1, <2>3 DEF Counters
    <3> QED BY <1>0, <2>1, <3>1, <3>2, Thresholds DEF Counters
  <2> QED BY <2>2, <2>3
<1>9. CASE SinkMixes
  <2>1. pc # "idle" /\ resume' = resume /\ UNCHANGED <<thd, nb, reqs, step>>
    BY <1>9, MixGoes DEF SinkMixes, sink
  <2>2. step \in {"asked", "frame", "decoded"} /\ resume # "idle"
    BY <2>1 DEF Counters
  <2> QED BY <1>0, <2>1, <2>2 DEF Counters
<1>10. CASE RequestTooLate
  <2>1. UNCHANGED <<thd, nb, step, pc, resume>> /\ reqs > 0 /\ reqs' = reqs - 1
    BY <1>10 DEF RequestTooLate, vars, task, locals
  <2>2. reqs' \in 0 .. MaxReqs
    BY <1>0, <2>1, Thresholds
  <2> QED BY <2>1, <2>2, CountersSame
<1>11. CASE SinkPull
  <2>1. UNCHANGED <<thd, nb, step, pc, resume, reqs>>
    BY <1>11 DEF SinkPull, IsrPull, sink, task, locals
  <2> QED BY <1>0, <2>1, CountersSame
<1>12. CASE SinkPullGoesOn
  <2>1. UNCHANGED <<thd, nb, step, pc, resume, reqs>>
    BY <1>12 DEF SinkPullGoesOn, IsrCheck, IsrConsumed, sink, task, locals
  <2> QED BY <1>0, <2>1, CountersSame
<1>13. CASE SinkMissed
  <2>1. /\ UNCHANGED <<nb, step, pc, resume, reqs>>
        /\ thd' = thd \/ (thd = 0 /\ thd' = ReadyThd)
    BY <1>13 DEF SinkMissed, IsrMissed, task, locals
  <2> QED BY <1>0, <2>1, Thresholds DEF Counters
<1> QED BY <1>1, <1>2, <1>3, <1>4, <1>5, <1>6, <1>7, <1>8, <1>9, <1>10, <1>11, <1>12, <1>13
       DEF SinkNext, SinkTask, SinkIsr

LEMMA CountersAlways ==
  ASSUME Alone
  PROVE  SinkSpec => [](IInv /\ Counters)
<1>1. SinkInit => Counters
  BY Thresholds DEF SinkInit, Init, Counters
<1>2. IInv /\ Counters /\ [SinkNext]_sinkVars => Counters'
  <2> SUFFICES ASSUME IInv, Counters, [SinkNext]_sinkVars PROVE Counters'
    OBVIOUS
  <2>1. CASE SinkNext
    BY <2>1, CountersStep
  <2>2. CASE UNCHANGED sinkVars
    BY <2>2 DEF sinkVars, sink, vars, task, locals, Counters
  <2> QED BY <2>1, <2>2
<1> QED BY <1>1, <1>2, SinkInvariant, PTL DEF SinkSpec

\* The list of raw frames holds at most one more than DECODER_DATA_MAX_THD, and
\* the counters of audio_a2dp_sink.c never wrap below zero.
THEOREM SinkTypeCorrect ==
  ASSUME Alone PROVE SinkSpec => []SinkTypeOK
<1>1. IInv /\ Counters => SinkTypeOK
  BY DEF IInv, Typed, ListTyped, Alone, Counters, SinkTypeOK
<1> QED BY <1>1, CountersAlways, PTL

\* With underruns at any point of a mix, what the speaker gets is never of an
\* earlier lap of the ring.
THEOREM SinkPlaysNothingOld ==
  ASSUME Alone PROVE SinkSpec => []NothingStaleIsPlayed
<1>1. IInv => NothingStaleIsPlayed
  BY DEF IInv, Sound, Mixture, Fresh, NothingStaleIsPlayed, Span, From
<1> QED BY <1>1, SinkInvariant, PTL

\* Only a frame can start the decoder.
LEMMA StartsByFrame ==
  ASSUME Alone, IInv, SinkNext, ~Listed(Host), Listed(Host)'
  PROVE  RecvFrame /\ Start
<1>1. list \in Seq(Decoders) /\ Distinct(list)
  BY DEF IInv, Typed, ListTyped
<1>2. list' # list /\ ~(list' = <<>>) /\ list' # Without(Host)
  <2>1. list' # list
    BY DEF Listed
  <2>2. list' # <<>>
    BY DEF Listed, Range
  <2>3. Without(Host) = list
    BY <1>1, WithoutIs DEF Listed
  <2> QED BY <2>1, <2>2, <2>3
<1>3. state[Host] # "input_over" /\ Host \in Decoders
  BY DEF IInv, Typed, ListTyped, Alone
<1>4. cur \in Decoders /\ pc # "idle" => cur = Host
  BY DEF Alone
<1>5. ~DecoderRequestRawData /\ ~SceneCalls
  BY <1>2 DEF DecoderRequestRawData, SceneCalls, SceneInit, SceneAddDecoder, SceneAddOutput, SceneDestroy,
              DecoderInit, DecoderAdd, OutputAdd, DecoderDestroy, decoders
<1>6. ~SinkTask
  <2>1. ~MixEnd
    BY <1>2, <1>4 DEF MixEnd, Drained, TaskAt, IInv, Typed, TaskSound, Alone
  <2> QED BY <1>2, <2>1 DEF SinkTask, ReqFrame, PickFrame, SinkStatus, SinkDecodeFrame, SinkReturns,
             SinkMixes, RequestTooLate, Decode, Status, DecodeFrame, InputUsedUp, MixBegin, MixSearch, MixPick,
             MixSave, MixAdvance, UpdateMin, UpdateCommit, vars, stream, decoders
<1>7. ~SinkPull /\ ~SinkMissed
  BY <1>2 DEF SinkPull, SinkMissed, IsrPull, IsrMissed, Stop, decoders
<1>8. ~SinkPullGoesOn
  <2>1. ~IsrConsumed
    BY <1>2 DEF IsrConsumed
  <2>2. ~IsrCheck
    <3> SUFFICES ASSUME IsrCheck PROVE FALSE
      OBVIOUS
    <3>1. Range(list) = {} /\ irq.index \in Nat /\ irq.index > 0
      <4>1. Range(list) = {}
        BY <1>1, RangeIs DEF Listed, Alone
      <4> QED BY <4>1 DEF IInv, Typed, TaskTyped, Irqs, IsrCheck
    <3>2. list = <<>>
      BY <1>1, <3>1, RangeIs
    <3>3. irq.index > Len(list)
      BY <3>1, <3>2
    <3> QED BY <1>2, <3>3 DEF IsrCheck, decoders
  <2> QED BY <2>1, <2>2 DEF SinkPullGoesOn
<1>9. RecvFrame
  BY <1>5, <1>6, <1>7, <1>8 DEF SinkNext, SinkIsr
<1>10. Start
  BY <1>2, <1>9 DEF RecvFrame, FrameDropped, FrameKept, vars, decoders
<1> QED BY <1>9, <1>10

\* However the interrupt sets start_thd while the task is about to lower the
\* number of frames, the decoder starts with DECODER_DATA_READY_THD of them.
THEOREM StartsOnReserve ==
  ASSUME Alone PROVE SinkSpec => StartsWithReserve
<1>1. IInv /\ Counters /\ [SinkNext]_sinkVars =>
        [~Listed(Host) /\ Listed(Host)' => nb' >= ReadyThd]_sinkVars
  <2> SUFFICES ASSUME IInv, Counters, SinkNext, ~Listed(Host), Listed(Host)' PROVE nb' >= ReadyThd
    OBVIOUS
  <2>1. RecvFrame /\ list' # list
    BY StartsByFrame DEF Listed
  <2>2. \/ nb > MaxThd /\ nb' = nb
        \/ thd = 1 /\ nb' = nb + 1
    BY <2>1 DEF RecvFrame, FrameDropped, FrameKept, vars, decoders
  <2>3. nb \in Nat /\ thd \in Nat /\ (thd > 0 => nb + thd >= ReadyThd)
    BY <2>1 DEF Counters, RecvFrame
  <2> QED BY <2>2, <2>3, Thresholds
<1> QED BY <1>1, CountersAlways, PTL DEF SinkSpec, StartsWithReserve

=============================================================================
