------------------------- MODULE WebSocketFramesProofs -------------------------
(***************************************************************************)
(* Proofs about WebSocketFrames, for all streams of frames, of any number  *)
(* and length, for every message limit and however the bytes are cut.      *)
(*                                                                         *)
(* What a recursive function computes is proved by taking the least number *)
(* at which it would be wrong.                                             *)
(***************************************************************************)
EXTENDS WebSocketFrames, WellFoundedInduction, SequenceTheorems, FiniteSetTheorems, TLAPS

LEMMA Least ==
    ASSUME NEW T \in SUBSET Nat, T # {}
    PROVE  \E x \in T : \A y \in T : ~(y < x)
<1>1. IsWellFoundedOn(OpToRel(<, Nat), Nat)
  BY NatLessThanWellFounded, Zenon
<1>2. PICK x \in T : \A y \in T : <<y, x>> \notin OpToRel(<, Nat)
  BY <1>1, WFMin, Zenon
<1>3. \A y \in T : y < x => <<y, x>> \in OpToRel(<, Nat)
  BY Zenon DEF OpToRel
<1> QED
  BY <1>2, <1>3, Zenon

(* Induction over the numbers up to n. *)
LEMMA UpTo ==
    ASSUME NEW n \in Nat, NEW T \in SUBSET (0 .. n), 0 \in T,
           \A i \in 1 .. n : i - 1 \in T => i \in T
    PROVE  T = 0 .. n
<1> DEFINE Missing == (0 .. n) \ T
<1> SUFFICES ASSUME Missing # {} PROVE FALSE
  OBVIOUS
<1>1. PICK x \in Missing : \A y \in Missing : ~(y < x)
  <2>1. Missing \in SUBSET Nat
    OBVIOUS
  <2> HIDE DEF Missing
  <2> QED
    BY <2>1, Least
<1>2. x \in 1 .. n
  OBVIOUS
<1>3. x - 1 \notin Missing
  BY <1>1, <1>2
<1> QED
  BY <1>2, <1>3

-----------------------------------------------------------------------------
(* The sums of the prefixes of a sequence of n numbers. *)
Sums(h, f, n) == h = [i \in 0 .. n |-> IF i = 0 THEN 0 ELSE h[i - 1] + f[i]]

LEMMA SumsExist ==
    ASSUME NEW n \in Nat, NEW f PROVE \E h : Sums(h, f, n)
<1> DEFINE T == {m \in 0 .. n : \E h : Sums(h, f, m)}
<1>1. 0 \in T
  <2>1. Sums([i \in 0 .. 0 |-> 0], f, 0)
    BY DEF Sums
  <2> QED
    BY <2>1
<1>2. ASSUME NEW m \in 1 .. n, m - 1 \in T PROVE m \in T
  <2>1. PICK h : Sums(h, f, m - 1)
    BY <1>2
  <2> DEFINE g == [i \in 0 .. m |-> IF i = m THEN h[m - 1] + f[m] ELSE h[i]]
  <2>2. ASSUME NEW i \in 0 .. m PROVE g[i] = IF i = 0 THEN 0 ELSE g[i - 1] + f[i]
    <3>1. CASE i = m
      BY <3>1
    <3>2. CASE i # m
      <4>1. i \in 0 .. m - 1 /\ (i # 0 => i - 1 \in 0 .. m - 1 /\ i - 1 # m)
        BY <3>2
      <4>2. h[i] = IF i = 0 THEN 0 ELSE h[i - 1] + f[i]
        BY <2>1, <4>1 DEF Sums
      <4> QED
        BY <3>2, <4>1, <4>2
    <3> QED
      BY <3>1, <3>2
  <2>3. Sums(g, f, m)
    BY <2>2 DEF Sums
  <2> QED
    BY <2>3
<1>3. T = 0 .. n
  <2> HIDE DEF T
  <2>1. T \in SUBSET (0 .. n)
    BY DEF T
  <2> QED
    BY <1>1, <1>2, <2>1, UpTo
<1> QED
  BY <1>3

LEMMA SumsAgree ==
    ASSUME NEW n \in Nat, NEW m \in Nat, NEW f, NEW g, NEW h, NEW k,
           n <= m, Sums(h, f, m), Sums(k, g, n), \A i \in 1 .. n : g[i] = f[i]
    PROVE  k[n] = h[n]
<1> DEFINE T == {i \in 0 .. n : k[i] = h[i]}
<1>1. 0 \in T
  BY DEF Sums
<1>2. ASSUME NEW i \in 1 .. n, i - 1 \in T PROVE i \in T
  BY <1>2 DEF Sums
<1>3. T = 0 .. n
  <2> HIDE DEF T
  <2>1. T \in SUBSET (0 .. n)
    BY DEF T
  <2> QED
    BY <1>1, <1>2, <2>1, UpTo
<1> QED
  BY <1>3

LEMMA SumIsLast ==
    ASSUME NEW n \in Nat, NEW f, Len(f) = n
    PROVE  \E h : Sums(h, f, n) /\ Sum(f) = h[n]
<1> DEFINE h == CHOOSE h : h = [i \in 0 .. n |-> IF i = 0 THEN 0 ELSE h[i - 1] + f[i]]
<1>1. \E g : g = [i \in 0 .. n |-> IF i = 0 THEN 0 ELSE g[i - 1] + f[i]]
  BY SumsExist DEF Sums
<1>2. Sums(h, f, n)
  BY <1>1 DEF Sums
<1>3. Sum(f) = h[n]
  BY DEF Sum
<1> QED
  BY <1>2, <1>3

LEMMA Listed ==
    ASSUME NEW n \in Nat, NEW S, NEW f \in [1 .. n -> S]
    PROVE  f \in Seq(S) /\ Len(f) = n
OBVIOUS

(* One more number. *)
LEMMA SumStep ==
    ASSUME NEW n \in Nat, NEW f \in [1 .. n + 1 -> Nat], NEW g \in [1 .. n -> Nat],
           \A i \in 1 .. n : g[i] = f[i]
    PROVE  Sum(f) = Sum(g) + f[n + 1]
<1>1. Len(f) = n + 1 /\ Len(g) = n
  BY Listed
<1>2. PICK h : Sums(h, f, n + 1) /\ Sum(f) = h[n + 1]
  BY <1>1, SumIsLast
<1>3. PICK k : Sums(k, g, n) /\ Sum(g) = k[n]
  BY <1>1, SumIsLast
<1>4. k[n] = h[n]
  <2>1. PICK m \in Nat : m = n + 1
    OBVIOUS
  <2>2. n \in Nat /\ m \in Nat /\ n <= m /\ Sums(h, f, m) /\ Sums(k, g, n)
    BY <1>2, <1>3, <2>1
  <2>3. \A i \in 1 .. n : g[i] = f[i]
    OBVIOUS
  <2> QED
    BY ONLY <2>2, <2>3, SumsAgree
<1>5. h[n + 1] = h[n] + f[n + 1]
  BY <1>2 DEF Sums
<1> QED
  BY <1>2, <1>3, <1>4, <1>5

LEMMA SumOfNone == ASSUME NEW f, Len(f) = 0 PROVE Sum(f) = 0
<1>1. PICK h : Sums(h, f, 0) /\ Sum(f) = h[0]
  BY SumIsLast
<1> QED
  BY <1>1 DEF Sums

(* A sum of natural numbers is one; of zeros it is 0. *)
LEMMA SumType ==
    ASSUME NEW n \in Nat, NEW f \in [1 .. n -> Nat]
    PROVE  Sum(f) \in Nat /\ ((\A i \in 1 .. n : f[i] = 0) => Sum(f) = 0)
<1>1. Len(f) = n
  BY Listed
<1>2. PICK h : Sums(h, f, n) /\ Sum(f) = h[n]
  BY <1>1, SumIsLast
<1> DEFINE T == {i \in 0 .. n : h[i] \in Nat /\ ((\A j \in 1 .. n : f[j] = 0) => h[i] = 0)}
<1>3. 0 \in T
  BY <1>2 DEF Sums
<1>4. ASSUME NEW i \in 1 .. n, i - 1 \in T PROVE i \in T
  <2>1. h[i] = h[i - 1] + f[i] /\ f[i] \in Nat
    BY <1>2 DEF Sums
  <2> QED
    BY <1>4, <2>1
<1>5. T = 0 .. n
  <2> HIDE DEF T
  <2>1. T \in SUBSET (0 .. n)
    BY DEF T
  <2> QED
    BY <1>3, <1>4, <2>1, UpTo
<1> QED
  BY <1>2, <1>5

-----------------------------------------------------------------------------
(* The concatenations of the prefixes of n sequences. *)
Joins(h, f, n) == h = [i \in 1 .. n |-> IF i = 1 THEN f[i] ELSE h[i - 1] \o f[i]]

LEMMA JoinsExist ==
    ASSUME NEW n \in Nat, NEW f PROVE \E h : Joins(h, f, n)
<1> DEFINE T == {m \in 0 .. n : \E h : Joins(h, f, m)}
<1>1. 0 \in T
  <2>1. Joins([i \in 1 .. 0 |-> 0], f, 0)
    BY DEF Joins
  <2> QED
    BY <2>1
<1>2. ASSUME NEW m \in 1 .. n, m - 1 \in T PROVE m \in T
  <2>1. PICK h : Joins(h, f, m - 1)
    BY <1>2
  <2> DEFINE g == [i \in 1 .. m |-> IF i = m THEN (IF m = 1 THEN f[m] ELSE h[m - 1] \o f[m]) ELSE h[i]]
  <2>2. ASSUME NEW i \in 1 .. m PROVE g[i] = IF i = 1 THEN f[i] ELSE g[i - 1] \o f[i]
    <3>1. CASE i = m
      <4>1. i # 1 => i - 1 \in 1 .. m /\ i - 1 # m
        BY <3>1
      <4> QED
        BY <3>1, <4>1
    <3>2. CASE i # m
      <4>1. i \in 1 .. m - 1 /\ (i # 1 => i - 1 \in 1 .. m - 1 /\ i - 1 # m)
        BY <3>2
      <4>2. h[i] = IF i = 1 THEN f[i] ELSE h[i - 1] \o f[i]
        BY <2>1, <4>1 DEF Joins
      <4> QED
        BY <3>2, <4>1, <4>2
    <3> QED
      BY <3>1, <3>2
  <2>3. Joins(g, f, m)
    BY <2>2 DEF Joins
  <2> QED
    BY <2>3
<1>3. T = 0 .. n
  <2> HIDE DEF T
  <2>1. T \in SUBSET (0 .. n)
    BY DEF T
  <2> QED
    BY <1>1, <1>2, <2>1, UpTo
<1> QED
  BY <1>3

LEMMA JoinsAgree ==
    ASSUME NEW n \in Nat, n # 0, NEW f, NEW g, \A i \in 1 .. n : g[i] = f[i],
           NEW h, Joins(h, f, n + 1), NEW k, Joins(k, g, n)
    PROVE  k[n] = h[n]
<1> DEFINE T == {i \in 0 .. n : i = 0 \/ k[i] = h[i]}
<1>1. 0 \in T
  OBVIOUS
<1>2. ASSUME NEW i \in 1 .. n, i - 1 \in T PROVE i \in T
  <2>1. i = 1 \/ k[i - 1] = h[i - 1]
    BY <1>2
  <2>2. k[i] = IF i = 1 THEN g[i] ELSE k[i - 1] \o g[i]
    BY DEF Joins
  <2>3. i \in 1 .. n + 1
    OBVIOUS
  <2>4. h[i] = IF i = 1 THEN f[i] ELSE h[i - 1] \o f[i]
    BY <2>3 DEF Joins
  <2> QED
    BY <2>1, <2>2, <2>4
<1>3. T = 0 .. n
  <2> HIDE DEF T
  <2>1. T \in SUBSET (0 .. n)
    BY DEF T
  <2> QED
    BY <1>1, <1>2, <2>1, UpTo
<1>4. n \in T
  BY <1>3
<1> QED
  BY <1>4

LEMMA JoinIsLast ==
    ASSUME NEW n \in Nat \ {0}, NEW f, Len(f) = n
    PROVE  \E h : Joins(h, f, n) /\ FlattenSeq(f) = h[n]
<1> DEFINE h == CHOOSE h : h = [i \in 1 .. n |-> IF i = 1 THEN f[i] ELSE h[i - 1] \o f[i]]
<1>1. \E g : g = [i \in 1 .. n |-> IF i = 1 THEN f[i] ELSE g[i - 1] \o f[i]]
  BY JoinsExist DEF Joins
<1>2. Joins(h, f, n)
  BY <1>1 DEF Joins
<1>3. FlattenSeq(f) = h[n]
  BY DEF FlattenSeq
<1> QED
  BY <1>2, <1>3

LEMMA JoinsValue ==
    ASSUME NEW n \in Nat, NEW f, NEW h, Joins(h, f, n), NEW i \in 1 .. n
    PROVE  h[i] = IF i = 1 THEN f[i] ELSE h[i - 1] \o f[i]
BY DEF Joins

(* One more sequence. *)
LEMMA JoinStep ==
    ASSUME NEW n \in Nat, NEW R, NEW f, f \in [1 .. n + 1 -> Seq(R)],
           NEW g, g \in [1 .. n -> Seq(R)], \A i \in 1 .. n : g[i] = f[i]
    PROVE  FlattenSeq(f) = FlattenSeq(g) \o f[n + 1]
<1>1. Len(f) = n + 1 /\ Len(g) = n /\ f[n + 1] \in Seq(R)
  BY Listed
<1>2. PICK h : Joins(h, f, n + 1) /\ FlattenSeq(f) = h[n + 1]
  BY <1>1, JoinIsLast
<1>3. CASE n = 0
  <2>1. h[n + 1] = f[n + 1]
    BY <1>2, <1>3 DEF Joins
  <2>2. FlattenSeq(g) = g
    BY <1>1, <1>3 DEF FlattenSeq
  <2>3. g = <<>>
    BY <1>1, <1>3, EmptySeq, Listed
  <2> QED
    BY <1>1, <1>2, <2>1, <2>2, <2>3
<1>4. CASE n # 0
  <2>1. PICK k : Joins(k, g, n) /\ FlattenSeq(g) = k[n]
    BY <1>1, <1>4, JoinIsLast
  <2>2. n \in Nat \ {0} /\ n + 1 \in 1 .. n + 1 /\ n + 1 # 1 /\ n + 1 - 1 = n
    BY <1>4
  <2>3. k[n] = h[n]
    <3>1. Joins(h, f, n + 1)
      BY <1>2
    <3>2. Joins(k, g, n)
      BY <2>1
    <3>3. \A i \in 1 .. n : g[i] = f[i]
      OBVIOUS
    <3>4. n \in Nat
      OBVIOUS
    <3>5. n # 0
      BY <1>4
    <3> QED
      BY ONLY <3>1, <3>2, <3>3, <3>4, <3>5, JoinsAgree
  <2>4. PICK m \in Nat : m = n + 1
    OBVIOUS
  <2>5. h[m] = IF m = 1 THEN f[m] ELSE h[m - 1] \o f[m]
    <3>1. Joins(h, f, m) /\ m \in 1 .. m
      BY <1>2, <2>4
    <3> QED
      BY ONLY <3>1, m \in Nat, JoinsValue
  <2>6. m # 1 /\ m - 1 = n
    BY <1>4, <2>4
  <2> QED
    BY <1>2, <2>1, <2>3, <2>4, <2>5, <2>6
<1> QED
  BY <1>3, <1>4

LEMMA JoinOfNone == ASSUME NEW f, f \in [1 .. 0 -> {}] PROVE FlattenSeq(f) = <<>>
<1>1. Len(f) = 0 /\ f = <<>>
  BY Listed
<1> QED
  BY <1>1 DEF FlattenSeq

-----------------------------------------------------------------------------
(* The offsets of the frames. *)
WireType == wire \in Seq(Frames)

LEMMA FrameTypes ==
    ASSUME WireType, NEW i \in 1 .. Len(wire)
    PROVE  /\ wire[i] \in Frames /\ wire[i].len \in Nat /\ wire[i].opcode \in Opcodes
           /\ HeaderBytes(wire[i]) \in {2, 4, 10} /\ Bytes(wire[i]) \in Nat
           /\ Bytes(wire[i]) = HeaderBytes(wire[i]) + 4 + wire[i].len
           /\ Len(wire) \in Nat
<1>1. wire[i] \in Frames /\ Len(wire) \in Nat
  BY DEF WireType
<1> QED
  BY <1>1 DEF Frames, HeaderBytes, Bytes

LEMMA BytesBefore ==
    ASSUME WireType, NEW i \in 1 .. Len(wire) + 1
    PROVE  [k \in 1 .. i - 1 |-> Bytes(wire[k])] \in [1 .. i - 1 -> Nat]
<1>1. ASSUME NEW k \in 1 .. i - 1 PROVE Bytes(wire[k]) \in Nat
  <2>1. k \in 1 .. Len(wire)
    BY LenProperties DEF WireType
  <2> QED
    BY <2>1, FrameTypes
<1> QED
  BY <1>1

LEMMA BeforeFirst == Before(1) = 0
<1>1. [k \in 1 .. 0 |-> Bytes(wire[k])] \in [1 .. 0 -> {}]
  OBVIOUS
<1>2. Len([k \in 1 .. 0 |-> Bytes(wire[k])]) = 0
  BY <1>1, Listed
<1> QED
  BY <1>2, SumOfNone DEF Before

LEMMA BeforeNext ==
    ASSUME WireType, NEW i \in 1 .. Len(wire)
    PROVE  Before(i + 1) = Before(i) + Bytes(wire[i])
<1> DEFINE f == [k \in 1 .. i |-> Bytes(wire[k])]
           g == [k \in 1 .. i - 1 |-> Bytes(wire[k])]
<1>1. i \in 1 .. Len(wire) + 1 /\ i + 1 \in 1 .. Len(wire) + 1 /\ i - 1 \in Nat
      /\ (i - 1) + 1 = i /\ (i + 1) - 1 = i
  BY LenProperties DEF WireType
<1>2. f \in [1 .. (i - 1) + 1 -> Nat] /\ g \in [1 .. i - 1 -> Nat]
  BY <1>1, BytesBefore
<1>3. \A k \in 1 .. i - 1 : g[k] = f[k]
  OBVIOUS
<1>4. f[(i - 1) + 1] = Bytes(wire[i])
  BY <1>1
<1>5. Sum(f) = Sum(g) + Bytes(wire[i])
  <2> HIDE DEF f, g
  <2> QED
    BY <1>1, <1>2, <1>3, <1>4, SumStep
<1>6. Before(i + 1) = Sum(f) /\ Before(i) = Sum(g)
  BY <1>1 DEF Before
<1> QED
  BY <1>5, <1>6

LEMMA BeforeType ==
    ASSUME WireType, NEW i \in 1 .. Len(wire) + 1
    PROVE  Before(i) \in Nat
<1>1. i - 1 \in Nat
  BY LenProperties DEF WireType
<1> QED
  BY <1>1, BytesBefore, SumType DEF Before

LEMMA BeforeGrows ==
    ASSUME WireType, NEW i \in 1 .. Len(wire) + 1, NEW j \in i .. Len(wire) + 1
    PROVE  Before(i) <= Before(j)
<1>1. Len(wire) \in Nat /\ j - i \in Nat
  BY LenProperties DEF WireType
<1> DEFINE T == {d \in 0 .. j - i : Before(i) <= Before(i + d)}
<1>2. 0 \in T
  BY <1>1, BeforeType
<1>3. ASSUME NEW d \in 1 .. j - i, d - 1 \in T PROVE d \in T
  <2>1. /\ i + d - 1 \in 1 .. Len(wire) /\ (i + d - 1) + 1 = i + d
        /\ i + (d - 1) = i + d - 1
    BY <1>1
  <2>2. Before(i + d) = Before(i + d - 1) + Bytes(wire[i + d - 1])
    BY <2>1, BeforeNext
  <2>3. Bytes(wire[i + d - 1]) \in Nat /\ Before(i) \in Nat /\ Before(i + d - 1) \in Nat
    BY <1>1, <2>1, FrameTypes, BeforeType
  <2>4. Before(i) <= Before(i + d - 1)
    BY <1>3, <2>1
  <2> QED
    BY <2>2, <2>3, <2>4
<1>4. T = 0 .. j - i
  <2> HIDE DEF T
  <2>1. T \in SUBSET (0 .. j - i)
    BY DEF T
  <2> QED
    BY <1>1, <1>2, <1>3, <2>1, UpTo
<1>5. j - i \in 0 .. j - i /\ i + (j - i) = j
  BY <1>1
<1>6. j - i \in T
  BY <1>4, <1>5, Zenon
<1> QED
  BY <1>5, <1>6

(* A frame is told to be good or bad within its own bytes. *)
LEMMA NoticedWithin ==
    ASSUME WireType, NEW i \in 1 .. Len(wire)
    PROVE  /\ Noticed(i) \in Nat
           /\ Before(i) + 2 <= Noticed(i) /\ Noticed(i) <= Before(i + 1)
           /\ ~EarlyFlaw(wire[i]) => Before(i) + HeaderBytes(wire[i]) <= Noticed(i)
<1>1. Before(i) \in Nat
  BY BeforeType, LenProperties DEF WireType
<1>2. /\ HeaderBytes(wire[i]) \in {2, 4, 10} /\ wire[i].len \in Nat
      /\ Bytes(wire[i]) = HeaderBytes(wire[i]) + 4 + wire[i].len
  BY FrameTypes
<1>3. Before(i + 1) = Before(i) + Bytes(wire[i])
  BY BeforeNext
<1>4. Noticed(i) = Before(i) + (IF EarlyFlaw(wire[i]) THEN 2
                                ELSE IF GoodHeader(wire[i]) THEN Bytes(wire[i])
                                ELSE HeaderBytes(wire[i]))
  BY DEF Noticed
<1>5. CASE EarlyFlaw(wire[i])
  <2>1. Noticed(i) = Before(i) + 2
    BY <1>4, <1>5
  <2>2. Before(i + 1) = Before(i) + (HeaderBytes(wire[i]) + 4 + wire[i].len)
    BY <1>2, <1>3
  <2>3. Noticed(i) <= Before(i + 1)
    BY <1>1, <1>2, <2>1, <2>2
  <2> QED
    BY <1>1, <1>5, <2>1, <2>3
<1>6. CASE ~EarlyFlaw(wire[i]) /\ GoodHeader(wire[i])
  <2>1. Noticed(i) = Before(i) + (HeaderBytes(wire[i]) + 4 + wire[i].len)
    BY <1>2, <1>4, <1>6
  <2>2. Before(i + 1) = Noticed(i)
    BY <1>2, <1>3, <2>1
  <2>3. /\ Noticed(i) \in Nat /\ Before(i) + 2 <= Noticed(i)
        /\ Before(i) + HeaderBytes(wire[i]) <= Noticed(i)
    BY <1>1, <1>2, <2>1
  <2> QED
    BY <2>2, <2>3
<1>7. CASE ~EarlyFlaw(wire[i]) /\ ~GoodHeader(wire[i])
  <2>1. Noticed(i) = Before(i) + HeaderBytes(wire[i])
    BY <1>4, <1>7
  <2>2. Before(i + 1) = Before(i) + (HeaderBytes(wire[i]) + 4 + wire[i].len)
    BY <1>2, <1>3
  <2>3. Noticed(i) \in Nat /\ Before(i) + 2 <= Noticed(i)
    BY <1>1, <1>2, <2>1
  <2>4. Noticed(i) <= Before(i + 1)
    BY <1>1, <1>2, <2>1, <2>2
  <2> QED
    BY <1>1, <1>2, <2>1, <2>3, <2>4
<1> QED
  BY <1>5, <1>6, <1>7

-----------------------------------------------------------------------------
(* #readFrame judges headers as the reference does. *)
LEMMA HeaderJudged ==
    ASSUME NEW f \in Frames, ~EarlyFlaw(f)
    PROVE  Flawed(f) <=> ~GoodHeader(f)
<1>1. /\ f.field \in {7, 16, 64} /\ f.len \in Nat
      /\ f.field = 7 => f.len <= 125
      /\ f.field = 16 => f.len <= 65535
  BY DEF Frames
<1>2. f.field = LengthField(f.len) <=> ~NonMinimal(f)
  BY <1>1 DEF LengthField, NonMinimal
<1>3. TooLong(f) <=> ~(f.len <= MaxMessageBytes /\ (f.opcode \in Control => f.fin /\ f.len <= 125))
  BY <1>1, LimitAssumption DEF TooLong
<1> QED
  BY <1>2, <1>3 DEF Flawed, GoodHeader

LEMMA HeaderVerdict ==
    ASSUME WireType, NEW i \in 1 .. Len(wire), Flawed(wire[i])
    PROVE  /\ ~Proper(i)
           /\ HeaderFailure(wire[i]) \in {"1002", "1009"}
           /\ HeaderFailure(wire[i]) = "1009" <=> TooLarge(i)
<1> DEFINE f == wire[i]
<1>1. f \in Frames
  BY FrameTypes
<1>2. ~Proper(i)
  BY <1>1, HeaderJudged DEF Proper
<1>3. /\ f.field \in {7, 16, 64} /\ f.len \in Nat
      /\ f.wide \in {"fits", "unsafe", "negative"}
      /\ f.field = 7 => f.len <= 125
      /\ f.field = 16 => f.len <= 65535
  BY <1>1 DEF Frames
<1>4. f.field = LengthField(f.len) <=> ~NonMinimal(f)
  BY <1>3 DEF LengthField, NonMinimal
<1>5. HeaderFailure(f) = "1009" <=>
        /\ ~EarlyFlaw(f) /\ f.wide # "negative"
        /\ f.wide = "fits" => ~NonMinimal(f) /\ f.opcode \notin Control
  BY DEF HeaderFailure
<1>6. HeaderFailure(f) \in {"1002", "1009"}
  BY DEF HeaderFailure
<1>7. TooLarge(i) <=>
        /\ ~EarlyFlaw(f)
        /\ \/ f.wide = "unsafe"
           \/ /\ f.wide = "fits" /\ f.field = LengthField(f.len) /\ f.opcode \notin Control
              /\ \/ f.len > MaxMessageBytes
                 \/ IsData(f) /\ InSequence(i) /\ MessageBytes(i) > MaxMessageBytes
  BY DEF TooLarge
<1>8. CASE f.wide # "fits"
  <2>1. HeaderFailure(f) = "1009" <=> TooLarge(i)
    BY <1>3, <1>5, <1>7, <1>8
  <2> QED
    BY <1>2, <1>6, <2>1
<1>9. CASE EarlyFlaw(f)
  <2>1. HeaderFailure(f) = "1009" <=> TooLarge(i)
    BY <1>5, <1>7, <1>9
  <2> QED
    BY <1>2, <1>6, <2>1
<1>10. CASE f.wide = "fits" /\ ~EarlyFlaw(f) /\ (NonMinimal(f) \/ f.opcode \in Control)
  <2>1. HeaderFailure(f) = "1009" <=> TooLarge(i)
    BY <1>4, <1>5, <1>7, <1>10
  <2> QED
    BY <1>2, <1>6, <2>1
<1>11. CASE f.wide = "fits" /\ ~EarlyFlaw(f) /\ ~NonMinimal(f) /\ f.opcode \notin Control
  <2>1. f.len > MaxMessageBytes
    BY <1>11 DEF Flawed, TooLong
  <2>2. HeaderFailure(f) = "1009" <=> TooLarge(i)
    BY <1>4, <1>5, <1>7, <1>11, <2>1
  <2> QED
    BY <1>2, <1>6, <2>2
<1> QED
  BY <1>8, <1>9, <1>10, <1>11

-----------------------------------------------------------------------------
(* The message that is not complete after n frames. *)
Pending(n) ==
    {k \in 1 .. n : IsData(wire[k]) /\ \A m \in k .. n : IsData(wire[m]) => ~wire[m].fin}

PendingLengths(n) == [k \in 1 .. n |-> IF k \in Pending(n) THEN wire[k].len ELSE 0]
PendingBytes(n) == Sum(PendingLengths(n))

LEMMA PendingSteps ==
    ASSUME NEW i \in Nat \ {0}
    PROVE  /\ ~IsData(wire[i]) => Pending(i) = Pending(i - 1)
           /\ IsData(wire[i]) /\ ~wire[i].fin => Pending(i) = Pending(i - 1) \cup {i}
           /\ IsData(wire[i]) /\ wire[i].fin => Pending(i) = {}
           /\ IsData(wire[i]) => Message(i) = Pending(i - 1) \cup {i}
<1>1. \A k \in 1 .. i : k .. i = (k .. i - 1) \cup {i}
  OBVIOUS
<1>2. 1 .. i = (1 .. i - 1) \cup {i} /\ i \notin 1 .. i - 1 /\ i .. i - 1 = {}
  OBVIOUS
<1>3. CASE ~IsData(wire[i])
  <2>1. ASSUME NEW k \in 1 .. i PROVE k \in Pending(i) <=> k \in Pending(i - 1)
    BY <1>1, <1>2, <1>3 DEF Pending
  <2> QED
    BY <1>2, <1>3, <2>1 DEF Pending
<1>4. CASE IsData(wire[i])
  <2>1. ~wire[i].fin => Pending(i) = Pending(i - 1) \cup {i}
    <3>1. ASSUME ~wire[i].fin, NEW k \in 1 .. i - 1
          PROVE  k \in Pending(i) <=> k \in Pending(i - 1)
      BY <1>1, <1>2, <1>4, <3>1 DEF Pending
    <3>2. ASSUME ~wire[i].fin PROVE i \in Pending(i)
      BY <1>1, <1>2, <1>4, <3>2 DEF Pending
    <3> QED
      BY <1>2, <3>1, <3>2 DEF Pending
  <2>2. wire[i].fin => Pending(i) = {}
    BY <1>1, <1>4 DEF Pending
  <2>3. Message(i) = Pending(i - 1) \cup {i}
    BY <1>1, <1>2, <1>4 DEF Pending, Message
  <2> QED
    BY <1>4, <2>1, <2>2, <2>3
<1> QED
  BY <1>3, <1>4

LEMMA PendingTypes ==
    ASSUME WireType, NEW n \in 0 .. Len(wire)
    PROVE  PendingLengths(n) \in [1 .. n -> Nat] /\ PendingBytes(n) \in Nat
<1>1. n \in Nat /\ \A k \in 1 .. n : k \in 1 .. Len(wire)
  BY LenProperties DEF WireType
<1>2. \A k \in 1 .. n : wire[k].len \in Nat
  BY <1>1, FrameTypes
<1>3. PendingLengths(n) \in [1 .. n -> Nat]
  BY <1>2 DEF PendingLengths
<1> QED
  BY <1>1, <1>3, SumType DEF PendingBytes

(* Of no frames there is no message. *)
LEMMA PendingNone ==
    Pending(0) = {} /\ PendingBytes(0) = 0
<1>1. Pending(0) = {}
  BY DEF Pending
<1>2. PendingLengths(0) \in [1 .. 0 -> Nat]
  BY <1>1 DEF PendingLengths
<1> QED
  BY <1>1, <1>2, Listed, SumOfNone DEF PendingBytes

LEMMA PendingSums ==
    ASSUME WireType, NEW i \in 1 .. Len(wire)
    PROVE  /\ ~IsData(wire[i]) => PendingBytes(i) = PendingBytes(i - 1)
           /\ IsData(wire[i]) /\ ~wire[i].fin =>
                PendingBytes(i) = PendingBytes(i - 1) + wire[i].len
           /\ IsData(wire[i]) /\ wire[i].fin => PendingBytes(i) = 0
           /\ IsData(wire[i]) => MessageBytes(i) = PendingBytes(i - 1) + wire[i].len
<1>1. /\ i \in Nat \ {0} /\ i - 1 \in Nat /\ i - 1 \in 0 .. Len(wire) /\ i \in 0 .. Len(wire)
      /\ (i - 1) + 1 = i
  BY LenProperties DEF WireType
<1> DEFINE g == PendingLengths(i - 1)
<1>2. g \in [1 .. i - 1 -> Nat] /\ PendingLengths(i) \in [1 .. i -> Nat]
      /\ Sum(g) \in Nat /\ wire[i].len \in Nat
  BY <1>1, PendingTypes, FrameTypes DEF PendingBytes
<1>3. ASSUME NEW f \in [1 .. i -> Nat], \A k \in 1 .. i - 1 : g[k] = f[k]
      PROVE  Sum(f) = Sum(g) + f[i]
  <2>1. f \in [1 .. (i - 1) + 1 -> Nat]
    BY <1>1
  <2>2. Sum(f) = Sum(g) + f[(i - 1) + 1]
    <3> HIDE DEF g
    <3> QED
      BY <1>1, <1>2, <1>3, <2>1, SumStep
  <2> QED
    BY <1>1, <2>2
<1>4. \A k \in 1 .. i - 1 : k \in 1 .. i /\ k # i
  BY <1>1
<1>5. i \notin Pending(i - 1)
  BY <1>1 DEF Pending
<1>6. ASSUME ~IsData(wire[i]) PROVE PendingBytes(i) = PendingBytes(i - 1)
  <2>1. Pending(i) = Pending(i - 1)
    BY <1>1, <1>6, PendingSteps
  <2>2. PendingLengths(i)[i] = 0 /\ \A k \in 1 .. i - 1 : g[k] = PendingLengths(i)[k]
    BY <1>1, <1>4, <1>5, <2>1 DEF PendingLengths
  <2> QED
    BY <1>2, <1>3, <2>2 DEF PendingBytes
<1>7. ASSUME IsData(wire[i]), ~wire[i].fin
      PROVE  PendingBytes(i) = PendingBytes(i - 1) + wire[i].len
  <2>1. Pending(i) = Pending(i - 1) \cup {i}
    BY <1>1, <1>7, PendingSteps
  <2>2. PendingLengths(i)[i] = wire[i].len /\ \A k \in 1 .. i - 1 : g[k] = PendingLengths(i)[k]
    BY <1>1, <1>4, <2>1 DEF PendingLengths
  <2> QED
    BY <1>2, <1>3, <2>2 DEF PendingBytes
<1>8. ASSUME IsData(wire[i]), wire[i].fin PROVE PendingBytes(i) = 0
  <2>1. Pending(i) = {}
    BY <1>1, <1>8, PendingSteps
  <2>2. \A k \in 1 .. i : PendingLengths(i)[k] = 0
    BY <2>1 DEF PendingLengths
  <2> QED
    BY <1>1, <1>2, <2>2, SumType DEF PendingBytes
<1>9. ASSUME IsData(wire[i]) PROVE MessageBytes(i) = PendingBytes(i - 1) + wire[i].len
  <2> DEFINE f == [k \in 1 .. i |-> IF k \in Message(i) THEN wire[k].len ELSE 0]
  <2>1. Message(i) = Pending(i - 1) \cup {i}
    BY <1>1, <1>9, PendingSteps
  <2>2. f[i] = wire[i].len /\ \A k \in 1 .. i - 1 : g[k] = f[k]
    BY <1>1, <1>4, <2>1 DEF PendingLengths
  <2>3. \A k \in 1 .. i : k \in 1 .. Len(wire)
    BY LenProperties DEF WireType
  <2>4. f \in [1 .. i -> Nat]
    BY <2>3, FrameTypes
  <2> QED
    BY <1>3, <2>2, <2>4 DEF PendingBytes, MessageBytes
<1> QED
  BY <1>6, <1>7, <1>8, <1>9

-----------------------------------------------------------------------------
(* What the parser keeps of a message is what the reference says of it.    *)
Kept(n) ==
    /\ fragments \in Seq(Nat) /\ Sum(fragments) = fragmentBytes
    /\ fragmentBytes = PendingBytes(n) /\ fragmentBytes <= MaxMessageBytes
    /\ fragmentOpcode \in {"none", "text", "binary"}
    /\ fragmentOpcode = "none" <=> Pending(n) = {}
    /\ \A k \in Pending(n) : (\A m \in Pending(n) : k <= m) => wire[k].opcode = fragmentOpcode

LEMMA SequenceJudged ==
    ASSUME NEW i \in Nat \ {0}, IsData(wire[i]), Kept(i - 1)
    PROVE  OutOfSequence(wire[i]) <=> ~InSequence(i)
<1>1. Message(i) = Pending(i - 1) \cup {i}
  BY PendingSteps
<1>2. i \notin Pending(i - 1)
  BY DEF Pending
<1>3. Message(i) # {i} <=> fragmentOpcode # "none"
  BY <1>1, <1>2 DEF Kept
<1>4. wire[i].opcode \in {"continuation", "text", "binary"}
  BY DEF IsData
<1> QED
  BY <1>3, <1>4 DEF OutOfSequence, InSequence

LEMMA MessageKindIs ==
    ASSUME NEW i \in Nat \ {0}, IsData(wire[i]), Kept(i - 1), InSequence(i)
    PROVE  MessageKind(i) = IF wire[i].opcode = "continuation" THEN fragmentOpcode
                            ELSE wire[i].opcode
<1>1. Message(i) = Pending(i - 1) \cup {i} /\ Pending(i - 1) \in SUBSET (1 .. i - 1)
  BY PendingSteps DEF Pending
<1>2. ASSUME NEW k \in Message(i), \A m \in Message(i) : k <= m
      PROVE  MessageKind(i) = wire[k].opcode
  <2>1. Message(i) \in SUBSET Int
    BY <1>1
  <2>2. \A x \in Message(i) : (\A m \in Message(i) : x <= m) => x = k
    BY <1>2, <2>1
  <2>3. (CHOOSE x \in Message(i) : \A m \in Message(i) : x <= m) = k
    BY <1>2, <2>2
  <2> QED
    BY <2>3 DEF MessageKind
<1>3. CASE Pending(i - 1) = {}
  <2>1. Message(i) = {i}
    BY <1>1, <1>3
  <2>2. MessageKind(i) = wire[i].opcode
    BY <1>2, <2>1
  <2> QED
    BY <2>1, <2>2 DEF InSequence
<1>4. CASE Pending(i - 1) # {}
  <2>1. Pending(i - 1) \in SUBSET Nat
    BY <1>1
  <2>2. PICK k \in Pending(i - 1) : \A m \in Pending(i - 1) : ~(m < k)
    BY <1>4, <2>1, Least
  <2>3. \A m \in Pending(i - 1) : k <= m
    BY <2>1, <2>2
  <2>4. \A m \in Message(i) : k <= m
    BY <1>1, <2>2, <2>3
  <2>5. MessageKind(i) = wire[k].opcode
    BY <1>1, <1>2, <2>2, <2>4
  <2>6. wire[k].opcode = fragmentOpcode
    BY <2>2, <2>3 DEF Kept
  <2>7. Message(i) # {i}
    BY <1>1, <2>2
  <2> QED
    BY <2>5, <2>6, <2>7 DEF InSequence
<1> QED
  BY <1>3, <1>4

-----------------------------------------------------------------------------
(* What is passed on of the first n frames. *)
Results ==
    {[what |-> "pong", bytes |-> wire[k].len] : k \in 1 .. Len(wire)}
    \cup {[what |-> MessageKind(k), bytes |-> MessageBytes(k)] : k \in 1 .. Len(wire)}

Outputs(n) == [k \in 1 .. n |-> Output(k)]
Passed(n) == passed \in Seq(Results) /\ passed = FlattenSeq(Outputs(n))

LEMMA OutputType ==
    ASSUME NEW k \in 1 .. Len(wire) PROVE Output(k) \in Seq(Results)
<1>1. [what |-> "pong", bytes |-> wire[k].len] \in Results
  BY DEF Results
<1>2. [what |-> MessageKind(k), bytes |-> MessageBytes(k)] \in Results
  BY DEF Results
<1>3. \A r \in Results : <<r>> \in Seq(Results)
  OBVIOUS
<1>4. <<>> \in Seq(Results)
  OBVIOUS
<1> QED
  BY <1>1, <1>2, <1>3, <1>4 DEF Output

LEMMA OutputsStep ==
    ASSUME WireType, NEW i \in 1 .. Len(wire)
    PROVE  FlattenSeq(Outputs(i)) = FlattenSeq(Outputs(i - 1)) \o Output(i)
<1>1. Len(wire) \in Nat /\ i - 1 \in Nat /\ (i - 1) + 1 = i
  BY LenProperties DEF WireType
<1>2. Outputs(i) \in [1 .. (i - 1) + 1 -> Seq(Results)]
  BY <1>1, OutputType DEF Outputs
<1>3. Outputs(i - 1) \in [1 .. i - 1 -> Seq(Results)]
  BY <1>1, OutputType DEF Outputs
<1>4. \A k \in 1 .. i - 1 : Outputs(i - 1)[k] = Outputs(i)[k]
  BY <1>1 DEF Outputs
<1>5. Outputs(i)[(i - 1) + 1] = Output(i)
  BY <1>1 DEF Outputs
<1>6. i - 1 \in Nat
  BY <1>1
<1>7. FlattenSeq(Outputs(i)) = FlattenSeq(Outputs(i - 1)) \o Outputs(i)[(i - 1) + 1]
  BY ONLY <1>2, <1>3, <1>4, <1>6, JoinStep
<1> QED
  BY <1>5, <1>7

-----------------------------------------------------------------------------
(* The inductive invariant. *)
AllProper(n) == \A k \in 1 .. n : Proper(k)

Types ==
    /\ WireType
    /\ arrived \in Nat /\ arrived <= Before(Len(wire) + 1)
    /\ next \in 1 .. Len(wire) + 1 /\ Before(next) <= arrived
    /\ reading \in BOOLEAN
    /\ fragments \in Seq(Nat) /\ fragmentBytes \in 0 .. 2 * MaxMessageBytes
    /\ fragmentOpcode \in {"none", "text", "binary"}
    /\ outcome \in {"open", "closed", "1002", "1009"}

(* What has been read is proper and has been acted on. *)
Progress(n) == AllProper(n) /\ Passed(n) /\ Kept(n)

(* When the loop has ended, what is left cannot be judged yet. *)
Short ==
    /\ next <= Len(wire) => arrived < Noticed(next)
    /\ Buffered < MaxMessageBytes + 14

(* The frame at which the socket has ended is the first improper one. *)
EndedAt(i) ==
    /\ AllProper(i - 1) /\ ~Proper(i) /\ Noticed(i) <= arrived
    /\ Passed(i - 1)
    /\ outcome = "closed" => wire[i].opcode = "close"
    /\ outcome = "1009" <=> TooLarge(i)

FramesInv ==
    /\ Types
    /\ reading => outcome = "open"
    /\ outcome = "open" => Progress(next - 1)
    /\ outcome = "open" /\ ~reading => Short
    /\ outcome # "open" => \E i \in 1 .. Len(wire) : EndedAt(i)

(* What is said of the stream alone stays true of it. *)
LEMMA SameStream ==
    ASSUME wire' = wire
    PROVE  /\ WireType' <=> WireType
           /\ Len(wire)' = Len(wire)
           /\ \A n : Before(n)' = Before(n)
           /\ \A n : Noticed(n)' = Noticed(n)
           /\ \A n : AllProper(n)' <=> AllProper(n)
           /\ \A n : Proper(n)' <=> Proper(n)
           /\ \A n : TooLarge(n)' <=> TooLarge(n)
           /\ \A n : Pending(n)' = Pending(n)
           /\ \A n : PendingBytes(n)' = PendingBytes(n)
           /\ Results' = Results
           /\ \A n : Outputs(n)' = Outputs(n)
<1>1. WireType' <=> WireType
  BY DEF WireType
<1>2. Len(wire)' = Len(wire)
  OBVIOUS
<1>3. \A n : Before(n)' = Before(n)
  BY Zenon DEF Before
<1>4. \A n : Message(n)' = Message(n)
  BY Zenon DEF Message
<1>5. \A n : MessageBytes(n)' = MessageBytes(n)
  BY <1>4, Zenon DEF MessageBytes
<1>6. \A n : MessageKind(n)' = MessageKind(n)
  BY <1>4, Zenon DEF MessageKind
<1>7. \A n : InSequence(n)' <=> InSequence(n)
  BY <1>4, Zenon DEF InSequence
<1>8. \A n : Proper(n)' <=> Proper(n)
  BY <1>5, <1>7, Zenon DEF Proper
<1>9. \A n : TooLarge(n)' <=> TooLarge(n)
  BY <1>5, <1>7, Zenon DEF TooLarge
<1>10. \A n : Noticed(n)' = Noticed(n)
  BY <1>3, Zenon DEF Noticed
<1>11. \A n : AllProper(n)' <=> AllProper(n)
  BY <1>8, Zenon DEF AllProper
<1>12. \A n : Pending(n)' = Pending(n)
  BY Zenon DEF Pending
<1>13. \A n : PendingBytes(n)' = PendingBytes(n)
  BY <1>12, Zenon DEF PendingBytes, PendingLengths
<1>14. Results' = Results
  BY <1>5, <1>6, Zenon DEF Results
<1>15. \A n : Outputs(n)' = Outputs(n)
  BY <1>5, <1>6, Zenon DEF Outputs, Output
<1> QED
  BY <1>1, <1>2, <1>3, <1>8, <1>9, <1>10, <1>11, <1>12, <1>13, <1>14, <1>15

LEMMA Initially == Init => FramesInv
<1> SUFFICES ASSUME Init PROVE FramesInv
  OBVIOUS
<1>1. WireType
  BY WiresAssumption DEF Init, WireType
<1>2. Len(wire) \in Nat
  BY <1>1, LenProperties DEF WireType
<1>3. Before(Len(wire) + 1) \in Nat /\ Before(1) = 0
  BY <1>1, <1>2, BeforeType, BeforeFirst
<1>4. Types
  <2>1. next \in 1 .. Len(wire) + 1
    BY <1>2 DEF Init
  <2>2. 0 \in 0 .. 2 * MaxMessageBytes
    BY LimitAssumption
  <2>3. Before(next) = 0
    BY <1>3 DEF Init
  <2>4. arrived \in Nat /\ arrived <= Before(Len(wire) + 1) /\ Before(next) <= arrived
    BY <1>3, <2>3 DEF Init
  <2>5. fragments \in Seq(Nat) /\ fragmentBytes \in 0 .. 2 * MaxMessageBytes
    BY <2>2 DEF Init
  <2> QED
    BY <1>1, <2>1, <2>4, <2>5 DEF Init, Types
<1>5. Kept(0)
  BY PendingNone, SumOfNone, LimitAssumption DEF Init, Kept
<1>6. Passed(0)
  <2>1. Outputs(0) \in [1 .. 0 -> {}]
    BY DEF Outputs
  <2> QED
    BY <2>1, JoinOfNone DEF Init, Passed
<1>7. Progress(next - 1)
  BY <1>5, <1>6 DEF Init, Progress, AllProper
<1>8. Short
  <2>1. next <= Len(wire) => arrived < Noticed(next)
    BY <1>1, <1>3, NoticedWithin DEF Init
  <2> QED
    BY <1>3, <2>1, LimitAssumption DEF Init, Short, Buffered
<1> QED
  BY <1>4, <1>7, <1>8 DEF Init, FramesInv

LEMMA ReceiveDataKeeps == FramesInv /\ ReceiveData => FramesInv'
<1> SUFFICES ASSUME FramesInv, ReceiveData PROVE FramesInv'
  OBVIOUS
<1>1. WireType /\ Len(wire) \in Nat
  BY LenProperties DEF FramesInv, Types, WireType
<1>2. PICK i \in DOMAIN wire : \E n \in Cuts(i) : n > arrived /\ arrived' = n
  BY DEF ReceiveData
<1>3. i \in 1 .. Len(wire)
  BY <1>1, <1>2 DEF WireType
<1>4. Before(i) \in Nat /\ Bytes(wire[i]) \in Nat /\ Before(i + 1) = Before(i) + Bytes(wire[i])
  BY <1>1, <1>3, BeforeType, BeforeNext, FrameTypes
<1>5. arrived' \in Nat /\ arrived' <= Before(i + 1) /\ arrived' > arrived
  BY <1>2, <1>4 DEF Cuts
<1>6. Before(i + 1) <= Before(Len(wire) + 1) /\ Before(Len(wire) + 1) \in Nat
      /\ Before(i + 1) \in Nat /\ Before(next) \in Nat
  <2>1. i + 1 \in 1 .. Len(wire) + 1 /\ Len(wire) + 1 \in i + 1 .. Len(wire) + 1
    BY <1>1, <1>3
  <2> QED
    BY <1>1, <2>1, BeforeGrows, BeforeType DEF FramesInv, Types
<1>7. wire' = wire
  BY DEF ReceiveData
<1>8. Types'
  BY <1>1, <1>5, <1>6, <1>7, SameStream DEF FramesInv, Types, ReceiveData
<1>9. Progress(next - 1)'
  BY <1>7, SameStream DEF FramesInv, ReceiveData, Progress, Passed, Kept
<1> QED
  BY <1>8, <1>9 DEF FramesInv, ReceiveData

(* Nothing but the loop has changed. *)
LEMMA AwaitBytesKeeps == FramesInv /\ AwaitBytes => FramesInv'
<1> SUFFICES ASSUME FramesInv, AwaitBytes PROVE FramesInv'
  OBVIOUS
<1>1. WireType /\ Len(wire) \in Nat /\ next \in 1 .. Len(wire) + 1 /\ arrived \in Nat
      /\ Before(next) \in Nat /\ Before(next) <= arrived /\ outcome = "open"
      /\ arrived <= Before(Len(wire) + 1)
  BY LenProperties, BeforeType DEF FramesInv, Types, WireType, AwaitBytes
<1>2. wire' = wire
  BY DEF AwaitBytes
<1>3. Types'
  BY <1>2, SameStream DEF FramesInv, Types, AwaitBytes, KeepMessage
<1>4. Progress(next - 1)'
  BY <1>1, <1>2, SameStream DEF FramesInv, AwaitBytes, KeepMessage, Progress, Passed, Kept
<1>5. Short
  <2>1. CASE next = Len(wire) + 1
    BY <1>1, <2>1, LimitAssumption DEF Short, Buffered
  <2>2. CASE next # Len(wire) + 1
    <3>1. next \in 1 .. Len(wire)
      BY <1>1, <2>2
    <3> DEFINE f == wire[next]
    <3>2. f \in Frames /\ f.len \in Nat /\ HeaderBytes(f) \in {2, 4, 10}
          /\ Bytes(f) = HeaderBytes(f) + 4 + f.len
      BY <1>1, <3>1, FrameTypes
    <3>3. /\ Noticed(next) \in Nat /\ Before(next) + 2 <= Noticed(next)
          /\ ~EarlyFlaw(f) => Before(next) + HeaderBytes(f) <= Noticed(next)
      BY <1>1, <3>1, NoticedWithin
    <3>4. CASE ~Buffers(2)
      BY <1>1, <3>3, <3>4, LimitAssumption DEF Short, Buffered, Buffers
    <3>5. CASE ~EarlyFlaw(f) /\ ~Buffers(HeaderBytes(f))
      <4>1. arrived - Before(next) < HeaderBytes(f)
        BY <1>1, <3>2, <3>5 DEF Buffers, Buffered
      <4> HIDE DEF f
      <4>2. arrived < Noticed(next)
        BY <1>1, <3>2, <3>3, <3>5, <4>1
      <4> QED
        BY <1>1, <3>2, <4>1, <4>2, LimitAssumption DEF Short, Buffered
    <3>6. CASE ~Flawed(f) /\ ~Buffers(Bytes(f))
      <4>1. ~EarlyFlaw(f) /\ GoodHeader(f)
        BY <3>2, <3>6, HeaderJudged DEF Flawed
      <4>2. Noticed(next) = Before(next) + Bytes(f) /\ f.len <= MaxMessageBytes
        BY <4>1 DEF Noticed, GoodHeader
      <4>3. arrived - Before(next) < Bytes(f)
        BY <1>1, <3>2, <3>6 DEF Buffers, Buffered
      <4> HIDE DEF f
      <4> QED
        BY <1>1, <3>2, <4>2, <4>3, LimitAssumption DEF Short, Buffered
    <3> QED
      BY <3>4, <3>5, <3>6 DEF AwaitBytes, Frame
  <2> QED
    BY <2>1, <2>2
<1>6. Short'
  BY <1>2, <1>5, SameStream DEF AwaitBytes, Short, Buffered
<1> QED
  BY <1>1, <1>3, <1>4, <1>6 DEF FramesInv, AwaitBytes

LEMMA RejectHeaderKeeps == FramesInv /\ RejectHeader => FramesInv'
<1> SUFFICES ASSUME FramesInv, RejectHeader PROVE FramesInv'
  OBVIOUS
<1>1. WireType /\ Len(wire) \in Nat /\ next \in 1 .. Len(wire) + 1 /\ arrived \in Nat
      /\ Before(next) \in Nat /\ Before(next) <= arrived /\ outcome = "open"
      /\ arrived <= Before(Len(wire) + 1)
  BY LenProperties, BeforeType DEF FramesInv, Types, WireType, RejectHeader
<1>2. wire' = wire
  BY DEF RejectHeader
<1>3. next \in 1 .. Len(wire)
  BY <1>1 DEF RejectHeader, Buffers, Buffered
<1> DEFINE f == wire[next]
<1>4. f \in Frames /\ HeaderBytes(f) \in {2, 4, 10} /\ Flawed(f)
  BY <1>1, <1>3, FrameTypes DEF RejectHeader, Flawed, Frame
<1>5. ~Proper(next) /\ HeaderFailure(f) \in {"1002", "1009"}
      /\ (HeaderFailure(f) = "1009" <=> TooLarge(next))
  BY <1>1, <1>3, <1>4, HeaderVerdict
<1>6. Noticed(next) <= arrived
  <2>1. CASE EarlyFlaw(f)
    BY <1>1, <2>1 DEF Noticed, RejectHeader, Buffers, Buffered
  <2>2. CASE ~EarlyFlaw(f)
    <3>1. arrived - Before(next) >= HeaderBytes(f) /\ ~GoodHeader(f)
      BY <1>4, <2>2, HeaderJudged DEF RejectHeader, Frame, Buffers, Buffered
    <3>2. Noticed(next) = Before(next) + HeaderBytes(f)
      BY <2>2, <3>1 DEF Noticed
    <3> HIDE DEF f
    <3> QED
      BY <1>1, <1>4, <3>1, <3>2
  <2> QED
    BY <2>1, <2>2
<1>7. outcome' = HeaderFailure(f) /\ reading' = FALSE
  BY DEF RejectHeader, Fail, Frame
<1>8. Types'
  BY <1>2, <1>5, <1>7, SameStream DEF FramesInv, Types, RejectHeader, KeepMessage
<1>9. EndedAt(next)'
  <2>1. AllProper(next - 1) /\ Passed(next - 1)
    BY <1>1 DEF FramesInv, Progress
  <2>2. Passed(next - 1)'
    BY <1>2, <2>1, SameStream DEF Passed, RejectHeader
  <2> QED
    BY <1>2, <1>5, <1>6, <1>7, <2>1, <2>2, SameStream DEF EndedAt, RejectHeader
<1>10. next' = next /\ Len(wire)' = Len(wire)
  BY <1>2 DEF RejectHeader
<1> QED
  BY <1>3, <1>5, <1>7, <1>8, <1>9, <1>10 DEF FramesInv

-----------------------------------------------------------------------------
(* The frame that leaves the buffer has a good header. *)
LEMMA Taken ==
    ASSUME FramesInv, TakeFrame
    PROVE  /\ WireType /\ next \in 1 .. Len(wire) /\ Len(wire) \in Nat
           /\ outcome = "open" /\ Progress(next - 1)
           /\ arrived \in Nat /\ Before(next + 1) <= arrived /\ Noticed(next) <= arrived
           /\ ~EarlyFlaw(Frame) /\ GoodHeader(Frame)
           /\ Frame = wire[next] /\ Frame.opcode \in Opcodes /\ Frame.len \in Nat
           /\ Frame.len <= MaxMessageBytes
           /\ wire' = wire /\ arrived' = arrived /\ next' = next + 1
<1>1. WireType /\ Len(wire) \in Nat /\ next \in 1 .. Len(wire) + 1 /\ arrived \in Nat
      /\ Before(next) \in Nat /\ Before(next) <= arrived /\ outcome = "open"
      /\ arrived <= Before(Len(wire) + 1) /\ Progress(next - 1)
  BY LenProperties, BeforeType DEF FramesInv, Types, WireType, TakeFrame
<1>2. next \in 1 .. Len(wire)
  BY <1>1 DEF TakeFrame, Buffers, Buffered
<1>3. Frame = wire[next] /\ Frame \in Frames /\ Frame.opcode \in Opcodes /\ Frame.len \in Nat
      /\ Bytes(Frame) \in Nat
  BY <1>1, <1>2, FrameTypes DEF Frame
<1>4. ~Flawed(Frame) /\ arrived - Before(next) >= Bytes(Frame)
  BY DEF TakeFrame, Buffers, Buffered
<1>5. ~EarlyFlaw(Frame) /\ GoodHeader(Frame)
  BY <1>3, <1>4, HeaderJudged DEF Flawed
<1>6. Before(next + 1) = Before(next) + Bytes(Frame) /\ Noticed(next) <= Before(next + 1)
      /\ Noticed(next) \in Nat
  BY <1>1, <1>2, <1>3, BeforeNext, NoticedWithin
<1>7. Before(next + 1) <= arrived /\ Noticed(next) <= arrived
  BY <1>1, <1>3, <1>4, <1>6
<1> QED
  BY <1>1, <1>2, <1>3, <1>5, <1>7 DEF GoodHeader, TakeFrame

(* A proper frame has been acted on, and the loop goes on. *)
LEMMA WentOn ==
    ASSUME FramesInv, TakeFrame, GoOn, Proper(next), passed' = passed \o Output(next),
           NEW n, n = next, Kept(n)', fragmentBytes' \in Nat
    PROVE  FramesInv'
<1>1. WireType /\ next \in 1 .. Len(wire) /\ Len(wire) \in Nat /\ outcome = "open"
      /\ AllProper(next - 1) /\ Passed(next - 1)
      /\ arrived \in Nat /\ Before(next + 1) <= arrived
      /\ wire' = wire /\ arrived' = arrived /\ next' = next + 1
  BY Taken DEF Progress
<1>2. next' \in 1 .. Len(wire) + 1 /\ next' - 1 = n /\ n \in Nat
  BY <1>1
<1>3. reading = TRUE /\ reading' = TRUE /\ outcome' = "open"
  BY <1>1 DEF TakeFrame, GoOn, FramesInv, Types
<1>4. fragmentBytes' \in 0 .. 2 * MaxMessageBytes
  BY LimitAssumption DEF Kept
<1>5. Types'
  <2>1. WireType' /\ arrived' \in Nat /\ (arrived <= Before(Len(wire) + 1))'
        /\ (next \in 1 .. Len(wire) + 1)'
    BY <1>1, <1>2, SameStream DEF FramesInv, Types
  <2>2. (Before(next) <= arrived)'
    <3>1. Before(n + 1)' = Before(n + 1) /\ next' = n + 1
      BY <1>1, SameStream
    <3> QED
      BY <1>1, <3>1 DEF Before
  <2> QED
    BY <1>3, <1>4, <2>1, <2>2 DEF Types, Kept
<1>6. AllProper(n)'
  <2>1. AllProper(n)
    BY <1>1 DEF AllProper
  <2> QED
    BY <1>1, <2>1, SameStream
<1>7. Passed(n)'
  <2>1. passed' = FlattenSeq(Outputs(n))
    BY <1>1, OutputsStep DEF Passed
  <2>2. passed' \in Seq(Results)
    BY <1>1, OutputType DEF Passed
  <2> QED
    BY <1>1, <2>1, <2>2, SameStream DEF Passed
<1>8. Progress(n)'
  BY <1>6, <1>7 DEF Progress
<1>9. Progress(next - 1)'
  BY <1>2, <1>8
<1> QED
  BY <1>3, <1>5, <1>9 DEF FramesInv

(* An improper frame has ended the socket. *)
LEMMA WasEnded ==
    ASSUME FramesInv, TakeFrame, NEW code \in {"closed", "1002", "1009"}, Fail(code),
           UNCHANGED passed, ~Proper(next),
           code = "closed" => Frame.opcode = "close", code = "1009" <=> TooLarge(next),
           UNCHANGED fragments, fragmentOpcode' \in {"none", "text", "binary"},
           fragmentBytes' \in 0 .. 2 * MaxMessageBytes
    PROVE  FramesInv'
<1>1. WireType /\ next \in 1 .. Len(wire) /\ Len(wire) \in Nat
      /\ AllProper(next - 1) /\ Passed(next - 1) /\ Frame = wire[next]
      /\ arrived \in Nat /\ Before(next + 1) <= arrived /\ Noticed(next) <= arrived
      /\ wire' = wire /\ arrived' = arrived /\ next' = next + 1
  BY Taken DEF Progress
<1>2. reading' = FALSE /\ outcome' = code
  BY DEF Fail
<1>3. Types'
  <2>1. WireType' /\ arrived' \in Nat /\ (arrived <= Before(Len(wire) + 1))'
        /\ (next \in 1 .. Len(wire) + 1)'
    BY <1>1, SameStream DEF FramesInv, Types
  <2>2. (Before(next) <= arrived)'
    <3>1. PICK n : n = next
      OBVIOUS
    <3>2. Before(n + 1)' = Before(n + 1) /\ next' = n + 1
      BY <1>1, <3>1, SameStream
    <3> QED
      BY <1>1, <3>1, <3>2 DEF Before
  <2> QED
    BY <1>2, <2>1, <2>2 DEF FramesInv, Types
<1>4. ASSUME NEW i, i = next PROVE EndedAt(i)'
  <2>1. Passed(i - 1)'
    BY <1>1, <1>4, SameStream DEF Passed
  <2> QED
    BY <1>1, <1>2, <1>4, <2>1, SameStream DEF EndedAt
<1>5. \E i \in 1 .. Len(wire) : EndedAt(i)'
  BY <1>1, <1>4
<1> QED
  BY <1>1, <1>2, <1>3, <1>5 DEF FramesInv

LEMMA HandleControlKeeps == FramesInv /\ HandleControl => FramesInv'
<1> SUFFICES ASSUME FramesInv, HandleControl PROVE FramesInv'
  OBVIOUS
<1>1. TakeFrame /\ KeepMessage
  BY DEF HandleControl
<1>2. /\ WireType /\ next \in 1 .. Len(wire) /\ Len(wire) \in Nat
      /\ ~EarlyFlaw(wire[next]) /\ GoodHeader(wire[next]) /\ wire' = wire
      /\ Frame = wire[next] /\ Passed(next - 1) /\ Kept(next - 1)
  BY <1>1, Taken DEF Progress
<1>3. CASE Frame.opcode \in {"ping", "pong"}
  <2>1. ~IsData(wire[next]) /\ Proper(next)
    BY <1>2, <1>3 DEF IsData, Proper
  <2>2. PICK n : n = next
    OBVIOUS
  <2>3. Pending(n) = Pending(n - 1) /\ PendingBytes(n) = PendingBytes(n - 1)
    BY <1>2, <2>1, <2>2, PendingSteps, PendingSums
  <2>4. Kept(n)'
    BY <1>1, <1>2, <2>2, <2>3, SameStream DEF Kept, KeepMessage
  <2>5. GoOn
    BY <1>3 DEF HandleControl
  <2>6. passed' = passed \o Output(next)
    <3>1. CASE Frame.opcode = "ping"
      <4>1. Output(next) = <<[what |-> "pong", bytes |-> Frame.len]>>
        BY <1>2, <3>1 DEF Output
      <4>2. passed' = Append(passed, [what |-> "pong", bytes |-> Frame.len])
        BY <3>1 DEF HandleControl
      <4>3. [what |-> "pong", bytes |-> Frame.len] \in Results
        BY <1>2 DEF Results
      <4> QED
        BY <1>2, <4>1, <4>2, <4>3 DEF Passed
    <3>2. CASE Frame.opcode = "pong"
      <4>1. Output(next) = <<>> /\ passed' = passed
        BY <1>2, <2>1, <3>2 DEF Output, HandleControl
      <4> QED
        BY <1>2, <4>1 DEF Passed
    <3> QED
      BY <1>3, <3>1, <3>2
  <2>7. fragmentBytes' \in Nat
    BY <1>1, LimitAssumption DEF FramesInv, Types, KeepMessage
  <2> QED
    BY <1>1, <2>1, <2>2, <2>4, <2>5, <2>6, <2>7, WentOn
<1>4. CASE Frame.opcode = "close"
  <2>1. PICK code \in {"closed", "1002"} : Fail(code) /\ UNCHANGED passed
    BY <1>4 DEF HandleControl
  <2>2. ~Proper(next) /\ ~TooLarge(next)
    BY <1>2, <1>4 DEF Proper, TooLarge, GoodHeader, Control
  <2>3. /\ UNCHANGED fragments /\ fragmentOpcode' \in {"none", "text", "binary"}
        /\ fragmentBytes' \in 0 .. 2 * MaxMessageBytes
    BY <1>1 DEF KeepMessage, FramesInv, Types
  <2>4. code \in {"closed", "1002", "1009"} /\ code # "1009"
    BY <2>1
  <2> QED
    BY <1>1, <1>4, <2>1, <2>2, <2>3, <2>4, WasEnded
<1> QED
  BY <1>3, <1>4 DEF HandleControl

LEMMA RejectSequenceKeeps == FramesInv /\ RejectSequence => FramesInv'
<1> SUFFICES ASSUME FramesInv, RejectSequence PROVE FramesInv'
  OBVIOUS
<1>1. TakeFrame /\ KeepMessage /\ Fail("1002") /\ UNCHANGED passed /\ OutOfSequence(Frame)
  BY DEF RejectSequence
<1>2. /\ next \in 1 .. Len(wire) /\ Len(wire) \in Nat
      /\ GoodHeader(wire[next]) /\ Frame = wire[next] /\ Kept(next - 1)
      /\ Frame.len \in Nat
  BY <1>1, Taken DEF Progress
<1>3. ~Proper(next) /\ ~TooLarge(next)
  <2>1. ASSUME IsData(Frame) PROVE ~InSequence(next)
    BY <1>1, <1>2, <2>1, SequenceJudged
  <2>2. ~IsData(Frame) => Frame.opcode \in {"reserved", "reserved control"}
    BY <1>1 DEF OutOfSequence, IsData
  <2>3. ~Proper(next)
    BY <1>2, <2>1, <2>2 DEF Proper
  <2>4. ~TooLarge(next)
    BY <1>2, <2>1, LimitAssumption DEF TooLarge, GoodHeader
  <2> QED
    BY <2>3, <2>4
<1>4. /\ UNCHANGED fragments /\ fragmentOpcode' \in {"none", "text", "binary"}
      /\ fragmentBytes' \in 0 .. 2 * MaxMessageBytes
  BY <1>1 DEF KeepMessage, FramesInv, Types
<1>5. "1002" \in {"closed", "1002", "1009"} /\ "1002" # "closed" /\ "1002" # "1009"
  OBVIOUS
<1> QED
  BY <1>1, <1>3, <1>4, <1>5, WasEnded

(* A data frame in sequence is proper unless its message has grown too large. *)
LEMMA DataJudged ==
    ASSUME FramesInv, TakeFrame, IsData(Frame), ~OutOfSequence(Frame)
    PROVE  /\ fragmentBytes + Frame.len = MessageBytes(next)
           /\ fragmentBytes + Frame.len \in 0 .. 2 * MaxMessageBytes
           /\ fragmentBytes \in Nat /\ InSequence(next)
           /\ Proper(next) <=> fragmentBytes + Frame.len <= MaxMessageBytes
           /\ TooLarge(next) <=> fragmentBytes + Frame.len > MaxMessageBytes
<1>1. /\ WireType /\ next \in 1 .. Len(wire) /\ Len(wire) \in Nat
      /\ ~EarlyFlaw(wire[next]) /\ GoodHeader(wire[next]) /\ Frame = wire[next]
      /\ Kept(next - 1) /\ Frame.len \in Nat /\ Frame.len <= MaxMessageBytes
  BY Taken DEF Progress
<1>2. InSequence(next)
  BY <1>1, SequenceJudged
<1>3. fragmentBytes + Frame.len = MessageBytes(next)
  BY <1>1, PendingSums DEF Kept
<1>4. fragmentBytes \in Nat /\ fragmentBytes <= MaxMessageBytes
  BY <1>1, LimitAssumption DEF FramesInv, Types, Kept
<1>5. fragmentBytes + Frame.len \in 0 .. 2 * MaxMessageBytes
  BY <1>1, <1>4, LimitAssumption
<1>6. Frame.opcode \notin Control /\ Frame.opcode \notin {"close", "reserved", "reserved control"}
  BY DEF IsData, Control
<1>7. Proper(next) <=> fragmentBytes + Frame.len <= MaxMessageBytes
  BY <1>1, <1>2, <1>3, <1>6 DEF Proper
<1>8. TooLarge(next) <=> fragmentBytes + Frame.len > MaxMessageBytes
  <2>1. /\ Frame.wide = "fits" /\ Frame.field = LengthField(Frame.len) /\ ~EarlyFlaw(Frame)
        /\ ~(Frame.len > MaxMessageBytes)
    BY <1>1, LimitAssumption DEF GoodHeader
  <2>2. TooLarge(next) <=> MessageBytes(next) > MaxMessageBytes
    BY <1>1, <1>2, <1>6, <2>1, Zenon DEF TooLarge
  <2> QED
    BY <1>3, <2>2
<1> QED
  BY <1>2, <1>3, <1>4, <1>5, <1>7, <1>8

(* The sum of the fragments kept so far and one more. *)
LEMMA SumAppend ==
    ASSUME NEW s, s \in Seq(Nat), NEW x \in Nat
    PROVE  Sum(Append(s, x)) = Sum(s) + x
<1>1. PICK n \in Nat : n = Len(s)
  OBVIOUS
<1>2. Append(s, x) \in [1 .. n + 1 -> Nat] /\ s \in [1 .. n -> Nat]
  <2>1. Append(s, x) \in Seq(Nat) /\ Len(Append(s, x)) = n + 1
    BY <1>1
  <2>2. \A t \in Seq(Nat) : t \in [1 .. Len(t) -> Nat]
    BY LenProperties, SeqDef
  <2> QED
    BY <1>1, <2>1, <2>2
<1>3. \A i \in 1 .. n : s[i] = Append(s, x)[i]
  BY <1>1
<1>4. Append(s, x)[n + 1] = x
  BY <1>1
<1> DEFINE f == Append(s, x)
<1>5. Sum(f) = Sum(s) + f[n + 1]
  <2>1. f \in [1 .. n + 1 -> Nat]
    BY <1>2
  <2>2. s \in [1 .. n -> Nat]
    BY <1>2
  <2>3. \A i \in 1 .. n : s[i] = f[i]
    BY <1>3
  <2> HIDE DEF f
  <2> QED
    BY ONLY <2>1, <2>2, <2>3, n \in Nat, SumStep
<1> QED
  BY <1>4, <1>5

LEMMA KeepFragmentKeeps == FramesInv /\ KeepFragment => FramesInv'
<1> SUFFICES ASSUME FramesInv, KeepFragment PROVE FramesInv'
  OBVIOUS
<1>1. /\ TakeFrame /\ IsData(Frame) /\ ~OutOfSequence(Frame) /\ ~Frame.fin /\ UNCHANGED passed
      /\ fragmentBytes' = fragmentBytes + Frame.len
  BY DEF KeepFragment
<1>2. /\ WireType /\ next \in 1 .. Len(wire) /\ Len(wire) \in Nat /\ wire' = wire
      /\ Frame = wire[next] /\ Kept(next - 1) /\ Passed(next - 1) /\ Frame.len \in Nat
  BY <1>1, Taken DEF Progress
<1>3. /\ fragmentBytes' \in 0 .. 2 * MaxMessageBytes
      /\ Proper(next) <=> fragmentBytes' <= MaxMessageBytes
      /\ TooLarge(next) <=> fragmentBytes' > MaxMessageBytes
  BY <1>1, DataJudged
<1>4. fragmentOpcode' = (IF Frame.opcode = "continuation" THEN fragmentOpcode ELSE Frame.opcode)
      /\ fragmentOpcode' \in {"none", "text", "binary"} /\ fragmentOpcode' # "none"
  BY <1>1, <1>2 DEF KeepFragment, IsData, OutOfSequence, Kept
<1>5. CASE fragmentBytes' > MaxMessageBytes
  <2>1. Fail("1009") /\ UNCHANGED fragments
    BY <1>5 DEF KeepFragment
  <2>2. ~Proper(next) /\ TooLarge(next)
    BY <1>3, <1>5, LimitAssumption
  <2>3. "1009" \in {"closed", "1002", "1009"} /\ "1009" # "closed"
    OBVIOUS
  <2> QED
    BY <1>1, <1>3, <1>4, <2>1, <2>2, <2>3, WasEnded
<1>6. CASE ~(fragmentBytes' > MaxMessageBytes)
  <2>1. fragments' = Append(fragments, Frame.len) /\ GoOn
    BY <1>6 DEF KeepFragment
  <2>2. fragmentBytes' <= MaxMessageBytes /\ Proper(next) /\ fragmentBytes' \in Nat
    BY <1>3, <1>6, LimitAssumption
  <2>3. Output(next) = <<>>
    BY <1>1, <1>2 DEF Output, IsData
  <2>4. passed' = passed \o Output(next)
    BY <1>1, <1>2, <2>3 DEF Passed
  <2>5. PICK n : n = next
    OBVIOUS
  <2>6. Pending(n) = Pending(n - 1) \cup {n} /\ PendingBytes(n) = PendingBytes(n - 1) + Frame.len
        /\ Pending(n - 1) \in SUBSET (1 .. n - 1) /\ n \in Nat
    <3>1. n \in Nat \ {0}
      BY <1>2, <2>5
    <3>2. Pending(n) = Pending(n - 1) \cup {n}
      BY <1>1, <1>2, <2>5, <3>1, PendingSteps
    <3>3. PendingBytes(n) = PendingBytes(n - 1) + Frame.len
      BY <1>1, <1>2, <2>5, PendingSums
    <3> QED
      BY <3>1, <3>2, <3>3 DEF Pending
  <2>7. fragments' \in Seq(Nat) /\ Sum(fragments') = fragmentBytes'
    BY <1>1, <1>2, <2>1, SumAppend DEF Kept
  <2>8. fragmentBytes' = PendingBytes(n)
    BY <1>1, <1>2, <2>5, <2>6 DEF Kept
  <2>9. ASSUME NEW k \in Pending(n), \A m \in Pending(n) : k <= m
        PROVE  wire[k].opcode = fragmentOpcode'
    <3>1. CASE Pending(n - 1) = {}
      <4>1. k = n /\ fragmentOpcode = "none"
        BY <1>2, <2>5, <2>6, <3>1 DEF Kept
      <4>2. Frame.opcode # "continuation"
        BY <1>1, <4>1 DEF OutOfSequence
      <4> QED
        BY <1>2, <1>4, <2>5, <4>1, <4>2
    <3>2. CASE Pending(n - 1) # {}
      <4>1. k \in Pending(n - 1) /\ \A m \in Pending(n - 1) : k <= m
        BY <2>6, <2>9, <3>2
      <4>2. wire[k].opcode = fragmentOpcode /\ fragmentOpcode # "none"
        BY <1>2, <2>5, <3>2, <4>1 DEF Kept
      <4>3. Frame.opcode = "continuation"
        BY <1>1, <4>2 DEF IsData, OutOfSequence
      <4> QED
        BY <1>4, <4>2, <4>3
    <3> QED
      BY <3>1, <3>2
  <2>10. Kept(n)'
    BY <1>2, <1>4, <2>2, <2>6, <2>7, <2>8, <2>9, SameStream DEF Kept
  <2> QED
    BY <1>1, <2>1, <2>2, <2>4, <2>5, <2>10, WentOn
<1> QED
  BY <1>5, <1>6

LEMMA CompleteMessageKeeps == FramesInv /\ CompleteMessage => FramesInv'
<1> SUFFICES ASSUME FramesInv, CompleteMessage PROVE FramesInv'
  OBVIOUS
<1>1. TakeFrame /\ IsData(Frame) /\ ~OutOfSequence(Frame) /\ Frame.fin
  BY DEF CompleteMessage
<1>2. /\ WireType /\ next \in 1 .. Len(wire) /\ Len(wire) \in Nat /\ wire' = wire
      /\ Frame = wire[next] /\ Kept(next - 1) /\ Passed(next - 1) /\ Frame.len \in Nat
  BY <1>1, Taken DEF Progress
<1>3. /\ Proper(next) <=> fragmentBytes + Frame.len <= MaxMessageBytes
      /\ TooLarge(next) <=> fragmentBytes + Frame.len > MaxMessageBytes
      /\ fragmentBytes + Frame.len = MessageBytes(next)
      /\ fragmentBytes + Frame.len \in Nat /\ InSequence(next)
  BY <1>1, DataJudged
<1>4. CASE fragmentBytes + Frame.len > MaxMessageBytes
  <2>1. Fail("1009") /\ UNCHANGED passed /\ KeepMessage
    BY <1>4 DEF CompleteMessage
  <2>2. ~Proper(next) /\ TooLarge(next)
    BY <1>3, <1>4, LimitAssumption
  <2>3. "1009" \in {"closed", "1002", "1009"} /\ "1009" # "closed"
    OBVIOUS
  <2>4. /\ UNCHANGED fragments /\ fragmentOpcode' \in {"none", "text", "binary"}
        /\ fragmentBytes' \in 0 .. 2 * MaxMessageBytes
    BY <2>1 DEF KeepMessage, FramesInv, Types
  <2> QED
    BY <1>1, <2>1, <2>2, <2>3, <2>4, WasEnded
<1>5. CASE ~(fragmentBytes + Frame.len > MaxMessageBytes)
  <2> DEFINE kind == IF Frame.opcode = "continuation" THEN fragmentOpcode ELSE Frame.opcode
  <2>1. /\ passed' = Append(passed, [what |-> kind, bytes |-> Sum(Append(fragments, Frame.len))])
        /\ fragments' = <<>> /\ fragmentOpcode' = "none" /\ fragmentBytes' = 0
        /\ GoOn
    BY <1>5 DEF CompleteMessage
  <2>2. Proper(next)
    BY <1>3, <1>5, LimitAssumption
  <2>3. MessageKind(next) = kind
    BY <1>1, <1>2, <1>3, MessageKindIs
  <2>4. Sum(Append(fragments, Frame.len)) = MessageBytes(next)
    BY <1>2, <1>3, SumAppend DEF Kept
  <2>5. passed' = passed \o Output(next)
    <3> DEFINE r == [what |-> MessageKind(next), bytes |-> MessageBytes(next)]
    <3>1. Output(next) = <<r>>
      BY <1>1, <1>2 DEF Output, IsData
    <3>2. r \in Results
      BY <1>2 DEF Results
    <3>3. passed' = Append(passed, r)
      BY <2>1, <2>3, <2>4
    <3> HIDE DEF r
    <3> QED
      BY <1>2, <3>1, <3>2, <3>3 DEF Passed
  <2>6. PICK n : n = next
    OBVIOUS
  <2>7. Pending(n) = {} /\ PendingBytes(n) = 0
    BY <1>1, <1>2, <2>6, PendingSteps, PendingSums
  <2>8. Sum(<<>>) = 0
    BY SumOfNone
  <2>9. Kept(n)'
    BY <1>2, <2>1, <2>7, <2>8, LimitAssumption, SameStream DEF Kept
  <2>10. fragmentBytes' \in Nat
    BY <2>1
  <2> QED
    BY <1>1, <2>1, <2>2, <2>5, <2>6, <2>9, <2>10, WentOn
<1> QED
  BY <1>4, <1>5

LEMMA Stutters == FramesInv /\ UNCHANGED vars => FramesInv'
<1> SUFFICES ASSUME FramesInv, UNCHANGED vars PROVE FramesInv'
  OBVIOUS
<1>1. wire' = wire
  BY DEF vars
<1>2. Types'
  BY <1>1, SameStream DEF FramesInv, Types, vars
<1>3. \A n : Passed(n)' <=> Passed(n)
  BY <1>1, SameStream DEF Passed, vars
<1>4. \A n : Kept(n)' <=> Kept(n)
  BY <1>1, SameStream DEF Kept, vars
<1>5. \A n : EndedAt(n)' <=> EndedAt(n)
  BY <1>1, <1>3, SameStream DEF EndedAt, vars
<1>6. \A n : Progress(n)' <=> Progress(n)
  BY <1>1, <1>3, <1>4, SameStream DEF Progress
<1>7. next' = next /\ reading' = reading /\ outcome' = outcome
  BY DEF vars
<1>8. Progress(next - 1)' <=> Progress(next - 1)
  BY <1>6, <1>7
<1>9. Short' <=> Short
  BY <1>1, <1>7, SameStream DEF Short, Buffered, vars
<1> QED
  BY <1>1, <1>2, <1>5, <1>7, <1>8, <1>9 DEF FramesInv

THEOREM Inductive == Spec => []FramesInv
<1>1. FramesInv /\ [Next]_vars => FramesInv'
  BY ReceiveDataKeeps, AwaitBytesKeeps, RejectHeaderKeeps, HandleControlKeeps,
     RejectSequenceKeeps, KeepFragmentKeeps, CompleteMessageKeeps, Stutters DEF Next
<1> QED
  BY Initially, <1>1, PTL DEF Spec

(* Every variable keeps its type, whatever the stream and the cuts: the     *)
(* bytes of the frames taken have arrived, and #fragmentBytes is at most    *)
(* twice the limit of a message.                                            *)
THEOREM TypeCorrect == Spec => []TypeOK
<1>1. FramesInv => TypeOK
  <2> SUFFICES ASSUME FramesInv PROVE TypeOK
    OBVIOUS
  <2>1. Len(wire) \in Nat /\ Before(Len(wire) + 1) \in Nat
    BY LenProperties, BeforeType DEF FramesInv, Types, WireType
  <2> QED
    BY <2>1 DEF FramesInv, Types, WireType, TypeOK
<1> QED
  BY Inductive, <1>1, PTL

(* Between two chunks #buffer holds less than one frame of the largest      *)
(* size, and the fragments kept are within the limit of a message.          *)
THEOREM BufferStaysBounded == Spec => []BufferIsBounded
<1>1. FramesInv => BufferIsBounded
  BY DEF FramesInv, Short, Progress, Kept, BufferIsBounded
<1> QED
  BY Inductive, <1>1, PTL

(* However the bytes are cut into chunks, when receiveData has returned the *)
(* messages passed on and the outcome are those of the frames that have     *)
(* arrived: a function of the stream and of the number of bytes alone.      *)
THEOREM SameAlways == Spec => []SameHoweverCut
<1>1. FramesInv => SameHoweverCut
  <2> SUFFICES ASSUME FramesInv, ~reading PROVE SameHoweverCut
    BY DEF SameHoweverCut
  <2>1. WireType /\ Len(wire) \in Nat /\ next \in 1 .. Len(wire) + 1 /\ arrived \in Nat
        /\ Before(next) \in Nat /\ Before(next) <= arrived /\ DOMAIN wire = 1 .. Len(wire)
    BY LenProperties, BeforeType DEF FramesInv, Types, WireType
  <2>2. ASSUME NEW i \in 1 .. Len(wire), NEW j \in i + 1 .. Len(wire) + 1
        PROVE  Noticed(i) <= Before(j) /\ Noticed(i) \in Nat /\ Before(j) \in Nat
    <3>1. i + 1 \in 1 .. Len(wire) + 1 /\ j \in 1 .. Len(wire) + 1
      BY <2>1
    <3>2. Noticed(i) <= Before(i + 1) /\ Noticed(i) \in Nat
      BY <2>1, NoticedWithin
    <3>3. Before(i + 1) <= Before(j) /\ Before(i + 1) \in Nat /\ Before(j) \in Nat
      BY <2>1, <3>1, BeforeGrows, BeforeType
    <3> QED
      BY <3>2, <3>3
  <2>3. ASSUME NEW n \in 0 .. Len(wire)
        PROVE  Cardinality(1 .. n) = n
    BY FS_Interval
  <2>4. CASE outcome = "open"
    <3>1. AllProper(next - 1) /\ Passed(next - 1) /\ (next <= Len(wire) => arrived < Noticed(next))
      BY <2>4 DEF FramesInv, Progress, Short
    <3>2. ASSUME NEW i \in 1 .. next - 1 PROVE i \in Seen /\ Proper(i)
      <4>1. i \in 1 .. Len(wire) /\ next \in i + 1 .. Len(wire) + 1
        BY <2>1
      <4>2. Noticed(i) <= arrived
        BY <2>1, <2>2, <4>1
      <4>3. Proper(i) /\ \A k \in 1 .. i - 1 : Proper(k)
        BY <2>1, <3>1 DEF AllProper
      <4> QED
        BY <2>1, <4>1, <4>2, <4>3 DEF Seen
    <3>3. ASSUME NEW i \in Seen PROVE i \in 1 .. next - 1
      <4>1. i \in 1 .. Len(wire) /\ Noticed(i) <= arrived
        BY <2>1 DEF Seen
      <4>2. CASE i = next
        BY <2>1, <2>2, <3>1, <4>1, <4>2, NoticedWithin
      <4>3. CASE i > next
        <5>1. next \in 1 .. Len(wire) /\ i \in next + 1 .. Len(wire) + 1 /\ i \in 1 .. Len(wire) + 1
          BY <2>1, <4>1, <4>3
        <5>2. Noticed(next) <= Before(i) /\ Before(i) + 2 <= Noticed(i)
              /\ Noticed(next) \in Nat /\ Noticed(i) \in Nat /\ Before(i) \in Nat
          BY <2>1, <2>2, <4>1, <5>1, NoticedWithin
        <5> QED
          BY <2>1, <3>1, <4>1, <5>1, <5>2
      <4> QED
        BY <2>1, <4>1, <4>2, <4>3
    <3>4. Seen = 1 .. next - 1 /\ Flaw = {}
      BY <3>2, <3>3 DEF Flaw
    <3>5. Cardinality(Seen \ Flaw) = next - 1
      <4>1. next - 1 \in 0 .. Len(wire) /\ Seen \ Flaw = 1 .. next - 1
        BY <2>1, <3>4
      <4> QED
        BY <2>3, <4>1
    <3> QED
      BY <2>4, <3>1, <3>4, <3>5 DEF SameHoweverCut, Passed, Outputs
  <2>5. CASE outcome # "open"
    <3>1. PICK i \in 1 .. Len(wire) : EndedAt(i)
      BY <2>5 DEF FramesInv
    <3>2. ASSUME NEW k \in 1 .. i PROVE k \in Seen /\ (k # i => Proper(k))
      <4>1. k \in 1 .. Len(wire) /\ \A m \in 1 .. k - 1 : Proper(m)
        BY <2>1, <3>1 DEF EndedAt, AllProper
      <4>2. k # i => Proper(k)
        BY <3>1 DEF EndedAt, AllProper
      <4>3. Noticed(k) <= arrived
        <5>1. CASE k = i
          BY <3>1, <5>1 DEF EndedAt
        <5>2. CASE k # i
          <6>1. i \in k + 1 .. Len(wire) + 1 /\ k \in 1 .. Len(wire)
            BY <2>1, <5>2
          <6>2. Noticed(k) <= Before(i) /\ Before(i) <= Noticed(i) /\ Noticed(i) <= arrived
                /\ Noticed(k) \in Nat /\ Noticed(i) \in Nat /\ Before(i) \in Nat
            BY <2>1, <2>2, <3>1, <6>1, NoticedWithin DEF EndedAt
          <6> QED
            BY <2>1, <6>2
        <5> QED
          BY <5>1, <5>2
      <4> QED
        BY <2>1, <4>1, <4>2, <4>3 DEF Seen
    <3>3. ASSUME NEW k \in Seen PROVE k \in 1 .. i
      <4>1. k \in 1 .. Len(wire) /\ \A m \in 1 .. k - 1 : Proper(m)
        BY <2>1 DEF Seen
      <4>2. ~Proper(i)
        BY <3>1 DEF EndedAt
      <4> QED
        BY <4>1, <4>2
    <3>4. ~Proper(i)
      BY <3>1 DEF EndedAt
    <3>5. Flaw = {i} /\ Seen \ Flaw = 1 .. i - 1
      <4>1. Flaw = {i}
        BY <3>2, <3>3, <3>4 DEF Flaw
      <4>2. Seen = 1 .. i
        BY <3>2, <3>3
      <4> QED
        BY <4>1, <4>2
    <3>6. Cardinality(Seen \ Flaw) = i - 1
      <4>1. i - 1 \in 0 .. Len(wire)
        BY <2>1
      <4> QED
        BY <2>3, <3>5, <4>1
    <3> QED
      BY <2>5, <3>1, <3>5, <3>6 DEF SameHoweverCut, EndedAt, Passed, Outputs
  <2> QED
    BY <2>4, <2>5
<1> QED
  BY Inductive, <1>1, PTL
=============================================================================
