--------------------------- MODULE ListSort_proofs ---------------------------
(***************************************************************************)
(* Theorems about ListSort: list.sort keeps the items of the list whatever   *)
(* the comparison answers, stays within the list and its stack, and leaves   *)
(* the list in order if the comparison is one.                               *)
(***************************************************************************)
EXTENDS ListSort, SequenceTheorems, TLAPS

(***************************************************************************)
(* The invariant.  Each samplesortslice under way is responsible for a slice *)
(* of the list, and of that only some parts, no two of which overlap, are    *)
(* still to be sorted: the one at hand, and those on its stack.  Items not   *)
(* both in one part are in order.  The definitions take the order k and the  *)
(* array b as parameters; with k = NoOrder nothing is said of the order.     *)
(***************************************************************************)
Le(k, x, y) == k = NoOrder \/ k[x] <= k[y]

Sorted(k, b, x, y) ==
  \A i, j \in Places : x <= i /\ i < j /\ j < y => Le(k, b[i], b[j])
Falling(k, b, x, y) ==
  \A i, j \in Places : x <= i /\ i < j /\ j < y => Le(k, b[j], b[i])

\* The items of [x, y) followed by those of [u, v) are in order.
SortedTwo(k, b, x, y, u, v) ==
  \A i, j \in Places :
    /\ i < j
    /\ (x <= i /\ i < y) \/ (u <= i /\ i < v)
    /\ (x <= j /\ j < y) \/ (u <= j /\ j < v)
    => Le(k, b[i], b[j])

\* x is the number of pivots of m halvings at most.
HasBits(x, m) == \E i \in 0 .. MAXBITS : i <= m /\ x = Power[i] - 1

Node == [lo : Int, hi : Int, extra : Nat, right : BOOLEAN]
Frame == [lo : Int, hi : Int, extra : Nat, right : BOOLEAN, stack : Seq(Node),
          at : {"partition", "pop"}]

\* A slice on the stack, with its pivots.
From(n) == IF n.right THEN n.lo ELSE n.lo - n.extra
To(n) == IF n.right THEN n.hi + n.extra ELSE n.hi

\* A samplesortslice for [x, y) with the stack S works at [c, d).
Shape(x, y, S, c, d) ==
  /\ x <= c /\ c <= d /\ d <= y
  /\ \A i \in 1 .. Len(S) :
       /\ x <= From(S[i]) /\ S[i].lo <= S[i].hi /\ To(S[i]) <= y
       /\ To(S[i]) <= c \/ d <= From(S[i])
       /\ HasBits(S[i].extra, STACKSIZE - i)
  /\ \A i, j \in 1 .. Len(S) : i # j => To(S[i]) <= From(S[j]) \/ To(S[j]) <= From(S[i])

Order(k, b, x, y, S, c, d) ==
  \A i, j \in Places :
    x <= i /\ i < j /\ j < y =>
      \/ Le(k, b[i], b[j])
      \/ c <= i /\ j < d
      \/ \E m \in 1 .. Len(S) : From(S[m]) <= i /\ j < To(S[m])

PivotsSorted(k, b, S) ==
  \A m \in 1 .. Len(S) : SortedTwo(k, b, From(S[m]), S[m].lo, S[m].hi, To(S[m]))

Level(k, b, x, y, S, c, d) ==
  Shape(x, y, S, c, d) /\ Order(k, b, x, y, S, c, d) /\ PivotsSorted(k, b, S)

\* The slice that a samplesortslice called itself for, and those of all under way.
CallFrom(f) == f.lo - f.extra
CallTo(f) == IF f.at = "partition" THEN f.lo ELSE f.hi
LevelFrom(cs, m) == IF m = 0 THEN 0 ELSE CallFrom(cs[m])
LevelTo(cs, m) == IF m = 0 THEN Size ELSE CallTo(cs[m])

Nested(cs) ==
  \A m, n \in 0 .. Len(cs) :
    m <= n => LevelFrom(cs, m) <= LevelFrom(cs, n) /\ LevelTo(cs, n) <= LevelTo(cs, m)

Waits(k, b, x, y, f) ==
  /\ f.at = "pop" => f.extra = 0
  /\ f.at = "partition" => f.stack = <<>> /\ ~f.right
  /\ f.lo <= f.hi
  /\ HasBits(f.extra, STACKSIZE - Len(f.stack))
  /\ Level(k, b, x, y, f.stack, CallFrom(f), f.hi)

Callers(k, b, cs) ==
  /\ Nested(cs)
  /\ \A m \in 1 .. Len(cs) : Waits(k, b, LevelFrom(cs, m - 1), LevelTo(cs, m - 1), cs[m])

-----------------------------------------------------------------------------
(* What holds at each place of the program *)

First == LevelFrom(calls, Len(calls))
Last == LevelTo(calls, Len(calls))
Works(c, d) == Level(key, a, First, Last, stack, c, d)

\* The slice at hand has left pivots on its left and other pivots on its right.
Around(left, other) ==
  /\ lo <= hi
  /\ Works(lo - left, hi + other)
  /\ SortedTwo(key, a, lo - left, lo, hi, hi + other)

InSlice ==
  at \in {"slice", "up", "down", "sample"} =>
    stack = <<>> /\ lo = First /\ hi = Last /\ lo <= hi
InUp == at = "up" => lo < r /\ r <= hi /\ Sorted(key, a, lo, r)
InDown ==
  at = "down" => lo < r /\ r <= hi /\ Falling(key, a, lo, r) /\ hi - lo >= MINSIZE
InSample ==
  at = "sample" => HasBits(extra, STACKSIZE) /\ extra <= hi - lo /\ count \in 0 .. extra
InInsert ==
  at = "insert" =>
    /\ Works(begin, end) /\ Sorted(key, a, begin, start)
    /\ start < end /\ begin <= l /\ l < r /\ r <= start
    /\ \A i \in Places : begin <= i /\ i < l => Le(key, a[i], a[start])
    /\ \A i \in Places : r <= i /\ i < start => Le(key, a[start], a[i])
    /\ then \in {"return", "pop"} /\ (then = "return" => stack = <<>>)
InGather == at = "gather" => count \in 0 .. extra /\ Around(extra - count, count)
InPartition ==
  at = "partition" =>
    /\ HasBits(extra, STACKSIZE - Len(stack))
    /\ IF right THEN Around(0, extra) ELSE Around(extra, 0)
InSpread ==
  at = "spread" =>
    /\ HasBits(extra, STACKSIZE - Len(stack) - 1) /\ hi - lo >= 2
    /\ IF right THEN count \in 0 .. extra + 1 /\ Around(extra + 1 - count, extra + count)
       ELSE count \in 0 .. extra /\ Around(extra + 1 + count, extra - count)
InSlide ==
  at \in {"slideL", "slideR", "meet"} =>
    /\ HasBits(extra, STACKSIZE - Len(stack) - 1)
    /\ Works(lo - extra, hi + extra) /\ SortedTwo(key, a, lo - extra, lo + 1, hi, hi + extra)
    /\ lo < l /\ l <= r + 1 /\ r < hi
    /\ \A i \in Places : lo < i /\ i < l => Le(key, a[i], a[lo])
    /\ \A i \in Places : r < i /\ i < hi => Le(key, a[lo], a[i])
    /\ at = "slideL" => l < r
    /\ at = "slideR" => l <= r /\ Le(key, a[lo], a[l])
    /\ at = "meet" => r <= l
InDups ==
  at = "dups" =>
    /\ HasBits(extra, STACKSIZE - Len(stack) - 1)
    /\ Works(lo - extra, hi + extra) /\ SortedTwo(key, a, lo - extra, lo, hi, hi + extra)
    /\ lo <= r /\ r < l /\ l <= hi
    /\ \A i \in Places : lo - extra <= i /\ i < l => Le(key, a[i], a[r])
    /\ \A i \in Places : r <= i /\ i < hi + extra => Le(key, a[r], a[i])
InPop ==
  /\ at \in {"pop", "return", "sorted"} => Works(First, First)
  /\ at \in {"return", "sorted"} => stack = <<>>
  /\ at = "sorted" => calls = <<>>

TypeOK ==
  /\ key \in [Items -> Keys] \cup {NoOrder}
  /\ a \in [Places -> Items]
  /\ at \in {"slice", "up", "down", "sample", "insert", "gather", "partition", "spread",
             "slideL", "slideR", "meet", "dups", "pop", "return", "sorted", "failed"}
  /\ lo \in Int /\ hi \in Int /\ extra \in Nat /\ right \in BOOLEAN /\ stack \in Seq(Node)
  /\ l \in Int /\ r \in Int /\ count \in Nat
  /\ begin \in Int /\ end \in Int /\ start \in Int /\ then \in {"return", "pop"}
  /\ calls \in Seq(Frame)

Here ==
  /\ InSlice /\ InUp /\ InDown /\ InSample /\ InInsert /\ InGather /\ InPartition
  /\ InSpread /\ InSlide /\ InDups /\ InPop

SortInv ==
  /\ TypeOK /\ Permutation
  /\ 0 <= lo /\ hi <= Size
  /\ at # "failed" => Callers(key, a, calls) /\ Here

-----------------------------------------------------------------------------
(* The order and the array *)

Keyings == [Items -> Keys] \cup {NoOrder}
Arrays == [Places -> Items]

LEMMA LeTransitive ==
  ASSUME NEW k \in Keyings, NEW x \in Items, NEW y \in Items, NEW z \in Items,
         Le(k, x, y), Le(k, y, z)
  PROVE  Le(k, x, z)
<1>1. CASE k = NoOrder
  BY <1>1 DEF Le
<1>2. CASE k # NoOrder
  <2>1. k \in [Items -> Keys]
    BY <1>2 DEF Keyings
  <2>2. k[x] \in Int /\ k[y] \in Int /\ k[z] \in Int
    BY <2>1, SortAssumption
  <2>3. k[x] <= k[y] /\ k[y] <= k[z]
    BY <1>2 DEF Le
  <2> QED BY <2>2, <2>3 DEF Le
<1> QED BY <1>1, <1>2

LEMMA LeReflexive ==
  ASSUME NEW k \in Keyings, NEW x \in Items
  PROVE  Le(k, x, x)
<1>1. CASE k = NoOrder
  BY <1>1 DEF Le
<1>2. CASE k # NoOrder
  <2>1. k \in [Items -> Keys] /\ k[x] \in Int
    BY <1>2, SortAssumption DEF Keyings
  <2> QED BY <2>1 DEF Le
<1> QED BY <1>1, <1>2

\* b2 is b with the items of [u, v) permuted.
Permuted(b, b2, u, v) ==
  /\ b2 \in Arrays
  /\ \A i \in Places : ~(u <= i /\ i < v) => b2[i] = b[i]
  /\ \A i \in Places : u <= i /\ i < v =>
       \E j \in Places : u <= j /\ j < v /\ b2[i] = b[j]
  /\ \A j \in Places : u <= j /\ j < v =>
       \E i \in Places : u <= i /\ i < v /\ b2[i] = b[j]

LEMMA SwapPermutes ==
  ASSUME NEW b \in Arrays, NEW i \in Places, NEW j \in Places, NEW u \in Int, NEW v \in Int,
         u <= i, i < v, u <= j, j < v
  PROVE  /\ Permuted(b, Swapped(b, i, j), u, v)
         /\ \A p \in Places :
              Swapped(b, i, j)[p] = IF p = j THEN b[i] ELSE IF p = i THEN b[j] ELSE b[p]
<1> DEFINE b2 == Swapped(b, i, j)
<1>1. b2 \in Arrays
  BY DEF Swapped, Arrays
<1>2. \A p \in Places : b2[p] = IF p = j THEN b[i] ELSE IF p = i THEN b[j] ELSE b[p]
  BY DEF Swapped, Arrays
<1> HIDE DEF b2
<1>3. Permuted(b, b2, u, v)
  <2>1. \A p \in Places : ~(u <= p /\ p < v) => b2[p] = b[p]
    BY <1>2
  <2>2. \A p \in Places : u <= p /\ p < v =>
          \E q \in Places : u <= q /\ q < v /\ b2[p] = b[q]
    BY <1>2
  <2>3. \A q \in Places : u <= q /\ q < v =>
          \E p \in Places : u <= p /\ p < v /\ b2[p] = b[q]
    BY <1>2
  <2> QED BY <1>1, <2>1, <2>2, <2>3 DEF Permuted
<1> QED BY <1>2, <1>3 DEF b2

LEMMA InsertPermutes ==
  ASSUME NEW b \in Arrays, NEW i \in Places, NEW s \in Places, NEW u \in Int, NEW v \in Int,
         u <= i, i <= s, s < v
  PROVE  /\ Permuted(b, Inserted(b, i, s), u, v)
         /\ \A p \in Places :
              Inserted(b, i, s)[p] = IF p = i THEN b[s]
                                     ELSE IF i < p /\ p <= s THEN b[p - 1] ELSE b[p]
<1> DEFINE b2 == Inserted(b, i, s)
<1>0. \A p \in Places : i < p => p - 1 \in Places
  BY SortAssumption DEF Places
<1>1. b2 \in Arrays
  <2>1. ASSUME NEW p \in Places
        PROVE  (IF p = i THEN b[s] ELSE IF i < p /\ p <= s THEN b[p - 1] ELSE b[p]) \in Items
    BY <1>0 DEF Arrays
  <2> QED BY <2>1 DEF Inserted, Arrays
<1>2. \A p \in Places :
        b2[p] = IF p = i THEN b[s] ELSE IF i < p /\ p <= s THEN b[p - 1] ELSE b[p]
  BY DEF Inserted
<1> HIDE DEF b2
<1>3. Permuted(b, b2, u, v)
  <2>1. \A p \in Places : ~(u <= p /\ p < v) => b2[p] = b[p]
    BY <1>2, SortAssumption DEF Places
  <2>2. \A p \in Places : u <= p /\ p < v =>
          \E q \in Places : u <= q /\ q < v /\ b2[p] = b[q]
    BY <1>0, <1>2, SortAssumption DEF Places
  <2>3. ASSUME NEW q \in Places, u <= q, q < v
        PROVE  \E p \in Places : u <= p /\ p < v /\ b2[p] = b[q]
    <3>1. CASE q = s
      BY <1>2, <3>1, SortAssumption DEF Places
    <3>2. CASE i <= q /\ q < s
      <4>1. q + 1 \in Places /\ u <= q + 1 /\ q + 1 < v /\ i < q + 1 /\ q + 1 <= s
        BY <3>2, SortAssumption DEF Places
      <4>2. PICK p \in Places : p = q + 1
        BY <4>1
      <4>3. p - 1 = q /\ p # i
        BY <4>1, <4>2, SortAssumption DEF Places
      <4>4. b2[p] = b[q]
        BY <1>2, <4>1, <4>2, <4>3
      <4> QED BY <4>1, <4>2, <4>4
    <3>3. CASE q < i \/ s < q
      BY <1>2, <2>3, <3>3, SortAssumption DEF Places
    <3> QED BY <3>1, <3>2, <3>3, SortAssumption DEF Places
  <2> QED BY <1>1, <2>1, <2>2, <2>3 DEF Permuted
<1> QED BY <1>2, <1>3 DEF b2

LEMMA ReversalPermutes ==
  ASSUME NEW b \in Arrays, NEW x \in Int, NEW y \in Int, NEW u \in Int, NEW v \in Int,
         0 <= x, y <= Size, u <= x, y <= v
  PROVE  /\ Permuted(b, Reversed(b, x, y), u, v)
         /\ \A p \in Places :
              Reversed(b, x, y)[p] = IF x <= p /\ p < y THEN b[x + y - 1 - p] ELSE b[p]
<1> DEFINE b2 == Reversed(b, x, y)
<1>0. \A p \in Places : x <= p /\ p < y =>
        x + y - 1 - p \in Places /\ x <= x + y - 1 - p /\ x + y - 1 - p < y
  BY SortAssumption DEF Places
<1>1. b2 \in Arrays
  BY <1>0 DEF Reversed, Arrays
<1>2. \A p \in Places : b2[p] = IF x <= p /\ p < y THEN b[x + y - 1 - p] ELSE b[p]
  BY DEF Reversed
<1> HIDE DEF b2
<1>3. Permuted(b, b2, u, v)
  <2>1. \A p \in Places : ~(u <= p /\ p < v) => b2[p] = b[p]
    BY <1>2, SortAssumption DEF Places
  <2>2. ASSUME NEW p \in Places, u <= p, p < v
        PROVE  \E q \in Places : u <= q /\ q < v /\ b2[p] = b[q]
    BY <1>0, <1>2, <2>2, SortAssumption DEF Places
  <2>3. ASSUME NEW q \in Places, u <= q, q < v
        PROVE  \E p \in Places : u <= p /\ p < v /\ b2[p] = b[q]
    <3>1. CASE x <= q /\ q < y
      <4>1. PICK p \in Places : p = x + y - 1 - q
        BY <1>0, <3>1
      <4>2. x <= p /\ p < y /\ x + y - 1 - p = q
        BY <3>1, <4>1, SortAssumption DEF Places
      <4> QED BY <1>2, <4>1, <4>2, SortAssumption DEF Places
    <3>2. CASE ~(x <= q /\ q < y)
      BY <1>2, <2>3, <3>2
    <3> QED BY <3>1, <3>2
  <2> QED BY <1>1, <2>1, <2>2, <2>3 DEF Permuted
<1> QED BY <1>2, <1>3 DEF b2

LEMMA PermutedItems ==
  ASSUME NEW b \in Arrays, NEW b2, NEW u, NEW v, Permuted(b, b2, u, v)
  PROVE  {b2[i] : i \in Places} = {b[i] : i \in Places}
<1>1. ASSUME NEW i \in Places PROVE \E j \in Places : b2[i] = b[j]
  BY <1>1 DEF Permuted
<1>2. ASSUME NEW j \in Places PROVE \E i \in Places : b2[i] = b[j]
  BY <1>2 DEF Permuted
<1> QED BY <1>1, <1>2

-----------------------------------------------------------------------------
(* One samplesortslice *)

Popped(S) == SubSeq(S, 1, Len(S) - 1)

LEMMA AllButLast ==
  ASSUME NEW T, NEW S \in Seq(T), S # <<>>
  PROVE  /\ Len(S) \in Nat \ {0} /\ S[Len(S)] \in T
         /\ Popped(S) \in Seq(T) /\ Len(Popped(S)) = Len(S) - 1
         /\ \A i \in 1 .. Len(S) - 1 : Popped(S)[i] = S[i]
<1>1. PICK m \in Nat \ {0} : m = Len(S)
  BY EmptySeq
<1>2. PICK n \in Int : n = m - 1
  BY <1>1
<1>3. \A i \in 1 .. n : S[i] \in T
  BY <1>1, <1>2, ElementOfSeq
<1>4. /\ SubSeq(S, 1, n) \in Seq(T)
      /\ Len(SubSeq(S, 1, n)) = IF 1 <= n THEN n - 1 + 1 ELSE 0
      /\ \A i \in 1 .. n - 1 + 1 : SubSeq(S, 1, n)[i] = S[1 + i - 1]
  BY <1>3, SubSeqProperties
<1>5. Popped(S) = SubSeq(S, 1, n) /\ Len(Popped(S)) = n
  BY <1>1, <1>2, <1>4 DEF Popped
<1>6. \A i \in 1 .. n : 1 + i - 1 = i /\ i \in 1 .. n - 1 + 1
  BY <1>1, <1>2
<1>7. S[m] \in T
  BY <1>1, ElementOfSeq
<1> QED BY <1>1, <1>2, <1>4, <1>5, <1>6, <1>7

LEMMA NodeBounds ==
  ASSUME NEW n \in Node
  PROVE  /\ n.lo \in Int /\ n.hi \in Int /\ n.extra \in Nat
         /\ From(n) \in Int /\ To(n) \in Int /\ From(n) <= n.lo /\ n.hi <= To(n)
BY DEF Node, From, To

\* Permuting items of the part at hand changes nothing for the other parts.
LEMMA PermutedLevel ==
  ASSUME NEW k \in Keyings, NEW b \in Arrays, NEW b2, NEW x \in Int, NEW y \in Int,
         NEW S \in Seq(Node), NEW c \in Int, NEW d \in Int, NEW u \in Int, NEW v \in Int,
         Level(k, b, x, y, S, c, d), Permuted(b, b2, u, v), c <= u, v <= d
  PROVE  Level(k, b2, x, y, S, c, d)
<1>1. \A m \in 1 .. Len(S) : /\ S[m] \in Node
                             /\ To(S[m]) <= c \/ d <= From(S[m])
                             /\ S[m].lo <= S[m].hi
  BY ElementOfSeq DEF Level, Shape
<1>2. \A i, j \in Places :
        x <= i /\ i < j /\ j < y =>
          \/ Le(k, b[i], b[j])
          \/ c <= i /\ j < d
          \/ \E m \in 1 .. Len(S) : From(S[m]) <= i /\ j < To(S[m])
  BY DEF Level, Order
<1>3. x <= c /\ d <= y
  BY DEF Level, Shape
<1>0. \A i \in Places : ~(u <= i /\ i < v) => b2[i] = b[i]
  BY DEF Permuted
<1>4. Order(k, b2, x, y, S, c, d)
  <2>1. SUFFICES ASSUME NEW i \in Places, NEW j \in Places, x <= i, i < j, j < y,
                        ~(c <= i /\ j < d),
                        ~\E m \in 1 .. Len(S) : From(S[m]) <= i /\ j < To(S[m])
                 PROVE  Le(k, b2[i], b2[j])
    BY DEF Order
  <2>0. i \in Int /\ j \in Int
    BY DEF Places
  <2>2. CASE ~(u <= i /\ i < v) /\ ~(u <= j /\ j < v)
    BY <1>2, <2>1, <2>2 DEF Permuted
  <2>3. CASE u <= i /\ i < v /\ u <= j /\ j < v
    BY <2>0, <2>1, <2>3
  <2>4. CASE u <= i /\ i < v /\ ~(u <= j /\ j < v)
    <3>1. PICK h \in Places : u <= h /\ h < v /\ b2[i] = b[h]
      BY <2>4 DEF Permuted
    <3>2. b2[j] = b[j] /\ v <= j /\ h < j /\ x <= h /\ h \in Int
      <4>1. b2[j] = b[j]
        BY <1>0, <2>4
      <4>2. h \in Int
        BY DEF Places
      <4> QED BY <1>3, <2>0, <2>1, <2>4, <3>1, <4>1, <4>2
    <3>3. ~(c <= h /\ j < d)
      BY <2>0, <2>1, <2>4, <3>2
    <3>4. ASSUME NEW m \in 1 .. Len(S), From(S[m]) <= h, j < To(S[m]) PROVE FALSE
      <4>1. From(S[m]) \in Int /\ To(S[m]) \in Int
        BY <1>1, NodeBounds
      <4> QED BY <1>1, <2>0, <2>1, <2>4, <3>1, <3>2, <3>4, <4>1
    <3> QED BY <1>2, <2>1, <3>1, <3>2, <3>3, <3>4
  <2>5. CASE ~(u <= i /\ i < v) /\ u <= j /\ j < v
    <3>1. PICK h \in Places : u <= h /\ h < v /\ b2[j] = b[h]
      BY <2>5 DEF Permuted
    <3>2. b2[i] = b[i] /\ i < u /\ i < h /\ h < y /\ h \in Int
      <4>1. b2[i] = b[i]
        BY <1>0, <2>5
      <4>2. h \in Int
        BY DEF Places
      <4> QED BY <1>3, <2>0, <2>1, <2>5, <3>1, <4>1, <4>2
    <3>3. ~(c <= i /\ h < d)
      BY <2>0, <2>1, <2>5, <3>2
    <3>4. ASSUME NEW m \in 1 .. Len(S), From(S[m]) <= i, h < To(S[m]) PROVE FALSE
      <4>1. From(S[m]) \in Int /\ To(S[m]) \in Int
        BY <1>1, NodeBounds
      <4> QED BY <1>1, <2>0, <2>1, <2>5, <3>1, <3>2, <3>4, <4>1
    <3> QED BY <1>2, <2>1, <3>1, <3>2, <3>3, <3>4
  <2> QED BY <2>2, <2>3, <2>4, <2>5
<1>5. PivotsSorted(k, b2, S)
  <2>1. SUFFICES ASSUME NEW m \in 1 .. Len(S)
                 PROVE  SortedTwo(k, b2, From(S[m]), S[m].lo, S[m].hi, To(S[m]))
    BY DEF PivotsSorted
  <2>2. /\ S[m].lo \in Int /\ S[m].hi \in Int /\ From(S[m]) \in Int /\ To(S[m]) \in Int
        /\ From(S[m]) <= S[m].lo /\ S[m].lo <= S[m].hi /\ S[m].hi <= To(S[m])
    BY <1>1, NodeBounds
  <2>3. SortedTwo(k, b, From(S[m]), S[m].lo, S[m].hi, To(S[m]))
    BY DEF Level, PivotsSorted
  <2>4. \A i \in Places : From(S[m]) <= i /\ i < To(S[m]) => b2[i] = b[i]
    <3>1. \A i \in Places : i \in Int
      BY DEF Places
    <3>2. To(S[m]) <= c \/ d <= From(S[m])
      BY <1>1
    <3> QED BY <1>0, <2>2, <3>1, <3>2
  <2>5. \A i \in Places :
          \/ From(S[m]) <= i /\ i < S[m].lo
          \/ S[m].hi <= i /\ i < To(S[m])
          => From(S[m]) <= i /\ i < To(S[m])
    BY <2>2 DEF Places
  <2> QED BY <2>3, <2>4, <2>5 DEF SortedTwo
<1> QED BY <1>4, <1>5 DEF Level

\* A new samplesortslice has everything to do.
LEMMA NewLevel ==
  ASSUME NEW k, NEW b, NEW x \in Int, NEW y \in Int, x <= y
  PROVE  Level(k, b, x, y, <<>>, x, y)
BY EmptySeq DEF Level, Shape, Order, PivotsSorted

\* The part at hand is done when it is sorted.
LEMMA PartDone ==
  ASSUME NEW k, NEW b, NEW x \in Int, NEW y \in Int, NEW S \in Seq(Node),
         NEW c \in Int, NEW d \in Int, Level(k, b, x, y, S, c, d), Sorted(k, b, c, d)
  PROVE  Level(k, b, x, y, S, x, x)
<1>1. Shape(x, y, S, x, x)
  BY DEF Level, Shape
<1>2. Order(k, b, x, y, S, x, x)
  BY DEF Level, Order, Sorted
<1> QED BY <1>1, <1>2 DEF Level

\* A samplesortslice that has nothing left to do has sorted its slice.
LEMMA LevelDone ==
  ASSUME NEW k, NEW b, NEW x \in Int, NEW y \in Int, Level(k, b, x, y, <<>>, x, x)
  PROVE  Sorted(k, b, x, y)
<1>1. \A i, j \in Places : i < j => ~(x <= i /\ j < x)
  BY DEF Places
<1> QED BY <1>1 DEF Level, Order, Sorted

\* The slice that was pushed last becomes the part at hand.
LEMMA PopLevel ==
  ASSUME NEW k, NEW b, NEW x \in Int, NEW y \in Int, NEW S \in Seq(Node), S # <<>>,
         Level(k, b, x, y, S, x, x), NEW n, n = S[Len(S)], NEW R, R = Popped(S)
  PROVE  /\ n \in Node /\ R \in Seq(Node) /\ Len(R) = Len(S) - 1
         /\ n.lo <= n.hi /\ HasBits(n.extra, STACKSIZE - Len(R) - 1)
         /\ Level(k, b, x, y, R, From(n), To(n))
         /\ SortedTwo(k, b, From(n), n.lo, n.hi, To(n))
<1>1. Len(S) \in Nat /\ Len(S) # 0
  BY EmptySeq, LenProperties
<1>2. /\ Len(R) = Len(S) - 1 /\ R \in Seq(Node)
      /\ \A i \in 1 .. Len(R) : R[i] = S[i]
  BY AllButLast
<1>3. n \in Node /\ Len(S) \in 1 .. Len(S)
  BY <1>1, AllButLast
<1>4. 1 .. Len(R) = (1 .. Len(S)) \ {Len(S)}
  BY <1>1, <1>2
<1>5. n.lo <= n.hi /\ HasBits(n.extra, STACKSIZE - Len(S)) /\ x <= From(n) /\ To(n) <= y
  BY <1>3 DEF Level, Shape
<1>6. From(n) \in Int /\ To(n) \in Int /\ From(n) <= n.lo /\ n.hi <= To(n)
      /\ n.lo \in Int /\ n.hi \in Int
  BY <1>3, NodeBounds
<1>7. Shape(x, y, R, From(n), To(n))
  <2>1. From(n) <= To(n)
    BY <1>5, <1>6
  <2>2. ASSUME NEW i \in 1 .. Len(R)
        PROVE  /\ x <= From(R[i]) /\ R[i].lo <= R[i].hi /\ To(R[i]) <= y
               /\ To(R[i]) <= From(n) \/ To(n) <= From(R[i])
               /\ HasBits(R[i].extra, STACKSIZE - i)
    <3>1. i \in 1 .. Len(S) /\ i # Len(S) /\ R[i] = S[i]
      BY <1>2, <1>4
    <3> QED BY <1>3, <3>1 DEF Level, Shape
  <2>3. ASSUME NEW i \in 1 .. Len(R), NEW j \in 1 .. Len(R), i # j
        PROVE  To(R[i]) <= From(R[j]) \/ To(R[j]) <= From(R[i])
    <3>1. i \in 1 .. Len(S) /\ R[i] = S[i] /\ j \in 1 .. Len(S) /\ R[j] = S[j]
      BY <1>2, <1>4
    <3> QED BY <2>3, <3>1 DEF Level, Shape
  <2> QED BY <1>5, <2>1, <2>2, <2>3 DEF Shape
<1>8. Order(k, b, x, y, R, From(n), To(n))
  <2>1. SUFFICES ASSUME NEW i \in Places, NEW j \in Places, x <= i, i < j, j < y,
                        ~Le(k, b[i], b[j]), ~(From(n) <= i /\ j < To(n))
                 PROVE  \E m \in 1 .. Len(R) : From(R[m]) <= i /\ j < To(R[m])
    BY DEF Order
  <2>2. ~(x <= i /\ j < x)
    BY <2>1 DEF Places
  <2>3. PICK m \in 1 .. Len(S) : From(S[m]) <= i /\ j < To(S[m])
    BY <2>1, <2>2 DEF Level, Order
  <2>4. m # Len(S)
    BY <2>1, <2>3
  <2> QED BY <1>2, <1>4, <2>3, <2>4
<1>9. PivotsSorted(k, b, R) /\ SortedTwo(k, b, From(n), n.lo, n.hi, To(n))
  BY <1>2, <1>3, <1>4 DEF Level, PivotsSorted
<1>10. STACKSIZE - Len(R) - 1 = STACKSIZE - Len(S)
  <2>1. STACKSIZE \in Nat
    BY SortAssumption
  <2>2. \A p, q \in Int : q = p - 1 => STACKSIZE - q - 1 = STACKSIZE - p
    BY <2>1
  <2>3. Len(S) \in Int /\ Len(R) \in Int
    BY <1>1, <1>2, LenProperties
  <2> QED BY <1>2, <2>2, <2>3
<1> QED BY <1>2, <1>3, <1>5, <1>7, <1>8, <1>9, <1>10 DEF Level

\* A part is divided into one that waits on the stack and one at hand.
LEMMA PushLevel ==
  ASSUME NEW k, NEW b, NEW x \in Int, NEW y \in Int, NEW S \in Seq(Node),
         NEW c \in Int, NEW d \in Int, Level(k, b, x, y, S, c, d),
         NEW n \in Node, NEW c1 \in Int, NEW d1 \in Int,
         c <= c1, c1 <= d1, d1 <= d, c <= From(n), To(n) <= d, n.lo <= n.hi,
         To(n) <= c1 \/ d1 <= From(n),
         HasBits(n.extra, STACKSIZE - Len(S) - 1),
         SortedTwo(k, b, From(n), n.lo, n.hi, To(n)),
         \A i, j \in Places :
           c <= i /\ i < j /\ j < d =>
             Le(k, b[i], b[j]) \/ (c1 <= i /\ j < d1) \/ (From(n) <= i /\ j < To(n))
  PROVE  /\ Append(S, n) \in Seq(Node) /\ Len(Append(S, n)) = Len(S) + 1
         /\ Level(k, b, x, y, Append(S, n), c1, d1)
<1>1. PICK T \in Seq(Node) : T = Append(S, n)
  BY AppendProperties
<1>2. PICK m \in Nat : m = Len(S)
  BY LenProperties
<1>3. /\ Len(T) = m + 1 /\ T[m + 1] = n
      /\ \A i \in 1 .. m : T[i] = S[i]
  BY <1>1, <1>2, AppendProperties
<1>4. \A i \in 1 .. m + 1 : i = m + 1 \/ i \in 1 .. m
  BY <1>2
<1>5. /\ x <= c /\ d <= y
      /\ \A i \in 1 .. m :
           /\ x <= From(S[i]) /\ S[i].lo <= S[i].hi /\ To(S[i]) <= y
           /\ To(S[i]) <= c \/ d <= From(S[i])
           /\ HasBits(S[i].extra, STACKSIZE - i)
      /\ \A i, j \in 1 .. m : i # j => To(S[i]) <= From(S[j]) \/ To(S[j]) <= From(S[i])
  BY <1>2 DEF Level, Shape
<1>6. \A i \in 1 .. m : From(S[i]) \in Int /\ To(S[i]) \in Int
  BY <1>2, NodeBounds, ElementOfSeq
<1>7. /\ From(n) \in Int /\ To(n) \in Int /\ From(n) <= n.lo /\ n.hi <= To(n)
      /\ n.lo \in Int /\ n.hi \in Int
  BY NodeBounds
<1>8. STACKSIZE - m - 1 = STACKSIZE - (m + 1)
  BY SortAssumption
<1>9. Shape(x, y, T, c1, d1)
  <2>1. ASSUME NEW i \in 1 .. m + 1
        PROVE  /\ x <= From(T[i]) /\ T[i].lo <= T[i].hi /\ To(T[i]) <= y
               /\ To(T[i]) <= c1 \/ d1 <= From(T[i])
               /\ HasBits(T[i].extra, STACKSIZE - i)
    <3>1. CASE i = m + 1
      <4>1. HasBits(n.extra, STACKSIZE - (m + 1))
        BY <1>2, <1>8
      <4>2. T[i] = n /\ x <= From(n) /\ To(n) <= y
        BY <1>3, <1>5, <1>7, <3>1
      <4> QED BY <3>1, <4>1, <4>2
    <3>2. CASE i \in 1 .. m
      <4>1. /\ x <= From(S[i]) /\ S[i].lo <= S[i].hi /\ To(S[i]) <= y
            /\ To(S[i]) <= c \/ d <= From(S[i])
            /\ HasBits(S[i].extra, STACKSIZE - i)
        BY <1>5, <3>2
      <4>2. To(S[i]) <= c1 \/ d1 <= From(S[i])
        BY <1>6, <3>2, <4>1
      <4>3. T[i] = S[i]
        BY <1>3, <3>2
      <4> QED BY <4>1, <4>2, <4>3
    <3> QED BY <1>4, <3>1, <3>2
  <2>2. ASSUME NEW i \in 1 .. m + 1, NEW j \in 1 .. m + 1, i # j
        PROVE  To(T[i]) <= From(T[j]) \/ To(T[j]) <= From(T[i])
    <3>1. CASE i = m + 1
      <4>1. j \in 1 .. m
        BY <1>4, <2>2, <3>1
      <4> QED BY <1>3, <1>5, <1>6, <1>7, <3>1, <4>1
    <3>2. CASE j = m + 1
      <4>1. i \in 1 .. m
        BY <1>4, <2>2, <3>2
      <4> QED BY <1>3, <1>5, <1>6, <1>7, <3>2, <4>1
    <3>3. CASE i \in 1 .. m /\ j \in 1 .. m
      BY <1>3, <1>5, <2>2, <3>3
    <3> QED BY <1>4, <3>1, <3>2, <3>3
  <2>3. x <= c1 /\ c1 <= d1 /\ d1 <= y
    BY <1>5
  <2> QED BY <1>3, <2>1, <2>2, <2>3 DEF Shape
<1>10. Order(k, b, x, y, T, c1, d1)
  <2>1. SUFFICES ASSUME NEW i \in Places, NEW j \in Places, x <= i, i < j, j < y,
                        ~Le(k, b[i], b[j]), ~(c1 <= i /\ j < d1)
                 PROVE  \E h \in 1 .. m + 1 : From(T[h]) <= i /\ j < To(T[h])
    BY <1>3 DEF Order
  <2>2. CASE c <= i /\ j < d
    <3>1. From(n) <= i /\ j < To(n)
      BY <2>1, <2>2
    <3> QED BY <1>2, <1>3, <3>1
  <2>3. CASE ~(c <= i /\ j < d)
    <3>1. PICK h \in 1 .. m : From(S[h]) <= i /\ j < To(S[h])
      BY <1>2, <2>1, <2>3 DEF Level, Order
    <3> QED BY <1>2, <1>3, <3>1
  <2> QED BY <2>2, <2>3
<1>11. PivotsSorted(k, b, T)
  <2>1. ASSUME NEW i \in 1 .. m + 1
        PROVE  SortedTwo(k, b, From(T[i]), T[i].lo, T[i].hi, To(T[i]))
    <3>1. CASE i = m + 1
      BY <1>3, <3>1
    <3>2. CASE i \in 1 .. m
      BY <1>2, <1>3, <3>2 DEF Level, PivotsSorted
    <3> QED BY <1>4, <3>1, <3>2
  <2> QED BY <1>3, <2>1 DEF PivotsSorted
<1> QED BY <1>1, <1>2, <1>3, <1>9, <1>10, <1>11 DEF Level

-----------------------------------------------------------------------------
(* All that are under way *)

LEMMA FrameBounds ==
  ASSUME NEW f \in Frame
  PROVE  /\ f.lo \in Int /\ f.hi \in Int /\ f.extra \in Nat /\ f.right \in BOOLEAN
         /\ f.stack \in Seq(Node) /\ f.at \in {"partition", "pop"}
         /\ CallFrom(f) \in Int /\ CallTo(f) \in Int
BY DEF Frame, CallFrom, CallTo

LEMMA LevelBounds ==
  ASSUME NEW cs \in Seq(Frame), NEW m \in 0 .. Len(cs)
  PROVE  LevelFrom(cs, m) \in Int /\ LevelTo(cs, m) \in Int
<1>1. CASE m = 0
  BY <1>1, SortAssumption DEF LevelFrom, LevelTo
<1>2. CASE m # 0
  <2>1. m \in 1 .. Len(cs)
    BY <1>2, LenProperties
  <2>2. cs[m] \in Frame
    BY <2>1, ElementOfSeq
  <2> QED BY <1>2, <2>2, FrameBounds DEF LevelFrom, LevelTo
<1> QED BY <1>1, <1>2

\* The slice that is sorted now is within the list.
LEMMA LevelWithin ==
  ASSUME NEW k, NEW b, NEW cs \in Seq(Frame), Callers(k, b, cs)
  PROVE  /\ LevelFrom(cs, Len(cs)) \in Int /\ LevelTo(cs, Len(cs)) \in Int
         /\ 0 <= LevelFrom(cs, Len(cs)) /\ LevelTo(cs, Len(cs)) <= Size
<1>1. Len(cs) \in 0 .. Len(cs) /\ 0 \in 0 .. Len(cs) /\ 0 <= Len(cs)
  BY LenProperties
<1>2. LevelFrom(cs, 0) = 0 /\ LevelTo(cs, 0) = Size
  BY DEF LevelFrom, LevelTo
<1> QED BY <1>1, <1>2, LevelBounds DEF Callers, Nested

\* Permuting items of the slice that is sorted now changes nothing for those that wait.
LEMMA PermutedCallers ==
  ASSUME NEW k \in Keyings, NEW b \in Arrays, NEW b2, NEW cs \in Seq(Frame),
         NEW u \in Int, NEW v \in Int, Callers(k, b, cs), Permuted(b, b2, u, v),
         LevelFrom(cs, Len(cs)) <= u, v <= LevelTo(cs, Len(cs))
  PROVE  Callers(k, b2, cs)
<1>1. PICK n \in Nat : n = Len(cs)
  BY LenProperties
<1>2. SUFFICES ASSUME NEW m \in 1 .. n
               PROVE  Waits(k, b2, LevelFrom(cs, m - 1), LevelTo(cs, m - 1), cs[m])
  BY <1>1 DEF Callers
<1>3. m \in 0 .. n /\ m - 1 \in 0 .. n /\ m # 0 /\ m <= n /\ n \in 0 .. n
  BY <1>1
<1>4. PICK x \in Int, y \in Int : x = LevelFrom(cs, m - 1) /\ y = LevelTo(cs, m - 1)
  BY <1>1, <1>3, LevelBounds
<1>5. PICK f \in Frame : f = cs[m]
  BY <1>1, ElementOfSeq
<1>6. Waits(k, b, x, y, f)
  BY <1>1, <1>4, <1>5 DEF Callers
<1>7. CallFrom(f) <= u
  <2>1. LevelFrom(cs, m) = CallFrom(f)
    BY <1>3, <1>5 DEF LevelFrom
  <2>2. LevelFrom(cs, m) <= LevelFrom(cs, n)
    BY <1>1, <1>3 DEF Callers, Nested
  <2> QED BY <1>1, <1>3, <2>1, <2>2, LevelBounds
<1>8. v <= f.hi
  <2>1. LevelTo(cs, m) = CallTo(f)
    BY <1>3, <1>5 DEF LevelTo
  <2>2. LevelTo(cs, n) <= LevelTo(cs, m)
    BY <1>1, <1>3 DEF Callers, Nested
  <2>3. CallTo(f) <= f.hi
    BY <1>6, FrameBounds DEF Waits, CallTo
  <2>4. LevelTo(cs, n) \in Int /\ CallTo(f) \in Int /\ f.hi \in Int /\ v <= LevelTo(cs, n)
    BY <1>1, <1>3, LevelBounds, FrameBounds
  <2> QED BY <2>1, <2>2, <2>3, <2>4
<1>9. Level(k, b2, x, y, f.stack, CallFrom(f), f.hi)
  <2>1. Level(k, b, x, y, f.stack, CallFrom(f), f.hi)
    BY <1>6 DEF Waits
  <2>2. f.stack \in Seq(Node) /\ CallFrom(f) \in Int /\ f.hi \in Int
    BY FrameBounds
  <2> QED BY <1>7, <1>8, <2>1, <2>2, PermutedLevel
<1> QED BY <1>4, <1>5, <1>6, <1>9 DEF Waits

LEMMA PushCallers ==
  ASSUME NEW k, NEW b, NEW cs \in Seq(Frame), Callers(k, b, cs), NEW f \in Frame,
         Waits(k, b, LevelFrom(cs, Len(cs)), LevelTo(cs, Len(cs)), f)
  PROVE  /\ Append(cs, f) \in Seq(Frame)
         /\ Callers(k, b, Append(cs, f))
         /\ LevelFrom(Append(cs, f), Len(Append(cs, f))) = CallFrom(f)
         /\ LevelTo(Append(cs, f), Len(Append(cs, f))) = CallTo(f)
<1>1. PICK cs2 \in Seq(Frame) : cs2 = Append(cs, f)
  BY AppendProperties
<1>2. PICK n \in Nat : n = Len(cs)
  BY LenProperties
<1>3. Len(cs2) = n + 1 /\ cs2[n + 1] = f /\ \A m \in 1 .. n : cs2[m] = cs[m]
  BY <1>1, <1>2, AppendProperties
<1>4. LevelFrom(cs2, n + 1) = CallFrom(f) /\ LevelTo(cs2, n + 1) = CallTo(f)
  BY <1>2, <1>3 DEF LevelFrom, LevelTo
<1>5. ASSUME NEW m \in 0 .. n
      PROVE  LevelFrom(cs2, m) = LevelFrom(cs, m) /\ LevelTo(cs2, m) = LevelTo(cs, m)
  <2>1. CASE m = 0
    BY <2>1 DEF LevelFrom, LevelTo
  <2>2. CASE m # 0
    <3>1. m \in 1 .. n
      BY <2>2
    <3> QED BY <1>3, <2>2, <3>1 DEF LevelFrom, LevelTo
  <2> QED BY <2>1, <2>2
<1>6. PICK x \in Int, y \in Int : x = LevelFrom(cs, n) /\ y = LevelTo(cs, n)
  BY <1>2, LevelBounds
<1>7. x <= CallFrom(f) /\ CallTo(f) <= y
  <2>1. x <= CallFrom(f) /\ f.hi <= y
    BY <1>2, <1>6 DEF Waits, Level, Shape
  <2>2. CallTo(f) <= f.hi
    BY FrameBounds DEF Waits, CallTo
  <2> QED BY <2>1, <2>2, FrameBounds
<1>8. Nested(cs2)
  <2>1. SUFFICES ASSUME NEW i \in 0 .. n + 1, NEW m \in 0 .. n + 1, i <= m
                 PROVE  /\ LevelFrom(cs2, i) <= LevelFrom(cs2, m)
                        /\ LevelTo(cs2, m) <= LevelTo(cs2, i)
    BY <1>3 DEF Nested
  <2>2. CASE m # n + 1
    <3>1. i \in 0 .. n /\ m \in 0 .. n
      BY <2>1, <2>2
    <3> QED BY <1>2, <1>5, <2>1, <3>1 DEF Callers, Nested
  <2>3. CASE m = n + 1 /\ i # n + 1
    <3>1. i \in 0 .. n /\ i <= n /\ n \in 0 .. n
      BY <2>1, <2>3
    <3>2. LevelFrom(cs, i) <= x /\ y <= LevelTo(cs, i)
      BY <1>2, <1>6, <3>1 DEF Callers, Nested
    <3>3. LevelFrom(cs, i) \in Int /\ LevelTo(cs, i) \in Int
      BY <1>2, <3>1, LevelBounds
    <3> QED BY <1>4, <1>5, <1>7, <2>3, <3>1, <3>2, <3>3, FrameBounds
  <2>4. CASE m = n + 1 /\ i = n + 1
    BY <1>4, <2>4, FrameBounds
  <2> QED BY <2>2, <2>3, <2>4
<1>9. ASSUME NEW m \in 1 .. n + 1
      PROVE  Waits(k, b, LevelFrom(cs2, m - 1), LevelTo(cs2, m - 1), cs2[m])
  <2>1. m - 1 \in 0 .. n
    BY <1>2
  <2>2. CASE m = n + 1
    <3>1. m - 1 = n
      BY <2>2
    <3> QED BY <1>2, <1>3, <1>5, <2>1, <2>2, <3>1
  <2>3. CASE m # n + 1
    <3>1. m \in 1 .. n
      BY <2>3
    <3> QED BY <1>2, <1>3, <1>5, <2>1, <3>1 DEF Callers
  <2> QED BY <2>2, <2>3
<1> QED BY <1>1, <1>3, <1>4, <1>8, <1>9 DEF Callers

LEMMA PopCallers ==
  ASSUME NEW k, NEW b, NEW cs \in Seq(Frame), cs # <<>>, Callers(k, b, cs),
         NEW f, f = cs[Len(cs)], NEW R, R = Popped(cs)
  PROVE  /\ f \in Frame /\ R \in Seq(Frame)
         /\ Callers(k, b, R)
         /\ Waits(k, b, LevelFrom(R, Len(R)), LevelTo(R, Len(R)), f)
         /\ LevelFrom(cs, Len(cs)) = CallFrom(f) /\ LevelTo(cs, Len(cs)) = CallTo(f)
<1>1. PICK n \in Nat \ {0} : n = Len(cs)
  BY AllButLast
<1>2. /\ f \in Frame /\ R \in Seq(Frame)
      /\ Len(R) = n - 1 /\ \A m \in 1 .. n - 1 : R[m] = cs[m]
  BY <1>1, AllButLast
<1>3. LevelFrom(cs, n) = CallFrom(f) /\ LevelTo(cs, n) = CallTo(f)
  BY <1>1 DEF LevelFrom, LevelTo
<1>4. ASSUME NEW m \in 0 .. n - 1
      PROVE  LevelFrom(R, m) = LevelFrom(cs, m) /\ LevelTo(R, m) = LevelTo(cs, m)
  <2>1. CASE m = 0
    BY <2>1 DEF LevelFrom, LevelTo
  <2>2. CASE m # 0
    <3>1. m \in 1 .. n - 1
      BY <2>2
    <3> QED BY <1>2, <2>2, <3>1 DEF LevelFrom, LevelTo
  <2> QED BY <2>1, <2>2
<1>5. \A m \in 0 .. n - 1 : m \in 0 .. n
  BY <1>1
<1>6. Nested(R)
  BY <1>1, <1>2, <1>4, <1>5 DEF Callers, Nested
<1>7. ASSUME NEW m \in 1 .. n - 1
      PROVE  Waits(k, b, LevelFrom(R, m - 1), LevelTo(R, m - 1), R[m])
  <2>1. m - 1 \in 0 .. n - 1 /\ m \in 1 .. n
    BY <1>1
  <2> QED BY <1>1, <1>2, <1>4, <2>1 DEF Callers
<1>8. n - 1 \in 0 .. n - 1 /\ n \in 1 .. n
  BY <1>1
<1>9. Waits(k, b, LevelFrom(R, n - 1), LevelTo(R, n - 1), f)
  BY <1>1, <1>4, <1>8 DEF Callers
<1> QED BY <1>1, <1>2, <1>3, <1>6, <1>7, <1>9 DEF Callers

-----------------------------------------------------------------------------
(* What every step needs *)

LEMMA Facts ==
  ASSUME SortInv, at # "failed"
  PROVE  /\ key \in Keyings /\ a \in Arrays /\ stack \in Seq(Node) /\ calls \in Seq(Frame)
         /\ Callers(key, a, calls) /\ Here
         /\ First \in Int /\ Last \in Int /\ 0 <= First /\ Last <= Size
<1>1. /\ key \in Keyings /\ a \in Arrays /\ stack \in Seq(Node) /\ calls \in Seq(Frame)
      /\ Callers(key, a, calls) /\ Here
  BY DEF SortInv, TypeOK, Keyings, Arrays
<1> QED BY <1>1, LevelWithin DEF First, Last

LEMMA ItemsAt ==
  ASSUME NEW b \in Arrays, NEW i \in Places
  PROVE  b[i] \in Items /\ i \in Int
BY DEF Arrays, Places

LEMMA InPlaces ==
  ASSUME NEW x \in Int, NEW y \in Int, 0 <= x, y <= Size, NEW i \in Int, x <= i, i < y
  PROVE  i \in Places
BY SortAssumption DEF Places

\* What the answer of a comparison says.
LEMMA Answer ==
  ASSUME key \in Keyings, NEW x \in Items, NEW y \in Items
  PROVE  /\ (key # NoOrder => key[x] < key[y]) => Le(key, x, y)
         /\ (key # NoOrder => key[x] >= key[y]) => Le(key, y, x)
<1>1. CASE key = NoOrder
  BY <1>1 DEF Le
<1>2. CASE key # NoOrder
  <2>1. key \in [Items -> Keys]
    BY <1>2 DEF Keyings
  <2>2. key[x] \in Int /\ key[y] \in Int
    BY <2>1, SortAssumption
  <2> QED BY <1>2, <2>2 DEF Le
<1> QED BY <1>1, <1>2

\* A step that changes the order of items only where it works.
LEMMA Kept ==
  ASSUME SortInv, at # "failed", key' = key, calls' = calls,
         a' = a \/ \E u, v \in Int : First <= u /\ v <= Last /\ Permuted(a, a', u, v)
  PROVE  /\ a' \in Arrays /\ Permutation' /\ Callers(key', a', calls')
         /\ First' = First /\ Last' = Last
<1>1. First' = First /\ Last' = Last
  BY DEF First, Last
<1>2. Permutation
  BY DEF SortInv
<1>3. CASE a' = a
  BY <1>1, <1>2, <1>3, Facts DEF Permutation
<1>4. CASE \E u, v \in Int : First <= u /\ v <= Last /\ Permuted(a, a', u, v)
  <2>1. PICK u \in Int, v \in Int : First <= u /\ v <= Last /\ Permuted(a, a', u, v)
    BY <1>4
  <2>2. a' \in Arrays
    BY <2>1 DEF Permuted
  <2>3. Permutation'
    BY <1>2, <2>1, Facts, PermutedItems DEF Permutation
  <2>4. Callers(key, a', calls)
    BY <2>1, Facts, PermutedCallers DEF First, Last
  <2> QED BY <1>1, <2>2, <2>3, <2>4
<1> QED BY <1>3, <1>4

LEMMA FailKeeps ==
  ASSUME SortInv, at' = "failed",
         UNCHANGED <<key, a, slice, l, r, count, binary, calls>>
  PROVE  SortInv'
<1>1. Permutation'
  BY DEF SortInv, Permutation
<1>2. TypeOK'
  BY DEF SortInv, TypeOK, slice, binary
<1> QED BY <1>1, <1>2 DEF SortInv, slice

\* Nothing is said of other places.
LEMMA OnePlace ==
  /\ at' = "slice" /\ InSlice' => Here'
  /\ at' = "up" /\ InSlice' /\ InUp' => Here'
  /\ at' = "down" /\ InSlice' /\ InDown' => Here'
  /\ at' = "sample" /\ InSlice' /\ InSample' => Here'
  /\ at' = "insert" /\ InInsert' => Here'
  /\ at' = "gather" /\ InGather' => Here'
  /\ at' = "partition" /\ InPartition' => Here'
  /\ at' = "spread" /\ InSpread' => Here'
  /\ at' \in {"slideL", "slideR", "meet"} /\ InSlide' => Here'
  /\ at' = "dups" /\ InDups' => Here'
  /\ at' \in {"pop", "return", "sorted"} /\ InPop' => Here'
BY DEF Here, InSlice, InUp, InDown, InSample, InInsert, InGather, InPartition, InSpread,
       InSlide, InDups, InPop

LEMMA LevelRange ==
  ASSUME NEW k, NEW b, NEW x, NEW y, NEW S, NEW c, NEW d, Level(k, b, x, y, S, c, d)
  PROVE  x <= c /\ c <= d /\ d <= y
BY DEF Level, Shape

LEMMA ShortSorted ==
  ASSUME NEW k, NEW b, NEW x \in Int, NEW y \in Int, y <= x + 1
  PROVE  Sorted(k, b, x, y) /\ Falling(k, b, x, y)
<1>1. \A i, j \in Places : ~(x <= i /\ i < j /\ j < y)
  BY DEF Places
<1> QED BY <1>1 DEF Sorted, Falling

\* Half of the pivots but the middle one.
LEMMA HalfBits ==
  ASSUME NEW x \in Nat, NEW m \in Int, HasBits(x, m), x > 0
  PROVE  HasBits(x \div 2, m - 1) /\ x = 2 * (x \div 2) + 1
<1>1. PICK i \in 0 .. MAXBITS : i <= m /\ x = Power[i] - 1
  BY DEF HasBits
<1>2. i # 0
  BY <1>1, PowerAssumption
<1>3. i \in 1 .. MAXBITS /\ i - 1 \in 0 .. MAXBITS /\ i - 1 <= m - 1
  BY <1>1, <1>2 DEF MAXBITS
<1>4. PICK p \in Nat : p = Power[i - 1] - 1
  BY <1>3, PowerAssumption
<1>5. x = 2 * p + 1
  BY <1>1, <1>3, <1>4, PowerAssumption
<1>6. x \div 2 = p
  BY <1>5
<1> QED BY <1>3, <1>4, <1>5, <1>6 DEF HasBits

LEMMA BitsGrow ==
  ASSUME NEW x, NEW m \in Int, NEW n \in Int, m <= n, HasBits(x, m)
  PROVE  HasBits(x, n)
BY DEF HasBits, MAXBITS

LEMMA BitsNatural ==
  ASSUME NEW x, NEW m \in Int, HasBits(x, m)
  PROVE  x \in Nat /\ m >= 0
BY PowerAssumption DEF HasBits, MAXBITS

-----------------------------------------------------------------------------
(* binarysort *)

LEMMA InsertFromCorrect ==
  ASSUME NEW b \in Int, NEW e \in Int, NEW s \in Int, NEW next \in {"return", "pop"},
         InsertFrom(b, e, s, next), begin' = b, end' = e, then' = next, b < s,
         Level(key', a', First', Last', stack', b, e), Sorted(key', a', b, s),
         stack' \in Seq(Node), next = "return" => stack' = <<>>,
         First' \in Int, Last' \in Int
  PROVE  Here' /\ start' \in Int /\ at' \in {"insert", "return", "pop"}
<1>1. CASE s < e
  <2>1. at' = "insert" /\ l' = b /\ r' = s /\ start' = s
    BY <1>1 DEF InsertFrom
  <2>2. \A i \in Places : ~(b <= i /\ i < b) /\ ~(s <= i /\ i < s)
    BY DEF Places
  <2>3. InInsert'
    BY <1>1, <2>1, <2>2 DEF InInsert, Works
  <2> QED BY <2>1, <2>3, OnePlace
<1>2. CASE ~(s < e)
  <2>1. at' = next /\ start' = s
    BY <1>2 DEF InsertFrom
  <2>2. Sorted(key', a', b, e)
    BY <1>2 DEF Sorted, Places
  <2>3. Level(key', a', First', Last', stack', First', First')
    BY <2>2, PartDone
  <2>4. InPop'
    BY <2>1, <2>3 DEF InPop, Works
  <2> QED BY <2>1, <2>4, OnePlace
<1> QED BY <1>1, <1>2

LEMMA BinarysortCorrect ==
  ASSUME NEW b \in Int, NEW e \in Int, NEW s \in Int, NEW next \in {"return", "pop"},
         Binarysort(b, e, s, next), b <= s,
         Level(key', a', First', Last', stack', b, e), Sorted(key', a', b, s),
         stack' \in Seq(Node), next = "return" => stack' = <<>>,
         First' \in Int, Last' \in Int
  PROVE  /\ Here' /\ begin' \in Int /\ end' \in Int /\ start' \in Int
         /\ then' \in {"return", "pop"} /\ at' \in {"insert", "return", "pop"}
<1>1. PICK t \in Int : t = IF s = b THEN s + 1 ELSE s
  OBVIOUS
<1>2. /\ begin' = b /\ end' = e /\ then' = next /\ InsertFrom(b, e, t, next)
  BY <1>1 DEF Binarysort
<1>3. b < t
  BY <1>1
<1>4. Sorted(key', a', b, t)
  BY <1>1, ShortSorted
<1> QED BY <1>2, <1>3, <1>4, InsertFromCorrect

-----------------------------------------------------------------------------
(* Steps of samplesortslice before it partitions *)

\* Nothing of the slice has been done.
LEMMA Untouched ==
  ASSUME SortInv, at \in {"slice", "up", "down", "sample"}
  PROVE  /\ stack = <<>> /\ lo = First /\ hi = Last /\ lo <= hi
         /\ lo \in Int /\ hi \in Int
         /\ \A b : Level(key, b, lo, hi, <<>>, lo, hi)
<1>1. stack = <<>> /\ lo = First /\ hi = Last /\ lo <= hi
  BY Facts DEF Here, InSlice
<1>2. lo \in Int /\ hi \in Int
  BY DEF SortInv, TypeOK
<1> QED BY <1>1, <1>2, NewLevel

LEMMA SliceStep == ASSUME SortInv, Slice PROVE SortInv'
<1>1. at = "slice"
  BY DEF Slice
<1>2. UNCHANGED <<key, a, slice, l, count, binary, calls>>
  BY DEF Slice
<1>3. /\ a' \in Arrays /\ Permutation' /\ Callers(key', a', calls')
      /\ First' = First /\ Last' = Last
  BY <1>1, <1>2, Kept
<1>4. /\ key' = key /\ a' = a /\ lo' = lo /\ hi' = hi /\ stack' = stack
      /\ First \in Int /\ Last \in Int
  BY <1>1, <1>2, Facts DEF slice
<1>5. CASE hi - lo < 2
  <2>1. at' = "return" /\ r' = r
    BY <1>5 DEF Slice
  <2>2. Sorted(key, a, lo, hi)
    BY <1>1, <1>5, Untouched, ShortSorted
  <2>3. Level(key, a, lo, hi, <<>>, lo, lo)
    BY <1>1, <2>2, Untouched, PartDone, EmptySeq
  <2>4. InPop'
    BY <1>1, <1>3, <1>4, <2>1, <2>3, Untouched DEF InPop, Works
  <2>5. TypeOK'
    BY <1>2, <2>1 DEF SortInv, TypeOK, slice, binary
  <2> QED BY <1>2, <1>3, <2>1, <2>4, <2>5, OnePlace DEF SortInv, slice
<1>6. CASE ~(hi - lo < 2)
  <2>1. at' = "up" /\ r' = lo + 1
    BY <1>6 DEF Slice
  <2>2. lo \in Int /\ hi \in Int
    BY <1>1, Untouched
  <2>3. InSlice'
    BY <1>1, <1>3, <1>4, <2>1, Untouched DEF InSlice
  <2>4. lo < r' /\ r' <= hi
    BY <1>6, <2>1, <2>2
  <2>5. Sorted(key, a, lo, r')
    BY <2>1, <2>2, ShortSorted
  <2>6. InUp'
    BY <1>4, <2>4, <2>5 DEF InUp
  <2>7. TypeOK'
    BY <1>2, <2>1, <2>2 DEF SortInv, TypeOK, slice, binary
  <2> QED BY <1>2, <1>3, <2>1, <2>3, <2>6, <2>7, OnePlace DEF SortInv, slice
<1> QED BY <1>5, <1>6

LEMMA Longer ==
  ASSUME NEW k \in Keyings, NEW b \in Arrays, NEW x \in Int, NEW y \in Places,
         y - 1 \in Places, x < y
  PROVE  /\ Sorted(k, b, x, y) /\ Le(k, b[y - 1], b[y]) => Sorted(k, b, x, y + 1)
         /\ Falling(k, b, x, y) /\ Le(k, b[y], b[y - 1]) => Falling(k, b, x, y + 1)
<1>1. PICK h \in Places : h = y - 1
  OBVIOUS
<1>2. y \in Int /\ h \in Int /\ b[y] \in Items /\ b[h] \in Items
  BY ItemsAt
<1>3. ASSUME NEW i \in Places, NEW j \in Places, x <= i, i < j, j < y + 1
      PROVE  /\ i \in Int /\ j \in Int /\ b[i] \in Items
             /\ j < y \/ (j = y /\ i = h) \/ (j = y /\ x <= i /\ i < h /\ h < y)
  <2>1. i \in Int /\ j \in Int /\ b[i] \in Items
    BY ItemsAt
  <2> QED BY <1>1, <1>2, <1>3, <2>1
<1>4. ASSUME Sorted(k, b, x, y), Le(k, b[h], b[y])
      PROVE  Sorted(k, b, x, y + 1)
  <2>1. SUFFICES ASSUME NEW i \in Places, NEW j \in Places, x <= i, i < j, j < y + 1
                 PROVE  Le(k, b[i], b[j])
    BY DEF Sorted
  <2>2. CASE j < y
    BY <1>4, <2>1, <2>2 DEF Sorted
  <2>3. CASE j = y /\ i = h
    BY <1>4, <2>3
  <2>4. CASE j = y /\ x <= i /\ i < h /\ h < y
    <3>1. Le(k, b[i], b[h])
      BY <1>4, <2>4 DEF Sorted
    <3> QED BY <1>2, <1>3, <1>4, <2>1, <2>4, <3>1, LeTransitive
  <2> QED BY <1>3, <2>1, <2>2, <2>3, <2>4
<1>5. ASSUME Falling(k, b, x, y), Le(k, b[y], b[h])
      PROVE  Falling(k, b, x, y + 1)
  <2>1. SUFFICES ASSUME NEW i \in Places, NEW j \in Places, x <= i, i < j, j < y + 1
                 PROVE  Le(k, b[j], b[i])
    BY DEF Falling
  <2>2. CASE j < y
    BY <1>5, <2>1, <2>2 DEF Falling
  <2>3. CASE j = y /\ i = h
    BY <1>5, <2>3
  <2>4. CASE j = y /\ x <= i /\ i < h /\ h < y
    <3>1. Le(k, b[h], b[i])
      BY <1>5, <2>4 DEF Falling
    <3> QED BY <1>2, <1>3, <1>5, <2>1, <2>4, <3>1, LeTransitive
  <2> QED BY <1>3, <2>1, <2>2, <2>3, <2>4
<1> QED BY <1>1, <1>4, <1>5

\* The places that the loops of Up and Down compare.
LEMMA Neighbours ==
  ASSUME SortInv, at \in {"up", "down"}, r < hi
  PROVE  /\ r \in Places /\ r - 1 \in Places /\ r \in Int /\ lo < r
         /\ a[r] \in Items /\ a[r - 1] \in Items
<1>1. lo < r /\ r \in Int
  BY Facts DEF Here, InUp, InDown, SortInv, TypeOK
<1>2. lo \in Int /\ hi \in Int /\ 0 <= lo /\ hi <= Size
  BY DEF SortInv, TypeOK
<1>3. r \in Places /\ r - 1 \in Places
  BY <1>1, <1>2, SortAssumption DEF Places
<1> QED BY <1>1, <1>3, Facts, ItemsAt

LEMMA FurtherStep ==
  ASSUME SortInv, at \in {"up", "down"}, r < hi, Further,
         UNCHANGED <<key, lo, hi, right, stack, calls>>,
         at = "up" => Le(key, a[r - 1], a[r]), at = "down" => Le(key, a[r], a[r - 1])
  PROVE  SortInv'
<1>1. /\ key' = key /\ a' = a /\ lo' = lo /\ hi' = hi /\ stack' = stack /\ calls' = calls
      /\ at' = at /\ r' = r + 1
  BY DEF Further
<1>2. /\ a' \in Arrays /\ Permutation' /\ Callers(key', a', calls')
      /\ First' = First /\ Last' = Last
  BY <1>1, Kept
<1>3. InSlice'
  BY <1>1, <1>2, Untouched DEF InSlice
<1>4. /\ r \in Places /\ r - 1 \in Places /\ r \in Int /\ lo < r /\ lo \in Int /\ hi \in Int
      /\ key \in Keyings /\ a \in Arrays
  BY Neighbours, Untouched, Facts
<1>5. lo < r + 1 /\ r + 1 <= hi
  BY <1>4
<1>6. ASSUME at = "up" PROVE InUp'
  <2>1. Sorted(key, a, lo, r)
    BY <1>6, Facts DEF Here, InUp
  <2>2. Sorted(key, a, lo, r + 1)
    BY <1>4, <1>6, <2>1, Longer
  <2> QED BY <1>1, <1>5, <2>2 DEF InUp
<1>7. ASSUME at = "down" PROVE InDown'
  <2>1. Falling(key, a, lo, r) /\ hi - lo >= MINSIZE
    BY <1>7, Facts DEF Here, InDown
  <2>2. Falling(key, a, lo, r + 1)
    BY <1>4, <1>7, <2>1, Longer
  <2> QED BY <1>1, <1>5, <2>1, <2>2 DEF InDown
<1>8. TypeOK'
  BY <1>4 DEF Further, SortInv, TypeOK, binary
<1>9. Here'
  BY <1>1, <1>3, <1>6, <1>7, OnePlace
<1> QED BY <1>1, <1>2, <1>8, <1>9 DEF SortInv

LEMMA AfterRunStep ==
  ASSUME SortInv, at = "up", AfterRun, UNCHANGED <<key, lo, hi, right, stack, calls>>
  PROVE  SortInv'
<1>1. /\ key' = key /\ a' = a /\ lo' = lo /\ hi' = hi /\ stack' = stack /\ calls' = calls
      /\ extra' = extra /\ count' = count /\ right' = right
  BY DEF AfterRun
<1>2. /\ a' \in Arrays /\ Permutation' /\ Callers(key', a', calls')
      /\ First' = First /\ Last' = Last
  BY <1>1, Kept
<1>3. /\ stack = <<>> /\ lo = First /\ hi = Last /\ lo <= hi /\ lo \in Int /\ hi \in Int
      /\ Level(key, a, lo, hi, <<>>, lo, hi)
  BY Untouched
<1>4. lo < r /\ r <= hi /\ Sorted(key, a, lo, r) /\ r \in Int
  BY Facts DEF Here, InUp, SortInv, TypeOK
<1>5. CASE hi - r <= MAXMERGE \/ hi - lo < MINSIZE
  <2>1. Binarysort(lo, hi, r, "return")
    BY <1>5 DEF AfterRun
  <2>2. stack' \in Seq(Node) /\ stack' = <<>> /\ First' \in Int /\ Last' \in Int
    BY <1>1, <1>2, <1>3, Facts
  <2>3. Level(key', a', First', Last', stack', lo, hi)
    BY <1>1, <1>2, <1>3
  <2>4. /\ Here' /\ begin' \in Int /\ end' \in Int /\ start' \in Int
        /\ then' \in {"return", "pop"} /\ at' \in {"insert", "return", "pop"}
    BY <1>1, <1>3, <1>4, <2>1, <2>2, <2>3, BinarysortCorrect
  <2>5. l' \in Int /\ r' \in Int
    BY <1>3, <1>4, <2>1 DEF Binarysort, InsertFrom, SortInv, TypeOK
  <2>6. TypeOK'
    BY <1>1, <2>4, <2>5 DEF SortInv, TypeOK
  <2> QED BY <1>1, <1>2, <2>4, <2>6 DEF SortInv
<1>6. CASE ~(hi - r <= MAXMERGE \/ hi - lo < MINSIZE)
  <2>1. at' = "down" /\ r' = lo + 1 /\ UNCHANGED <<l, binary>>
    BY <1>6 DEF AfterRun
  <2>2. hi - lo >= MINSIZE /\ lo < r' /\ r' <= hi
    BY <1>3, <1>4, <1>6, <2>1, SortAssumption
  <2>3. Falling(key, a, lo, r')
    BY <1>3, <2>1, ShortSorted
  <2>4. InSlice' /\ InDown'
    BY <1>1, <1>2, <1>3, <2>1, <2>2, <2>3 DEF InSlice, InDown
  <2>5. TypeOK'
    BY <1>1, <1>3, <2>1 DEF SortInv, TypeOK, binary
  <2> QED BY <1>1, <1>2, <2>1, <2>4, <2>5, OnePlace DEF SortInv
<1> QED BY <1>5, <1>6

LEMMA UpStep == ASSUME SortInv, Up PROVE SortInv'
<1>1. at = "up" /\ UNCHANGED <<key, lo, hi, right, stack, calls>>
  BY DEF Up
<1>2. CASE r < hi
  <2>1. /\ a[r] \in Items /\ a[r - 1] \in Items /\ key \in Keyings
    BY <1>1, <1>2, Neighbours, Facts
  <2>2. CASE (key # NoOrder => key[a[r]] < key[a[r - 1]]) /\ AfterRun
    BY <1>1, <2>2, AfterRunStep
  <2>3. CASE (key # NoOrder => key[a[r]] >= key[a[r - 1]]) /\ Further
    <3>1. Le(key, a[r - 1], a[r])
      BY <2>1, <2>3, Answer
    <3> QED BY <1>1, <1>2, <2>3, <3>1, FurtherStep
  <2>4. CASE at' = "failed" /\ UNCHANGED <<key, a, slice, l, r, count, binary, calls>>
    BY <2>4, FailKeeps
  <2> QED BY <1>2, <2>2, <2>3, <2>4 DEF Up, Compare
<1>3. CASE ~(r < hi)
  BY <1>1, <1>3, AfterRunStep DEF Up
<1> QED BY <1>2, <1>3

LEMMA ReversedSorted ==
  ASSUME NEW k, NEW b \in Arrays, NEW x \in Int, NEW y \in Int,
         0 <= x, y <= Size, Falling(k, b, x, y)
  PROVE  Sorted(k, Reversed(b, x, y), x, y)
<1>1. SUFFICES ASSUME NEW i \in Places, NEW j \in Places, x <= i, i < j, j < y
               PROVE  Le(k, Reversed(b, x, y)[i], Reversed(b, x, y)[j])
  BY DEF Sorted
<1>2. i \in Int /\ j \in Int
  BY DEF Places
<1>3. PICK u \in Int, v \in Int : u = x + y - 1 - i /\ v = x + y - 1 - j
  BY <1>2
<1>4. x <= v /\ v < u /\ u < y /\ x <= j /\ i < y
  BY <1>1, <1>2, <1>3
<1>5. u \in Places /\ v \in Places
  BY <1>3, <1>4, SortAssumption DEF Places
<1>6. Reversed(b, x, y)[i] = b[u] /\ Reversed(b, x, y)[j] = b[v]
  BY <1>1, <1>3, <1>4 DEF Reversed
<1> QED BY <1>4, <1>5, <1>6 DEF Falling

LEMMA AfterFallStep ==
  ASSUME SortInv, at = "down", AfterFall, UNCHANGED <<key, lo, hi, right, stack, calls>>
  PROVE  SortInv'
<1>1. key' = key /\ lo' = lo /\ hi' = hi /\ stack' = stack /\ calls' = calls /\ right' = right
  OBVIOUS
<1>3. /\ stack = <<>> /\ lo = First /\ hi = Last /\ lo <= hi /\ lo \in Int /\ hi \in Int
      /\ \A b : Level(key, b, lo, hi, <<>>, lo, hi)
  BY Untouched
<1>4. /\ lo < r /\ r <= hi /\ Falling(key, a, lo, r) /\ r \in Int /\ hi - lo >= MINSIZE
      /\ a \in Arrays /\ 0 <= lo /\ hi <= Size
  BY Facts DEF Here, InDown, SortInv, TypeOK
<1>2. r <= Size /\ lo <= lo
  BY <1>3, <1>4, SortAssumption
<1>5. CASE hi - r <= MAXMERGE
  <2>1. /\ a' = Reversed(a, lo, r) /\ Binarysort(lo, hi, r, "return")
        /\ UNCHANGED <<extra, count>>
    BY <1>5 DEF AfterFall
  <2>2. First <= lo /\ hi <= Last /\ Permuted(a, a', lo, hi)
    <3>1. Permuted(a, Reversed(a, lo, r), lo, hi)
      BY <1>2, <1>3, <1>4, ReversalPermutes
    <3>2. First <= lo /\ hi <= Last
      BY <1>3
    <3> QED BY <2>1, <3>1, <3>2
  <2>3. /\ a' \in Arrays /\ Permutation' /\ Callers(key', a', calls')
        /\ First' = First /\ Last' = Last
    BY <1>1, <1>3, <2>2, Kept
  <2>4. Sorted(key', a', lo, r)
    <3>1. Sorted(key, Reversed(a, lo, r), lo, r)
      BY <1>2, <1>3, <1>4, ReversedSorted
    <3> QED BY <1>1, <2>1, <3>1
  <2>5. stack' \in Seq(Node) /\ stack' = <<>> /\ First' \in Int /\ Last' \in Int
    BY <1>1, <1>3, <2>3, Facts
  <2>6. Level(key', a', First', Last', stack', lo, hi)
    BY <1>1, <1>3, <2>3
  <2>7. /\ Here' /\ begin' \in Int /\ end' \in Int /\ start' \in Int
        /\ then' \in {"return", "pop"} /\ at' \in {"insert", "return", "pop"}
    BY <1>1, <1>3, <1>4, <2>1, <2>4, <2>5, <2>6, BinarysortCorrect
  <2>8. l' \in Int /\ r' \in Int
    BY <1>3, <1>4, <2>1 DEF Binarysort, InsertFrom, SortInv, TypeOK
  <2>9. TypeOK'
    BY <1>1, <2>1, <2>3, <2>7, <2>8 DEF SortInv, TypeOK, Arrays
  <2> QED BY <1>1, <2>3, <2>7, <2>9 DEF SortInv
<1>6. CASE ~(hi - r <= MAXMERGE)
  <2>1. /\ at' = "sample" /\ extra' = Power[SampleBits[hi - lo]] - 1 /\ count' = extra'
        /\ UNCHANGED <<a, l, r, binary>>
    BY <1>6 DEF AfterFall
  <2>2. PICK n \in MINSIZE .. Size : n = hi - lo
    BY <1>3, <1>4, SortAssumption
  <2>3. PICK s \in 1 .. MAXBITS : s = SampleBits[n] /\ s <= STACKSIZE /\ Power[s] - 1 <= n
    BY SortAssumption
  <2>4. extra' \in Nat /\ extra' <= hi - lo /\ HasBits(extra', STACKSIZE)
    <3>1. s \in 0 .. MAXBITS /\ extra' = Power[s] - 1
      BY <2>1, <2>2, <2>3 DEF MAXBITS
    <3>2. Power[s] \in Nat \ {0} /\ Power[s] - 1 <= n
      BY <2>3, <3>1, PowerAssumption
    <3>3. HasBits(extra', STACKSIZE)
      BY <2>3, <3>1 DEF HasBits
    <3> QED BY <2>2, <3>1, <3>2, <3>3
  <2>5. /\ a' \in Arrays /\ Permutation' /\ Callers(key', a', calls')
        /\ First' = First /\ Last' = Last
    BY <1>1, <2>1, <1>3, Kept
  <2>6. InSlice' /\ InSample'
    BY <1>1, <1>3, <2>1, <2>4, <2>5 DEF InSlice, InSample
  <2>7. TypeOK'
    BY <1>1, <2>1, <2>4 DEF SortInv, TypeOK, binary
  <2> QED BY <1>1, <2>1, <2>5, <2>6, <2>7, OnePlace DEF SortInv
<1> QED BY <1>5, <1>6

LEMMA DownStep == ASSUME SortInv, Down PROVE SortInv'
<1>1. at = "down" /\ UNCHANGED <<key, lo, hi, right, stack, calls>>
  BY DEF Down
<1>2. CASE r < hi
  <2>1. /\ a[r] \in Items /\ a[r - 1] \in Items /\ key \in Keyings
    BY <1>1, <1>2, Neighbours, Facts
  <2>2. CASE (key # NoOrder => key[a[r - 1]] < key[a[r]]) /\ AfterFall
    BY <1>1, <2>2, AfterFallStep
  <2>3. CASE (key # NoOrder => key[a[r - 1]] >= key[a[r]]) /\ Further
    <3>1. Le(key, a[r], a[r - 1])
      BY <2>1, <2>3, Answer
    <3> QED BY <1>1, <1>2, <2>3, <3>1, FurtherStep
  <2>4. CASE at' = "failed" /\ UNCHANGED <<key, a, slice, l, r, count, binary, calls>>
    BY <2>4, FailKeeps
  <2> QED BY <1>2, <2>2, <2>3, <2>4 DEF Down, Compare
<1>3. CASE ~(r < hi)
  BY <1>1, <1>3, AfterFallStep DEF Down
<1> QED BY <1>2, <1>3

-----------------------------------------------------------------------------
(* Samples, and slices that are not partitioned *)

LEMMA ChooseStep ==
  ASSUME SortInv, at = "sample", count > 0, Choose, UNCHANGED <<key, l, r, binary>>
  PROVE  SortInv'
<1>1. PICK number \in Numbers :
        LET i == extra - count
        IN  /\ a' = Swapped(a, lo + i, lo + i + (number % (hi - lo - i)))
            /\ count' = count - 1
            /\ UNCHANGED <<at, slice, calls>>
  BY DEF Choose
<1>2. /\ key' = key /\ at' = at /\ lo' = lo /\ hi' = hi /\ stack' = stack /\ calls' = calls
      /\ extra' = extra /\ right' = right /\ count' = count - 1
  BY <1>1 DEF slice
<1>3. /\ stack = <<>> /\ lo = First /\ hi = Last /\ lo <= hi /\ lo \in Int /\ hi \in Int
      /\ 0 <= lo /\ hi <= Size /\ a \in Arrays
  BY Untouched, Facts
<1>4. /\ HasBits(extra, STACKSIZE) /\ extra <= hi - lo /\ count \in 1 .. extra
      /\ extra \in Nat /\ count \in Nat
  BY Facts DEF Here, InSample, SortInv, TypeOK
<1>5. PICK x \in Int : x = lo + (extra - count)
  BY <1>3, <1>4
<1>6. PICK m \in Nat : m = hi - lo - (extra - count) /\ m > 0
  BY <1>3, <1>4
<1>7. PICK q \in Int : q = number % m /\ 0 <= q /\ q < m
  BY <1>6, SortAssumption
<1>8. PICK y \in Int : y = x + q
  BY <1>5, <1>7
<1>9. lo <= x /\ x < hi /\ lo <= y /\ y < hi
  BY <1>3, <1>4, <1>5, <1>6, <1>7, <1>8
<1>10. x \in Places /\ y \in Places
  BY <1>3, <1>9, InPlaces
<1>11. a' = Swapped(a, x, y)
  BY <1>1, <1>5, <1>6, <1>7, <1>8
<1>12. Permuted(a, a', lo, hi)
  BY <1>3, <1>9, <1>10, <1>11, SwapPermutes
<1>13. First <= lo /\ hi <= Last
  BY <1>3
<1>14. /\ a' \in Arrays /\ Permutation' /\ Callers(key', a', calls')
       /\ First' = First /\ Last' = Last
  BY <1>2, <1>3, <1>12, <1>13, Kept
<1>15. count - 1 \in 0 .. extra
  BY <1>4
<1>16. InSlice' /\ InSample'
  BY <1>2, <1>3, <1>4, <1>14, <1>15 DEF InSlice, InSample
<1>17. TypeOK'
  BY <1>2, <1>4, <1>14, <1>15 DEF SortInv, TypeOK, Arrays, binary
<1> QED BY <1>2, <1>14, <1>16, <1>17, OnePlace DEF SortInv

\* The one that is called has the slice that the frame says.
LEMMA RecurseStep ==
  ASSUME SortInv, at # "failed", NEW x \in Int, NEW y \in Int, NEW f \in Frame,
         Recurse(x, y, f), UNCHANGED <<key, a, l, r, binary>>,
         0 <= x, x <= y, y <= Size,
         Waits(key, a, First, Last, f), CallFrom(f) = x, CallTo(f) = y
  PROVE  SortInv'
<1>1. /\ at' = "slice" /\ lo' = x /\ hi' = y /\ stack' = <<>> /\ calls' = Append(calls, f)
      /\ UNCHANGED <<extra, right, count>>
  BY DEF Recurse
<1>2. calls \in Seq(Frame) /\ Callers(key, a, calls)
  BY Facts
<1>3. /\ Append(calls, f) \in Seq(Frame) /\ Callers(key, a, Append(calls, f))
      /\ LevelFrom(Append(calls, f), Len(Append(calls, f))) = CallFrom(f)
      /\ LevelTo(Append(calls, f), Len(Append(calls, f))) = CallTo(f)
  BY <1>2, PushCallers DEF First, Last
<1>4. First' = x /\ Last' = y
  BY <1>1, <1>3 DEF First, Last
<1>5. InSlice'
  BY <1>1, <1>4 DEF InSlice
<1>6. stack' \in Seq(Node)
  BY <1>1, EmptySeq
<1>7. TypeOK'
  BY <1>1, <1>3, <1>6 DEF SortInv, TypeOK, binary
<1>8. Permutation'
  BY DEF SortInv, Permutation
<1> QED BY <1>1, <1>3, <1>5, <1>7, <1>8, OnePlace DEF SortInv

LEMMA SampleStep == ASSUME SortInv, Sample PROVE SortInv'
<1>1. at = "sample" /\ UNCHANGED <<key, l, r, binary>>
  BY DEF Sample
<1>2. CASE count > 0
  BY <1>1, <1>2, ChooseStep DEF Sample
<1>3. CASE ~(count > 0)
  <2> DEFINE f == [lo |-> lo + extra, hi |-> hi, extra |-> extra, right |-> FALSE,
                   stack |-> <<>>, at |-> "partition"]
  <2>1. Recurse(lo, lo + extra, f) /\ UNCHANGED a
    BY <1>1, <1>3 DEF Sample
  <2>2. /\ stack = <<>> /\ lo = First /\ hi = Last /\ lo <= hi /\ lo \in Int /\ hi \in Int
        /\ Level(key, a, lo, hi, <<>>, lo, hi) /\ 0 <= lo /\ hi <= Size
    BY <1>1, Untouched, Facts
  <2>3. HasBits(extra, STACKSIZE) /\ extra <= hi - lo /\ extra \in Nat
    BY <1>1, Facts DEF Here, InSample, SortInv, TypeOK
  <2>4. PICK x \in Int : x = lo + extra /\ x - extra = lo /\ lo <= x /\ x <= hi /\ x <= Size
    BY <2>2, <2>3, SortAssumption
  <2>5. <<>> \in Seq(Node) /\ STACKSIZE - Len(<<>>) = STACKSIZE
    BY EmptySeq, SortAssumption
  <2>6. f \in Frame
    BY <2>2, <2>3, <2>4, <2>5 DEF Frame
  <2>7. CallFrom(f) = lo /\ CallTo(f) = x
    BY <2>4 DEF CallFrom, CallTo
  <2>8. /\ f.at = "partition" /\ f.stack = <<>> /\ f.right = FALSE /\ f.lo = x /\ f.hi = hi
        /\ f.extra = extra
    BY <2>4
  <2> HIDE DEF f
  <2>9. Waits(key, a, First, Last, f)
    BY <2>2, <2>3, <2>4, <2>5, <2>7, <2>8 DEF Waits
  <2>10. Recurse(lo, x, f)
    BY <2>1, <2>4
  <2> QED BY <1>1, <2>1, <2>2, <2>4, <2>6, <2>7, <2>9, <2>10, RecurseStep
<1> QED BY <1>2, <1>3

\* Where a slice at hand with left and other pivots around it is.
LEMMA AroundBounds ==
  ASSUME SortInv, at # "failed", NEW L \in Int, NEW R \in Int, Around(L, R)
  PROVE  /\ lo \in Int /\ hi \in Int /\ lo <= hi /\ First <= lo - L /\ hi + R <= Last
         /\ 0 <= lo - L /\ hi + R <= Size /\ First \in Int /\ Last \in Int
         /\ Level(key, a, First, Last, stack, lo - L, hi + R)
<1>1. First \in Int /\ Last \in Int /\ 0 <= First /\ Last <= Size
  BY Facts
<1>2. lo \in Int /\ hi \in Int /\ lo <= hi
  BY DEF SortInv, TypeOK, Around
<1>3. Level(key, a, First, Last, stack, lo - L, hi + R)
  BY DEF Around, Works
<1>4. First <= lo - L /\ hi + R <= Last
  BY <1>3, LevelRange
<1> QED BY <1>1, <1>2, <1>3, <1>4, SortAssumption

LEMMA SmallStep == ASSUME SortInv, Small PROVE SortInv'
<1>1. at = "partition" /\ UNCHANGED <<key, a, l, r, binary>>
  BY DEF Small
<1>2. /\ HasBits(extra, STACKSIZE - Len(stack))
      /\ IF right THEN Around(0, extra) ELSE Around(extra, 0)
  BY <1>1, Facts DEF Here, InPartition
<1>3. /\ lo \in Int /\ hi \in Int /\ extra \in Nat /\ right \in BOOLEAN /\ stack \in Seq(Node)
      /\ hi - lo < MINPARTITIONSIZE \/ extra = 0
  BY DEF SortInv, TypeOK, Small
<1>4. CASE hi - lo >= MINSIZE
  <2> DEFINE f == [lo |-> lo, hi |-> hi, extra |-> extra, right |-> right,
                   stack |-> stack, at |-> "pop"]
  <2>1. Recurse(lo, hi, f)
    BY <1>4 DEF Small
  <2>2. extra = 0
    BY <1>3, <1>4, SortAssumption
  <2>3. Around(0, 0)
    BY <1>2, <2>2
  <2>4. /\ lo <= hi /\ 0 <= lo - 0 /\ hi + 0 <= Size
        /\ Level(key, a, First, Last, stack, lo - 0, hi + 0)
    BY <1>1, <2>3, AroundBounds
  <2>5. 0 <= lo /\ hi <= Size /\ Level(key, a, First, Last, stack, lo, hi)
    BY <1>3, <2>4
  <2>6. f \in Frame /\ f.at = "pop" /\ f.extra = 0 /\ f.lo = lo /\ f.hi = hi /\ f.stack = stack
    BY <1>3, <2>2 DEF Frame
  <2> HIDE DEF f
  <2>7. CallFrom(f) = lo /\ CallTo(f) = hi
    BY <1>3, <2>6 DEF CallFrom, CallTo
  <2>8. Waits(key, a, First, Last, f)
    BY <1>2, <2>2, <2>4, <2>5, <2>6, <2>7 DEF Waits
  <2> QED BY <1>1, <1>3, <2>1, <2>4, <2>5, <2>6, <2>7, <2>8, RecurseStep
<1>5. CASE ~(hi - lo >= MINSIZE)
  <2>1. /\ at' = "gather" /\ count' = (IF right THEN extra ELSE 0)
        /\ UNCHANGED <<slice, calls>>
    BY <1>5 DEF Small
  <2>2. /\ key' = key /\ a' = a /\ lo' = lo /\ hi' = hi /\ stack' = stack /\ calls' = calls
        /\ extra' = extra
    BY <1>1, <2>1 DEF slice
  <2>3. /\ a' \in Arrays /\ Permutation' /\ Callers(key', a', calls')
        /\ First' = First /\ Last' = Last
    BY <1>1, <2>2, Kept
  <2>4. count' \in 0 .. extra /\ Around(extra - count', count')
    <3>1. CASE right
      <4>1. count' = extra /\ extra - count' = 0
        BY <1>3, <2>1, <3>1
      <4> QED BY <1>2, <1>3, <3>1, <4>1
    <3>2. CASE ~right
      <4>1. count' = 0 /\ extra - count' = extra
        BY <1>3, <2>1, <3>2
      <4> QED BY <1>2, <1>3, <3>2, <4>1
    <3> QED BY <3>1, <3>2
  <2>5. InGather'
    BY <2>2, <2>3, <2>4 DEF InGather, Around, Works
  <2>6. TypeOK'
    BY <1>1, <1>3, <2>1, <2>4 DEF SortInv, TypeOK, slice, binary
  <2> QED BY <2>1, <2>2, <2>3, <2>5, <2>6, OnePlace DEF SortInv
<1> QED BY <1>4, <1>5

-----------------------------------------------------------------------------
(* Pivots change sides *)

\* The loops that move a pivot exchange it with the item at the other end of the slice.
LEMMA SwapUpKeeps ==
  ASSUME SortInv, at # "failed", NEW L \in Nat, NEW R \in Nat, Around(L, R), R > 0,
         SwapUp, UNCHANGED <<key, stack, calls>>
  PROVE  /\ a' \in Arrays /\ Permutation' /\ Callers(key', a', calls')
         /\ First' = First /\ Last' = Last
         /\ lo' \in Int /\ hi' \in Int /\ 0 <= lo' /\ hi' <= Size /\ hi' - lo' = hi - lo
         /\ Around(L + 1, R - 1)'
<1>1. /\ a' = Swapped(a, lo, hi) /\ lo' = lo + 1 /\ hi' = hi + 1 /\ key' = key
      /\ stack' = stack /\ calls' = calls
  BY DEF SwapUp
<1>2. /\ lo \in Int /\ hi \in Int /\ lo <= hi /\ First <= lo - L /\ hi + R <= Last
      /\ 0 <= lo - L /\ hi + R <= Size /\ First \in Int /\ Last \in Int
      /\ Level(key, a, First, Last, stack, lo - L, hi + R)
  BY AroundBounds
<1>3. key \in Keyings /\ a \in Arrays /\ stack \in Seq(Node)
  BY Facts
<1>4. PICK u \in Int, v \in Int : u = lo - L /\ v = hi + R
  BY <1>2
<1>5. u <= lo /\ lo < v /\ u <= hi /\ hi < v /\ 0 <= lo /\ hi < Size
  BY <1>2, <1>4, SortAssumption
<1>6. lo \in Places /\ hi \in Places
  BY <1>2, <1>5, SortAssumption DEF Places
<1>7. /\ Permuted(a, a', u, v)
      /\ \A p \in Places : a'[p] = IF p = hi THEN a[lo] ELSE IF p = lo THEN a[hi] ELSE a[p]
  BY <1>1, <1>3, <1>5, <1>6, SwapPermutes
<1>8. First <= u /\ v <= Last
  BY <1>2, <1>4
<1>9. /\ a' \in Arrays /\ Permutation' /\ Callers(key', a', calls')
      /\ First' = First /\ Last' = Last
  BY <1>1, <1>7, <1>8, Kept
<1>10. Level(key, a', First, Last, stack, u, v)
  BY <1>2, <1>3, <1>4, <1>7, PermutedLevel
<1>11. lo' - (L + 1) = u /\ hi' + (R - 1) = v /\ lo' <= hi'
  BY <1>1, <1>2, <1>4
<1>12. SortedTwo(key, a, u, lo, hi, v)
  BY <1>4 DEF Around
<1>13. SortedTwo(key, a', u, lo + 1, hi + 1, v)
  <2>1. SUFFICES ASSUME NEW i \in Places, NEW j \in Places, i < j,
                        (u <= i /\ i < lo + 1) \/ (hi + 1 <= i /\ i < v),
                        (u <= j /\ j < lo + 1) \/ (hi + 1 <= j /\ j < v)
                 PROVE  Le(key, a'[i], a'[j])
    BY DEF SortedTwo
  <2>2. i \in Int /\ j \in Int
    BY DEF Places
  <2>3. PICK x \in Places : x = (IF i = lo THEN hi ELSE i) /\ a'[i] = a[x]
    BY <1>2, <1>6, <1>7, <2>1, <2>2
  <2>4. PICK y \in Places : y = (IF j = lo THEN hi ELSE j) /\ a'[j] = a[y]
    BY <1>2, <1>6, <1>7, <2>1, <2>2
  <2>5. /\ x < y
        /\ (u <= x /\ x < lo) \/ (hi <= x /\ x < v)
        /\ (u <= y /\ y < lo) \/ (hi <= y /\ y < v)
    BY <1>2, <1>5, <2>1, <2>2, <2>3, <2>4
  <2> QED BY <1>12, <2>3, <2>4, <2>5 DEF SortedTwo
<1>14. Around(L + 1, R - 1)'
  BY <1>1, <1>9, <1>10, <1>11, <1>13 DEF Around, Works
<1>15. lo' \in Int /\ hi' \in Int /\ 0 <= lo' /\ hi' <= Size /\ hi' - lo' = hi - lo
  BY <1>1, <1>2, <1>5, SortAssumption
<1> QED BY <1>9, <1>14, <1>15

LEMMA SwapDownKeeps ==
  ASSUME SortInv, at # "failed", NEW L \in Nat, NEW R \in Nat, Around(L, R), L > 0,
         SwapDown, UNCHANGED <<key, stack, calls>>
  PROVE  /\ a' \in Arrays /\ Permutation' /\ Callers(key', a', calls')
         /\ First' = First /\ Last' = Last
         /\ lo' \in Int /\ hi' \in Int /\ 0 <= lo' /\ hi' <= Size /\ hi' - lo' = hi - lo
         /\ Around(L - 1, R + 1)'
<1>1. /\ a' = Swapped(a, lo - 1, hi - 1) /\ lo' = lo - 1 /\ hi' = hi - 1 /\ key' = key
      /\ stack' = stack /\ calls' = calls
  BY DEF SwapDown
<1>2. /\ lo \in Int /\ hi \in Int /\ lo <= hi /\ First <= lo - L /\ hi + R <= Last
      /\ 0 <= lo - L /\ hi + R <= Size /\ First \in Int /\ Last \in Int
      /\ Level(key, a, First, Last, stack, lo - L, hi + R)
  BY AroundBounds
<1>3. key \in Keyings /\ a \in Arrays /\ stack \in Seq(Node)
  BY Facts
<1>4. PICK u \in Int, v \in Int : u = lo - L /\ v = hi + R
  BY <1>2
<1>0. PICK g \in Int, h \in Int : g = lo - 1 /\ h = hi - 1
  BY <1>2
<1>5. u <= g /\ g < v /\ u <= h /\ h < v /\ 0 <= g /\ h < Size /\ g <= h
  BY <1>0, <1>2, <1>4, SortAssumption
<1>6. g \in Places /\ h \in Places
  BY <1>2, <1>5, SortAssumption DEF Places
<1>7. /\ Permuted(a, a', u, v)
      /\ \A p \in Places : a'[p] = IF p = h THEN a[g] ELSE IF p = g THEN a[h] ELSE a[p]
  BY <1>0, <1>1, <1>3, <1>5, <1>6, SwapPermutes
<1>8. First <= u /\ v <= Last
  BY <1>2, <1>4
<1>9. /\ a' \in Arrays /\ Permutation' /\ Callers(key', a', calls')
      /\ First' = First /\ Last' = Last
  BY <1>1, <1>7, <1>8, Kept
<1>10. Level(key, a', First, Last, stack, u, v)
  BY <1>2, <1>3, <1>4, <1>7, PermutedLevel
<1>11. lo' - (L - 1) = u /\ hi' + (R + 1) = v /\ lo' <= hi' /\ lo' = g /\ hi' = h
  BY <1>0, <1>1, <1>2, <1>4
<1>12. SortedTwo(key, a, u, lo, hi, v)
  BY <1>4 DEF Around
<1>13. SortedTwo(key, a', u, g, h, v)
  <2>1. SUFFICES ASSUME NEW i \in Places, NEW j \in Places, i < j,
                        (u <= i /\ i < g) \/ (h <= i /\ i < v),
                        (u <= j /\ j < g) \/ (h <= j /\ j < v)
                 PROVE  Le(key, a'[i], a'[j])
    BY DEF SortedTwo
  <2>2. i \in Int /\ j \in Int
    BY DEF Places
  <2>3. PICK x \in Places : x = (IF i = h THEN g ELSE i) /\ a'[i] = a[x]
    BY <1>5, <1>6, <1>7, <2>1, <2>2
  <2>4. PICK y \in Places : y = (IF j = h THEN g ELSE j) /\ a'[j] = a[y]
    BY <1>5, <1>6, <1>7, <2>1, <2>2
  <2>5. /\ x < y
        /\ (u <= x /\ x < lo) \/ (hi <= x /\ x < v)
        /\ (u <= y /\ y < lo) \/ (hi <= y /\ y < v)
    BY <1>0, <1>2, <1>5, <2>1, <2>2, <2>3, <2>4
  <2> QED BY <1>12, <2>3, <2>4, <2>5 DEF SortedTwo
<1>14. Around(L - 1, R + 1)'
  BY <1>1, <1>9, <1>10, <1>11, <1>13 DEF Around, Works
<1>15. lo' \in Int /\ hi' \in Int /\ 0 <= lo' /\ hi' <= Size /\ hi' - lo' = hi - lo
  BY <1>1, <1>2, <1>4, <1>5, <1>11, SortAssumption
<1> QED BY <1>9, <1>14, <1>15

LEMMA GatherStep == ASSUME SortInv, Gather PROVE SortInv'
<1>1. at = "gather" /\ UNCHANGED <<key, extra, right, stack, calls>>
  BY DEF Gather
<1>2. count \in 0 .. extra /\ Around(extra - count, count)
  BY <1>1, Facts DEF Here, InGather
<1>3. extra \in Nat /\ lo \in Int /\ hi \in Int /\ stack \in Seq(Node)
  BY DEF SortInv, TypeOK
<1>4. CASE count > 0
  <2>1. SwapUp /\ UNCHANGED <<at, l, r, binary>>
    BY <1>4 DEF Gather
  <2>2. PICK L \in Nat, R \in Nat : L = extra - count /\ R = count /\ R > 0
    BY <1>2, <1>3, <1>4
  <2>3. Around(L, R)
    BY <1>2, <2>2
  <2>4. /\ a' \in Arrays /\ Permutation' /\ Callers(key', a', calls')
        /\ lo' \in Int /\ hi' \in Int /\ 0 <= lo' /\ hi' <= Size
        /\ Around(L + 1, R - 1)'
    BY <1>1, <2>1, <2>2, <2>3, SwapUpKeeps
  <2>5. count' = R - 1 /\ extra' - count' = L + 1 /\ count' \in 0 .. extra' /\ count' \in Nat
    BY <1>1, <1>2, <1>3, <2>1, <2>2 DEF SwapUp
  <2>6. InGather'
    BY <2>4, <2>5 DEF InGather, Around, Works
  <2>7. at' = "gather"
    BY <1>1, <2>1
  <2>8. TypeOK'
    BY <1>1, <2>1, <2>4, <2>5 DEF SortInv, TypeOK, binary, Arrays
  <2> QED BY <2>4, <2>6, <2>7, <2>8, OnePlace DEF SortInv
<1>5. CASE ~(count > 0)
  <2>1. Binarysort(lo - extra, hi, lo, "pop") /\ UNCHANGED <<a, lo, hi, count>>
    BY <1>5 DEF Gather
  <2>2. PICK L \in Nat : L = extra /\ extra - count = L /\ count = 0
    BY <1>2, <1>3, <1>5
  <2>3. Around(L, 0)
    BY <1>2, <2>2
  <2>4. PICK x \in Int : x = lo - extra /\ x <= lo
    BY <1>3
  <2>5. Level(key, a, First, Last, stack, x, hi) /\ SortedTwo(key, a, x, lo, hi, hi)
    <3>1. lo - L = x /\ hi + 0 = hi
      BY <1>3, <2>2, <2>4
    <3> QED BY <2>3, <3>1 DEF Around, Works
  <2>6. Sorted(key, a, x, lo)
    <3>1. ASSUME NEW i \in Places, NEW j \in Places, x <= i, i < j, j < lo
          PROVE  i < lo /\ x <= j
      BY <1>3, <3>1 DEF Places
    <3> QED BY <2>5, <3>1 DEF SortedTwo, Sorted
  <2>7. /\ a' \in Arrays /\ Permutation' /\ Callers(key', a', calls')
        /\ First' = First /\ Last' = Last
    BY <1>1, <2>1, Kept
  <2>8. /\ Level(key', a', First', Last', stack', x, hi) /\ Sorted(key', a', x, lo)
        /\ stack' \in Seq(Node) /\ First' \in Int /\ Last' \in Int
    BY <1>1, <1>3, <2>1, <2>5, <2>6, <2>7, Facts
  <2>9. Binarysort(x, hi, lo, "pop")
    BY <2>1, <2>4
  <2>10. /\ Here' /\ begin' \in Int /\ end' \in Int /\ start' \in Int
         /\ then' \in {"return", "pop"} /\ at' \in {"insert", "return", "pop"}
    BY <1>3, <2>4, <2>8, <2>9, BinarysortCorrect
  <2>11. l' \in Int /\ r' \in Int
    BY <1>3, <2>4, <2>9 DEF Binarysort, InsertFrom, SortInv, TypeOK
  <2>12. TypeOK'
    BY <1>1, <2>1, <2>10, <2>11 DEF SortInv, TypeOK
  <2> QED BY <2>1, <2>7, <2>10, <2>12 DEF SortInv
<1> QED BY <1>4, <1>5

LEMMA SpreadStep == ASSUME SortInv, Spread PROVE SortInv'
<1>1. at = "spread" /\ UNCHANGED <<key, extra, right, stack, binary, calls>>
  BY DEF Spread
<1>2. /\ HasBits(extra, STACKSIZE - Len(stack) - 1) /\ hi - lo >= 2
      /\ IF right THEN count \in 0 .. extra + 1 /\ Around(extra + 1 - count, extra + count)
         ELSE count \in 0 .. extra /\ Around(extra + 1 + count, extra - count)
  BY <1>1, Facts DEF Here, InSpread
<1>3. /\ extra \in Nat /\ lo \in Int /\ hi \in Int /\ stack \in Seq(Node) /\ right \in BOOLEAN
      /\ count \in Nat /\ a \in Arrays
  BY <1>1, Facts DEF SortInv, TypeOK
<1>4. CASE count > 0 /\ right
  <2>1. SwapUp /\ UNCHANGED <<at, l, r>>
    BY <1>4 DEF Spread
  <2>2. PICK L \in Nat, R \in Nat : L = extra + 1 - count /\ R = extra + count /\ R > 0
    BY <1>2, <1>3, <1>4
  <2>3. Around(L, R)
    BY <1>2, <1>4, <2>2
  <2>4. /\ a' \in Arrays /\ Permutation' /\ Callers(key', a', calls')
        /\ lo' \in Int /\ hi' \in Int /\ 0 <= lo' /\ hi' <= Size /\ hi' - lo' = hi - lo
        /\ Around(L + 1, R - 1)'
    BY <1>1, <2>1, <2>2, <2>3, SwapUpKeeps
  <2>5. /\ extra' + 1 - count' = L + 1 /\ extra' + count' = R - 1
        /\ count' \in 0 .. extra' + 1 /\ count' \in Nat
    BY <1>1, <1>2, <1>3, <1>4, <2>1, <2>2 DEF SwapUp
  <2>6. InSpread'
    BY <1>1, <1>2, <1>4, <2>4, <2>5 DEF InSpread, Around, Works
  <2>7. TypeOK'
    BY <1>1, <1>3, <2>1, <2>4, <2>5 DEF SortInv, TypeOK, binary, Arrays
  <2> QED BY <1>1, <2>1, <2>4, <2>6, <2>7, OnePlace DEF SortInv
<1>5. CASE count > 0 /\ ~right
  <2>1. SwapDown /\ UNCHANGED <<at, l, r>>
    BY <1>5 DEF Spread
  <2>2. PICK L \in Nat, R \in Nat : L = extra + 1 + count /\ R = extra - count /\ L > 0
    BY <1>2, <1>3, <1>5
  <2>3. Around(L, R)
    BY <1>2, <1>5, <2>2
  <2>4. /\ a' \in Arrays /\ Permutation' /\ Callers(key', a', calls')
        /\ lo' \in Int /\ hi' \in Int /\ 0 <= lo' /\ hi' <= Size /\ hi' - lo' = hi - lo
        /\ Around(L - 1, R + 1)'
    BY <1>1, <2>1, <2>2, <2>3, SwapDownKeeps
  <2>5. /\ extra' + 1 + count' = L - 1 /\ extra' - count' = R + 1
        /\ count' \in 0 .. extra' /\ count' \in Nat
    BY <1>1, <1>2, <1>3, <1>5, <2>1, <2>2 DEF SwapDown
  <2>6. InSpread'
    BY <1>1, <1>2, <1>5, <2>4, <2>5 DEF InSpread, Around, Works
  <2>7. TypeOK'
    BY <1>1, <1>3, <2>1, <2>4, <2>5 DEF SortInv, TypeOK, binary, Arrays
  <2> QED BY <1>1, <2>1, <2>4, <2>6, <2>7, OnePlace DEF SortInv
<1>6. CASE ~(count > 0)
  <2>1. /\ at' = "slideL" /\ lo' = lo - 1 /\ l' = lo /\ r' = hi - 1
        /\ UNCHANGED <<a, hi, count>>
    BY <1>6 DEF Spread
  <2>2. PICK L \in Nat : L = extra + 1
    BY <1>3
  <2>3. Around(L, extra)
    <3>1. extra + 1 - count = L /\ extra + 1 + count = L
          /\ extra + count = extra /\ extra - count = extra
      BY <1>3, <1>6, <2>2
    <3> QED BY <1>2, <3>1
  <2>4. /\ 0 <= lo - L /\ hi + extra <= Size
        /\ Level(key, a, First, Last, stack, lo - L, hi + extra)
        /\ SortedTwo(key, a, lo - L, lo, hi, hi + extra)
    BY <1>1, <1>3, <2>3, AroundBounds DEF Around
  <2>5. /\ lo - L = lo' - extra /\ lo = lo' + 1 /\ lo' \in Int /\ 0 <= lo' /\ hi <= Size
        /\ lo' < l' /\ l' <= r' + 1 /\ r' < hi /\ l' < r' /\ l' \in Int /\ r' \in Int
    BY <1>2, <1>3, <2>1, <2>2, <2>4, SortAssumption
  <2>6. \A i \in Places : ~(lo' < i /\ i < l') /\ ~(r' < i /\ i < hi)
    BY <1>3, <2>1 DEF Places
  <2>7. /\ a' \in Arrays /\ Permutation' /\ Callers(key', a', calls')
        /\ First' = First /\ Last' = Last
    BY <1>1, <2>1, Kept
  <2>8. Works(lo - extra, hi + extra)'
    BY <1>1, <2>1, <2>4, <2>5, <2>7 DEF Works
  <2>9. SortedTwo(key, a, lo - extra, lo + 1, hi, hi + extra)'
    BY <1>1, <2>1, <2>4, <2>5
  <2>10. InSlide'
    BY <1>1, <1>2, <2>1, <2>5, <2>6, <2>8, <2>9 DEF InSlide
  <2>11. TypeOK'
    BY <1>1, <1>3, <2>1, <2>5 DEF SortInv, TypeOK, binary
  <2> QED BY <2>1, <2>5, <2>7, <2>10, <2>11, OnePlace DEF SortInv
<1> QED BY <1>3, <1>4, <1>5, <1>6

-----------------------------------------------------------------------------
(* The stack *)

LEMMA PopStep == ASSUME SortInv, Pop PROVE SortInv'
<1>1. at = "pop" /\ UNCHANGED <<key, a, l, r, count, binary, calls>>
  BY DEF Pop
<1>2. /\ Level(key, a, First, Last, stack, First, First) /\ stack \in Seq(Node)
      /\ First \in Int /\ Last \in Int /\ 0 <= First /\ Last <= Size
  BY <1>1, Facts DEF Here, InPop, Works
<1>3. /\ a' \in Arrays /\ Permutation' /\ Callers(key', a', calls')
      /\ First' = First /\ Last' = Last
  BY <1>1, Kept
<1>4. CASE stack = <<>>
  <2>1. at' = "return" /\ UNCHANGED slice
    BY <1>4 DEF Pop
  <2>2. InPop'
    BY <1>1, <1>2, <1>3, <1>4, <2>1 DEF InPop, Works, slice
  <2>3. TypeOK'
    BY <1>1, <2>1 DEF SortInv, TypeOK, slice, binary
  <2> QED BY <1>3, <2>1, <2>2, <2>3, OnePlace DEF SortInv, slice
<1>5. CASE stack # <<>>
  <2>1. PICK n : n = stack[Len(stack)]
    OBVIOUS
  <2>2. /\ at' = "partition" /\ stack' = Popped(stack)
        /\ lo' = n.lo /\ hi' = n.hi /\ extra' = n.extra /\ right' = n.right
    BY <1>5, <2>1 DEF Pop, Popped
  <2>3. /\ n \in Node /\ stack' \in Seq(Node) /\ Len(stack') = Len(stack) - 1
        /\ n.lo <= n.hi /\ HasBits(n.extra, STACKSIZE - Len(stack') - 1)
        /\ Level(key, a, First, Last, stack', From(n), To(n))
        /\ SortedTwo(key, a, From(n), n.lo, n.hi, To(n))
    BY <1>2, <1>5, <2>1, <2>2, PopLevel
  <2>4. /\ n.lo \in Int /\ n.hi \in Int /\ n.extra \in Nat /\ n.right \in BOOLEAN
        /\ From(n) \in Int /\ To(n) \in Int /\ From(n) <= n.lo /\ n.hi <= To(n)
    BY <2>3, NodeBounds DEF Node
  <2>5. 0 <= lo' /\ hi' <= Size
    <3>1. First <= From(n) /\ To(n) <= Last
      BY <2>3, LevelRange
    <3> QED BY <1>2, <2>2, <2>4, <3>1, SortAssumption
  <2>6. HasBits(extra', STACKSIZE - Len(stack'))
    <3>0. PICK d \in Nat : d = Len(stack')
      BY <2>3, LenProperties
    <3>1. PICK m \in Int, m1 \in Int :
            m = STACKSIZE - d - 1 /\ m1 = STACKSIZE - d /\ m <= m1
      BY SortAssumption
    <3>2. HasBits(n.extra, m)
      BY <2>3, <3>0, <3>1
    <3>3. HasBits(n.extra, m1)
      BY <3>1, <3>2, BitsGrow
    <3> QED BY <2>2, <3>0, <3>1, <3>3
  <2>7. lo' <= hi'
    BY <2>2, <2>3
  <2>8. ASSUME n.right PROVE InPartition'
    <3>1. From(n) = lo' - 0 /\ To(n) = hi' + extra' /\ right' = TRUE
      BY <2>2, <2>4, <2>8 DEF From, To
    <3>2. Around(0, extra)'
      BY <1>1, <1>3, <2>2, <2>3, <2>7, <3>1 DEF Around, Works
    <3> QED BY <2>6, <3>1, <3>2 DEF InPartition
  <2>9. ASSUME ~n.right PROVE InPartition'
    <3>1. From(n) = lo' - extra' /\ To(n) = hi' + 0 /\ right' = FALSE
      BY <2>2, <2>4, <2>9 DEF From, To
    <3>2. Around(extra, 0)'
      BY <1>1, <1>3, <2>2, <2>3, <2>7, <3>1 DEF Around, Works
    <3> QED BY <2>6, <3>1, <3>2 DEF InPartition
  <2>10. TypeOK'
    BY <1>1, <2>2, <2>3, <2>4 DEF SortInv, TypeOK, binary
  <2> QED BY <1>3, <2>2, <2>5, <2>8, <2>9, <2>10, OnePlace DEF SortInv
<1> QED BY <1>4, <1>5

LEMMA SplitStep == ASSUME SortInv, Split PROVE SortInv'
<1>1. /\ at = "partition" /\ hi - lo >= MINPARTITIONSIZE /\ extra > 0
      /\ at' = "spread" /\ extra' = extra \div 2
      /\ count' = (IF right THEN extra' + 1 ELSE extra')
      /\ UNCHANGED <<key, a, lo, hi, right, stack, l, r, binary, calls>>
  BY DEF Split
<1>2. /\ HasBits(extra, STACKSIZE - Len(stack))
      /\ IF right THEN Around(0, extra) ELSE Around(extra, 0)
  BY <1>1, Facts DEF Here, InPartition
<1>3. /\ lo \in Int /\ hi \in Int /\ extra \in Nat /\ right \in BOOLEAN /\ stack \in Seq(Node)
  BY DEF SortInv, TypeOK
<1>4. PICK m \in Int : m = STACKSIZE - Len(stack)
  BY <1>3, SortAssumption
<1>5. HasBits(extra', STACKSIZE - Len(stack) - 1) /\ extra = 2 * extra' + 1
  BY <1>1, <1>2, <1>3, <1>4, HalfBits
<1>6. extra' \in Nat /\ count' \in Nat /\ hi - lo >= 2
  BY <1>1, <1>3, SortAssumption
<1>7. /\ a' \in Arrays /\ Permutation' /\ Callers(key', a', calls')
      /\ First' = First /\ Last' = Last
  BY <1>1, Kept
<1>8. /\ right => /\ count' \in 0 .. extra' + 1
                  /\ extra' + 1 - count' = 0 /\ extra' + count' = extra
      /\ ~right => /\ count' \in 0 .. extra'
                   /\ extra' + 1 + count' = extra /\ extra' - count' = 0
  BY <1>1, <1>5, <1>6
<1>9. InSpread'
  BY <1>1, <1>2, <1>5, <1>6, <1>7, <1>8 DEF InSpread, Around, Works
<1>10. TypeOK'
  BY <1>1, <1>6 DEF SortInv, TypeOK, binary
<1> QED BY <1>1, <1>7, <1>9, <1>10, OnePlace DEF SortInv

-----------------------------------------------------------------------------
(* The partition *)

LEMMA SlideBounds ==
  ASSUME SortInv, at \in {"slideL", "slideR", "meet"}
  PROVE  /\ lo \in Int /\ hi \in Int /\ extra \in Nat /\ l \in Int /\ r \in Int
         /\ key \in Keyings /\ a \in Arrays /\ stack \in Seq(Node)
         /\ First \in Int /\ Last \in Int
         /\ First <= lo - extra /\ hi + extra <= Last /\ 0 <= lo /\ hi <= Size
         /\ Level(key, a, First, Last, stack, lo - extra, hi + extra)
         /\ lo < l /\ l <= r + 1 /\ r < hi /\ lo \in Places /\ a[lo] \in Items
         /\ \A i \in Int : lo <= i /\ i < hi => i \in Places
<1>1. /\ lo \in Int /\ hi \in Int /\ extra \in Nat /\ l \in Int /\ r \in Int
      /\ key \in Keyings /\ a \in Arrays /\ stack \in Seq(Node)
      /\ First \in Int /\ Last \in Int /\ 0 <= First /\ Last <= Size
  BY Facts DEF SortInv, TypeOK
<1>2. /\ Level(key, a, First, Last, stack, lo - extra, hi + extra)
      /\ lo < l /\ l <= r + 1 /\ r < hi
  BY Facts DEF Here, InSlide, Works
<1>3. First <= lo - extra /\ hi + extra <= Last
  BY <1>2, LevelRange
<1>4. 0 <= lo /\ hi <= Size
  BY DEF SortInv
<1>5. \A i \in Int : lo <= i /\ i < hi => i \in Places
  BY <1>1, <1>4, InPlaces
<1>6. lo \in Places
  BY <1>1, <1>2, <1>5
<1>7. a[lo] \in Items
  BY <1>1, <1>6, ItemsAt
<1> QED BY <1>1, <1>2, <1>3, <1>4, <1>5, <1>6, <1>7

LEMMA SlideLStep == ASSUME SortInv, SlideL PROVE SortInv'
<1>1. at = "slideL" /\ UNCHANGED <<key, a, slice, count, binary, calls>>
  BY DEF SlideL
<1>2. /\ key' = key /\ a' = a /\ lo' = lo /\ hi' = hi /\ extra' = extra /\ stack' = stack
      /\ calls' = calls
  BY <1>1 DEF slice
<1>3. /\ HasBits(extra, STACKSIZE - Len(stack) - 1)
      /\ Works(lo - extra, hi + extra) /\ SortedTwo(key, a, lo - extra, lo + 1, hi, hi + extra)
      /\ l < r
      /\ \A i \in Places : lo < i /\ i < l => Le(key, a[i], a[lo])
      /\ \A i \in Places : r < i /\ i < hi => Le(key, a[lo], a[i])
  BY <1>1, Facts DEF Here, InSlide
<1>4. /\ lo \in Int /\ hi \in Int /\ l \in Int /\ r \in Int /\ lo < l /\ r < hi
      /\ key \in Keyings /\ a[lo] \in Items /\ a \in Arrays
  BY <1>1, SlideBounds
<1>5. l \in Places /\ a[l] \in Items
  <2>1. lo <= l /\ l < hi
    BY <1>3, <1>4
  <2>2. l \in Places
    BY <1>1, <1>4, <2>1, SlideBounds
  <2> QED BY <1>4, <2>2, ItemsAt
<1>6. /\ a' \in Arrays /\ Permutation' /\ Callers(key', a', calls')
      /\ First' = First /\ Last' = Last
  BY <1>1, <1>2, Kept
<1>7. CASE (key # NoOrder => key[a[l]] < key[a[lo]]) /\ Slide(l + 1, r)
  <2>1. Le(key, a[l], a[lo])
    BY <1>4, <1>5, <1>7, Answer
  <2>2. l' = l + 1 /\ r' = r /\ at' = IF l + 1 < r THEN "slideL" ELSE "meet"
    BY <1>7 DEF Slide
  <2>3. lo < l' /\ l' <= r' + 1 /\ r' < hi /\ (l' < r' \/ r' <= l') /\ l' \in Int
    BY <1>3, <1>4, <2>2
  <2>4. \A i \in Places : lo < i /\ i < l' => (lo < i /\ i < l) \/ i = l
    BY <1>4, <2>2 DEF Places
  <2>5. InSlide'
    BY <1>2, <1>3, <1>4, <1>6, <2>1, <2>2, <2>3, <2>4 DEF InSlide, Works
  <2>6. at' \in {"slideL", "meet"}
    BY <2>2
  <2>7. TypeOK'
    BY <1>1, <1>4, <2>2, <2>3, <2>6 DEF SortInv, TypeOK, slice, binary
  <2> QED BY <1>2, <1>6, <2>5, <2>6, <2>7, OnePlace DEF SortInv
<1>8. CASE (key # NoOrder => key[a[l]] >= key[a[lo]]) /\ at' = "slideR" /\ UNCHANGED <<l, r>>
  <2>1. Le(key, a[lo], a[l])
    BY <1>4, <1>5, <1>8, Answer
  <2>2. l <= r /\ l <= r + 1
    BY <1>3, <1>4
  <2>3. InSlide'
    BY <1>2, <1>3, <1>4, <1>6, <1>8, <2>1, <2>2 DEF InSlide, Works
  <2>4. TypeOK'
    BY <1>1, <1>8 DEF SortInv, TypeOK, slice, binary
  <2> QED BY <1>2, <1>6, <1>8, <2>3, <2>4, OnePlace DEF SortInv
<1>9. CASE at' = "failed" /\ UNCHANGED <<key, a, slice, l, r, count, binary, calls>>
  BY <1>9, FailKeeps
<1> QED BY <1>7, <1>8, <1>9 DEF SlideL, Compare

LEMMA ExchangeKeeps ==
  ASSUME SortInv, at = "slideR", l < r, Le(key, a[r], a[lo]),
         a' = Exchanged(a, l, r), Slide(l + 1, r - 1),
         UNCHANGED <<key, slice, count, binary, calls>>
  PROVE  SortInv'
<1>1. /\ key' = key /\ lo' = lo /\ hi' = hi /\ extra' = extra /\ stack' = stack
      /\ calls' = calls /\ l' = l + 1 /\ r' = r - 1
      /\ at' = IF l + 1 < r - 1 THEN "slideL" ELSE "meet"
  BY DEF slice, Slide
<1>2. /\ lo \in Int /\ hi \in Int /\ extra \in Nat /\ l \in Int /\ r \in Int
      /\ key \in Keyings /\ a \in Arrays /\ stack \in Seq(Node)
      /\ First \in Int /\ Last \in Int
      /\ First <= lo - extra /\ hi + extra <= Last /\ 0 <= lo /\ hi <= Size
      /\ Level(key, a, First, Last, stack, lo - extra, hi + extra)
      /\ lo < l /\ r < hi
      /\ \A i \in Int : lo <= i /\ i < hi => i \in Places
  BY SlideBounds
<1>3. /\ HasBits(extra, STACKSIZE - Len(stack) - 1)
      /\ SortedTwo(key, a, lo - extra, lo + 1, hi, hi + extra)
      /\ \A i \in Places : lo < i /\ i < l => Le(key, a[i], a[lo])
      /\ \A i \in Places : r < i /\ i < hi => Le(key, a[lo], a[i])
      /\ Le(key, a[lo], a[l])
  BY Facts DEF Here, InSlide
<1>4. l \in Places /\ r \in Places
  <2>1. lo <= l /\ l < hi /\ lo <= r /\ r < hi
    BY <1>2
  <2> QED BY <1>2, <2>1
<1>5. PICK c \in Int, d \in Int, v \in Int : c = lo - extra /\ d = hi + extra /\ v = r + 1
  BY <1>2
<1>6. l <= l /\ l < v /\ l <= r /\ r < v /\ c <= l /\ v <= d /\ First <= l /\ v <= Last
  BY <1>2, <1>5
<1>7. a' = Swapped(a, l, r)
  BY DEF Exchanged
<1>8. /\ Permuted(a, a', l, v)
      /\ \A p \in Places : a'[p] = IF p = r THEN a[l] ELSE IF p = l THEN a[r] ELSE a[p]
  BY <1>2, <1>4, <1>5, <1>6, <1>7, SwapPermutes
<1>9. /\ a' \in Arrays /\ Permutation' /\ Callers(key', a', calls')
      /\ First' = First /\ Last' = Last
  BY <1>1, <1>2, <1>6, <1>8, Kept
<1>10. Level(key, a', First, Last, stack, c, d)
  BY <1>2, <1>5, <1>6, <1>8, PermutedLevel
<1>11. \A p \in Places : p <= lo \/ hi <= p => a'[p] = a[p]
  BY <1>2, <1>8 DEF Places
<1>12. SortedTwo(key, a', c, lo + 1, hi, d)
  <2>1. SUFFICES ASSUME NEW i \in Places, NEW j \in Places, i < j,
                        (c <= i /\ i < lo + 1) \/ (hi <= i /\ i < d),
                        (c <= j /\ j < lo + 1) \/ (hi <= j /\ j < d)
                 PROVE  Le(key, a'[i], a'[j])
    BY DEF SortedTwo
  <2>2. (i <= lo \/ hi <= i) /\ (j <= lo \/ hi <= j)
    BY <1>2, <2>1 DEF Places
  <2>3. a'[i] = a[i] /\ a'[j] = a[j]
    BY <1>11, <2>2
  <2>4. Le(key, a[i], a[j])
    BY <1>3, <1>5, <2>1 DEF SortedTwo
  <2> QED BY <2>3, <2>4
<1>13. a'[lo] = a[lo]
  <2>1. lo \in Places /\ lo <= lo
    BY <1>2
  <2> QED BY <1>11, <2>1
<1>14. ASSUME NEW i \in Places, lo < i, i < l + 1 PROVE Le(key, a'[i], a'[lo])
  <2>1. i \in Int
    BY DEF Places
  <2>2. CASE i = l
    BY <1>2, <1>8, <1>13, <2>2
  <2>3. CASE i < l
    <3>1. a'[i] = a[i]
      BY <1>2, <1>8, <2>1, <2>3
    <3> QED BY <1>3, <1>13, <1>14, <2>3, <3>1
  <2> QED BY <1>2, <1>14, <2>1, <2>2, <2>3
<1>15. ASSUME NEW i \in Places, r - 1 < i, i < hi PROVE Le(key, a'[lo], a'[i])
  <2>1. i \in Int
    BY DEF Places
  <2>2. CASE i = r
    BY <1>3, <1>8, <1>13, <2>2
  <2>3. CASE r < i
    <3>1. a'[i] = a[i]
      BY <1>2, <1>8, <2>1, <2>3
    <3> QED BY <1>3, <1>13, <1>15, <2>3, <3>1
  <2> QED BY <1>2, <1>15, <2>1, <2>2, <2>3
<1>16. /\ lo < l' /\ l' <= r' + 1 /\ r' < hi /\ l' \in Int /\ r' \in Int
       /\ l' < r' \/ r' <= l'
  BY <1>1, <1>2
<1>17. Works(lo - extra, hi + extra)'
  BY <1>1, <1>5, <1>9, <1>10 DEF Works
<1>18. SortedTwo(key, a, lo - extra, lo + 1, hi, hi + extra)'
  BY <1>1, <1>5, <1>12
<1>19. at' \in {"slideL", "meet"} /\ (at' = "slideL" => l' < r') /\ (at' = "meet" => r' <= l')
  BY <1>1, <1>2
<1>20. InSlide'
  BY <1>1, <1>3, <1>14, <1>15, <1>16, <1>17, <1>18, <1>19 DEF InSlide
<1>21. TypeOK'
  BY <1>1, <1>9, <1>16, <1>19 DEF SortInv, TypeOK, slice, binary, Arrays
<1> QED BY <1>1, <1>2, <1>9, <1>19, <1>20, <1>21, OnePlace DEF SortInv

LEMMA SlideRStep == ASSUME SortInv, SlideR PROVE SortInv'
<1>1. at = "slideR" /\ UNCHANGED <<key, slice, count, binary, calls>>
  BY DEF SlideR
<1>2. /\ key' = key /\ lo' = lo /\ hi' = hi /\ extra' = extra /\ stack' = stack
      /\ calls' = calls
  BY <1>1 DEF slice
<1>3. /\ HasBits(extra, STACKSIZE - Len(stack) - 1)
      /\ Works(lo - extra, hi + extra) /\ SortedTwo(key, a, lo - extra, lo + 1, hi, hi + extra)
      /\ l <= r /\ Le(key, a[lo], a[l])
      /\ \A i \in Places : lo < i /\ i < l => Le(key, a[i], a[lo])
      /\ \A i \in Places : r < i /\ i < hi => Le(key, a[lo], a[i])
  BY <1>1, Facts DEF Here, InSlide
<1>4. /\ lo \in Int /\ hi \in Int /\ l \in Int /\ r \in Int /\ lo < l /\ r < hi
      /\ key \in Keyings /\ a[lo] \in Items /\ a \in Arrays
      /\ \A i \in Int : lo <= i /\ i < hi => i \in Places
  BY <1>1, SlideBounds
<1>5. r \in Places /\ a[r] \in Items
  <2>1. lo <= r /\ r < hi
    BY <1>3, <1>4
  <2>2. r \in Places
    BY <1>4, <2>1
  <2> QED BY <1>4, <2>2, ItemsAt
<1>6. CASE l < r /\ (key # NoOrder => key[a[r]] < key[a[lo]])
           /\ a' = Exchanged(a, l, r) /\ Slide(l + 1, r - 1)
  <2>1. Le(key, a[r], a[lo])
    BY <1>4, <1>5, <1>6, Answer
  <2> QED BY <1>1, <1>6, <2>1, ExchangeKeeps
<1>7. CASE l < r /\ (key # NoOrder => key[a[r]] >= key[a[lo]])
           /\ r' = r - 1 /\ UNCHANGED <<a, at, l>>
  <2>1. Le(key, a[lo], a[r])
    BY <1>4, <1>5, <1>7, Answer
  <2>2. /\ a' \in Arrays /\ Permutation' /\ Callers(key', a', calls')
        /\ First' = First /\ Last' = Last
    BY <1>1, <1>2, <1>7, Kept
  <2>3. l <= r - 1 /\ l <= r - 1 + 1 /\ r - 1 < hi /\ r - 1 \in Int
    BY <1>4, <1>7
  <2>4. \A i \in Places : r - 1 < i /\ i < hi => (r < i /\ i < hi) \/ i = r
    BY <1>4 DEF Places
  <2>5. InSlide'
    BY <1>1, <1>2, <1>3, <1>4, <1>7, <2>1, <2>2, <2>3, <2>4 DEF InSlide, Works
  <2>6. TypeOK'
    BY <1>1, <1>7, <2>3 DEF SortInv, TypeOK, slice, binary
  <2> QED BY <1>1, <1>2, <1>7, <2>2, <2>5, <2>6, OnePlace DEF SortInv
<1>8. CASE ~(l < r) /\ at' = "meet" /\ UNCHANGED <<a, l, r>>
  <2>1. /\ a' \in Arrays /\ Permutation' /\ Callers(key', a', calls')
        /\ First' = First /\ Last' = Last
    BY <1>1, <1>2, <1>8, Kept
  <2>2. r <= l /\ l <= r + 1
    BY <1>3, <1>4, <1>8
  <2>3. InSlide'
    BY <1>2, <1>3, <1>4, <1>8, <2>1, <2>2 DEF InSlide, Works
  <2>4. TypeOK'
    BY <1>1, <1>8 DEF SortInv, TypeOK, slice, binary
  <2> QED BY <1>2, <1>8, <2>1, <2>3, <2>4, OnePlace DEF SortInv
<1>9. CASE at' = "failed" /\ UNCHANGED <<key, a, slice, l, r, count, binary, calls>>
  BY <1>9, FailKeeps
<1> QED BY <1>6, <1>7, <1>8, <1>9 DEF SlideR, Compare

\* The pivot goes to y, the last place of the items that come before it.
LEMMA MiddleKeeps ==
  ASSUME SortInv, at = "meet", NEW x \in Int, NEW y \in Int, Middle(x, y),
         UNCHANGED <<key, slice, count, binary, calls>>,
         x = y + 1, lo <= y, x <= hi,
         \A i \in Places : lo < i /\ i < x => Le(key, a[i], a[lo]),
         \A i \in Places : y < i /\ i < hi => Le(key, a[lo], a[i])
  PROVE  SortInv'
<1>1. /\ key' = key /\ lo' = lo /\ hi' = hi /\ extra' = extra /\ stack' = stack
      /\ calls' = calls /\ at' = "dups" /\ a' = Swapped(a, lo, y) /\ l' = x /\ r' = y
  BY DEF slice, Middle
<1>2. /\ lo \in Int /\ hi \in Int /\ extra \in Nat
      /\ key \in Keyings /\ a \in Arrays /\ stack \in Seq(Node)
      /\ First \in Int /\ Last \in Int
      /\ First <= lo - extra /\ hi + extra <= Last /\ 0 <= lo /\ hi <= Size
      /\ Level(key, a, First, Last, stack, lo - extra, hi + extra)
      /\ lo \in Places /\ a[lo] \in Items
      /\ \A i \in Int : lo <= i /\ i < hi => i \in Places
  BY SlideBounds
<1>3. /\ HasBits(extra, STACKSIZE - Len(stack) - 1)
      /\ SortedTwo(key, a, lo - extra, lo + 1, hi, hi + extra)
  BY Facts DEF Here, InSlide
<1>4. y \in Places
  <2>1. y < hi
    BY <1>2
  <2> QED BY <1>2, <2>1
<1>5. PICK c \in Int, d \in Int : c = lo - extra /\ d = hi + extra
  BY <1>2
<1>6. lo <= lo /\ lo < x /\ lo <= y /\ y < x /\ c <= lo /\ x <= d /\ First <= lo /\ x <= Last
  BY <1>2, <1>5
<1>7. /\ Permuted(a, a', lo, x)
      /\ \A p \in Places : a'[p] = IF p = y THEN a[lo] ELSE IF p = lo THEN a[y] ELSE a[p]
  BY <1>1, <1>2, <1>4, <1>6, SwapPermutes
<1>8. /\ a' \in Arrays /\ Permutation' /\ Callers(key', a', calls')
      /\ First' = First /\ Last' = Last
  BY <1>1, <1>2, <1>6, <1>7, Kept
<1>9. Level(key, a', First, Last, stack, c, d)
  BY <1>2, <1>5, <1>6, <1>7, PermutedLevel
<1>10. \A p \in Places : p < lo \/ hi <= p => a'[p] = a[p]
  BY <1>2, <1>6, <1>7 DEF Places
<1>11. SortedTwo(key, a', c, lo, hi, d)
  <2>1. SUFFICES ASSUME NEW i \in Places, NEW j \in Places, i < j,
                        (c <= i /\ i < lo) \/ (hi <= i /\ i < d),
                        (c <= j /\ j < lo) \/ (hi <= j /\ j < d)
                 PROVE  Le(key, a'[i], a'[j])
    BY DEF SortedTwo
  <2>2. a'[i] = a[i] /\ a'[j] = a[j]
    BY <1>10, <2>1
  <2>3. (c <= i /\ i < lo + 1) \/ (hi <= i /\ i < d)
    BY <1>2, <2>1 DEF Places
  <2>4. (c <= j /\ j < lo + 1) \/ (hi <= j /\ j < d)
    BY <1>2, <2>1 DEF Places
  <2>5. Le(key, a[i], a[j])
    BY <1>3, <1>5, <2>1, <2>3, <2>4 DEF SortedTwo
  <2> QED BY <2>2, <2>5
<1>12. a'[y] = a[lo] /\ Le(key, a[lo], a[lo])
  BY <1>2, <1>4, <1>7, LeReflexive
<1>13. ASSUME NEW i \in Places, c <= i, i < x PROVE Le(key, a'[i], a'[y])
  <2>1. i \in Int
    BY DEF Places
  <2>2. CASE i < lo
    <3>1. a'[i] = a[i]
      BY <1>10, <2>2
    <3>2. lo \in Places /\ lo < lo + 1 /\ c <= lo /\ i < lo + 1
      BY <1>2, <1>6, <2>1, <2>2
    <3>3. Le(key, a[i], a[lo])
      BY <1>3, <1>5, <1>13, <2>2, <3>2 DEF SortedTwo
    <3> QED BY <1>12, <3>1, <3>3
  <2>3. CASE i = y
    BY <1>12, <2>3
  <2>4. CASE i = lo /\ i # y
    <3>1. a'[i] = a[y] /\ lo < y
      BY <1>2, <1>6, <1>7, <2>4
    <3>2. Le(key, a[y], a[lo])
      BY <1>4, <1>6, <3>1
    <3> QED BY <1>12, <3>1, <3>2
  <2>5. CASE lo < i /\ i # y
    <3>1. a'[i] = a[i]
      BY <1>2, <1>7, <2>1, <2>5
    <3> QED BY <1>12, <1>13, <2>5, <3>1
  <2> QED BY <1>2, <2>1, <2>2, <2>3, <2>4, <2>5
<1>14. ASSUME NEW i \in Places, y <= i, i < d PROVE Le(key, a'[y], a'[i])
  <2>1. i \in Int
    BY DEF Places
  <2>2. CASE i = y
    BY <1>12, <2>2
  <2>3. CASE y < i /\ i < hi
    <3>1. a'[i] = a[i]
      BY <1>2, <1>6, <1>7, <2>1, <2>3
    <3> QED BY <1>12, <2>3, <3>1
  <2>4. CASE hi <= i
    <3>1. a'[i] = a[i]
      BY <1>10, <2>4
    <3>2. lo < i /\ lo < lo + 1 /\ c <= lo
      BY <1>2, <1>6, <2>1, <2>4
    <3>3. Le(key, a[lo], a[i])
      BY <1>2, <1>3, <1>5, <1>14, <2>4, <3>2 DEF SortedTwo
    <3> QED BY <1>12, <3>1, <3>3
  <2> QED BY <1>2, <1>14, <2>1, <2>2, <2>3, <2>4
<1>15. Works(lo - extra, hi + extra)'
  BY <1>1, <1>5, <1>8, <1>9 DEF Works
<1>16. SortedTwo(key, a, lo - extra, lo, hi, hi + extra)'
  BY <1>1, <1>5, <1>11
<1>17. InDups'
  BY <1>1, <1>3, <1>5, <1>6, <1>13, <1>14, <1>15, <1>16 DEF InDups
<1>18. TypeOK'
  BY <1>1, <1>8 DEF SortInv, TypeOK, slice, binary, Arrays
<1> QED BY <1>1, <1>2, <1>8, <1>17, <1>18, OnePlace DEF SortInv

LEMMA MeetStep == ASSUME SortInv, Meet PROVE SortInv'
<1>1. at = "meet" /\ UNCHANGED <<key, slice, count, binary, calls>>
  BY DEF Meet
<1>2. /\ lo \in Int /\ hi \in Int /\ l \in Int /\ r \in Int /\ lo < l /\ r < hi /\ l <= r + 1
      /\ key \in Keyings /\ a[lo] \in Items /\ a \in Arrays
      /\ \A i \in Int : lo <= i /\ i < hi => i \in Places
  BY <1>1, SlideBounds
<1>3. /\ \A i \in Places : lo < i /\ i < l => Le(key, a[i], a[lo])
      /\ \A i \in Places : r < i /\ i < hi => Le(key, a[lo], a[i])
      /\ r <= l
  BY <1>1, Facts DEF Here, InSlide
<1>4. CASE l = r
  <2>1. r \in Places /\ a[r] \in Items
    <3>1. lo <= r /\ r < hi
      BY <1>2, <1>4
    <3>2. r \in Places
      BY <1>2, <3>1
    <3> QED BY <1>2, <3>2, ItemsAt
  <2>2. CASE (key # NoOrder => key[a[r]] < key[a[lo]]) /\ Middle(l + 1, r)
    <3>1. Le(key, a[r], a[lo])
      BY <1>2, <2>1, <2>2, Answer
    <3>2. PICK x \in Int : x = l + 1
      BY <1>2
    <3>3. x = r + 1 /\ lo <= r /\ x <= hi
      BY <1>2, <1>4, <3>2
    <3>4. \A i \in Places : lo < i /\ i < x => (lo < i /\ i < l) \/ i = r
      BY <1>2, <1>4, <3>2 DEF Places
    <3>5. \A i \in Places : lo < i /\ i < x => Le(key, a[i], a[lo])
      BY <1>3, <3>1, <3>4
    <3> QED BY <1>1, <1>2, <1>3, <2>2, <3>2, <3>3, <3>5, MiddleKeeps
  <2>3. CASE (key # NoOrder => key[a[r]] >= key[a[lo]]) /\ Middle(l, r - 1)
    <3>1. Le(key, a[lo], a[r])
      BY <1>2, <2>1, <2>3, Answer
    <3>2. PICK y \in Int : y = r - 1
      BY <1>2
    <3>3. l = y + 1 /\ lo <= y /\ l <= hi
      BY <1>2, <1>4, <3>2
    <3>4. \A i \in Places : y < i /\ i < hi => (r < i /\ i < hi) \/ i = r
      BY <1>2, <3>2 DEF Places
    <3>5. \A i \in Places : y < i /\ i < hi => Le(key, a[lo], a[i])
      BY <1>3, <3>1, <3>4
    <3> QED BY <1>1, <1>2, <1>3, <2>3, <3>2, <3>3, <3>5, MiddleKeeps
  <2>4. CASE at' = "failed" /\ UNCHANGED <<key, a, slice, l, r, count, binary, calls>>
    BY <2>4, FailKeeps
  <2> QED BY <1>4, <2>2, <2>3, <2>4 DEF Meet, Compare
<1>5. CASE l # r
  <2>1. l = r + 1 /\ lo <= r /\ l <= hi
    BY <1>2, <1>3, <1>5
  <2>2. Middle(l, r)
    BY <1>5 DEF Meet
  <2> QED BY <1>1, <1>2, <1>3, <2>1, <2>2, MiddleKeeps
<1> QED BY <1>4, <1>5

LEMMA DupsBounds ==
  ASSUME SortInv, at = "dups"
  PROVE  /\ lo \in Int /\ hi \in Int /\ extra \in Nat /\ l \in Int /\ r \in Int
         /\ key \in Keyings /\ a \in Arrays /\ stack \in Seq(Node)
         /\ First \in Int /\ Last \in Int /\ 0 <= lo /\ hi <= Size
         /\ Level(key, a, First, Last, stack, lo - extra, hi + extra)
         /\ SortedTwo(key, a, lo - extra, lo, hi, hi + extra)
         /\ HasBits(extra, STACKSIZE - Len(stack) - 1)
         /\ lo <= r /\ r < l /\ l <= hi /\ r \in Places /\ a[r] \in Items
         /\ \A i \in Places : lo - extra <= i /\ i < l => Le(key, a[i], a[r])
         /\ \A i \in Places : r <= i /\ i < hi + extra => Le(key, a[r], a[i])
<1>1. /\ lo \in Int /\ hi \in Int /\ extra \in Nat /\ l \in Int /\ r \in Int
      /\ key \in Keyings /\ a \in Arrays /\ stack \in Seq(Node)
      /\ First \in Int /\ Last \in Int /\ 0 <= lo /\ hi <= Size
  BY Facts DEF SortInv, TypeOK
<1>2. /\ Level(key, a, First, Last, stack, lo - extra, hi + extra)
      /\ SortedTwo(key, a, lo - extra, lo, hi, hi + extra)
      /\ HasBits(extra, STACKSIZE - Len(stack) - 1)
      /\ lo <= r /\ r < l /\ l <= hi
      /\ \A i \in Places : lo - extra <= i /\ i < l => Le(key, a[i], a[r])
      /\ \A i \in Places : r <= i /\ i < hi + extra => Le(key, a[r], a[i])
  BY Facts DEF Here, InDups, Works
<1>3. r < hi
  BY <1>1, <1>2
<1>4. r \in Places
  BY <1>1, <1>2, <1>3, InPlaces
<1> QED BY <1>1, <1>2, <1>4, ItemsAt

LEMMA PushStep ==
  ASSUME SortInv, at = "dups", Push, UNCHANGED <<key, a, extra, r, count, binary, calls>>
  PROVE  SortInv'
<1>1. /\ lo \in Int /\ hi \in Int /\ extra \in Nat /\ l \in Int /\ r \in Int
      /\ key \in Keyings /\ a \in Arrays /\ stack \in Seq(Node)
      /\ First \in Int /\ Last \in Int /\ 0 <= lo /\ hi <= Size
      /\ Level(key, a, First, Last, stack, lo - extra, hi + extra)
      /\ SortedTwo(key, a, lo - extra, lo, hi, hi + extra)
      /\ HasBits(extra, STACKSIZE - Len(stack) - 1)
      /\ lo <= r /\ r < l /\ l <= hi /\ r \in Places /\ a[r] \in Items
      /\ \A i \in Places : lo - extra <= i /\ i < l => Le(key, a[i], a[r])
      /\ \A i \in Places : r <= i /\ i < hi + extra => Le(key, a[r], a[i])
  BY DupsBounds
<1>2. PICK c \in Int, d \in Int : c = lo - extra /\ d = hi + extra
  BY <1>1
<1>3. c <= lo /\ hi <= d /\ r <= hi
  BY <1>1, <1>2
<1>4. ASSUME NEW i \in Places, NEW j \in Places, c <= i, i < j, j < d
      PROVE  Le(key, a[i], a[j]) \/ j < r \/ l <= i
  <2>1. SUFFICES ASSUME ~(j < r), ~(l <= i) PROVE Le(key, a[i], a[j])
    OBVIOUS
  <2>2. i \in Int /\ j \in Int /\ a[i] \in Items /\ a[j] \in Items
    BY <1>1, ItemsAt
  <2>3. r <= j /\ i < l
    BY <1>1, <2>1, <2>2
  <2>4. Le(key, a[i], a[r]) /\ Le(key, a[r], a[j])
    BY <1>1, <1>2, <1>4, <2>3
  <2> QED BY <1>1, <2>2, <2>4, LeTransitive
<1>5. /\ a' \in Arrays /\ Permutation' /\ Callers(key', a', calls')
      /\ First' = First /\ Last' = Last
  BY <1>1, Kept
<1>6. key' = key /\ a' = a /\ extra' = extra /\ calls' = calls /\ l' = l /\ at' = "partition"
  BY DEF Push
<1>7. CASE r - lo <= hi - l
  <2> DEFINE n == [lo |-> l, hi |-> hi, extra |-> extra, right |-> extra > 0]
  <2>1. stack' = Append(stack, n) /\ hi' = r /\ right' = FALSE /\ lo' = lo
    BY <1>7 DEF Push
  <2>2. n \in Node /\ n.lo = l /\ n.hi = hi /\ n.extra = extra
    BY <1>1 DEF Node
  <2> HIDE DEF n
  <2>3. From(n) = l /\ To(n) = d
    <3>1. CASE extra > 0
      <4>1. n.right
        BY <3>1 DEF n
      <4> QED BY <1>2, <2>2, <4>1 DEF From, To
    <3>2. CASE extra = 0
      <4>0. (extra > 0) = FALSE
        BY <3>2
      <4>1. ~n.right
        BY <4>0 DEF n
      <4>2. l - extra = l /\ d = hi
        BY <1>1, <1>2, <3>2
      <4> QED BY <2>2, <4>1, <4>2 DEF From, To
    <3> QED BY <1>1, <3>1, <3>2
  <2>4. \A i, j \in Places :
          c <= i /\ i < j /\ j < d =>
            Le(key, a[i], a[j]) \/ (c <= i /\ j < r) \/ (From(n) <= i /\ j < To(n))
    BY <1>4, <2>3
  <2>5. SortedTwo(key, a, From(n), n.lo, n.hi, To(n))
    <3>1. SUFFICES ASSUME NEW i \in Places, NEW j \in Places, i < j,
                          (l <= i /\ i < l) \/ (hi <= i /\ i < d),
                          (l <= j /\ j < l) \/ (hi <= j /\ j < d)
                   PROVE  Le(key, a[i], a[j])
      BY <2>2, <2>3 DEF SortedTwo
    <3>2. hi <= i /\ i < d /\ hi <= j /\ j < d
      BY <1>1, <3>1 DEF Places
    <3> QED BY <1>1, <1>2, <3>1, <3>2 DEF SortedTwo
  <2>6. HasBits(n.extra, STACKSIZE - Len(stack) - 1)
    BY <1>1, <2>2
  <2>7. /\ c <= c /\ c <= r /\ r <= d /\ c <= From(n) /\ To(n) <= d /\ n.lo <= n.hi
        /\ r <= From(n)
    BY <1>1, <1>2, <1>3, <2>2, <2>3
  <2>8. Level(key, a, First, Last, stack, c, d)
    BY <1>1, <1>2
  <2>9. /\ stack' \in Seq(Node) /\ Len(stack') = Len(stack) + 1
        /\ Level(key, a, First, Last, stack', c, r)
    BY <1>1, <2>1, <2>2, <2>4, <2>5, <2>6, <2>7, <2>8, PushLevel
  <2>10. SortedTwo(key, a, c, lo, r, r)
    <3>1. SUFFICES ASSUME NEW i \in Places, NEW j \in Places, i < j,
                          (c <= i /\ i < lo) \/ (r <= i /\ i < r),
                          (c <= j /\ j < lo) \/ (r <= j /\ j < r)
                   PROVE  Le(key, a[i], a[j])
      BY DEF SortedTwo
    <3>2. c <= i /\ i < lo /\ c <= j /\ j < lo
      BY <1>1, <3>1 DEF Places
    <3> QED BY <1>1, <1>2, <3>1, <3>2 DEF SortedTwo
  <2>11. HasBits(extra, STACKSIZE - Len(stack'))
    <3>1. PICK m \in Nat : m = Len(stack)
      BY <1>1, LenProperties
    <3>2. STACKSIZE - (m + 1) = STACKSIZE - m - 1
      BY SortAssumption
    <3> QED BY <1>1, <2>9, <3>1, <3>2
  <2>12. lo' - extra' = c /\ hi' + 0 = r /\ lo' <= hi' /\ 0 <= lo' /\ hi' <= Size
    BY <1>1, <1>2, <1>3, <1>6, <2>1, SortAssumption
  <2>13. Around(extra, 0)'
    BY <1>5, <1>6, <2>1, <2>9, <2>10, <2>12 DEF Around, Works
  <2>14. InPartition'
    BY <1>6, <2>1, <2>11, <2>13 DEF InPartition
  <2>15. TypeOK'
    BY <1>1, <1>6, <2>1, <2>9 DEF SortInv, TypeOK, binary
  <2> QED BY <1>5, <1>6, <2>12, <2>14, <2>15, OnePlace DEF SortInv
<1>8. CASE ~(r - lo <= hi - l)
  <2> DEFINE n == [lo |-> lo, hi |-> r, extra |-> extra, right |-> FALSE]
  <2>1. stack' = Append(stack, n) /\ lo' = l /\ right' = TRUE /\ hi' = hi
    BY <1>8 DEF Push
  <2>2. n \in Node /\ n.lo = lo /\ n.hi = r /\ n.extra = extra
    BY <1>1 DEF Node
  <2>3. From(n) = c /\ To(n) = r
    BY <1>1, <1>2 DEF From, To
  <2> HIDE DEF n
  <2>4. \A i, j \in Places :
          c <= i /\ i < j /\ j < d =>
            Le(key, a[i], a[j]) \/ (l <= i /\ j < d) \/ (From(n) <= i /\ j < To(n))
    BY <1>4, <2>3
  <2>5. SortedTwo(key, a, From(n), n.lo, n.hi, To(n))
    <3>1. SUFFICES ASSUME NEW i \in Places, NEW j \in Places, i < j,
                          (c <= i /\ i < lo) \/ (r <= i /\ i < r),
                          (c <= j /\ j < lo) \/ (r <= j /\ j < r)
                   PROVE  Le(key, a[i], a[j])
      BY <2>2, <2>3 DEF SortedTwo
    <3>2. c <= i /\ i < lo /\ c <= j /\ j < lo
      BY <1>1, <3>1 DEF Places
    <3> QED BY <1>1, <1>2, <3>1, <3>2 DEF SortedTwo
  <2>6. HasBits(n.extra, STACKSIZE - Len(stack) - 1)
    BY <1>1, <2>2
  <2>7. /\ c <= l /\ l <= d /\ d <= d /\ c <= From(n) /\ To(n) <= d /\ n.lo <= n.hi
        /\ To(n) <= l
    BY <1>1, <1>2, <1>3, <2>2, <2>3
  <2>8. Level(key, a, First, Last, stack, c, d)
    BY <1>1, <1>2
  <2>9. /\ stack' \in Seq(Node) /\ Len(stack') = Len(stack) + 1
        /\ Level(key, a, First, Last, stack', l, d)
    BY <1>1, <2>1, <2>2, <2>4, <2>5, <2>6, <2>7, <2>8, PushLevel
  <2>10. SortedTwo(key, a, l, l, hi, d)
    <3>1. SUFFICES ASSUME NEW i \in Places, NEW j \in Places, i < j,
                          (l <= i /\ i < l) \/ (hi <= i /\ i < d),
                          (l <= j /\ j < l) \/ (hi <= j /\ j < d)
                   PROVE  Le(key, a[i], a[j])
      BY DEF SortedTwo
    <3>2. hi <= i /\ i < d /\ hi <= j /\ j < d
      BY <1>1, <3>1 DEF Places
    <3> QED BY <1>1, <1>2, <3>1, <3>2 DEF SortedTwo
  <2>11. HasBits(extra, STACKSIZE - Len(stack'))
    <3>1. PICK m \in Nat : m = Len(stack)
      BY <1>1, LenProperties
    <3>2. STACKSIZE - (m + 1) = STACKSIZE - m - 1
      BY SortAssumption
    <3> QED BY <1>1, <2>9, <3>1, <3>2
  <2>12. lo' - 0 = l /\ lo' = l /\ hi' + extra' = d /\ lo' <= hi' /\ 0 <= lo' /\ hi' <= Size
    BY <1>1, <1>2, <1>3, <1>6, <2>1
  <2>13. Around(0, extra)'
    BY <1>5, <1>6, <2>1, <2>9, <2>10, <2>12 DEF Around, Works
  <2>14. InPartition'
    BY <1>6, <2>1, <2>11, <2>13 DEF InPartition
  <2>15. TypeOK'
    BY <1>1, <1>6, <2>1, <2>9 DEF SortInv, TypeOK, binary
  <2> QED BY <1>5, <1>6, <2>12, <2>14, <2>15, OnePlace DEF SortInv
<1> QED BY <1>7, <1>8

LEMMA DupsStep == ASSUME SortInv, Dups PROVE SortInv'
<1>1. at = "dups" /\ UNCHANGED <<key, a, extra, r, count, binary, calls>>
  BY DEF Dups
<1>2. /\ lo \in Int /\ hi \in Int /\ l \in Int /\ r \in Int /\ extra \in Nat
      /\ key \in Keyings /\ a \in Arrays /\ stack \in Seq(Node)
      /\ Level(key, a, First, Last, stack, lo - extra, hi + extra)
      /\ SortedTwo(key, a, lo - extra, lo, hi, hi + extra)
      /\ HasBits(extra, STACKSIZE - Len(stack) - 1) /\ 0 <= lo /\ hi <= Size
      /\ lo <= r /\ r < l /\ l <= hi /\ r \in Places /\ a[r] \in Items
      /\ \A i \in Places : lo - extra <= i /\ i < l => Le(key, a[i], a[r])
      /\ \A i \in Places : r <= i /\ i < hi + extra => Le(key, a[r], a[i])
  BY <1>1, DupsBounds
<1>3. CASE l < hi
  <2>1. l \in Places /\ a[l] \in Items
    <3>1. lo <= l
      BY <1>2
    <3>2. l \in Places
      BY <1>2, <1>3, <3>1, InPlaces
    <3> QED BY <1>2, <3>2, ItemsAt
  <2>2. CASE (key # NoOrder => key[a[r]] >= key[a[l]])
             /\ l' = l + 1 /\ UNCHANGED <<at, lo, hi, right, stack>>
    <3>1. Le(key, a[l], a[r])
      BY <1>2, <2>1, <2>2, Answer
    <3>2. \A i \in Places : i < l + 1 => i < l \/ i = l
      BY <1>2 DEF Places
    <3>3. \A i \in Places : lo - extra <= i /\ i < l + 1 => Le(key, a[i], a[r])
      BY <1>2, <3>1, <3>2
    <3>4. r < l + 1 /\ l + 1 <= hi /\ l + 1 \in Int
      BY <1>2, <1>3
    <3>5. /\ a' \in Arrays /\ Permutation' /\ Callers(key', a', calls')
          /\ First' = First /\ Last' = Last
      BY <1>1, Kept
    <3>6. InDups'
      BY <1>1, <1>2, <2>2, <3>3, <3>4, <3>5 DEF InDups, Works
    <3>7. TypeOK'
      BY <1>1, <2>2, <3>4 DEF SortInv, TypeOK, binary
    <3> QED BY <1>1, <1>2, <2>2, <3>5, <3>6, <3>7, OnePlace DEF SortInv
  <2>3. CASE at' = "failed" /\ UNCHANGED <<key, a, slice, l, r, count, binary, calls>>
    BY <2>3, FailKeeps
  <2>4. CASE Push
    BY <1>1, <2>4, PushStep
  <2> QED BY <1>3, <2>2, <2>3, <2>4 DEF Dups, Compare
<1>4. CASE ~(l < hi)
  BY <1>1, <1>4, PushStep DEF Dups
<1> QED BY <1>3, <1>4

-----------------------------------------------------------------------------
(* A samplesortslice or a binarysort ends *)

LEMMA ReturnStep == ASSUME SortInv, Return PROVE SortInv'
<1>1. at = "return" /\ UNCHANGED <<key, a, l, r, count, binary>>
  BY DEF Return
<1>2. /\ Level(key, a, First, Last, <<>>, First, First) /\ stack = <<>>
      /\ First \in Int /\ Last \in Int /\ calls \in Seq(Frame) /\ Callers(key, a, calls)
  BY <1>1, Facts DEF Here, InPop, Works
<1>3. Permutation' /\ a' = a /\ key' = key
  BY <1>1 DEF SortInv, Permutation
<1>4. CASE calls = <<>>
  <2>1. at' = "sorted" /\ UNCHANGED <<slice, calls>>
    BY <1>4 DEF Return
  <2>2. First' = First /\ Last' = Last /\ stack' = stack
    BY <2>1 DEF First, Last, slice
  <2>3. InPop'
    BY <1>2, <1>3, <1>4, <2>1, <2>2 DEF InPop, Works
  <2>4. TypeOK'
    BY <1>1, <2>1 DEF SortInv, TypeOK, slice, binary
  <2> QED BY <1>2, <1>3, <2>1, <2>3, <2>4, OnePlace DEF SortInv, slice
<1>5. CASE calls # <<>>
  <2>1. PICK f : f = calls[Len(calls)]
    OBVIOUS
  <2>2. /\ at' = f.at /\ calls' = Popped(calls)
        /\ lo' = f.lo /\ hi' = f.hi /\ extra' = f.extra /\ right' = f.right
        /\ stack' = f.stack
    BY <1>5, <2>1 DEF Return, Popped
  <2>3. /\ f \in Frame /\ calls' \in Seq(Frame) /\ Callers(key, a, calls')
        /\ Waits(key, a, LevelFrom(calls', Len(calls')), LevelTo(calls', Len(calls')), f)
        /\ LevelFrom(calls, Len(calls)) = CallFrom(f)
        /\ LevelTo(calls, Len(calls)) = CallTo(f)
    BY <1>2, <1>5, <2>1, <2>2, PopCallers
  <2>4. Waits(key', a', First', Last', f) /\ Callers(key', a', calls')
    BY <1>3, <2>3 DEF First, Last
  <2>5. First = CallFrom(f) /\ Last = CallTo(f)
    BY <2>3 DEF First, Last
  <2>6. First' \in Int /\ Last' \in Int /\ 0 <= First' /\ Last' <= Size
    BY <2>3, <2>4, LevelWithin DEF First, Last
  <2>7. /\ f.lo \in Int /\ f.hi \in Int /\ f.extra \in Nat /\ f.right \in BOOLEAN
        /\ f.stack \in Seq(Node) /\ f.at \in {"partition", "pop"}
        /\ CallFrom(f) \in Int /\ CallTo(f) \in Int
    BY <2>3, FrameBounds
  <2>8. /\ HasBits(f.extra, STACKSIZE - Len(f.stack)) /\ f.lo <= f.hi
        /\ Level(key', a', First', Last', f.stack, CallFrom(f), f.hi)
        /\ f.at = "pop" => f.extra = 0
        /\ f.at = "partition" => f.stack = <<>> /\ ~f.right
    BY <2>4 DEF Waits
  <2>9. CallFrom(f) = f.lo - f.extra /\ First' <= CallFrom(f) /\ f.hi <= Last'
    BY <2>8, LevelRange DEF CallFrom
  <2>10. 0 <= lo' /\ hi' <= Size
    BY <2>2, <2>6, <2>7, <2>9, SortAssumption
  <2>11. Sorted(key, a, CallFrom(f), CallTo(f))
    BY <1>2, <2>5, LevelDone
  <2>12. ASSUME f.at = "partition" PROVE Here'
    <3>1. CallTo(f) = f.lo
      BY <2>12 DEF CallTo
    <3>2. SortedTwo(key', a', CallFrom(f), f.lo, f.hi, f.hi)
      <4>1. SUFFICES ASSUME NEW i \in Places, NEW j \in Places, i < j,
                            (CallFrom(f) <= i /\ i < f.lo) \/ (f.hi <= i /\ i < f.hi),
                            (CallFrom(f) <= j /\ j < f.lo) \/ (f.hi <= j /\ j < f.hi)
                     PROVE  Le(key', a'[i], a'[j])
        BY DEF SortedTwo
      <4>2. CallFrom(f) <= i /\ j < f.lo
        BY <2>7, <4>1 DEF Places
      <4> QED BY <1>3, <2>11, <3>1, <4>1, <4>2 DEF Sorted
    <3>3. /\ lo' - extra' = CallFrom(f) /\ hi' + 0 = f.hi /\ lo' = f.lo /\ hi' = f.hi
          /\ stack' = f.stack /\ right' = FALSE /\ lo' <= hi'
      BY <2>2, <2>7, <2>8, <2>9, <2>12
    <3>4. Around(extra, 0)'
      BY <2>8, <3>2, <3>3 DEF Around, Works
    <3>5. InPartition'
      BY <2>2, <2>8, <3>3, <3>4 DEF InPartition
    <3> QED BY <2>2, <2>12, <3>5, OnePlace
  <2>13. ASSUME f.at = "pop" PROVE Here'
    <3>1. CallTo(f) = f.hi
      BY <2>13 DEF CallTo
    <3>2. Sorted(key', a', CallFrom(f), f.hi)
      BY <1>3, <2>11, <3>1
    <3>3. Level(key', a', First', Last', f.stack, First', First')
      BY <2>6, <2>7, <2>8, <3>2, PartDone
    <3>4. InPop'
      BY <2>2, <2>13, <3>3 DEF InPop, Works
    <3> QED BY <2>2, <2>13, <3>4, OnePlace
  <2>14. TypeOK'
    BY <1>1, <2>2, <2>3, <2>7 DEF SortInv, TypeOK, binary
  <2> QED BY <1>3, <2>4, <2>7, <2>10, <2>12, <2>13, <2>14 DEF SortInv
<1> QED BY <1>4, <1>5

LEMMA InsertBounds ==
  ASSUME SortInv, at = "insert"
  PROVE  /\ key \in Keyings /\ a \in Arrays /\ stack \in Seq(Node)
         /\ First \in Int /\ Last \in Int
         /\ begin \in Int /\ end \in Int /\ start \in Int /\ l \in Int /\ r \in Int
         /\ Level(key, a, First, Last, stack, begin, end) /\ Sorted(key, a, begin, start)
         /\ First <= begin /\ end <= Last /\ 0 <= begin /\ end <= Size
         /\ start < end /\ begin <= l /\ l < r /\ r <= start
         /\ \A i \in Places : begin <= i /\ i < l => Le(key, a[i], a[start])
         /\ \A i \in Places : r <= i /\ i < start => Le(key, a[start], a[i])
         /\ then \in {"return", "pop"} /\ (then = "return" => stack = <<>>)
         /\ \A i \in Int : begin <= i /\ i <= start => i \in Places /\ a[i] \in Items
<1>1. /\ key \in Keyings /\ a \in Arrays /\ stack \in Seq(Node)
      /\ First \in Int /\ Last \in Int /\ 0 <= First /\ Last <= Size
      /\ begin \in Int /\ end \in Int /\ start \in Int /\ l \in Int /\ r \in Int
  BY Facts DEF SortInv, TypeOK
<1>2. /\ Level(key, a, First, Last, stack, begin, end) /\ Sorted(key, a, begin, start)
      /\ start < end /\ begin <= l /\ l < r /\ r <= start
      /\ \A i \in Places : begin <= i /\ i < l => Le(key, a[i], a[start])
      /\ \A i \in Places : r <= i /\ i < start => Le(key, a[start], a[i])
      /\ then \in {"return", "pop"} /\ (then = "return" => stack = <<>>)
  BY Facts DEF Here, InInsert, Works
<1>3. First <= begin /\ end <= Last
  BY <1>2, LevelRange
<1>4. 0 <= begin /\ end <= Size
  BY <1>1, <1>3, SortAssumption
<1>5. ASSUME NEW i \in Int, begin <= i, i <= start PROVE i \in Places /\ a[i] \in Items
  <2>1. i < end
    BY <1>1, <1>2, <1>5
  <2>2. i \in Places
    BY <1>1, <1>4, <1>5, <2>1, InPlaces
  <2> QED BY <1>1, <2>2, ItemsAt
<1> QED BY <1>1, <1>2, <1>3, <1>4, <1>5

\* The pivot comes after what is before x, and not after what is at y and later.
LEMMA NarrowedStep ==
  ASSUME SortInv, at = "insert", NEW x \in Int, NEW y \in Int, Narrowed(x, y),
         UNCHANGED <<key, slice, count, begin, end, then, calls>>,
         begin <= x, x <= y, y <= start,
         \A i \in Places : begin <= i /\ i < x => Le(key, a[i], a[start]),
         \A i \in Places : y <= i /\ i < start => Le(key, a[start], a[i])
  PROVE  SortInv'
<1>1. /\ key' = key /\ lo' = lo /\ hi' = hi /\ extra' = extra /\ right' = right
      /\ stack' = stack /\ calls' = calls /\ count' = count
      /\ begin' = begin /\ end' = end /\ then' = then
  BY DEF slice
<1>2. /\ key \in Keyings /\ a \in Arrays /\ stack \in Seq(Node)
      /\ First \in Int /\ Last \in Int
      /\ begin \in Int /\ end \in Int /\ start \in Int
      /\ Level(key, a, First, Last, stack, begin, end) /\ Sorted(key, a, begin, start)
      /\ First <= begin /\ end <= Last /\ start < end /\ l < r
      /\ then \in {"return", "pop"} /\ (then = "return" => stack = <<>>)
      /\ \A i \in Int : begin <= i /\ i <= start => i \in Places /\ a[i] \in Items
  BY InsertBounds
<1>3. CASE x < y
  <2>1. l' = x /\ r' = y /\ UNCHANGED <<a, at, start>>
    BY <1>3 DEF Narrowed
  <2>2. /\ a' \in Arrays /\ Permutation' /\ Callers(key', a', calls')
        /\ First' = First /\ Last' = Last
    BY <1>1, <2>1, Kept
  <2>3. InInsert'
    BY <1>1, <1>2, <1>3, <2>1, <2>2 DEF InInsert, Works
  <2>4. TypeOK'
    BY <1>1, <2>1 DEF SortInv, TypeOK
  <2> QED BY <1>1, <2>1, <2>2, <2>3, <2>4, OnePlace DEF SortInv
<1>4. CASE ~(x < y)
  <2>1. a' = Inserted(a, x, start) /\ InsertFrom(begin, end, start + 1, then)
    BY <1>4 DEF Narrowed
  <2>2. x = y /\ x <= start
    BY <1>4
  <2>3. x \in Places /\ start \in Places /\ begin <= start
    BY <1>2, <2>2
  <2>4. /\ Permuted(a, a', begin, end)
        /\ \A p \in Places :
             a'[p] = IF p = x THEN a[start] ELSE IF x < p /\ p <= start THEN a[p - 1] ELSE a[p]
    BY <1>2, <2>1, <2>2, <2>3, InsertPermutes
  <2>5. /\ a' \in Arrays /\ Permutation' /\ Callers(key', a', calls')
        /\ First' = First /\ Last' = Last
    BY <1>1, <1>2, <2>4, Kept
  <2>6. Level(key, a', First, Last, stack, begin, end)
    BY <1>2, <2>4, PermutedLevel
  <2>7. Sorted(key, a', begin, start + 1)
    <3>1. SUFFICES ASSUME NEW i \in Places, NEW j \in Places, begin <= i, i < j, j < start + 1
                   PROVE  Le(key, a'[i], a'[j])
      BY DEF Sorted
    <3>2. i \in Int /\ j \in Int
      BY DEF Places
    <3>3. CASE j < x
      <4>1. a'[i] = a[i] /\ a'[j] = a[j] /\ j < start
        BY <1>2, <2>2, <2>4, <3>1, <3>2, <3>3
      <4> QED BY <1>2, <3>1, <4>1 DEF Sorted
    <3>4. CASE j = x
      <4>1. a'[i] = a[i] /\ a'[j] = a[start]
        BY <2>4, <3>1, <3>2, <3>4
      <4> QED BY <3>1, <3>4, <4>1
    <3>5. CASE x < j
      <4>1. PICK h \in Int : h = j - 1 /\ begin <= h /\ h < start /\ x <= h /\ i <= h
        BY <1>2, <3>1, <3>2, <3>5
      <4>2. h \in Places /\ a'[j] = a[h]
        BY <1>2, <2>4, <3>1, <3>2, <3>5, <4>1
      <4>3. CASE i = x
        <5>1. a'[i] = a[start]
          BY <2>4, <4>3
        <5> QED BY <2>2, <4>1, <4>2, <5>1
      <4>4. CASE i < x
        <5>1. a'[i] = a[i] /\ i < h
          BY <2>4, <3>2, <4>1, <4>4
        <5> QED BY <1>2, <3>1, <4>1, <4>2, <5>1 DEF Sorted
      <4>5. CASE x < i
        <5>1. PICK g \in Int : g = i - 1 /\ begin <= g /\ g < h /\ g <= start
          BY <1>2, <3>1, <3>2, <4>1, <4>5
        <5>2. g \in Places /\ a'[i] = a[g]
          BY <1>2, <2>4, <3>1, <3>2, <4>1, <4>5, <5>1
        <5> QED BY <1>2, <4>1, <4>2, <5>1, <5>2 DEF Sorted
      <4> QED BY <3>2, <4>3, <4>4, <4>5
    <3> QED BY <3>2, <3>3, <3>4, <3>5
  <2>8. /\ Level(key', a', First', Last', stack', begin, end)
        /\ Sorted(key', a', begin, start + 1) /\ begin < start + 1 /\ start + 1 \in Int
        /\ stack' \in Seq(Node) /\ (then = "return" => stack' = <<>>)
        /\ First' \in Int /\ Last' \in Int
    BY <1>1, <1>2, <2>3, <2>5, <2>6, <2>7
  <2>9. Here' /\ start' \in Int /\ at' \in {"insert", "return", "pop"}
    BY <1>1, <1>2, <2>1, <2>8, InsertFromCorrect
  <2>10. l' \in Int /\ r' \in Int
    BY <1>2, <2>1, <2>8 DEF InsertFrom, SortInv, TypeOK
  <2>11. TypeOK'
    BY <1>1, <2>5, <2>9, <2>10 DEF SortInv, TypeOK, Arrays
  <2> QED BY <1>1, <2>5, <2>9, <2>11 DEF SortInv
<1> QED BY <1>3, <1>4

LEMMA InsertStep == ASSUME SortInv, Insert PROVE SortInv'
<1>1. at = "insert" /\ UNCHANGED <<key, slice, count, begin, end, then, calls>>
  BY DEF Insert
<1>2. /\ key \in Keyings /\ a \in Arrays /\ begin \in Int /\ start \in Int /\ l \in Int
      /\ r \in Int /\ Sorted(key, a, begin, start) /\ begin <= l /\ l < r /\ r <= start
      /\ \A i \in Places : begin <= i /\ i < l => Le(key, a[i], a[start])
      /\ \A i \in Places : r <= i /\ i < start => Le(key, a[start], a[i])
      /\ \A i \in Int : begin <= i /\ i <= start => i \in Places /\ a[i] \in Items
  BY <1>1, InsertBounds
<1>3. PICK p \in Int : p = l + (r - l) \div 2 /\ l <= p /\ p < r
  BY <1>2
<1>4. begin <= p /\ p <= start /\ p < start /\ begin <= start
  BY <1>2, <1>3
<1>5. p \in Places /\ a[p] \in Items /\ start \in Places /\ a[start] \in Items
  BY <1>2, <1>4
<1>6. CASE (key # NoOrder => key[a[start]] < key[a[p]]) /\ Narrowed(l, p)
  <2>1. Le(key, a[start], a[p])
    BY <1>2, <1>5, <1>6, Answer
  <2>2. ASSUME NEW i \in Places, p <= i, i < start PROVE Le(key, a[start], a[i])
    <3>1. i = p \/ p < i
      BY <2>2 DEF Places
    <3>2. CASE p < i
      <4>1. Le(key, a[p], a[i])
        BY <1>2, <1>4, <1>5, <2>2, <3>2 DEF Sorted
      <4> QED BY <1>2, <1>5, <2>1, <4>1, LeTransitive, ItemsAt
    <3> QED BY <2>1, <3>1, <3>2
  <2> QED BY <1>1, <1>2, <1>3, <1>4, <1>6, <2>2, NarrowedStep
<1>7. CASE (key # NoOrder => key[a[start]] >= key[a[p]]) /\ Narrowed(p + 1, r)
  <2>1. Le(key, a[p], a[start])
    BY <1>2, <1>5, <1>7, Answer
  <2>2. PICK x \in Int : x = p + 1 /\ begin <= x /\ x <= r
    BY <1>2, <1>3
  <2>3. ASSUME NEW i \in Places, begin <= i, i < x PROVE Le(key, a[i], a[start])
    <3>1. i = p \/ i < p
      BY <1>3, <2>2, <2>3 DEF Places
    <3>2. CASE i < p
      <4>1. Le(key, a[i], a[p])
        BY <1>2, <1>4, <1>5, <2>3, <3>2 DEF Sorted
      <4> QED BY <1>2, <1>5, <2>1, <4>1, LeTransitive, ItemsAt
    <3> QED BY <2>1, <3>1, <3>2
  <2> QED BY <1>1, <1>2, <1>7, <2>2, <2>3, NarrowedStep
<1>8. CASE at' = "failed" /\ UNCHANGED <<key, a, slice, l, r, count, binary, calls>>
  BY <1>8, FailKeeps
<1> QED BY <1>3, <1>6, <1>7, <1>8 DEF Insert, Compare

-----------------------------------------------------------------------------
(* The theorems *)

LEMMA SortInitially == ASSUME SortInit PROVE SortInv
<1>1. /\ key \in [Items -> Keys] \cup {NoOrder} /\ a = [i \in Places |-> i + 1]
      /\ at = "slice" /\ lo = 0 /\ hi = Size /\ extra = 0 /\ right = FALSE /\ stack = <<>>
      /\ l = 0 /\ r = 0 /\ count = 0 /\ begin = 0 /\ end = 0 /\ start = 0
      /\ then = "return" /\ calls = <<>>
  BY DEF SortInit
<1>2. Size \in Nat
  BY SortAssumption
<1>3. a \in [Places -> Items]
  BY <1>1, <1>2 DEF Places, Items
<1>4. Permutation
  <2>1. ASSUME NEW i \in Places PROVE a[i] \in Items
    BY <1>3
  <2>2. ASSUME NEW x \in Items PROVE \E i \in Places : a[i] = x
    <3>1. PICK i \in Places : i = x - 1
      BY <1>2 DEF Places, Items
    <3>2. a[i] = x
      BY <1>1, <3>1 DEF Items
    <3> QED BY <3>2
  <2> QED BY <2>1, <2>2 DEF Permutation
<1>5. <<>> \in Seq(Node) /\ <<>> \in Seq(Frame) /\ Len(<<>>) = 0
  BY EmptySeq
<1>6. LevelFrom(<<>>, 0) = 0 /\ LevelTo(<<>>, 0) = Size
  BY DEF LevelFrom, LevelTo
<1>7. Callers(key, a, <<>>)
  BY <1>2, <1>5, <1>6 DEF Callers, Nested
<1>8. First = 0 /\ Last = Size
  BY <1>1, <1>5, <1>6 DEF First, Last
<1>9. Here
  BY <1>1, <1>2, <1>8 DEF Here, InSlice, InUp, InDown, InSample, InInsert, InGather,
                           InPartition, InSpread, InSlide, InDups, InPop
<1>10. TypeOK
  <2>1. stack \in Seq(Node) /\ calls \in Seq(Frame)
    BY <1>1, <1>5
  <2>2. at = "slice" /\ then = "return"
    BY <1>1
  <2>3. right \in BOOLEAN
    BY <1>1
  <2>4. /\ lo \in Int /\ hi \in Int /\ extra \in Nat /\ l \in Int /\ r \in Int /\ count \in Nat
        /\ begin \in Int /\ end \in Int /\ start \in Int
    BY <1>1, <1>2
  <2> QED BY <1>1, <1>3, <2>1, <2>2, <2>3, <2>4 DEF TypeOK
<1> QED BY <1>1, <1>2, <1>4, <1>7, <1>9, <1>10 DEF SortInv

LEMMA SortInvStep == ASSUME SortInv, [SortNext]_sortVars PROVE SortInv'
<1>1. CASE SortNext
  BY <1>1, SliceStep, UpStep, DownStep, InsertStep, ReturnStep, SampleStep, SmallStep,
     GatherStep, PopStep, SplitStep, SpreadStep, SlideLStep, SlideRStep, MeetStep, DupsStep
     DEF SortNext
<1>2. CASE UNCHANGED sortVars
  <2>1. /\ key' = key /\ a' = a /\ at' = at /\ lo' = lo /\ hi' = hi /\ extra' = extra
        /\ right' = right /\ stack' = stack /\ l' = l /\ r' = r /\ count' = count
        /\ begin' = begin /\ end' = end /\ start' = start /\ then' = then /\ calls' = calls
    BY <1>2 DEF sortVars, slice, binary
  <2>2. First' = First /\ Last' = Last
    BY <2>1 DEF First, Last
  <2>3. TypeOK' /\ Permutation'
    BY <2>1 DEF SortInv, TypeOK, Permutation
  <2>4. Here => Here'
    BY <2>1, <2>2 DEF Here, InSlice, InUp, InDown, InSample, InInsert, InGather,
                      InPartition, InSpread, InSlide, InDups, InPop, Around, Works
  <2> QED BY <2>1, <2>3, <2>4 DEF SortInv
<1> QED BY <1>1, <1>2

\* The inductive invariant: the variables have their types, and at every place of
\* samplesortslice and binarysort every list that is being sorted is sorted but for the
\* parts that are still to be done.
THEOREM SortInvariant == SortSpec => []SortInv
<1>1. SortInit => SortInv
  BY SortInitially
<1>2. SortInv /\ [SortNext]_sortVars => SortInv'
  BY SortInvStep
<1> QED BY <1>1, <1>2, PTL DEF SortSpec

\* Whatever the comparison answers, no item is lost or duplicated.
THEOREM NothingLost == SortSpec => []Permutation
<1>1. SortInv => Permutation
  BY DEF SortInv
<1> QED BY <1>1, SortInvariant, PTL

LEMMA StaysWithin == ASSUME SortInv PROVE Within
<1>1. 0 <= lo /\ hi <= Size
  BY DEF SortInv
<1>2. ASSUME at \in {"slideL", "slideR", "meet"} PROVE lo < l /\ l <= r + 1 /\ r < hi
  BY <1>2, Facts DEF Here, InSlide
<1>3. ASSUME at = "dups" PROVE lo <= r /\ r < l /\ l <= hi /\ Len(stack) < STACKSIZE
  <2>1. /\ HasBits(extra, STACKSIZE - Len(stack) - 1) /\ stack \in Seq(Node)
        /\ lo <= r /\ r < l /\ l <= hi
    BY <1>3, Facts DEF Here, InDups
  <2>2. PICK n \in Nat : n = Len(stack)
    BY <2>1, LenProperties
  <2>3. PICK m \in Int : m = STACKSIZE - n - 1
    BY SortAssumption
  <2>4. m >= 0
    BY <2>1, <2>2, <2>3, BitsNatural
  <2> QED BY <2>1, <2>2, <2>3, <2>4, SortAssumption
<1> QED BY <1>1, <1>2, <1>3 DEF Within

LEMMA EndsInOrder == ASSUME SortInv, at = "sorted", key # NoOrder PROVE InOrder
<1>1. /\ Works(First, First) /\ stack = <<>> /\ calls = <<>>
  BY Facts DEF Here, InPop
<1>2. First = 0 /\ Last = Size
  BY <1>1, EmptySeq DEF First, Last, LevelFrom, LevelTo
<1>3. Sorted(key, a, 0, Size)
  BY <1>1, <1>2, LevelDone, SortAssumption DEF Works
<1>4. ASSUME NEW i \in 1 .. Size - 1 PROVE key[a[i - 1]] <= key[a[i]]
  <2>1. PICK h \in Places : h = i - 1
    BY SortAssumption DEF Places
  <2>2. i \in Places /\ 0 <= h /\ h < i /\ i < Size
    BY <2>1, SortAssumption DEF Places
  <2>3. Le(key, a[h], a[i])
    BY <1>3, <2>2 DEF Sorted
  <2> QED BY <2>1, <2>3 DEF Le
<1> QED BY <1>4 DEF InOrder

\* list.sort is correct for lists of every length, every number of samples and every
\* pseudo-random number: the list is a permutation of itself at every comparison, the
\* partition stays in its slice, the stack has room for every slice that is pushed, and at
\* the end the list is in the order of the comparison, if that is one.
THEOREM SortingCorrect == SortSpec => []SortCorrect
<1>1. SortInv => SortCorrect
  <2>1. SortInv => Permutation
    BY DEF SortInv
  <2> QED BY <2>1, StaysWithin, EndsInOrder DEF SortCorrect
<1> QED BY <1>1, SortInvariant, PTL
=============================================================================
