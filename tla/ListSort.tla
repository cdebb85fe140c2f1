------------------------------ MODULE ListSort ------------------------------
(***************************************************************************)
(* list.sort (src/Source/Objects/listobject.c): samplesortslice and          *)
(* binarysort, one comparison or one swap a step.  The comparison is the     *)
(* program's own code: where key is NoOrder it answers what it likes, and    *)
(* may fail.  The variables are the locals of the two functions; those of    *)
(* a samplesortslice that called itself are in calls.                        *)
(***************************************************************************)
EXTENDS Integers, Sequences

CONSTANTS
  Size,               \* the length of the list
  Keys, NoOrder,
  MINSIZE, MINPARTITIONSIZE, MAXMERGE, STACKSIZE,
  SampleBits,         \* k of the 2^k - 1 pivots of a slice, by its length
  Numbers             \* what the generator of pseudo-random numbers may give

MAXBITS == 27         \* the last k of the table of cutoffs
Power == [k \in 0 .. MAXBITS |-> 2 ^ k]

ASSUME PowerAssumption ==
  /\ \A k \in 0 .. MAXBITS : Power[k] \in Nat \ {0}
  /\ Power[0] = 1
  /\ \A k \in 1 .. MAXBITS : Power[k] = 2 * Power[k - 1]

ASSUME SortAssumption ==
  /\ Size \in Nat /\ Keys \subseteq Int /\ Numbers \subseteq Nat
  /\ MINSIZE \in Nat /\ MINPARTITIONSIZE \in 2 .. MINSIZE
  /\ MAXMERGE \in Nat /\ STACKSIZE \in Nat
  /\ \A n \in MINSIZE .. Size :
       /\ SampleBits[n] \in 1 .. MAXBITS /\ SampleBits[n] <= STACKSIZE
       /\ Power[SampleBits[n]] - 1 <= n

VARIABLES
  key, a,                          \* what is compared; the array
  at,                              \* the place in the program
  lo, hi, extra, right, stack,     \* samplesortslice; right is extraOnRight
  l, r,                            \* of either function
  count,                           \* swaps a loop has still to make
  begin, end, start, then,         \* binarysort: lo, hi, start; where it returns to
  calls                            \* the samplesortslices that wait for the one they called

slice == <<lo, hi, extra, right, stack>>
binary == <<begin, end, start, then>>
sortVars == <<key, a, at, slice, l, r, count, binary, calls>>

Places == 0 .. Size - 1
Items == 1 .. Size

\* An item is named by its place at the start.
SortInit ==
  /\ key \in [Items -> Keys] \cup {NoOrder}
  /\ a = [i \in Places |-> i + 1]
  /\ at = "slice"
  /\ lo = 0 /\ hi = Size /\ extra = 0 /\ right = FALSE /\ stack = <<>>
  /\ l = 0 /\ r = 0 /\ count = 0
  /\ begin = 0 /\ end = 0 /\ start = 0 /\ then = "return"
  /\ calls = <<>>

Swapped(b, i, j) == [b EXCEPT ![i] = b[j], ![j] = b[i]]

\* docompare and SETK: x comes before y or does not, or the sort ends with an exception.
Compare(x, y, Less, Not) ==
  \/ (key # NoOrder => key[x] < key[y]) /\ Less
  \/ (key # NoOrder => key[x] >= key[y]) /\ Not
  \/ key = NoOrder /\ at' = "failed" /\ UNCHANGED <<key, a, slice, l, r, count, binary, calls>>

-----------------------------------------------------------------------------
(* binarysort *)

\* The loop of binarysort for [b, e): the next pivot is at s.
InsertFrom(b, e, s, next) ==
  /\ start' = s
  /\ IF s < e THEN at' = "insert" /\ l' = b /\ r' = s
     ELSE at' = next /\ UNCHANGED <<l, r>>

\* Sorts [b, e), of which [b, s) is sorted.
Binarysort(b, e, s, next) ==
  /\ begin' = b /\ end' = e /\ then' = next
  /\ InsertFrom(b, e, IF s = b THEN s + 1 ELSE s, next)

\* The pivot at s goes to i; what is between moves up.
Inserted(b, i, s) ==
  [p \in Places |-> IF p = i THEN b[s] ELSE IF i < p /\ p <= s THEN b[p - 1] ELSE b[p]]

Narrowed(x, y) ==
  IF x < y THEN l' = x /\ r' = y /\ UNCHANGED <<a, at, start>>
  ELSE a' = Inserted(a, x, start) /\ InsertFrom(begin, end, start + 1, then)

Insert ==
  /\ at = "insert"
  /\ LET p == l + (r - l) \div 2
     IN  Compare(a[start], a[p], Narrowed(l, p), Narrowed(p + 1, r))
  /\ UNCHANGED <<key, slice, count, begin, end, then, calls>>

-----------------------------------------------------------------------------
(* samplesortslice: slices that are sorted, or reversed, or small *)

Slice ==
  /\ at = "slice"
  /\ IF hi - lo < 2 THEN at' = "return" /\ UNCHANGED r ELSE at' = "up" /\ r' = lo + 1
  /\ UNCHANGED <<key, a, slice, l, count, binary, calls>>

Further == r' = r + 1 /\ UNCHANGED <<a, at, extra, l, count, binary>>

\* [lo, r) is sorted.
AfterRun ==
  /\ IF hi - r <= MAXMERGE \/ hi - lo < MINSIZE
     THEN Binarysort(lo, hi, r, "return")
     ELSE at' = "down" /\ r' = lo + 1 /\ UNCHANGED <<l, binary>>
  /\ UNCHANGED <<a, extra, count>>

Up ==
  /\ at = "up"
  /\ IF r < hi THEN Compare(a[r], a[r - 1], AfterRun, Further) ELSE AfterRun
  /\ UNCHANGED <<key, lo, hi, right, stack, calls>>

Reversed(b, x, y) == [p \in Places |-> IF x <= p /\ p < y THEN b[x + y - 1 - p] ELSE b[p]]

\* [lo, r) falls.  A large slice has a number of pivots.
AfterFall ==
  IF hi - r <= MAXMERGE
  THEN a' = Reversed(a, lo, r) /\ Binarysort(lo, hi, r, "return") /\ UNCHANGED <<extra, count>>
  ELSE /\ at' = "sample" /\ extra' = Power[SampleBits[hi - lo]] - 1 /\ count' = extra'
       /\ UNCHANGED <<a, l, r, binary>>

Down ==
  /\ at = "down"
  /\ IF r < hi THEN Compare(a[r - 1], a[r], AfterFall, Further) ELSE AfterFall
  /\ UNCHANGED <<key, lo, hi, right, stack, calls>>

-----------------------------------------------------------------------------
(* Samples and partitions *)

\* samplesortslice calls itself for [x, y) and goes on as frame says.
Recurse(x, y, frame) ==
  /\ at' = "slice" /\ lo' = x /\ hi' = y /\ stack' = <<>>
  /\ calls' = Append(calls, frame)
  /\ UNCHANGED <<extra, right, count>>

\* Items that a generator of pseudo-random numbers chooses go to the start of the slice.
Choose ==
  \E number \in Numbers :
    LET i == extra - count
    IN  /\ a' = Swapped(a, lo + i, lo + i + (number % (hi - lo - i)))
        /\ count' = count - 1
        /\ UNCHANGED <<at, slice, calls>>

Sample ==
  /\ at = "sample"
  /\ IF count > 0 THEN Choose
     ELSE /\ Recurse(lo, lo + extra, [lo |-> lo + extra, hi |-> hi, extra |-> extra,
                                      right |-> FALSE, stack |-> <<>>, at |-> "partition"])
          /\ UNCHANGED a
  /\ UNCHANGED <<key, l, r, binary>>

\* A small slice, or one without pivots, is sorted otherwise.
Small ==
  /\ at = "partition"
  /\ hi - lo < MINPARTITIONSIZE \/ extra = 0
  /\ IF hi - lo >= MINSIZE
     THEN Recurse(lo, hi, [lo |-> lo, hi |-> hi, extra |-> extra, right |-> right,
                           stack |-> stack, at |-> "pop"])
     ELSE at' = "gather" /\ count' = (IF right THEN extra ELSE 0) /\ UNCHANGED <<slice, calls>>
  /\ UNCHANGED <<key, a, l, r, binary>>

SwapUp == a' = Swapped(a, lo, hi) /\ lo' = lo + 1 /\ hi' = hi + 1 /\ count' = count - 1
SwapDown ==
  a' = Swapped(a, lo - 1, hi - 1) /\ lo' = lo - 1 /\ hi' = hi - 1 /\ count' = count - 1

\* The pivots go to the left end, and the slice is sorted with them.
Gather ==
  /\ at = "gather"
  /\ IF count > 0 THEN SwapUp /\ UNCHANGED <<at, l, r, binary>>
     ELSE Binarysort(lo - extra, hi, lo, "pop") /\ UNCHANGED <<a, lo, hi, count>>
  /\ UNCHANGED <<key, extra, right, stack, calls>>

\* The slice that was pushed last is next.
Pop ==
  /\ at = "pop"
  /\ IF stack = <<>> THEN at' = "return" /\ UNCHANGED slice
     ELSE LET top == stack[Len(stack)]
          IN  /\ at' = "partition" /\ stack' = SubSeq(stack, 1, Len(stack) - 1)
              /\ lo' = top.lo /\ hi' = top.hi /\ extra' = top.extra /\ right' = top.right
  /\ UNCHANGED <<key, a, l, r, count, binary, calls>>

\* The pivots before the middle one are to go to the left of the slice, those after it
\* to the right.
Split ==
  /\ at = "partition"
  /\ hi - lo >= MINPARTITIONSIZE /\ extra > 0
  /\ at' = "spread" /\ extra' = extra \div 2
  /\ count' = IF right THEN extra' + 1 ELSE extra'
  /\ UNCHANGED <<key, a, lo, hi, right, stack, l, r, binary, calls>>

\* At the end lo is the middle one, and what is between l and r is not known.
Spread ==
  /\ at = "spread"
  /\ IF count > 0 THEN (IF right THEN SwapUp ELSE SwapDown) /\ UNCHANGED <<at, l, r>>
     ELSE /\ at' = "slideL" /\ lo' = lo - 1 /\ l' = lo /\ r' = hi - 1
          /\ UNCHANGED <<a, hi, count>>
  /\ UNCHANGED <<key, extra, right, stack, binary, calls>>

Slide(x, y) == l' = x /\ r' = y /\ at' = IF x < y THEN "slideL" ELSE "meet"

SlideL ==
  /\ at = "slideL"
  /\ Compare(a[l], a[lo], Slide(l + 1, r), at' = "slideR" /\ UNCHANGED <<l, r>>)
  /\ UNCHANGED <<key, a, slice, count, binary, calls>>

\* The fault of reading the item to be moved after r went on.
ExchangedLate(b, i, j) == [b EXCEPT ![j] = b[i], ![i] = b[j - 1]]
Exchanged(b, i, j) == Swapped(b, i, j)

SlideR ==
  /\ at = "slideR"
  /\ IF l < r
     THEN Compare(a[r], a[lo], a' = Exchanged(a, l, r) /\ Slide(l + 1, r - 1),
                  r' = r - 1 /\ UNCHANGED <<a, at, l>>)
     ELSE at' = "meet" /\ UNCHANGED <<a, l, r>>
  /\ UNCHANGED <<key, slice, count, binary, calls>>

\* The pivot goes between the two parts.
Middle(x, y) == at' = "dups" /\ a' = Swapped(a, lo, y) /\ l' = x /\ r' = y

Meet ==
  /\ at = "meet"
  /\ IF l = r THEN Compare(a[r], a[lo], Middle(l + 1, r), Middle(l, r - 1)) ELSE Middle(l, r)
  /\ UNCHANGED <<key, slice, count, binary, calls>>

\* The larger part waits, the smaller is next.
Push ==
  /\ at' = "partition"
  /\ IF r - lo <= hi - l
     THEN /\ stack' = Append(stack, [lo |-> l, hi |-> hi, extra |-> extra, right |-> extra > 0])
          /\ hi' = r /\ right' = FALSE /\ UNCHANGED lo
     ELSE /\ stack' = Append(stack, [lo |-> lo, hi |-> r, extra |-> extra, right |-> FALSE])
          /\ lo' = l /\ right' = TRUE /\ UNCHANGED hi
  /\ UNCHANGED l

\* Items after the pivot that equal it are in their place.
Dups ==
  /\ at = "dups"
  /\ IF l < hi
     THEN Compare(a[r], a[l], Push, l' = l + 1 /\ UNCHANGED <<at, lo, hi, right, stack>>)
     ELSE Push
  /\ UNCHANGED <<key, a, extra, r, count, binary, calls>>

Return ==
  /\ at = "return"
  /\ IF calls = <<>> THEN at' = "sorted" /\ UNCHANGED <<slice, calls>>
     ELSE LET f == calls[Len(calls)]
          IN  /\ at' = f.at /\ calls' = SubSeq(calls, 1, Len(calls) - 1)
              /\ lo' = f.lo /\ hi' = f.hi /\ extra' = f.extra /\ right' = f.right
              /\ stack' = f.stack
  /\ UNCHANGED <<key, a, l, r, count, binary>>

SortNext ==
  \/ Slice \/ Up \/ Down \/ Insert \/ Return
  \/ Sample \/ Small \/ Gather \/ Pop
  \/ Split \/ Spread \/ SlideL \/ SlideR \/ Meet \/ Dups

SortSpec == SortInit /\ [][SortNext]_sortVars

-----------------------------------------------------------------------------
(* Properties *)

\* "Even in case of error, the output slice will be some permutation of the input
\* (nothing is lost or duplicated)": at every comparison too, whatever it answers.
Permutation == {a[i] : i \in Places} = Items

\* What the comments of samplesortslice assert: where it partitions, that it is always
\* within the list, and that the explicit stack has room for another slice.
Within ==
  /\ 0 <= lo /\ hi <= Size
  /\ at \in {"slideL", "slideR", "meet"} => lo < l /\ l <= r + 1 /\ r < hi
  /\ at = "dups" => lo <= r /\ r < l /\ l <= hi /\ Len(stack) < STACKSIZE

\* With a comparison that is an order, the list ends sorted.
InOrder == \A i \in 1 .. Size - 1 : key[a[i - 1]] <= key[a[i]]

\* Sorting keeps every item and sorts: the list of a program is a permutation of itself
\* at every comparison, whatever it answers, and in order at the end if it is an order.
SortCorrect == Permutation /\ Within /\ (at = "sorted" /\ key # NoOrder => InOrder)
=============================================================================
