---------------------------- MODULE Dict_proofs ----------------------------
(***************************************************************************)
(* Proofs about the hash tables of Dict, for any keys, hashes, table sizes  *)
(* and search orders that visit every slot.                                 *)
(*                                                                          *)
(* The predicates below are about one table t of n slots, so that the       *)
(* lemmas about them hold of the table before and after a step.             *)
(***************************************************************************)
EXTENDS Dict, FiniteSetTheorems, WellFoundedInduction, TLAPS

WellFormed(t) ==
  \A s \in DOMAIN t : Live(t[s]) <=> t[s].key \in Keys
Distinct(t) ==
  \A s, u \in DOMAIN t :
    t[s].key \in Keys /\ t[u].key \in Keys /\ Same[t[s].key] = Same[t[u].key] => s = u
\* The search for k in t comes to slot s before it meets a NULL entry.
OnPath(t, n, k, s) ==
  \E j \in 1..n :
    /\ Probe[Hash[k]][n][j] = s
    /\ \A i \in 1..j-1 : t[Probe[Hash[k]][n][i]].key # NoKey
Reachable(t, n) ==
  \A s \in Slots(n) : t[s].key \in Keys => OnPath(t, n, t[s].key, s)
OnlyStrings(t) == \A s \in DOMAIN t : t[s].key \in Keys => t[s].key \in StringKeys

Searchable(t, n) ==
  /\ t \in Table(n)
  /\ WellFormed(t)
  /\ Distinct(t)
  /\ Reachable(t, n)

LEMMA Least ==
  ASSUME NEW S, S \subseteq Nat, S # {}
  PROVE  \E m \in S : \A x \in S : m <= x
<1>1. PICK m \in S : \A x \in S : ~ (<<x, m>> \in OpToRel(<, Nat))
  BY NatLessThanWellFounded, WFMin
<1>2. ASSUME NEW x \in S PROVE m <= x
  <2>1. ~ (x < m)
    BY <1>1 DEF OpToRel
  <2> QED
    BY <2>1
<1> QED
  BY <1>2

(***************************************************************************)
(* Types                                                                    *)
(***************************************************************************)
LEMMA NewTableType == ASSUME NEW n PROVE NewTable(n) \in Table(n)
BY DEF NewTable, Table, Entry, Null

LEMMA NewSizeFits ==
  ASSUME NEW m, Fits(m) # {}
  PROVE  NewSize(m) \in Sizes /\ NewSize(m) > m
<1>1. \E n \in Fits(m) : \A x \in Fits(m) : n <= x
  BY Least, SizesAssumption DEF Fits
<1>2. NewSize(m) \in Fits(m)
  BY <1>1 DEF NewSize
<1> QED
  BY <1>2 DEF Fits

LEMMA SizeType ==
  ASSUME TypeOK, NEW d \in Dicts
  PROVE  size[d] \in Sizes \cup {0} /\ size[d] \in Nat
<1>1. size \in [Dicts -> Sizes \cup {0}]
  BY DEF TypeOK
<1>2. size[d] \in Sizes \cup {0}
  BY <1>1
<1>3. Sizes \subseteq Nat
  BY SizesAssumption
<1>4. CASE size[d] \in Sizes
  BY <1>3, <1>4
<1>5. CASE size[d] = 0
  BY <1>5
<1> QED
  BY <1>2, <1>4, <1>5

LEMMA Below ==
  ASSUME NEW n \in Nat, NEW e \in 1..n, NEW j \in 1..e-1
  PROVE  j \in 1..n /\ \A i \in 1..j-1 : i \in 1..e-1
OBVIOUS

\* Where the search ends, and that it ends at the first place it can.
LEMMA EndFacts ==
  ASSUME TypeOK, NEW d \in Dicts, NEW k \in Keys, Ends(d, k)
  PROVE  /\ End(d, k) \in 1..size[d]
         /\ Stops(d, k, End(d, k))
         /\ \A i \in 1..End(d, k)-1 : ~Stops(d, k, i)
<1> DEFINE S == {j \in 1..size[d] : Stops(d, k, j)}
<1>1. size[d] \in Nat
  BY SizeType
<1>2. S \subseteq Nat /\ S # {}
  BY <1>1 DEF Ends
<1>3. PICK m \in S : \A x \in S : m <= x
  BY <1>2, Least
<1>4. \A i \in 1..m-1 : ~Stops(d, k, i)
  BY <1>1, <1>3
<1>5. \E j \in 1..size[d] : Stops(d, k, j) /\ \A i \in 1..j-1 : ~Stops(d, k, i)
  BY <1>3, <1>4
<1> QED
  BY <1>5 DEF End

LEMMA VisitType ==
  ASSUME TypeOK, NEW d \in Dicts, NEW k \in Keys, NEW j \in 1..size[d]
  PROVE  /\ size[d] \in Nat
         /\ Visit(d, k, j) \in Slots(size[d])
         /\ table[d][Visit(d, k, j)] \in Entry
<1>1. size[d] \in Sizes
  BY SizeType
<1>2. Probe[Hash[k]][size[d]] \in [1..size[d] -> 0..size[d]-1]
  BY <1>1, ProbeAssumption
<1>3. Visit(d, k, j) \in Slots(size[d])
  BY <1>2 DEF Visit, Slots
<1>4. table[d] \in [Slots(size[d]) -> Entry]
  BY DEF TypeOK, Table
<1> QED
  BY <1>1, <1>3, <1>4, SizesAssumption

(***************************************************************************)
(* What a search finds.  Either the entry with the key; or no entry has the *)
(* key and the slot is one where the key will be found again: everything    *)
(* the search passes before it is not NULL.                                 *)
(***************************************************************************)
LEMMA LookupFacts ==
  ASSUME TypeOK, NEW d \in Dicts, NEW k \in Keys, Ends(d, k),
         Searchable(table[d], size[d])
  PROVE  /\ Lookup(d, k) \in Slots(size[d])
         /\ Live(table[d][Lookup(d, k)]) => Matches(table[d][Lookup(d, k)], k)
         /\ ~Live(table[d][Lookup(d, k)]) =>
              /\ OnPath(table[d], size[d], k, Lookup(d, k))
              /\ \A s \in Slots(size[d]) : ~Matches(table[d][s], k)
<1> DEFINE t == table[d]  n == size[d]  e == End(d, k)  w == Visit(d, k, e)
<1>1. /\ e \in 1..n /\ n \in Nat
      /\ Stops(d, k, e)
      /\ \A i \in 1..e-1 : ~Stops(d, k, i)
      /\ w \in Slots(n)
      /\ t[w] \in Entry
  BY EndFacts, VisitType
<1>2. \A i \in 1..e-1 : t[Visit(d, k, i)].key # NoKey
  BY <1>1 DEF Stops
<1>3. DOMAIN t = Slots(n)
  BY DEF Searchable, Table
<1>4. CASE t[w].key # NoKey
  <2>1. Lookup(d, k) = w
    BY <1>4 DEF Lookup
  <2>2. Matches(t[w], k)
    BY <1>1, <1>4 DEF Stops
  <2>3. Live(t[w])
    BY <1>1, <1>3, <2>2 DEF Matches, Searchable, WellFormed
  <2> QED
    BY <1>1, <2>1, <2>2, <2>3
<1>5. CASE t[w].key = NoKey
  <2>1. ~Live(t[w])
    BY <1>1, <1>3, <1>5, DictAssumption DEF Searchable, WellFormed
  <2>2. ASSUME NEW s \in Slots(n), Matches(t[s], k) PROVE FALSE
    <3>1. t[s].key \in Keys /\ Same[t[s].key] = Same[k]
      BY <2>2 DEF Matches
    <3>2. Hash[t[s].key] = Hash[k]
      BY <3>1, HashAssumption
    <3>3. Reachable(t, n)
      BY DEF Searchable
    <3>4. OnPath(t, n, t[s].key, s)
      BY <3>1, <3>3 DEF Reachable
    <3>5. OnPath(t, n, k, s)
      BY <3>2, <3>4 DEF OnPath
    <3>6. PICK j \in 1..n :
            /\ Probe[Hash[k]][n][j] = s
            /\ \A i \in 1..j-1 : t[Probe[Hash[k]][n][i]].key # NoKey
      BY <3>5 DEF OnPath
    <3>7. Visit(d, k, j) = s
      BY <3>6 DEF Visit
    <3>8. Stops(d, k, j)
      BY <2>2, <3>7 DEF Stops
    <3>9. ~ (j < e)
      BY <1>1, <3>8
    <3>10. j # e
      BY <1>5, <3>1, <3>7, DictAssumption
    <3>11. e \in 1..j-1
      BY <1>1, <3>6, <3>9, <3>10
    <3> QED
      BY <1>5, <3>6, <3>11 DEF Visit
  <2>3. CASE Dummies(d, k) = {}
    <3>1. Lookup(d, k) = w
      BY <2>3 DEF Lookup
    <3>2. OnPath(t, n, k, w)
      BY <1>1, <1>2 DEF OnPath, Visit
    <3> QED
      BY <1>1, <2>1, <2>2, <3>1, <3>2
  <2>4. CASE Dummies(d, k) # {}
    <3> HIDE DEF e, w
    <3> DEFINE j == CHOOSE j \in Dummies(d, k) : \A i \in Dummies(d, k) : j <= i
    <3>1. Lookup(d, k) = Visit(d, k, j)
      BY <1>5, <2>4 DEF Lookup, e, w
    <3>2. Dummies(d, k) \subseteq Nat
      BY <1>1 DEF Dummies, e
    <3>3. j \in Dummies(d, k)
      BY <2>4, <3>2, Least
    <3>4. j \in 1..e-1 /\ t[Visit(d, k, j)].key = Dummy
      BY <3>3 DEF Dummies, e
    <3>5. j \in 1..n /\ \A i \in 1..j-1 : i \in 1..e-1
      BY <1>1, <3>4, Below
    <3>6. Visit(d, k, j) \in Slots(n)
      BY <3>5, VisitType
    <3>7. ~Live(t[Visit(d, k, j)])
      BY <1>3, <3>4, <3>6, DictAssumption DEF Searchable, WellFormed
    <3>8. OnPath(t, n, k, Visit(d, k, j))
      BY <1>2, <3>5 DEF OnPath, Visit
    <3> HIDE DEF j
    <3> QED
      BY <2>2, <3>1, <3>6, <3>7, <3>8
  <2> QED
    BY <2>3, <2>4
<1> QED
  BY <1>4, <1>5

(***************************************************************************)
(* Changes of one entry of a table that keep it searchable                  *)
(***************************************************************************)
LEMMA NewSearchable ==
  ASSUME NEW n \in Nat
  PROVE  Searchable(NewTable(n), n) /\ OnlyStrings(NewTable(n))
<1>1. \A s \in Slots(n) : NewTable(n)[s] = Null /\ DOMAIN NewTable(n) = Slots(n)
  BY DEF NewTable
<1>2. Null.key \notin Keys /\ ~Live(Null)
  BY DictAssumption DEF Null, Live
<1>3. DOMAIN NewTable(n) = Slots(n)
  BY DEF NewTable
<1> QED
  BY <1>1, <1>2, <1>3, NewTableType
  DEF Searchable, WellFormed, Distinct, Reachable, OnlyStrings

\* A path stays a path when no entry on it becomes NULL.
LEMMA PathStays ==
  ASSUME NEW n \in Sizes \cup {0}, NEW t, NEW q, NEW l \in Keys, NEW u \in Slots(n),
         OnPath(t, n, l, u),
         \A x \in Slots(n) : t[x].key # NoKey => q[x].key # NoKey
  PROVE  OnPath(q, n, l, u)
<1>1. PICK j \in 1..n :
        /\ Probe[Hash[l]][n][j] = u
        /\ \A i \in 1..j-1 : t[Probe[Hash[l]][n][i]].key # NoKey
  BY DEF OnPath
<1>2. \A i \in 1..j-1 : Probe[Hash[l]][n][i] \in Slots(n)
  <2>1. n \in Sizes
    BY <1>1
  <2>2. n \in Nat
    BY <2>1, SizesAssumption
  <2>3. Probe[Hash[l]][n] \in [1..n -> 0..n-1]
    BY <2>1, ProbeAssumption
  <2>4. 1..j-1 \subseteq 1..n
    BY <1>1, <2>2
  <2> QED
    BY <2>3, <2>4 DEF Slots
<1>3. \A i \in 1..j-1 : q[Probe[Hash[l]][n][i]].key # NoKey
  BY <1>1, <1>2
<1> QED
  BY <1>1, <1>3 DEF OnPath

LEMMA AddSearchable ==
  ASSUME NEW n \in Sizes \cup {0}, NEW t, Searchable(t, n),
         NEW k \in Keys, NEW v \in Values, NEW s \in Slots(n),
         OnPath(t, n, k, s),
         \A u \in Slots(n) : ~Matches(t[u], k),
         NEW q, q = [t EXCEPT ![s] = [key |-> k, value |-> v]]
  PROVE  Searchable(q, n)
<1> DEFINE e == [key |-> k, value |-> v]
<1>1. t \in [Slots(n) -> Entry] /\ DOMAIN t = Slots(n)
  BY DEF Searchable, Table
<1>2. e \in Entry /\ Live(e) /\ e.key = k /\ e.value = v
  BY DictAssumption DEF Entry, Live
<1> HIDE DEF e
<1>3. /\ q \in [Slots(n) -> Entry] /\ DOMAIN q = Slots(n)
      /\ q[s] = e
      /\ \A u \in Slots(n) : u # s => q[u] = t[u]
  BY <1>1, <1>2 DEF e
<1>4. WellFormed(q)
  BY <1>1, <1>2, <1>3 DEF Searchable, WellFormed
<1>5. Distinct(q)
  <2>1. \A u \in Slots(n) : t[u].key \in Keys => Same[t[u].key] # Same[k]
    BY DEF Matches
  <2> QED
    BY <1>1, <1>2, <1>3, <2>1 DEF Searchable, Distinct
<1>6. \A u \in Slots(n) : t[u].key # NoKey => q[u].key # NoKey
  BY <1>2, <1>3, DictAssumption
<1>7. ASSUME NEW l \in Keys, NEW u \in Slots(n), OnPath(t, n, l, u)
      PROVE  OnPath(q, n, l, u)
  BY <1>7, PathStays, <1>6
<1>8. Reachable(q, n)
  BY <1>2, <1>3, <1>7 DEF Searchable, Reachable
<1> QED
  BY <1>3, <1>4, <1>5, <1>8 DEF Searchable, Table

LEMMA OverwriteSearchable ==
  ASSUME NEW n \in Sizes \cup {0}, NEW t, Searchable(t, n),
         NEW v \in Values, NEW s \in Slots(n), Live(t[s]),
         NEW q, q = [t EXCEPT ![s] = [key |-> t[s].key, value |-> v]]
  PROVE  Searchable(q, n) /\ \A u \in Slots(n) : q[u].key = t[u].key
<1> DEFINE e == [key |-> t[s].key, value |-> v]
<1>1. t \in [Slots(n) -> Entry] /\ DOMAIN t = Slots(n) /\ t[s] \in Entry
  BY DEF Searchable, Table
<1>2. e \in Entry /\ Live(e) /\ e.key = t[s].key
  BY <1>1, DictAssumption DEF Entry, Live
<1> HIDE DEF e
<1>3. /\ q \in [Slots(n) -> Entry] /\ DOMAIN q = Slots(n)
      /\ q[s] = e
      /\ \A u \in Slots(n) : u # s => q[u] = t[u]
  BY <1>1, <1>2 DEF e
<1>4. \A u \in Slots(n) : q[u].key = t[u].key
  BY <1>2, <1>3
<1>5. WellFormed(q)
  BY <1>1, <1>2, <1>3 DEF Searchable, WellFormed
<1>6. Distinct(q)
  BY <1>1, <1>3, <1>4 DEF Searchable, Distinct
<1>7. ASSUME NEW l \in Keys, NEW u \in Slots(n), OnPath(t, n, l, u)
      PROVE  OnPath(q, n, l, u)
  BY <1>7, PathStays, <1>4
<1>8. Reachable(q, n)
  BY <1>4, <1>7 DEF Searchable, Reachable
<1> QED
  BY <1>3, <1>4, <1>5, <1>6, <1>8 DEF Searchable, Table

\* A deleted entry keeps its place: every other search still passes it.
LEMMA DeleteSearchable ==
  ASSUME NEW n \in Sizes \cup {0}, NEW t, Searchable(t, n), NEW s \in Slots(n),
         NEW q, q = [t EXCEPT ![s] = Deleted]
  PROVE  Searchable(q, n) /\ \A u \in Slots(n) : q[u].key \in Keys => q[u] = t[u]
<1>1. t \in [Slots(n) -> Entry] /\ DOMAIN t = Slots(n)
  BY DEF Searchable, Table
<1>2. /\ Deleted \in Entry /\ ~Live(Deleted)
      /\ Deleted.key \notin Keys /\ Deleted.key # NoKey
  BY DictAssumption DEF Entry, Live, Deleted
<1>3. /\ q \in [Slots(n) -> Entry] /\ DOMAIN q = Slots(n)
      /\ q[s] = Deleted
      /\ \A u \in Slots(n) : u # s => q[u] = t[u]
  BY <1>1, <1>2
<1>4. \A u \in Slots(n) : q[u].key \in Keys => q[u] = t[u]
  BY <1>2, <1>3
<1>5. WellFormed(q)
  BY <1>1, <1>2, <1>3 DEF Searchable, WellFormed
<1>6. Distinct(q)
  BY <1>1, <1>3, <1>4 DEF Searchable, Distinct
<1>7. \A u \in Slots(n) : t[u].key # NoKey => q[u].key # NoKey
  BY <1>2, <1>3
<1>8. ASSUME NEW l \in Keys, NEW u \in Slots(n), OnPath(t, n, l, u)
      PROVE  OnPath(q, n, l, u)
  BY <1>8, PathStays, <1>7
<1>9. Reachable(q, n)
  BY <1>4, <1>8 DEF Searchable, Reachable
<1> QED
  BY <1>3, <1>4, <1>5, <1>6, <1>9 DEF Searchable, Table

(***************************************************************************)
(* The invariant: every table is searchable, what is being moved is a table *)
(* too, and a string dictionary holds and is about to hold only strings.    *)
(***************************************************************************)
AllSearchable == \A d \in Dicts : Searchable(table[d], size[d])
StringTables ==
  /\ \A d \in Dicts : lookup[d] = "string" => OnlyStrings(table[d])
  /\ pc = "resize" /\ lookup[cur] = "string" => OnlyStrings(old)
DictInv ==
  /\ TypeOK
  /\ AllSearchable
  /\ WellFormed(old)
  /\ StringTables

DictTypes ==
  /\ size \in [Dicts -> Sizes \cup {0}]
  /\ table = [d \in Dicts |-> table[d]]
  /\ \A d \in Dicts : table[d] \in Table(size[d])
  /\ fill \in [Dicts -> Nat]
  /\ used \in [Dicts -> Int]
  /\ lookup \in [Dicts -> {"string", "any"}]

\* What a step keeps of the dictionaries, whatever the program is doing.
DictsOK ==
  /\ DictTypes
  /\ AllSearchable
  /\ \A d \in Dicts : lookup[d] = "string" => OnlyStrings(table[d])

LEMMA TableIn ==
  ASSUME NEW n \in Sizes \cup {0}, NEW t \in Table(n)
  PROVE  IsTable(t)
BY DEF IsTable

\* A dictionary that gets a searchable table.
LEMMA NewTableOK ==
  ASSUME DictsOK, NEW d \in Dicts, NEW n \in Sizes \cup {0}, NEW t,
         Searchable(t, n),
         table' = [table EXCEPT ![d] = t], size' = [size EXCEPT ![d] = n],
         fill' \in [Dicts -> Nat], used' \in [Dicts -> Int],
         lookup' \in [Dicts -> {"string", "any"}],
         \A o \in Dicts : o # d => lookup'[o] = lookup[o],
         lookup'[d] = "string" => OnlyStrings(t)
  PROVE  DictsOK'
<1>1. t \in Table(n) /\ IsTable(t)
  BY TableIn DEF Searchable
<1>2. /\ table' = [o \in Dicts |-> table'[o]] /\ size' \in [Dicts -> Sizes \cup {0}]
      /\ table'[d] = t /\ size'[d] = n
      /\ \A o \in Dicts : o # d => table'[o] = table[o] /\ size'[o] = size[o]
  BY <1>1 DEF DictsOK, DictTypes
<1>3. DictTypes'
  BY <1>1, <1>2 DEF DictsOK, DictTypes
<1>4. AllSearchable'
  BY <1>2 DEF DictsOK, AllSearchable
<1>5. \A o \in Dicts : lookup'[o] = "string" => OnlyStrings(table'[o])
  BY <1>2 DEF DictsOK
<1> QED
  BY <1>3, <1>4, <1>5 DEF DictsOK

LEMMA InvDicts == DictInv => DictsOK
BY DEF DictInv, DictsOK, DictTypes, TypeOK, StringTables

LEMMA CalledOK ==
  ASSUME DictsOK, NEW d \in Dicts, NEW k \in Keys, Called(d, k)
  PROVE  /\ lookup' \in [Dicts -> {"string", "any"}]
         /\ \A o \in Dicts : o # d => lookup'[o] = lookup[o]
         /\ \A o \in Dicts : lookup'[o] = "string" => lookup[o] = "string"
         /\ lookup'[d] = "string" => k \in StringKeys
BY DEF DictsOK, DictTypes, Called, LookupAfter

(***************************************************************************)
(* insertdict                                                               *)
(***************************************************************************)
LEMMA InsertOK ==
  ASSUME TypeOK, DictsOK, NEW d \in Dicts, NEW k \in Keys, NEW v \in Values,
         Insert(d, k, v)
  PROVE  DictsOK' /\ \A o \in Dicts : lookup'[o] = "string" => lookup[o] = "string"
<1> DEFINE s == Lookup(d, k)  t == table[d]  n == size[d]
<1>1. Ends(d, k) /\ Called(d, k) /\ size' = size
  BY DEF Insert
<1>2. n \in Sizes \cup {0} /\ n \in Nat
  BY SizeType
<1>3. Searchable(t, n)
  BY DEF DictsOK, AllSearchable
<1>4. /\ s \in Slots(n)
      /\ Live(t[s]) => Matches(t[s], k)
      /\ ~Live(t[s]) =>
           /\ OnPath(t, n, k, s)
           /\ \A u \in Slots(n) : ~Matches(t[u], k)
  BY <1>1, <1>3, LookupFacts
<1>5. /\ lookup' \in [Dicts -> {"string", "any"}]
      /\ \A o \in Dicts : o # d => lookup'[o] = lookup[o]
      /\ \A o \in Dicts : lookup'[o] = "string" => lookup[o] = "string"
      /\ lookup'[d] = "string" => k \in StringKeys
  BY <1>1, CalledOK
<1>6. size' = [size EXCEPT ![d] = n]
  BY <1>1 DEF DictsOK, DictTypes
<1>7. DOMAIN t = Slots(n)
  BY <1>3 DEF Searchable, Table
<1>8. lookup[d] = "string" => OnlyStrings(t)
  BY DEF DictsOK
<1> HIDE DEF s
<1>9. CASE Live(t[s])
  <2>1. table' = [table EXCEPT ![d][s] = [key |-> t[s].key, value |-> v]]
        /\ fill' = fill /\ used' = used
    BY <1>9 DEF Insert, s
  <2>2. PICK q : q = [t EXCEPT ![s] = [key |-> t[s].key, value |-> v]]
    OBVIOUS
  <2>3. table' = [table EXCEPT ![d] = q]
    BY <2>1, <2>2
  <2>4. Searchable(q, n) /\ \A u \in Slots(n) : q[u].key = t[u].key
    BY <1>2, <1>3, <1>4, <1>9, <2>2, OverwriteSearchable
  <2>5. lookup'[d] = "string" => OnlyStrings(q)
    BY <1>5, <1>7, <1>8, <2>4 DEF OnlyStrings, Searchable, Table
  <2>6. fill' \in [Dicts -> Nat] /\ used' \in [Dicts -> Int]
    BY <2>1 DEF DictsOK, DictTypes
  <2> QED
    BY <1>2, <1>5, <1>6, <2>3, <2>4, <2>5, <2>6, NewTableOK
<1>10. CASE ~Live(t[s])
  <2>1. /\ table' = [table EXCEPT ![d][s] = [key |-> k, value |-> v]]
        /\ fill' = [fill EXCEPT ![d] = @ + FillAdds(t[s])]
        /\ used' = [used EXCEPT ![d] = @ + 1]
    BY <1>10 DEF Insert, s
  <2>2. PICK q : q = [t EXCEPT ![s] = [key |-> k, value |-> v]]
    OBVIOUS
  <2>3. table' = [table EXCEPT ![d] = q]
    BY <2>1, <2>2
  <2>4. Searchable(q, n)
    BY <1>2, <1>3, <1>4, <1>10, <2>2, AddSearchable
  <2>5. lookup'[d] = "string" => OnlyStrings(q)
    <3>1. \A u \in Slots(n) : q[u].key = k \/ q[u].key = t[u].key
      BY <1>3, <2>2 DEF Searchable, Table
    <3> QED
      BY <1>5, <1>7, <1>8, <2>4, <3>1 DEF OnlyStrings, Searchable, Table
  <2>6. FillAdds(t[s]) \in Nat
    BY DEF FillAdds
  <2>7. fill' \in [Dicts -> Nat] /\ used' \in [Dicts -> Int]
    BY <2>1, <2>6 DEF DictsOK, DictTypes
  <2> QED
    BY <1>2, <1>5, <1>6, <2>3, <2>4, <2>5, <2>7, NewTableOK
<1> QED
  BY <1>5, <1>9, <1>10

\* dictresize: the old table becomes the one to be moved.
LEMMA ResizeOK ==
  ASSUME DictInv, NEW d \in Dicts, NEW m, NEW then, Resize(d, m, then), cur' = d
  PROVE  /\ DictsOK'
         /\ IsTable(old') /\ WellFormed(old')
         /\ lookup'[d] = "string" => OnlyStrings(old')
<1>1. /\ table' = [table EXCEPT ![d] = NewTable(NewSize(m))]
      /\ size' = [size EXCEPT ![d] = NewSize(m)]
      /\ fill' = [fill EXCEPT ![d] = 0]
      /\ used' = [used EXCEPT ![d] = 0]
      /\ old' = table[d]
      /\ lookup' = lookup
      /\ Fits(m) # {}
  BY DEF Resize
<1>2. NewSize(m) \in Sizes /\ NewSize(m) \in Nat
  BY <1>1, NewSizeFits, SizesAssumption
<1>3. Searchable(NewTable(NewSize(m)), NewSize(m)) /\ OnlyStrings(NewTable(NewSize(m)))
  BY <1>2, NewSearchable
<1>4. DictsOK
  BY InvDicts
<1>5. fill' \in [Dicts -> Nat] /\ used' \in [Dicts -> Int]
  BY <1>1, <1>4 DEF DictsOK, DictTypes
<1>6. lookup' \in [Dicts -> {"string", "any"}]
  BY <1>1, <1>4 DEF DictsOK, DictTypes
<1>7. DictsOK'
  BY <1>1, <1>2, <1>3, <1>4, <1>5, <1>6, NewTableOK
<1>8. IsTable(old') /\ WellFormed(old')
  <2>1. Searchable(table[d], size[d]) /\ size[d] \in Sizes \cup {0}
    BY <1>4, SizeType DEF DictInv, DictsOK, AllSearchable
  <2>2. IsTable(table[d]) /\ WellFormed(table[d])
    BY <2>1 DEF Searchable, IsTable
  <2> QED
    BY <1>1, <2>2
<1>9. lookup'[d] = "string" => OnlyStrings(old')
  BY <1>1, <1>4 DEF DictsOK
<1> QED
  BY <1>7, <1>8, <1>9

(***************************************************************************)
(* The invariant is inductive                                               *)
(***************************************************************************)
OpTypes ==
  /\ pc \in {"idle", "resize", "insert", "update"}
  /\ cur \in Dicts \cup {NoDict} /\ src \in Dicts \cup {NoDict}
  /\ pc = "idle" <=> cur = NoDict
  /\ pc = "update" \/ after = "update" => src \in Dicts /\ src # cur
  /\ arg \in Entry
  /\ IsTable(old)
  /\ next \in Nat
  /\ after \in {"idle", "insert", "update"}
  /\ pc = "resize" <=> after # "idle"
  /\ pc = "insert" \/ after = "insert" => arg.key \in Keys /\ arg.value \in Values
OldStrings == pc = "resize" /\ lookup[cur] = "string" => OnlyStrings(old)

LEMMA InvParts ==
  DictInv <=> DictsOK /\ OpTypes /\ WellFormed(old) /\ OldStrings
BY DEF DictInv, TypeOK, DictsOK, DictTypes, OpTypes, StringTables, OldStrings

LEMMA InvPartsNext ==
  DictsOK' /\ OpTypes' /\ WellFormed(old') /\ OldStrings' => DictInv'
BY DEF DictInv, TypeOK, DictsOK, DictTypes, OpTypes, StringTables, OldStrings

LEMMA NoTable == IsTable(NewTable(0)) /\ WellFormed(NewTable(0)) /\ Null \in Entry
<1>1. IsTable(NewTable(0))
  BY NewTableType, TableIn
<1> QED
  BY <1>1, NewSearchable DEF Searchable, Null, Entry

LEMMA InitInv == Init => DictInv
<1> SUFFICES ASSUME Init PROVE DictInv
  OBVIOUS
<1>1. NewTable(0) \in Table(0) /\ Searchable(NewTable(0), 0) /\ OnlyStrings(NewTable(0))
  BY NewTableType, NewSearchable
<1>2. DictTypes
  BY <1>1, NoTable DEF Init, DictTypes
<1>3. DictsOK
  BY <1>1, <1>2 DEF Init, DictsOK, AllSearchable
<1>4. OpTypes /\ WellFormed(old) /\ OldStrings
  BY NoTable, DictAssumption DEF Init, OpTypes, OldStrings
<1> QED
  BY <1>3, <1>4, InvParts

LEMMA FindInv ==
  ASSUME DictInv, NEW d \in Dicts, NEW k \in Keys, Find(d, k)
  PROVE  DictInv'
<1>1. DictsOK /\ OpTypes /\ WellFormed(old) /\ OldStrings
  BY InvParts
<1>2. /\ lookup' \in [Dicts -> {"string", "any"}]
      /\ \A o \in Dicts : lookup'[o] = "string" => lookup[o] = "string"
  BY <1>1, CalledOK DEF Find
<1>3. DictsOK'
  BY <1>1, <1>2 DEF Find, DictsOK, DictTypes, AllSearchable
<1>4. OpTypes' /\ WellFormed(old')
  BY <1>1 DEF Find, opVars, OpTypes
<1>5. OldStrings'
  BY <1>1 DEF Find, opVars, OldStrings
<1> QED
  BY <1>3, <1>4, <1>5, InvPartsNext

LEMMA DelItemInv ==
  ASSUME DictInv, NEW d \in Dicts, NEW k \in Keys, DelItem(d, k)
  PROVE  DictInv'
<1>1. DictsOK /\ OpTypes /\ WellFormed(old) /\ TypeOK
  BY InvParts DEF DictInv
<1>2. /\ lookup' \in [Dicts -> {"string", "any"}]
      /\ \A o \in Dicts : o # d => lookup'[o] = lookup[o]
      /\ \A o \in Dicts : lookup'[o] = "string" => lookup[o] = "string"
  BY <1>1, CalledOK DEF DelItem
<1>3. size[d] \in Sizes \cup {0} /\ Searchable(table[d], size[d])
  BY <1>1, SizeType DEF DictsOK, AllSearchable
<1>4. PICK s \in Slots(size[d]) : s = Lookup(d, k)
  BY <1>1, <1>3, LookupFacts DEF DelItem
<1>5. PICK q : q = [table[d] EXCEPT ![s] = Deleted]
  OBVIOUS
<1>6. table' = [table EXCEPT ![d] = q]
  BY <1>4, <1>5 DEF DelItem
<1>7. Searchable(q, size[d]) /\ \A u \in Slots(size[d]) : q[u].key \in Keys => q[u] = table[d][u]
  BY <1>3, <1>5, DeleteSearchable
<1>8. lookup'[d] = "string" => OnlyStrings(q)
  BY <1>1, <1>2, <1>3, <1>7 DEF DictsOK, OnlyStrings, Searchable, Table
<1>9. fill' \in [Dicts -> Nat] /\ used' \in [Dicts -> Int]
  BY <1>1 DEF DelItem, DictsOK, DictTypes
<1>10. size' = [size EXCEPT ![d] = size[d]]
  BY <1>1 DEF DelItem, DictsOK, DictTypes
<1>11. DictsOK'
  BY <1>1, <1>2, <1>3, <1>6, <1>7, <1>8, <1>9, <1>10, NewTableOK
<1>12. OpTypes' /\ WellFormed(old') /\ OldStrings'
  BY <1>1 DEF DelItem, opVars, OpTypes, OldStrings
<1> QED
  BY <1>11, <1>12, InvPartsNext

LEMMA ClearInv ==
  ASSUME DictInv, NEW d \in Dicts, PyDict_Clear(d)
  PROVE  DictInv'
<1>1. DictsOK /\ OpTypes /\ WellFormed(old)
  BY InvParts
<1>2. Searchable(NewTable(0), 0) /\ OnlyStrings(NewTable(0))
  BY NewSearchable
<1>3. fill' \in [Dicts -> Nat] /\ used' \in [Dicts -> Int] /\ lookup' = lookup
  BY <1>1 DEF PyDict_Clear, DictsOK, DictTypes
<1>4. lookup \in [Dicts -> {"string", "any"}]
  BY <1>1 DEF DictsOK, DictTypes
<1>5. DictsOK'
  BY <1>1, <1>2, <1>3, <1>4, NewTableOK DEF PyDict_Clear
<1>6. OpTypes' /\ WellFormed(old') /\ OldStrings'
  BY <1>1 DEF PyDict_Clear, opVars, OpTypes, OldStrings
<1> QED
  BY <1>5, <1>6, InvPartsNext

LEMMA SetItemInv ==
  ASSUME DictInv, NEW d \in Dicts, NEW k \in Keys, NEW v \in Values, SetItem(d, k, v)
  PROVE  DictInv'
<1>1. DictsOK /\ OpTypes /\ WellFormed(old)
  BY InvParts
<1>2. /\ cur' = d /\ src' = src /\ pc = "idle"
      /\ arg' = [key |-> k, value |-> v]
      /\ d # NoDict
      /\ [key |-> k, value |-> v] \in Entry
  BY DictAssumption DEF SetItem, Entry
<1>3. CASE pc' = "insert" /\ UNCHANGED <<dictVars, old, next, after>>
  <2>1. DictsOK'
    BY <1>1, <1>3 DEF dictVars, DictsOK, DictTypes, AllSearchable
  <2>2. OpTypes' /\ WellFormed(old') /\ OldStrings'
    BY <1>1, <1>2, <1>3 DEF OpTypes, OldStrings
  <2> QED
    BY <2>1, <2>2, InvPartsNext
<1>4. CASE Resize(d, used[d] * 2, "insert")
  <2>1. /\ DictsOK' /\ IsTable(old') /\ WellFormed(old')
        /\ lookup'[d] = "string" => OnlyStrings(old')
    BY <1>2, <1>4, ResizeOK
  <2>2. pc' = "resize" /\ next' = 0 /\ after' = "insert"
    BY <1>4 DEF Resize
  <2>3. OpTypes'
    BY <1>1, <1>2, <2>1, <2>2 DEF OpTypes
  <2>4. OldStrings'
    BY <1>2, <2>1 DEF OldStrings
  <2> QED
    BY <2>1, <2>3, <2>4, InvPartsNext
<1> QED
  BY <1>3, <1>4 DEF SetItem

\* The insertions of Move, InsertItem and UpdateItem.
LEMMA InsertKeeps ==
  ASSUME DictInv, NEW k \in Keys, NEW v \in Values, cur \in Dicts,
         Insert(cur, k, v), OpTypes', old' = old, cur' = cur \/ pc' # "resize",
         pc' = "resize" => pc = "resize"
  PROVE  DictInv'
<1>1. DictsOK /\ OpTypes /\ WellFormed(old) /\ OldStrings /\ TypeOK
  BY InvParts DEF DictInv
<1>2. DictsOK' /\ \A o \in Dicts : lookup'[o] = "string" => lookup[o] = "string"
  BY <1>1, InsertOK
<1>3. OldStrings'
  BY <1>1, <1>2 DEF OldStrings
<1> QED
  BY <1>1, <1>2, <1>3, InvPartsNext

LEMMA SameDicts ==
  ASSUME DictInv, OpTypes', UNCHANGED dictVars, WellFormed(old'),
         pc' = "resize" => pc = "resize" /\ cur' = cur /\ old' = old
  PROVE  DictInv'
<1>1. DictsOK /\ OldStrings
  BY InvParts
<1>2. DictsOK'
  BY <1>1 DEF dictVars, DictsOK, DictTypes, AllSearchable
<1>3. OldStrings'
  BY <1>1 DEF dictVars, OldStrings
<1> QED
  BY <1>2, <1>3, InvPartsNext

LEMMA MoveInv == ASSUME DictInv, Move PROVE DictInv'
<1>1. DictsOK /\ OpTypes /\ WellFormed(old)
  BY InvParts
<1>2. /\ pc' = pc /\ cur' = cur /\ arg' = arg /\ old' = old /\ src' = src
      /\ after' = after /\ next' = next + 1 /\ pc = "resize"
      /\ next \in DOMAIN old
  BY DEF Move, ToMove
<1>3. OpTypes' /\ cur \in Dicts
  BY <1>1, <1>2 DEF OpTypes
<1>4. CASE Live(old[next])
  <2>1. Insert(cur, old[next].key, old[next].value)
    BY <1>4 DEF Move
  <2>2. old[next] \in Entry
    BY <1>1, <1>2 DEF OpTypes, IsTable, Table
  <2>3. old[next].key \in Keys /\ old[next].value \in Values
    BY <1>1, <1>2, <1>4, <2>2 DEF WellFormed, Live, Entry
  <2> QED
    BY <1>2, <1>3, <2>1, <2>3, InsertKeeps
<1>5. CASE ~Live(old[next])
  <2>1. UNCHANGED dictVars
    BY <1>5 DEF Move
  <2> QED
    BY <1>1, <1>2, <1>3, <2>1, SameDicts
<1> QED
  BY <1>4, <1>5

LEMMA MovedInv == ASSUME DictInv, Moved PROVE DictInv'
<1>1. OpTypes
  BY InvParts
<1>2. /\ pc = "resize" /\ pc' = after /\ after' = "idle" /\ old' = NewTable(0)
      /\ next' = 0 /\ cur' = cur /\ arg' = arg /\ src' = src /\ UNCHANGED dictVars
  BY DEF Moved
<1>3. OpTypes' /\ WellFormed(old')
  BY <1>1, <1>2, NoTable DEF OpTypes
<1>4. pc' # "resize"
  BY <1>1, <1>2 DEF OpTypes
<1> QED
  BY <1>2, <1>3, <1>4, SameDicts

LEMMA InsertItemInv == ASSUME DictInv, InsertItem PROVE DictInv'
<1>1. OpTypes
  BY InvParts
<1>2. /\ pc = "insert" /\ pc' = "idle" /\ cur' = NoDict /\ src' = NoDict
      /\ arg' = Null /\ old' = old /\ next' = next /\ after' = after
      /\ Insert(cur, arg.key, arg.value)
  BY DEF InsertItem, Done
<1>3. cur \in Dicts /\ arg.key \in Keys /\ arg.value \in Values
  BY <1>1, <1>2 DEF OpTypes
<1>4. OpTypes'
  BY <1>1, <1>2, NoTable DEF OpTypes
<1> QED
  BY <1>2, <1>3, <1>4, InsertKeeps

LEMMA UpdateInv ==
  ASSUME DictInv, NEW d \in Dicts, NEW o \in Dicts, Update(d, o)
  PROVE  DictInv'
<1>1. DictsOK /\ OpTypes /\ WellFormed(old)
  BY InvParts
<1>2. cur' = d /\ src' = o /\ d # o /\ d # NoDict /\ arg' = arg /\ pc = "idle"
  BY DictAssumption DEF Update
<1>3. CASE (fill[d] + used[o]) * 3 >= size[d] * 2
  <2>0. PICK m : m = ((used[d] + used[o]) * 3) \div 2
    OBVIOUS
  <2>1. Resize(d, m, "update")
    BY <1>3, <2>0 DEF Update
  <2>2. /\ DictsOK' /\ IsTable(old') /\ WellFormed(old')
        /\ lookup'[d] = "string" => OnlyStrings(old')
    BY <1>2, <2>1, ResizeOK
  <2>3. pc' = "resize" /\ next' = 0 /\ after' = "update"
    BY <2>1 DEF Resize
  <2>4. OpTypes'
    BY <1>1, <1>2, <2>2, <2>3 DEF OpTypes
  <2>5. OldStrings'
    BY <1>2, <2>2 DEF OldStrings
  <2> QED
    BY <2>2, <2>4, <2>5, InvPartsNext
<1>4. CASE ~ ((fill[d] + used[o]) * 3 >= size[d] * 2)
  <2>1. pc' = "update" /\ next' = 0 /\ UNCHANGED <<dictVars, old, after>>
    BY <1>4 DEF Update
  <2>2. OpTypes'
    BY <1>1, <1>2, <2>1 DEF OpTypes
  <2> QED
    BY <1>1, <2>1, <2>2, SameDicts
<1> QED
  BY <1>3, <1>4

LEMMA CopyInv ==
  ASSUME DictInv, NEW d \in Dicts, NEW o \in Dicts, Copy(d, o)
  PROVE  DictInv'
<1>1. DictsOK /\ OpTypes /\ WellFormed(old)
  BY InvParts
<1>2. cur' = d /\ src' = o /\ d # o /\ d # NoDict /\ arg' = arg /\ pc = "idle"
  BY DictAssumption DEF Copy
<1>3. PICK m : m = (used[o] * 3) \div 2
  OBVIOUS
<1>4. Resize(d, m, "update")
  BY <1>3 DEF Copy
<1>5. /\ DictsOK' /\ IsTable(old') /\ WellFormed(old')
      /\ lookup'[d] = "string" => OnlyStrings(old')
  BY <1>2, <1>4, ResizeOK
<1>6. pc' = "resize" /\ next' = 0 /\ after' = "update"
  BY <1>4 DEF Resize
<1>7. OpTypes'
  BY <1>1, <1>2, <1>5, <1>6 DEF OpTypes
<1>8. OldStrings'
  BY <1>2, <1>5 DEF OldStrings
<1> QED
  BY <1>5, <1>7, <1>8, InvPartsNext

LEMMA UpdateItemInv == ASSUME DictInv, UpdateItem PROVE DictInv'
<1>1. DictsOK /\ OpTypes /\ WellFormed(old)
  BY InvParts
<1>2. /\ pc = "update" /\ pc' = pc /\ cur' = cur /\ arg' = arg /\ old' = old
      /\ src' = src /\ after' = after /\ next' = next + 1
      /\ next \in Slots(size[src])
  BY DEF UpdateItem, ToCopy
<1>3. OpTypes' /\ cur \in Dicts /\ src \in Dicts
  BY <1>1, <1>2 DEF OpTypes
<1>4. PICK e : e = table[src][next]
  OBVIOUS
<1>5. CASE Live(e)
  <2>1. Insert(cur, e.key, e.value)
    BY <1>4, <1>5 DEF UpdateItem
  <2>2. Searchable(table[src], size[src])
    BY <1>1, <1>3 DEF DictsOK, AllSearchable
  <2>3. e \in Entry /\ e.key \in Keys
    BY <1>2, <1>4, <1>5, <2>2 DEF Searchable, WellFormed, Table
  <2>4. e.value \in Values
    BY <1>5, <2>3 DEF Live, Entry
  <2> QED
    BY <1>2, <1>3, <2>1, <2>3, <2>4, InsertKeeps
<1>6. CASE ~Live(e)
  <2>1. UNCHANGED dictVars
    BY <1>4, <1>6 DEF UpdateItem
  <2> QED
    BY <1>1, <1>2, <1>3, <2>1, SameDicts
<1> QED
  BY <1>5, <1>6

LEMMA UpdatedInv == ASSUME DictInv, Updated PROVE DictInv'
<1>1. OpTypes /\ WellFormed(old)
  BY InvParts
<1>2. /\ pc = "update" /\ pc' = "idle" /\ cur' = NoDict /\ src' = NoDict
      /\ next' = 0 /\ arg' = arg /\ old' = old /\ after' = after
      /\ UNCHANGED dictVars
  BY DEF Updated, Done
<1>3. OpTypes'
  BY <1>1, <1>2 DEF OpTypes
<1> QED
  BY <1>1, <1>2, <1>3, SameDicts

LEMMA StutterInv == ASSUME DictInv, UNCHANGED vars PROVE DictInv'
<1>1. OpTypes /\ WellFormed(old)
  BY InvParts
<1>2. OpTypes' /\ UNCHANGED dictVars /\ old' = old /\ pc' = pc /\ cur' = cur
  BY <1>1 DEF vars, dictVars, OpTypes
<1> QED
  BY <1>1, <1>2, SameDicts

LEMMA NextInv == DictInv /\ [Next]_vars => DictInv'
<1> SUFFICES ASSUME DictInv, [Next]_vars PROVE DictInv'
  OBVIOUS
<1>1. CASE \E d \in Dicts, k \in Keys : Find(d, k)
  BY <1>1, FindInv
<1>2. CASE \E d \in Dicts, k \in Keys : DelItem(d, k)
  BY <1>2, DelItemInv
<1>3. CASE \E d \in Dicts, k \in Keys, v \in Values : SetItem(d, k, v)
  BY <1>3, SetItemInv
<1>4. CASE \E d \in Dicts : PyDict_Clear(d)
  BY <1>4, ClearInv
<1>5. CASE \E d, o \in Dicts : Update(d, o)
  BY <1>5, UpdateInv
<1>6. CASE \E d, o \in Dicts : Copy(d, o)
  BY <1>6, CopyInv
<1>7. CASE Work
  BY <1>7, MoveInv, MovedInv, InsertItemInv, UpdateItemInv, UpdatedInv DEF Work
<1>8. CASE UNCHANGED vars
  BY <1>8, StutterInv
<1> QED
  BY <1>1, <1>2, <1>3, <1>4, <1>5, <1>6, <1>7, <1>8 DEF Next

(***************************************************************************)
(* What the invariant says of searches                                      *)
(***************************************************************************)
\* A key with a path to it is where its search ends.
LEMMA FoundOnPath ==
  ASSUME DictInv, NEW d \in Dicts, NEW k \in Keys, NEW s \in Slots(size[d]),
         Matches(table[d][s], k)
  PROVE  Ends(d, k) /\ Lookup(d, k) = s
<1> DEFINE t == table[d]  n == size[d]
<1>1. TypeOK /\ Searchable(t, n)
  BY DEF DictInv, AllSearchable
<1>2. n \in Nat /\ DOMAIN t = Slots(n)
  BY <1>1, SizeType DEF Searchable, Table
<1>3. t[s].key \in Keys /\ Same[t[s].key] = Same[k]
  BY DEF Matches
<1>4. Hash[t[s].key] = Hash[k]
  BY <1>3, HashAssumption
<1>5. PICK j \in 1..n : Probe[Hash[k]][n][j] = s
  BY <1>1, <1>3, <1>4 DEF Searchable, Reachable, OnPath
<1>6. Ends(d, k)
  BY <1>5 DEF Ends, Stops, Visit
<1>7. /\ Lookup(d, k) \in Slots(n)
      /\ Live(t[Lookup(d, k)]) => Matches(t[Lookup(d, k)], k)
      /\ ~Live(t[Lookup(d, k)]) => \A u \in Slots(n) : ~Matches(t[u], k)
  BY <1>1, <1>6, LookupFacts
<1>8. Matches(t[Lookup(d, k)], k)
  BY <1>7
<1>9. Lookup(d, k) = s
  BY <1>1, <1>2, <1>3, <1>7, <1>8 DEF Searchable, Distinct, Matches
<1> QED
  BY <1>6, <1>9

LEMMA InvFindable == DictInv => Findable
<1> SUFFICES ASSUME DictInv, NEW d \in Dicts, NEW s \in LiveSlots(table[d]),
                    NEW k \in Keys, Matches(table[d][s], k)
             PROVE  Ends(d, k) /\ Lookup(d, k) = s
  BY DEF Findable
<1>1. s \in Slots(size[d])
  BY DEF LiveSlots, DictInv, AllSearchable, Searchable, Table
<1> QED
  BY <1>1, FoundOnPath

LEMMA InvStrings == DictInv => StringsOnly
<1> SUFFICES ASSUME DictInv, NEW d \in Dicts, lookup[d] = "string",
                    NEW s \in LiveSlots(table[d])
             PROVE  table[d][s].key \in StringKeys
  BY DEF StringsOnly
<1>1. s \in DOMAIN table[d] /\ Live(table[d][s])
  BY DEF LiveSlots
<1>2. table[d][s].key \in Keys
  BY <1>1 DEF DictInv, AllSearchable, Searchable, WellFormed
<1> QED
  BY <1>1, <1>2 DEF DictInv, StringTables, OnlyStrings

(***************************************************************************)
(* The theorems                                                             *)
(***************************************************************************)
\* The strengthened invariant holds in every reachable state, whatever the keys,
\* hashes, sizes and search orders are.
THEOREM InvCorrect == Spec => []DictInv
BY InitInv, NextInv, PTL DEF Spec

\* The fields of every dictionary and the locals of every operation have their
\* types; in particular no table is indexed outside its bounds.
THEOREM TypeCorrect == Spec => []TypeOK
<1>1. DictInv => TypeOK
  BY DEF DictInv
<1> QED
  BY <1>1, InvCorrect, PTL

\* lookdict finds every key that was inserted and not deleted, in the slot it is
\* in, whatever was inserted and deleted since and whatever it collides with.
THEOREM FindableCorrect == Spec => []Findable
BY InvFindable, InvCorrect, PTL

\* lookdict_string never meets a key that is not a string.
THEOREM StringsCorrect == Spec => []StringsOnly
BY InvStrings, InvCorrect, PTL

(***************************************************************************)
(* Second part: the hash tables of Dict implement the finite functions of   *)
(* Mapping, update and copy take over every key, and fill and used count    *)
(* what they are said to, so that a table is never full.                    *)
(*                                                                          *)
(* The contents of a dictionary are read off the set of its live entries:   *)
(* first such sets, then one table, then the invariant and the steps.       *)
(***************************************************************************)


(***************************************************************************)
(* Sets of entries, and the function one stands for                         *)
(***************************************************************************)
\* Entries with a key and a value, no two of them with equal keys.
Single(E) ==
  /\ \A e \in E : e \in Entry /\ e.key \in Keys /\ e.value \in Values
  /\ \A e, f \in E : Same[e.key] = Same[f.key] => e = f
MapOf(E) ==
  [c \in {Same[e.key] : e \in E} |-> (CHOOSE e \in E : Same[e.key] = c).value]

LEMMA MapValue ==
  ASSUME NEW E, Single(E), NEW e \in E
  PROVE  Same[e.key] \in DOMAIN MapOf(E) /\ MapOf(E)[Same[e.key]] = e.value
<1>1. (CHOOSE f \in E : Same[f.key] = Same[e.key]) = e
  BY DEF Single
<1> QED
  BY <1>1 DEF MapOf

\* F has the entry f in place of what E has for the key of f, if anything.
LEMMA MapSet ==
  ASSUME NEW E, NEW F, Single(E), Single(F), NEW f \in F,
         \A x \in E : Same[x.key] # Same[f.key] => x \in F,
         \A x \in F : x = f \/ x \in E
  PROVE  MapOf(F) = Abstract!With(MapOf(E), Same[f.key], f.value)
<1> DEFINE W == Abstract!With(MapOf(E), Same[f.key], f.value)
<1>1. DOMAIN MapOf(E) = {Same[e.key] : e \in E} /\ DOMAIN MapOf(F) = {Same[e.key] : e \in F}
  BY DEF MapOf
<1>2. DOMAIN W = DOMAIN MapOf(E) \cup {Same[f.key]}
  BY DEF Abstract!With
<1>3. DOMAIN MapOf(F) = DOMAIN W
  <2>1. ASSUME NEW c \in DOMAIN MapOf(F) PROVE c \in DOMAIN W
    BY <1>1, <1>2, <2>1
  <2>2. ASSUME NEW c \in DOMAIN W PROVE c \in DOMAIN MapOf(F)
    BY <1>1, <1>2, <2>2
  <2> QED
    BY <2>1, <2>2
<1>4. ASSUME NEW c \in DOMAIN MapOf(F) PROVE MapOf(F)[c] = W[c]
  <2>1. PICK x \in F : Same[x.key] = c
    BY <1>1, <1>4
  <2>2. MapOf(F)[c] = x.value
    BY <2>1, MapValue
  <2>3. W[c] = IF c = Same[f.key] THEN f.value ELSE MapOf(E)[c]
    BY <1>2, <1>3, <1>4 DEF Abstract!With
  <2>4. CASE c = Same[f.key]
    BY <2>1, <2>2, <2>3, <2>4 DEF Single
  <2>5. CASE c # Same[f.key]
    <3>1. x \in E
      BY <2>1, <2>5
    <3> QED
      BY <2>1, <2>2, <2>3, <2>5, <3>1, MapValue
  <2> QED
    BY <2>4, <2>5
<1>5. MapOf(F) = [c \in DOMAIN MapOf(F) |-> MapOf(F)[c]] /\ W = [c \in DOMAIN W |-> W[c]]
  BY DEF MapOf, Abstract!With
<1> QED
  BY <1>3, <1>4, <1>5

LEMMA MapDelete ==
  ASSUME NEW E, Single(E), NEW e \in E
  PROVE  /\ Single(E \ {e})
         /\ MapOf(E \ {e})
              = Abstract!Restrict(MapOf(E), DOMAIN MapOf(E) \ {Same[e.key]})
<1> DEFINE F == E \ {e}
           R == Abstract!Restrict(MapOf(E), DOMAIN MapOf(E) \ {Same[e.key]})
<1>1. Single(F)
  BY DEF Single
<1>2. DOMAIN MapOf(E) = {Same[x.key] : x \in E} /\ DOMAIN MapOf(F) = {Same[x.key] : x \in F}
  BY DEF MapOf
<1>3. DOMAIN R = DOMAIN MapOf(E) \ {Same[e.key]}
  BY DEF Abstract!Restrict
<1>4. \A x \in E : x \in F <=> Same[x.key] # Same[e.key]
  BY DEF Single
<1>5. DOMAIN MapOf(F) = DOMAIN R
  BY <1>2, <1>3, <1>4
<1>6. ASSUME NEW c \in DOMAIN MapOf(F) PROVE MapOf(F)[c] = R[c]
  <2>1. PICK x \in F : Same[x.key] = c
    BY <1>2, <1>6
  <2>2. MapOf(F)[c] = x.value
    BY <1>1, <2>1, MapValue
  <2>3. MapOf(E)[c] = x.value
    BY <2>1, MapValue
  <2> QED
    BY <1>3, <1>5, <1>6, <2>2, <2>3 DEF Abstract!Restrict
<1>7. MapOf(F) = [c \in DOMAIN MapOf(F) |-> MapOf(F)[c]] /\ R = [c \in DOMAIN R |-> R[c]]
  BY DEF MapOf, Abstract!Restrict
<1> QED
  BY <1>1, <1>5, <1>6, <1>7

(***************************************************************************)
(* The live entries of one table                                            *)
(***************************************************************************)
Held(t) == {t[s] : s \in LiveSlots(t)}
Rest(t, i) == {s \in LiveSlots(t) : s >= i}

LEMMA LiveEntry ==
  ASSUME NEW n \in Sizes \cup {0}, NEW t, Searchable(t, n), NEW s \in LiveSlots(t)
  PROVE  s \in Slots(n) /\ t[s] \in Entry /\ t[s].key \in Keys /\ t[s].value \in Values
<1>1. s \in DOMAIN t /\ Live(t[s])
  BY DEF LiveSlots
<1>2. s \in Slots(n) /\ t[s] \in Entry
  BY <1>1 DEF Searchable, Table
<1>3. t[s].key \in Keys
  BY <1>1 DEF Searchable, WellFormed
<1>4. t[s].value \in Values
  BY <1>1, <1>2 DEF Live, Entry
<1> QED
  BY <1>2, <1>3, <1>4

LEMMA HeldSingle ==
  ASSUME NEW n \in Sizes \cup {0}, NEW t, Searchable(t, n)
  PROVE  Single(Held(t))
<1>1. ASSUME NEW e \in Held(t) PROVE e \in Entry /\ e.key \in Keys /\ e.value \in Values
  BY <1>1, LiveEntry DEF Held
<1>2. ASSUME NEW e \in Held(t), NEW f \in Held(t), Same[e.key] = Same[f.key] PROVE e = f
  <2>1. PICK s \in LiveSlots(t), u \in LiveSlots(t) : e = t[s] /\ f = t[u]
    BY <1>2 DEF Held
  <2>2. t[s].key \in Keys /\ t[u].key \in Keys /\ s \in DOMAIN t /\ u \in DOMAIN t
    BY LiveEntry DEF LiveSlots
  <2> QED
    BY <1>2, <2>1, <2>2 DEF Searchable, Distinct
<1> QED
  BY <1>1, <1>2 DEF Single

\* What insertdict does to the table t: it overwrites the entry s with the key, or
\* writes to an entry s without one and no entry has the key.
Written(t, q, n, s, k, v) ==
  /\ s \in Slots(n) /\ DOMAIN q = Slots(n)
  /\ \A u \in Slots(n) : u # s => q[u] = t[u]
  /\ \/ Live(t[s]) /\ Matches(t[s], k) /\ q[s] = [key |-> t[s].key, value |-> v]
     \/ /\ ~Live(t[s]) /\ \A u \in Slots(n) : ~Matches(t[u], k)
        /\ q[s] = [key |-> k, value |-> v]

LEMMA InsertWrites ==
  ASSUME DictInv, NEW d \in Dicts, NEW k \in Keys, NEW v \in Values, Insert(d, k, v)
  PROVE  /\ size' = size
         /\ table' = [table EXCEPT ![d] = table'[d]]
         /\ \A o \in Dicts : o # d => table'[o] = table[o]
         /\ Searchable(table'[d], size[d])
         /\ \E s \in Slots(size[d]) :
              /\ Written(table[d], table'[d], size[d], s, k, v)
              /\ Live(table[d][s]) => UNCHANGED <<fill, used>>
              /\ ~Live(table[d][s]) =>
                   /\ fill' = [fill EXCEPT ![d] = @ + FillAdds(table[d][s])]
                   /\ used' = [used EXCEPT ![d] = @ + 1]
<1> DEFINE s == Lookup(d, k)  t == table[d]  n == size[d]
<1>1. TypeOK /\ Ends(d, k) /\ size' = size /\ Searchable(t, n)
  BY DEF Insert, DictInv, AllSearchable
<1>2. /\ s \in Slots(n)
      /\ Live(t[s]) => Matches(t[s], k)
      /\ ~Live(t[s]) => \A u \in Slots(n) : ~Matches(t[u], k)
  BY <1>1, LookupFacts
<1>3. t \in [Slots(n) -> Entry] /\ n \in Sizes \cup {0} /\ DOMAIN table = Dicts
  BY <1>1, SizeType DEF Searchable, Table, TypeOK
<1>4. DictsOK /\ DictsOK'
  BY <1>1, InvDicts, InsertOK
<1>5. Searchable(table'[d], n)
  BY <1>1, <1>4 DEF DictsOK, AllSearchable
<1> HIDE DEF s
<1>6. CASE Live(t[s])
  <2>1. /\ table' = [table EXCEPT ![d][s] = [key |-> t[s].key, value |-> v]]
        /\ UNCHANGED <<fill, used>>
    BY <1>6 DEF Insert, s
  <2>2. table'[d] = [t EXCEPT ![s] = [key |-> t[s].key, value |-> v]]
    BY <1>3, <2>1
  <2>3. Written(t, table'[d], n, s, k, v)
    BY <1>2, <1>3, <1>6, <2>2 DEF Written
  <2>4. table' = [table EXCEPT ![d] = table'[d]] /\ \A o \in Dicts : o # d => table'[o] = table[o]
    BY <1>3, <2>1, <2>2
  <2> QED
    BY <1>1, <1>2, <1>5, <1>6, <2>1, <2>3, <2>4
<1>7. CASE ~Live(t[s])
  <2>1. /\ table' = [table EXCEPT ![d][s] = [key |-> k, value |-> v]]
        /\ fill' = [fill EXCEPT ![d] = @ + FillAdds(t[s])]
        /\ used' = [used EXCEPT ![d] = @ + 1]
    BY <1>7 DEF Insert, s
  <2>2. table'[d] = [t EXCEPT ![s] = [key |-> k, value |-> v]]
    BY <1>3, <2>1
  <2>3. Written(t, table'[d], n, s, k, v)
    BY <1>2, <1>3, <1>7, <2>2 DEF Written
  <2>4. table' = [table EXCEPT ![d] = table'[d]] /\ \A o \in Dicts : o # d => table'[o] = table[o]
    BY <1>3, <2>1, <2>2
  <2> QED
    BY <1>1, <1>2, <1>5, <1>7, <2>1, <2>3, <2>4
<1> QED
  BY <1>6, <1>7

LEMMA WrittenHeld ==
  ASSUME NEW n \in Sizes \cup {0}, NEW t, NEW q, Searchable(t, n), Searchable(q, n),
         NEW s, NEW k \in Keys, NEW v \in Values, Written(t, q, n, s, k, v)
  PROVE  /\ s \in LiveSlots(q) /\ Same[q[s].key] = Same[k] /\ q[s].value = v
         /\ q[s] \in Held(q)
         /\ \A x \in Held(t) : Same[x.key] # Same[k] => x \in Held(q)
         /\ \A x \in Held(q) : x = q[s] \/ (x \in Held(t) /\ Same[x.key] # Same[k])
<1>1. DOMAIN t = Slots(n) /\ DOMAIN q = Slots(n) /\ s \in Slots(n)
  BY DEF Searchable, Table, Written
<1>2. q[s].value = v /\ Same[q[s].key] = Same[k]
  BY DEF Written, Matches
<1>3. s \in LiveSlots(q)
  BY <1>1, <1>2, DictAssumption DEF LiveSlots, Live
<1>4. ASSUME NEW x \in Held(t), Same[x.key] # Same[k] PROVE x \in Held(q)
  <2>1. PICK u \in LiveSlots(t) : x = t[u]
    BY DEF Held
  <2>2. u # s
    BY <1>4, <2>1 DEF LiveSlots, Written, Matches
  <2>3. q[u] = t[u] /\ u \in LiveSlots(q)
    BY <1>1, <2>1, <2>2 DEF LiveSlots, Written
  <2> QED
    BY <2>1, <2>3 DEF Held
<1>5. ASSUME NEW x \in Held(q), x # q[s] PROVE x \in Held(t) /\ Same[x.key] # Same[k]
  <2>1. PICK u \in LiveSlots(q) : x = q[u]
    BY DEF Held
  <2>2. u # s /\ u \in Slots(n)
    BY <1>1, <1>5, <2>1 DEF LiveSlots
  <2>3. q[u] = t[u] /\ u \in LiveSlots(t)
    BY <1>1, <2>1, <2>2 DEF LiveSlots, Written
  <2>4. x \in Held(t)
    BY <2>1, <2>3 DEF Held
  <2>5. Single(Held(q)) /\ q[s] \in Held(q)
    BY <1>3, HeldSingle DEF Held
  <2> QED
    BY <1>2, <1>5, <2>4, <2>5 DEF Single
<1>6. q[s] \in Held(q)
  BY <1>3 DEF Held
<1> QED
  BY <1>2, <1>3, <1>4, <1>5, <1>6

(***************************************************************************)
(* The invariant                                                            *)
(***************************************************************************)
\* What is still to be moved has no key in common with what was.
MoveApart ==
  pc = "resize" =>
    /\ Distinct(old)
    /\ \A s \in LiveSlots(table[cur]), u \in Rest(old, next) :
         Same[table[cur][s].key] # Same[old[u].key]
\* What was copied is there.
CopiedSoFar ==
  pc = "update" =>
    \A s \in LiveSlots(table[src]) : s < next =>
      \E x \in Held(table[cur]) :
        Same[x.key] = Same[table[src][s].key] /\ x.value = table[src][s].value
MapInv == DictInv /\ MoveApart /\ CopiedSoFar

LEMMA OldSlots ==
  ASSUME DictInv
  PROVE  \E n \in Sizes \cup {0} : n \in Nat /\ old \in Table(n) /\ DOMAIN old = Slots(n)
<1>1. PICK n \in Sizes \cup {0} : old \in Table(n)
  BY DEF DictInv, TypeOK, IsTable
<1>2. n \in Nat
  BY SizesAssumption
<1> QED
  BY <1>1, <1>2 DEF Table

LEMMA OldEntry ==
  ASSUME DictInv, NEW s \in LiveSlots(old)
  PROVE  old[s] \in Entry /\ old[s].key \in Keys /\ old[s].value \in Values /\ s \in Nat
<1>1. PICK n \in Nat : old \in Table(n) /\ DOMAIN old = Slots(n)
  BY OldSlots
<1>2. s \in Slots(n) /\ Live(old[s]) /\ old[s] \in Entry /\ s \in Nat
  BY <1>1 DEF LiveSlots, Table, Slots
<1>3. old[s].key \in Keys
  BY <1>1, <1>2 DEF DictInv, WellFormed
<1> QED
  BY <1>2, <1>3 DEF Live, Entry

LEMMA EntriesAre ==
  ASSUME NEW d \in Dicts
  PROVE  /\ Entries(d) = Held(table[d])
                           \cup (IF pc = "resize" /\ cur = d THEN {old[s] : s \in Rest(old, next)}
                                 ELSE {})
         /\ Contents(d) = MapOf(Entries(d))
BY DEF Entries, Contents, MapOf, Moving, Held, Rest

LEMMA EntriesSingle == ASSUME MapInv, NEW d \in Dicts PROVE Single(Entries(d))
<1>1. Searchable(table[d], size[d]) /\ size[d] \in Sizes \cup {0}
  BY SizeType DEF MapInv, DictInv, AllSearchable
<1>2. Single(Held(table[d]))
  BY <1>1, HeldSingle
<1>3. CASE ~(pc = "resize" /\ cur = d)
  BY <1>2, <1>3, EntriesAre
<1>4. CASE pc = "resize" /\ cur = d
  <2> DEFINE M == {old[s] : s \in Rest(old, next)}
  <2>1. Entries(d) = Held(table[d]) \cup M
    BY <1>4, EntriesAre
  <2>2. ASSUME NEW e \in M PROVE e \in Entry /\ e.key \in Keys /\ e.value \in Values
    BY OldEntry DEF Rest, MapInv
  <2>3. ASSUME NEW e \in M, NEW f \in M, Same[e.key] = Same[f.key] PROVE e = f
    <3>1. PICK s \in LiveSlots(old), u \in LiveSlots(old) : e = old[s] /\ f = old[u]
      BY DEF Rest
    <3>2. old[s].key \in Keys /\ old[u].key \in Keys /\ s \in DOMAIN old /\ u \in DOMAIN old
      BY OldEntry DEF LiveSlots, MapInv
    <3> QED
      BY <1>4, <2>3, <3>1, <3>2 DEF MapInv, MoveApart, Distinct
  <2>4. ASSUME NEW e \in Held(table[d]), NEW f \in M PROVE Same[e.key] # Same[f.key]
    BY <1>4 DEF Held, MapInv, MoveApart
  <2> QED
    BY <1>2, <2>1, <2>2, <2>3, <2>4 DEF Single
<1> QED
  BY <1>3, <1>4

\* A dictionary whose table a step leaves alone holds what it held.
LEMMA OtherEntries ==
  ASSUME NEW o \in Dicts, table'[o] = table[o],
         ~(pc = "resize" /\ cur = o), ~(pc' = "resize" /\ cur' = o)
  PROVE  Entries(o)' = Entries(o)
<1>1. Entries(o) = Held(table[o])
  BY EntriesAre
<1>2. Moving(o)' = {}
  BY DEF Moving
<1>3. Entries(o)' = Held(table'[o])
  BY <1>2 DEF Entries, Held
<1> QED
  BY <1>1, <1>3

(***************************************************************************)
(* Insertions                                                               *)
(***************************************************************************)
\* dictresize moves an entry: what the dictionary holds stays.
LEMMA MoveStep ==
  ASSUME MapInv, Move
  PROVE  /\ \A o \in Dicts : Entries(o)' = Entries(o)
         /\ MoveApart'
<1>1. /\ pc = "resize" /\ pc' = pc /\ cur' = cur /\ old' = old /\ next' = next + 1
      /\ next \in DOMAIN old
  BY DEF Move, ToMove
<1>2. cur \in Dicts /\ next \in Nat /\ DictInv
  BY <1>1 DEF MapInv, DictInv, TypeOK
<1>3. \A s \in LiveSlots(old) : s \in Nat
  BY <1>2, OldEntry
<1> DEFINE t == table[cur]  q == table'[cur]  n == size[cur]
<1>4. Searchable(t, n) /\ n \in Sizes \cup {0}
  BY <1>2, SizeType DEF DictInv, AllSearchable
<1>5. CASE Live(old[next])
  <2>1. next \in LiveSlots(old) /\ next \in Rest(old, next)
    BY <1>1, <1>2, <1>5 DEF LiveSlots, Rest
  <2>2. PICK k \in Keys, v \in Values : k = old[next].key /\ v = old[next].value
    BY <1>2, <2>1, OldEntry
  <2>3. old[next] = [key |-> k, value |-> v]
    BY <1>2, <2>1, <2>2, OldEntry DEF Entry
  <2>4. Insert(cur, k, v)
    BY <1>5, <2>2 DEF Move
  <2>5. /\ \A o \in Dicts : o # cur => table'[o] = table[o]
        /\ Searchable(q, n)
        /\ \E s \in Slots(n) : Written(t, q, n, s, k, v)
    BY <1>2, <2>2, <2>4, InsertWrites
  <2>6. PICK s \in Slots(n) : Written(t, q, n, s, k, v)
    BY <2>5
  <2>7. ~(Live(t[s]) /\ Matches(t[s], k))
    <3>1. ASSUME Live(t[s]) PROVE s \in LiveSlots(t)
      BY <1>4, <2>6, <3>1 DEF LiveSlots, Searchable, Table
    <3> QED
      BY <1>1, <2>1, <2>2, <3>1 DEF MapInv, MoveApart, Matches
  <2>8. q[s] = old[next]
    BY <2>3, <2>6, <2>7 DEF Written
  <2>9. /\ \A x \in Held(t) : Same[x.key] # Same[k] => x \in Held(q)
        /\ \A x \in Held(q) : x = q[s] \/ (x \in Held(t) /\ Same[x.key] # Same[k])
        /\ q[s] \in Held(q)
    BY <1>4, <2>5, <2>6, WrittenHeld
  <2>10. \A x \in Held(t) : Same[x.key] # Same[k]
    <3>1. \A u \in LiveSlots(t) : Same[t[u].key] # Same[k]
      BY <1>1, <2>1, <2>2 DEF MapInv, MoveApart
    <3> QED
      BY <3>1 DEF Held
  <2>11. Held(q) = Held(t) \cup {old[next]}
    BY <2>8, <2>9, <2>10
  <2>12. Rest(old, next) = Rest(old, next + 1) \cup {next}
    <3>1. \A u \in LiveSlots(old) : u >= next <=> u >= next + 1 \/ u = next
      BY <1>2, <1>3
    <3> QED
      BY <2>1, <3>1 DEF Rest
  <2>13. Entries(cur)' = Entries(cur)
    <3>1. Entries(cur) = Held(t) \cup {old[u] : u \in Rest(old, next)}
      BY <1>1, <1>2, EntriesAre
    <3>2. Moving(cur)' = Rest(old, next + 1)
      BY <1>1 DEF Moving, Rest
    <3>3. Entries(cur)' = Held(q) \cup {old[u] : u \in Rest(old, next + 1)}
      BY <1>1, <3>2 DEF Entries, Held
    <3> QED
      BY <2>11, <2>12, <3>1, <3>3
  <2>14. \A o \in Dicts : Entries(o)' = Entries(o)
    BY <1>1, <2>5, <2>13, OtherEntries
  <2>15. MoveApart'
    <3>1. ASSUME NEW w \in LiveSlots(q), NEW u \in Rest(old, next + 1)
          PROVE  Same[q[w].key] # Same[old[u].key]
      <4>1. u \in Rest(old, next) /\ u # next /\ u \in LiveSlots(old)
        BY <1>2, <1>3 DEF Rest
      <4>2. q[w] \in Held(t) \/ q[w] = old[next]
        BY <2>11 DEF Held
      <4>3. CASE q[w] \in Held(t)
        BY <1>1, <4>1, <4>3 DEF Held, MapInv, MoveApart
      <4>4. CASE q[w] = old[next]
        BY <1>1, <1>2, <2>1, <4>1, <4>4, OldEntry DEF MapInv, MoveApart, Distinct, LiveSlots
      <4> QED
        BY <4>2, <4>3, <4>4
    <3> QED
      BY <1>1, <3>1 DEF MapInv, MoveApart
  <2> QED
    BY <2>14, <2>15
<1>6. CASE ~Live(old[next])
  <2>1. UNCHANGED dictVars
    BY <1>6 DEF Move
  <2>2. Rest(old, next) = Rest(old, next + 1)
    BY <1>2, <1>3, <1>6 DEF Rest, LiveSlots
  <2>3. ASSUME NEW o \in Dicts PROVE Moving(o)' = Moving(o)
    BY <1>1, <2>2 DEF Moving, Rest
  <2>4. \A o \in Dicts : Entries(o)' = Entries(o)
    BY <1>1, <2>1, <2>3 DEF Entries, dictVars
  <2>5. MoveApart'
    BY <1>1, <2>1, <2>2 DEF dictVars, MapInv, MoveApart
  <2> QED
    BY <2>4, <2>5
<1> QED
  BY <1>5, <1>6

\* Any other insertion sets one key of one dictionary.
LEMMA InsertSets ==
  ASSUME MapInv, NEW d \in Dicts, NEW k \in Keys, NEW v \in Values, Insert(d, k, v),
         pc # "resize", pc' # "resize", Single(Entries(d)')
  PROVE  /\ \A o \in Dicts : o # d => Entries(o)' = Entries(o)
         /\ MapOf(Entries(d)') = Abstract!With(MapOf(Entries(d)), Same[k], v)
<1> DEFINE t == table[d]  q == table'[d]  n == size[d]
<1>1. DictInv /\ Searchable(t, n) /\ n \in Sizes \cup {0}
  BY SizeType DEF MapInv, DictInv, AllSearchable
<1>2. /\ \A o \in Dicts : o # d => table'[o] = table[o]
      /\ Searchable(q, n)
      /\ \E s \in Slots(n) : Written(t, q, n, s, k, v)
  BY <1>1, InsertWrites
<1>3. PICK s \in Slots(n) : Written(t, q, n, s, k, v)
  BY <1>2
<1>4. /\ Same[q[s].key] = Same[k] /\ q[s].value = v /\ q[s] \in Held(q)
      /\ \A x \in Held(t) : Same[x.key] # Same[k] => x \in Held(q)
      /\ \A x \in Held(q) : x = q[s] \/ x \in Held(t)
  BY <1>1, <1>2, <1>3, WrittenHeld
<1>5. Entries(d) = Held(t) /\ Single(Held(t))
  BY EntriesAre, EntriesSingle
<1>6. Entries(d)' = Held(q)
  <2>1. Moving(d)' = {}
    BY DEF Moving
  <2> QED
    BY <2>1 DEF Entries, Held
<1>7. MapOf(Held(q)) = Abstract!With(MapOf(Held(t)), Same[q[s].key], q[s].value)
  BY <1>4, <1>5, <1>6, MapSet
<1>8. \A o \in Dicts : o # d => Entries(o)' = Entries(o)
  BY <1>2, OtherEntries
<1> QED
  BY <1>4, <1>5, <1>6, <1>7, <1>8

(***************************************************************************)
(* Steps that leave every dictionary what it holds                          *)
(***************************************************************************)
LEMMA ResizeKeeps ==
  ASSUME MapInv, NEW d \in Dicts, NEW m, NEW then, Resize(d, m, then), pc = "idle", cur' = d
  PROVE  /\ \A o \in Dicts : Entries(o)' = Entries(o)
         /\ MoveApart'
<1>1. /\ table' = [table EXCEPT ![d] = NewTable(NewSize(m))]
      /\ old' = table[d] /\ pc' = "resize" /\ next' = 0
  BY DEF Resize
<1>2. /\ DOMAIN table = Dicts /\ Searchable(table[d], size[d])
      /\ size[d] \in Sizes \cup {0} /\ size[d] \in Nat
  BY SizeType DEF MapInv, DictInv, TypeOK, AllSearchable
<1>3. /\ table'[d] = NewTable(NewSize(m))
      /\ \A o \in Dicts : o # d => table'[o] = table[o]
  BY <1>1, <1>2
<1>4. LiveSlots(table'[d]) = {}
  BY <1>3 DEF LiveSlots, NewTable, Null, Live
<1>5. Moving(d)' = LiveSlots(table[d])
  <2>1. \A s \in LiveSlots(table[d]) : s \in Slots(size[d])
    BY <1>2 DEF LiveSlots, Searchable, Table
  <2>2. \A s \in LiveSlots(table[d]) : s >= 0
    BY <1>2, <2>1 DEF Slots
  <2> QED
    BY <1>1, <2>2 DEF Moving
<1>6. Entries(d)' = Held(table[d])
  BY <1>1, <1>4, <1>5 DEF Entries, Held
<1>7. Entries(d) = Held(table[d])
  BY EntriesAre
<1>8. \A o \in Dicts : Entries(o)' = Entries(o)
  BY <1>3, <1>6, <1>7, OtherEntries
<1>9. MoveApart'
  BY <1>1, <1>2, <1>4 DEF MoveApart, Searchable
<1> QED
  BY <1>8, <1>9

LEMMA MovedStep == ASSUME MapInv, Moved PROVE \A o \in Dicts : Entries(o)' = Entries(o)
<1>1. /\ pc = "resize" /\ next \notin DOMAIN old /\ table' = table
      /\ pc' = after
  BY DEF Moved, ToMove, dictVars
<1>2. DictInv /\ next \in Nat /\ pc' # "resize"
  BY <1>1 DEF MapInv, DictInv, TypeOK
<1>3. PICK n \in Nat : DOMAIN old = Slots(n)
  BY <1>2, OldSlots
<1>4. Rest(old, next) = {}
  <2>1. \A s \in Slots(n) : ~(s >= next)
    BY <1>1, <1>2, <1>3 DEF Slots
  <2> QED
    BY <1>3, <2>1 DEF Rest, LiveSlots
<1>5. ASSUME NEW o \in Dicts PROVE Moving(o) = {} /\ Moving(o)' = {}
  BY <1>2, <1>4 DEF Moving, Rest
<1> QED
  BY <1>1, <1>5 DEF Entries

\* A step outside dictresize that writes to no table.
LEMMA SameTables ==
  ASSUME table' = table, pc # "resize", pc' # "resize"
  PROVE  \A o \in Dicts : Entries(o)' = Entries(o)
<1>1. \A o \in Dicts : table'[o] = table[o]
  OBVIOUS
<1> QED
  BY <1>1, OtherEntries

(***************************************************************************)
(* The invariant is inductive                                               *)
(***************************************************************************)
LEMMA CopyBegins ==
  ASSUME DictInv', src' \in Dicts, next' = 0
  PROVE  CopiedSoFar'
<1>1. Searchable(table'[src'], size'[src'])
  BY DEF DictInv, AllSearchable
<1>2. size'[src'] \in Nat
  <2>1. size' \in [Dicts -> Sizes \cup {0}]
    BY DEF DictInv, TypeOK
  <2>2. size'[src'] \in Sizes \cup {0}
    BY <2>1
  <2>3. Sizes \subseteq Nat /\ 0 \in Nat
    BY SizesAssumption
  <2> QED
    BY <2>2, <2>3
<1>3. \A s \in LiveSlots(table'[src']) : s \in Slots(size'[src'])
  BY <1>1 DEF LiveSlots, Searchable, Table
<1>4. \A s \in LiveSlots(table'[src']) : ~(s < next')
  BY <1>2, <1>3 DEF Slots
<1> QED
  BY <1>4 DEF CopiedSoFar

LEMMA UpdateItemCopies == ASSUME MapInv, UpdateItem PROVE CopiedSoFar'
<1>1. /\ pc = "update" /\ next \in Slots(size[src]) /\ next' = next + 1
      /\ pc' = pc /\ cur' = cur /\ src' = src
  BY DEF UpdateItem, ToCopy
<1>2. cur \in Dicts /\ src \in Dicts /\ src # cur /\ DictInv /\ next \in Nat
  BY <1>1 DEF MapInv, DictInv, TypeOK
<1> DEFINE r == table[src]  t == table[cur]  q == table'[cur]  n == size[cur]
<1>3. /\ Searchable(r, size[src]) /\ size[src] \in Sizes \cup {0} /\ DOMAIN r = Slots(size[src])
      /\ Searchable(t, n) /\ n \in Sizes \cup {0} /\ size[src] \in Nat
  BY <1>2, SizeType DEF DictInv, AllSearchable, Searchable, Table
<1>4. ASSUME NEW s \in LiveSlots(r), s < next
      PROVE  \E x \in Held(t) : Same[x.key] = Same[r[s].key] /\ x.value = r[s].value
  BY <1>1, <1>4 DEF MapInv, CopiedSoFar
<1>5. \A s \in LiveSlots(r) : s < next + 1 => s < next \/ s = next
  <2>1. \A s \in LiveSlots(r) : s \in Nat
    BY <1>3 DEF LiveSlots, Slots
  <2> QED
    BY <1>2, <2>1
<1>6. CASE Live(r[next])
  <2>1. next \in LiveSlots(r)
    BY <1>1, <1>3, <1>6 DEF LiveSlots
  <2>2. PICK k \in Keys, v \in Values : k = r[next].key /\ v = r[next].value
    BY <1>3, <2>1, LiveEntry
  <2>3. Insert(cur, k, v)
    BY <1>6, <2>2 DEF UpdateItem
  <2>4. /\ \A o \in Dicts : o # cur => table'[o] = table[o]
        /\ Searchable(q, n)
        /\ \E s \in Slots(n) : Written(t, q, n, s, k, v)
    BY <1>2, <2>3, InsertWrites
  <2>5. PICK w \in Slots(n) : Written(t, q, n, w, k, v)
    BY <2>4
  <2>6. /\ Same[q[w].key] = Same[k] /\ q[w].value = v /\ q[w] \in Held(q)
        /\ \A x \in Held(t) : Same[x.key] # Same[k] => x \in Held(q)
    <3>1. Searchable(t, n) /\ Searchable(q, n) /\ n \in Sizes \cup {0}
      BY <1>3, <2>4
    <3> HIDE DEF t, q, n
    <3> QED
      BY <2>5, <3>1, WrittenHeld
  <2>7. ASSUME NEW s \in LiveSlots(r), s < next + 1
        PROVE  \E x \in Held(q) : Same[x.key] = Same[r[s].key] /\ x.value = r[s].value
    <3>1. CASE s = next
      BY <2>2, <2>6, <3>1
    <3>2. CASE s # next
      <4>1. PICK x \in Held(t) : Same[x.key] = Same[r[s].key] /\ x.value = r[s].value
        BY <1>4, <1>5, <2>7, <3>2
      <4>2. r[s].key \in Keys /\ s \in DOMAIN r /\ next \in DOMAIN r /\ r[next].key \in Keys
        BY <1>3, <2>1, LiveEntry DEF LiveSlots
      <4>3. Same[r[s].key] # Same[k]
        BY <1>3, <2>2, <3>2, <4>2 DEF Searchable, Distinct
      <4> QED
        BY <2>6, <4>1, <4>3
    <3> QED
      BY <3>1, <3>2
  <2>8. table'[src] = r
    BY <1>2, <2>4
  <2> QED
    BY <1>1, <2>7, <2>8 DEF CopiedSoFar
<1>7. CASE ~Live(r[next])
  <2>1. table' = table
    BY <1>7 DEF UpdateItem, dictVars
  <2>2. \A s \in LiveSlots(r) : s # next
    BY <1>7 DEF LiveSlots
  <2> QED
    BY <1>1, <1>4, <1>5, <2>1, <2>2 DEF CopiedSoFar
<1> QED
  BY <1>6, <1>7

LEMMA InitMap == Init => MapInv
BY InitInv DEF Init, MapInv, MoveApart, CopiedSoFar

LEMMA NextMap == MapInv /\ [Next]_vars => MapInv'
<1> SUFFICES ASSUME MapInv, [Next]_vars PROVE MapInv'
  OBVIOUS
<1>1. DictInv /\ DictInv'
  BY NextInv DEF MapInv
<1>2. pc' # "resize" => MoveApart'
  BY DEF MoveApart
<1>3. pc' # "update" => CopiedSoFar'
  BY DEF CopiedSoFar
<1>4. CASE UNCHANGED dictVars /\ UNCHANGED opVars
  BY <1>1, <1>4 DEF MapInv, MoveApart, CopiedSoFar, dictVars, opVars
<1>5. ASSUME NEW d \in Dicts, NEW k \in Keys, Find(d, k) PROVE MapInv'
  <2>1. table' = table /\ UNCHANGED opVars
    BY <1>5 DEF Find
  <2> QED
    BY <1>1, <2>1 DEF MapInv, MoveApart, CopiedSoFar, opVars
<1>6. ASSUME NEW d \in Dicts, NEW k \in Keys, DelItem(d, k) PROVE MapInv'
  <2>1. pc' = "idle"
    BY <1>6 DEF DelItem, opVars
  <2> QED
    BY <1>1, <1>2, <1>3, <2>1 DEF MapInv
<1>7. ASSUME NEW d \in Dicts, PyDict_Clear(d) PROVE MapInv'
  <2>1. pc' = "idle"
    BY <1>7 DEF PyDict_Clear, opVars
  <2> QED
    BY <1>1, <1>2, <1>3, <2>1 DEF MapInv
<1>8. ASSUME NEW d \in Dicts, NEW k \in Keys, NEW v \in Values, SetItem(d, k, v) PROVE MapInv'
  <2>1. pc = "idle" /\ cur' = d
    BY <1>8 DEF SetItem
  <2>2. pc' = "insert" \/ \E m : Resize(d, m, "insert")
    BY <1>8 DEF SetItem
  <2>3. CASE pc' = "insert"
    BY <1>1, <1>2, <1>3, <2>3 DEF MapInv
  <2>4. ASSUME NEW m, Resize(d, m, "insert") PROVE MapInv'
    <3>1. MoveApart'
      BY <2>1, <2>4, ResizeKeeps
    <3>2. pc' = "resize"
      BY <2>4 DEF Resize
    <3> QED
      BY <1>1, <1>3, <3>1, <3>2 DEF MapInv
  <2> QED
    BY <2>2, <2>3, <2>4
<1>9. ASSUME NEW d \in Dicts, NEW m, Resize(d, m, "update"), pc = "idle", cur' = d PROVE MapInv'
  <2>1. MoveApart'
    BY <1>9, ResizeKeeps
  <2>2. pc' = "resize"
    BY <1>9 DEF Resize
  <2> QED
    BY <1>1, <1>3, <2>1, <2>2 DEF MapInv
<1>10. ASSUME NEW d \in Dicts, NEW o \in Dicts, Update(d, o) PROVE MapInv'
  <2>1. pc = "idle" /\ cur' = d /\ src' = o
    BY <1>10 DEF Update
  <2>2. \/ pc' = "update" /\ next' = 0
        \/ \E m : Resize(d, m, "update")
    BY <1>10 DEF Update
  <2>3. CASE pc' = "update" /\ next' = 0
    BY <1>1, <1>2, <2>1, <2>3, CopyBegins DEF MapInv
  <2> QED
    BY <1>9, <2>1, <2>2, <2>3
<1>11. ASSUME NEW d \in Dicts, NEW o \in Dicts, Copy(d, o) PROVE MapInv'
  <2>1. pc = "idle" /\ cur' = d /\ \E m : Resize(d, m, "update")
    BY <1>11 DEF Copy
  <2> QED
    BY <1>9, <2>1
<1>12. CASE Move
  <2>1. MoveApart' /\ pc' = "resize"
    BY <1>12, MoveStep DEF Move
  <2> QED
    BY <1>1, <1>3, <2>1 DEF MapInv
<1>13. CASE Moved
  <2>1. pc' = after /\ next' = 0 /\ pc = "resize" /\ src' = src
    BY <1>13 DEF Moved
  <2>2. pc' # "resize" /\ (pc' = "update" => src' \in Dicts)
    BY <1>1, <2>1 DEF DictInv, TypeOK
  <2>3. CopiedSoFar'
    BY <1>1, <1>3, <2>1, <2>2, CopyBegins
  <2> QED
    BY <1>1, <1>2, <2>2, <2>3 DEF MapInv
<1>14. CASE InsertItem
  BY <1>1, <1>2, <1>3, <1>14 DEF MapInv, InsertItem, Done
<1>15. CASE UpdateItem
  <2>1. CopiedSoFar' /\ pc' = "update"
    BY <1>15, UpdateItemCopies DEF UpdateItem
  <2> QED
    BY <1>1, <1>2, <2>1 DEF MapInv
<1>16. CASE Updated
  BY <1>1, <1>2, <1>3, <1>16 DEF MapInv, Updated, Done
<1>17. UNCHANGED vars => UNCHANGED dictVars /\ UNCHANGED opVars
  BY DEF vars, dictVars, opVars
<1> QED
  BY <1>4, <1>5, <1>6, <1>7, <1>8, <1>10, <1>11, <1>12, <1>13, <1>14, <1>15, <1>16, <1>17
  DEF Next, Work

(***************************************************************************)
(* Every step is a step of Mapping or none                                  *)
(***************************************************************************)
LEMMA AllSingle == MapInv => \A d \in Dicts : Single(Entries(d))
BY EntriesSingle

LEMMA AllSingleNext == MapInv' => (\A d \in Dicts : Single(Entries(d)))'
BY AllSingle, PTL

LEMMA ContentsNext == ASSUME NEW d PROVE Contents(d)' = MapOf(Entries(d)')
BY DEF Contents, MapOf

\* What Abstract sees of a step that changes no contents.
LEMMA SameContents ==
  ASSUME \A o \in Dicts : Entries(o)' = Entries(o)
  PROVE  [d \in Dicts |-> Contents(d)]' = [d \in Dicts |-> Contents(d)]
<1>1. ASSUME NEW o \in Dicts PROVE Contents(o)' = Contents(o)
  BY ContentsNext, EntriesAre
<1> QED
  BY <1>1

LEMMA NoStep ==
  ASSUME \A o \in Dicts : Entries(o)' = Entries(o), cur' = cur
  PROVE  UNCHANGED Abstract!vars
BY SameContents DEF Abstract!vars

LEMMA BeginOrEnd ==
  ASSUME \A o \in Dicts : Entries(o)' = Entries(o),
         \/ cur = NoDict /\ cur' \in Dicts
         \/ cur \in Dicts /\ cur' = NoDict
  PROVE  Abstract!Next
BY SameContents DEF Abstract!Next, Abstract!Begin, Abstract!End

\* What Abstract sees of a step that changes the contents of one dictionary.
LEMMA OneChanges ==
  ASSUME NEW d \in Dicts, NEW f, MapOf(Entries(d)') = f,
         \A o \in Dicts : o # d => Entries(o)' = Entries(o)
  PROVE  [o \in Dicts |-> Contents(o)]' = [[o \in Dicts |-> Contents(o)] EXCEPT ![d] = f]
<1>1. ASSUME NEW o \in Dicts, o # d PROVE Contents(o)' = Contents(o)
  BY <1>1, ContentsNext, EntriesAre
<1>2. Contents(d)' = f
  BY ContentsNext
<1> QED
  BY <1>1, <1>2

LEMMA SetStep ==
  ASSUME MapInv, MapInv', NEW k \in Keys, NEW v \in Values, Insert(cur, k, v),
         pc # "resize", pc' # "resize", cur \in Dicts, cur' \in {cur, NoDict}
  PROVE  Abstract!Next
<1>1. PICK d \in Dicts : d = cur
  OBVIOUS
<1>2. Single(Entries(d)')
  BY AllSingleNext
<1>3. /\ \A o \in Dicts : o # d => Entries(o)' = Entries(o)
      /\ MapOf(Entries(d)') = Abstract!With(MapOf(Entries(d)), Same[k], v)
  BY <1>1, <1>2, InsertSets
<1>4. MapOf(Entries(d)) = [o \in Dicts |-> Contents(o)][d]
  BY EntriesAre
<1>5. [o \in Dicts |-> Contents(o)]'
        = [[o \in Dicts |-> Contents(o)] EXCEPT
             ![d] = Abstract!With(MapOf(Entries(d)), Same[k], v)]
  BY <1>3, OneChanges
<1>6. Same[k] \in Classes
  BY DEF Classes
<1>7. Abstract!Set(d)
  BY <1>1, <1>4, <1>5, <1>6 DEF Abstract!Set
<1> QED
  BY <1>7 DEF Abstract!Next

LEMMA DeleteStep ==
  ASSUME MapInv, NEW d \in Dicts, NEW k \in Keys, DelItem(d, k)
  PROVE  Abstract!Next
<1> DEFINE t == table[d]  q == table'[d]  n == size[d]
<1>1. /\ pc = "idle" /\ pc' = "idle" /\ cur' = cur /\ Ends(d, k)
      /\ Live(t[Lookup(d, k)])
      /\ table' = [table EXCEPT ![d][Lookup(d, k)] = Deleted]
  BY DEF DelItem, opVars
<1>2. /\ TypeOK /\ Searchable(t, n) /\ n \in Sizes \cup {0} /\ DOMAIN table = Dicts
      /\ cur = NoDict /\ DOMAIN t = Slots(n)
  BY <1>1, SizeType DEF MapInv, DictInv, AllSearchable, TypeOK, Searchable, Table
<1>3. PICK w \in Slots(n) : w = Lookup(d, k)
  BY <1>1, <1>2, LookupFacts
<1>4. /\ q = [t EXCEPT ![w] = Deleted]
      /\ \A o \in Dicts : o # d => table'[o] = table[o]
  BY <1>1, <1>2, <1>3
<1>5. w \in LiveSlots(t)
  BY <1>1, <1>2, <1>3 DEF LiveSlots
<1>6. /\ DOMAIN q = Slots(n) /\ ~Live(q[w])
      /\ \A u \in Slots(n) : u # w => q[u] = t[u]
  BY <1>2, <1>4 DEF Live, Deleted
<1>7. Held(q) = Held(t) \ {t[w]}
  <2>1. ASSUME NEW x \in Held(q) PROVE x \in Held(t) \ {t[w]}
    <3>1. PICK u \in LiveSlots(q) : x = q[u]
      BY DEF Held
    <3>2. u \in Slots(n) /\ u # w /\ q[u] = t[u]
      BY <1>6, <3>1 DEF LiveSlots
    <3>3. u \in LiveSlots(t)
      BY <1>2, <3>1, <3>2 DEF LiveSlots
    <3>4. t[u] # t[w]
      BY <1>2, <1>5, <3>2, <3>3, LiveEntry DEF Searchable, Distinct
    <3> QED
      BY <3>1, <3>2, <3>3, <3>4 DEF Held
  <2>2. ASSUME NEW x \in Held(t), x # t[w] PROVE x \in Held(q)
    <3>1. PICK u \in LiveSlots(t) : x = t[u]
      BY DEF Held
    <3>2. u \in Slots(n) /\ u # w /\ q[u] = t[u]
      BY <1>2, <1>6, <2>2, <3>1 DEF LiveSlots
    <3>3. u \in LiveSlots(q)
      BY <1>6, <3>1, <3>2 DEF LiveSlots
    <3> QED
      BY <3>1, <3>2, <3>3 DEF Held
  <2> QED
    BY <2>1, <2>2
<1>8. Entries(d) = Held(t) /\ Entries(d)' = Held(q)
  <2>1. Moving(d)' = {}
    BY <1>1 DEF Moving
  <2> QED
    BY <1>1, <2>1, EntriesAre DEF Entries, Held
<1>9. \A o \in Dicts : o # d => Entries(o)' = Entries(o)
  BY <1>1, <1>4, OtherEntries
<1>10. PICK c \in DOMAIN MapOf(Held(t)) : c = Same[t[w].key]
  BY <1>2, <1>5, HeldSingle, MapValue DEF Held
<1>11. MapOf(Entries(d)')
         = Abstract!Restrict(MapOf(Held(t)), DOMAIN MapOf(Held(t)) \ {c})
  BY <1>2, <1>5, <1>7, <1>8, <1>10, HeldSingle, MapDelete DEF Held
<1>12. MapOf(Held(t)) = [o \in Dicts |-> Contents(o)][d]
  BY <1>8, EntriesAre
<1>13. [o \in Dicts |-> Contents(o)]'
         = [[o \in Dicts |-> Contents(o)] EXCEPT
              ![d] = Abstract!Restrict(MapOf(Held(t)), DOMAIN MapOf(Held(t)) \ {c})]
  BY <1>9, <1>11, OneChanges
<1>14. Abstract!Delete(d)
  BY <1>1, <1>2, <1>12, <1>13 DEF Abstract!Delete
<1> QED
  BY <1>14 DEF Abstract!Next

LEMMA EmptyMap == ASSUME NEW n \in Nat PROVE MapOf(Held(NewTable(n))) = Abstract!Nothing
<1>1. Held(NewTable(n)) = {}
  BY DEF Held, LiveSlots, NewTable, Null, Live
<1>2. {Same[e.key] : e \in {}} = {}
  OBVIOUS
<1>3. MapOf({}) = [c \in {} |-> c]
  BY <1>2 DEF MapOf
<1> QED
  BY <1>1, <1>3 DEF Abstract!Nothing

LEMMA ClearStep == ASSUME MapInv, NEW d \in Dicts, PyDict_Clear(d) PROVE Abstract!Next
<1>1. /\ pc = "idle" /\ pc' = "idle" /\ cur' = cur
      /\ table' = [table EXCEPT ![d] = NewTable(0)]
  BY DEF PyDict_Clear, opVars
<1>2. DOMAIN table = Dicts /\ cur = NoDict
  BY <1>1 DEF MapInv, DictInv, TypeOK
<1>3. /\ table'[d] = NewTable(0)
      /\ \A o \in Dicts : o # d => table'[o] = table[o]
  BY <1>1, <1>2
<1>4. Moving(d)' = {}
  BY <1>1 DEF Moving
<1>5. Entries(d)' = Held(NewTable(0))
  BY <1>3, <1>4 DEF Entries, Held
<1>6. \A o \in Dicts : o # d => Entries(o)' = Entries(o)
  BY <1>1, <1>3, OtherEntries
<1>7. [o \in Dicts |-> Contents(o)]'
        = [[o \in Dicts |-> Contents(o)] EXCEPT ![d] = Abstract!Nothing]
  BY <1>5, <1>6, EmptyMap, OneChanges
<1>8. Abstract!Clear(d)
  BY <1>1, <1>2, <1>7 DEF Abstract!Clear
<1> QED
  BY <1>8 DEF Abstract!Next

LEMMA MapsInit == Init => Abstract!Init
<1> SUFFICES ASSUME Init PROVE Abstract!Init
  OBVIOUS
<1>1. ASSUME NEW d \in Dicts PROVE Contents(d) = Abstract!Nothing
  <2>1. table[d] = NewTable(0) /\ pc = "idle"
    BY DEF Init
  <2>2. Entries(d) = Held(NewTable(0))
    BY <2>1, EntriesAre
  <2> QED
    BY <2>2, EmptyMap, EntriesAre
<1> QED
  BY <1>1 DEF Init, Abstract!Init

LEMMA MapsNext == MapInv /\ MapInv' /\ [Next]_vars => [Abstract!Next]_(Abstract!vars)
<1> SUFFICES ASSUME MapInv, MapInv', [Next]_vars PROVE [Abstract!Next]_(Abstract!vars)
  OBVIOUS
<1>1. DictInv /\ TypeOK /\ NoDict \notin Dicts
  BY DictAssumption DEF MapInv, DictInv
<1>2. ASSUME NEW d \in Dicts, NEW k \in Keys, Find(d, k) PROVE UNCHANGED Abstract!vars
  BY <1>2, SameTables, NoStep DEF Find, opVars
<1>3. ASSUME NEW d \in Dicts, NEW k \in Keys, NEW v \in Values, SetItem(d, k, v)
      PROVE  Abstract!Next
  <2>1. pc = "idle" /\ cur' = d /\ cur = NoDict
    BY <1>1, <1>3 DEF SetItem, TypeOK
  <2>2. \/ pc' = "insert" /\ table' = table
        \/ \E m : Resize(d, m, "insert")
    BY <1>3 DEF SetItem, dictVars
  <2>3. \A o \in Dicts : Entries(o)' = Entries(o)
    BY <2>1, <2>2, SameTables, ResizeKeeps
  <2> QED
    BY <2>1, <2>3, BeginOrEnd
<1>4. ASSUME NEW d \in Dicts, pc = "idle", cur' = d,
             (pc' = "update" /\ table' = table) \/ \E m : Resize(d, m, "update")
      PROVE  Abstract!Next
  <2>1. cur = NoDict
    BY <1>1, <1>4 DEF TypeOK
  <2>2. \A o \in Dicts : Entries(o)' = Entries(o)
    BY <1>4, SameTables, ResizeKeeps
  <2> QED
    BY <1>4, <2>1, <2>2, BeginOrEnd
<1>5. ASSUME NEW d \in Dicts, NEW o \in Dicts, Update(d, o) PROVE Abstract!Next
  <2>1. pc = "idle" /\ cur' = d
    BY <1>5 DEF Update
  <2>2. (pc' = "update" /\ table' = table) \/ \E m : Resize(d, m, "update")
    BY <1>5 DEF Update, dictVars
  <2> QED
    BY <1>4, <2>1, <2>2
<1>6. ASSUME NEW d \in Dicts, NEW o \in Dicts, Copy(d, o) PROVE Abstract!Next
  <2>1. pc = "idle" /\ cur' = d /\ \E m : Resize(d, m, "update")
    BY <1>6 DEF Copy
  <2> QED
    BY <1>4, <2>1
<1>7. CASE Move
  BY <1>7, MoveStep, NoStep DEF Move
<1>8. CASE Moved
  BY <1>8, MovedStep, NoStep DEF Moved
<1>9. CASE InsertItem
  <2>1. /\ pc = "insert" /\ pc' = "idle" /\ cur' = NoDict
        /\ Insert(cur, arg.key, arg.value)
    BY <1>9 DEF InsertItem, Done
  <2>2. cur \in Dicts /\ arg.key \in Keys /\ arg.value \in Values
    BY <1>1, <2>1 DEF TypeOK
  <2> QED
    BY <2>1, <2>2, SetStep
<1>10. CASE UpdateItem
  <2>1. /\ pc = "update" /\ pc' = "update" /\ cur' = cur
        /\ next \in Slots(size[src])
    BY <1>10 DEF UpdateItem, ToCopy
  <2>2. cur \in Dicts /\ src \in Dicts
    BY <1>1, <2>1 DEF TypeOK
  <2>3. CASE Live(table[src][next])
    <3>1. Searchable(table[src], size[src]) /\ size[src] \in Sizes \cup {0}
      BY <1>1, <2>2, SizeType DEF DictInv, AllSearchable
    <3>2. next \in LiveSlots(table[src])
      BY <2>1, <2>3, <3>1 DEF LiveSlots, Searchable, Table
    <3>3. PICK k \in Keys, v \in Values :
            k = table[src][next].key /\ v = table[src][next].value
      BY <3>1, <3>2, LiveEntry
    <3>4. Insert(cur, k, v)
      BY <1>10, <2>3, <3>3 DEF UpdateItem
    <3> QED
      BY <2>1, <2>2, <3>4, SetStep
  <2>4. CASE ~Live(table[src][next])
    <3>1. table' = table
      BY <1>10, <2>4 DEF UpdateItem, dictVars
    <3> QED
      BY <2>1, <3>1, SameTables, NoStep
  <2> QED
    BY <2>3, <2>4
<1>11. CASE Updated
  <2>1. pc = "update" /\ pc' = "idle" /\ cur' = NoDict /\ table' = table
    BY <1>11 DEF Updated, Done, dictVars
  <2>2. cur \in Dicts
    BY <1>1, <2>1 DEF TypeOK
  <2> QED
    BY <2>1, <2>2, SameTables, BeginOrEnd
<1>12. CASE UNCHANGED vars
  <2>1. [d \in Dicts |-> Contents(d)]' = [d \in Dicts |-> Contents(d)]
    BY <1>12 DEF vars, Contents, Entries, Moving
  <2> QED
    BY <1>12, <2>1 DEF vars, Abstract!vars
<1> QED
  BY <1>2, <1>3, <1>5, <1>6, <1>7, <1>8, <1>9, <1>10, <1>11, <1>12, DeleteStep, ClearStep
  DEF Next, Work

LEMMA UpdateEnds ==
  ASSUME MapInv, Next, pc = "update", pc' = "idle", NEW c \in DOMAIN Contents(src)
  PROVE  c \in DOMAIN Contents(cur) /\ Contents(cur)[c] = Contents(src)[c]
<1>1. /\ cur \in Dicts /\ src \in Dicts /\ next \in Nat /\ DictInv
      /\ Single(Entries(cur)) /\ Single(Entries(src))
  BY AllSingle DEF MapInv, DictInv, TypeOK
<1>2. Updated
  BY DEF Next, Work, Find, DelItem, SetItem, PyDict_Clear, Update, Copy, Move, Moved,
         InsertItem, UpdateItem
<1>3. next \notin Slots(size[src])
  BY <1>2 DEF Updated, ToCopy
<1>4. Searchable(table[src], size[src]) /\ size[src] \in Nat
  BY <1>1, SizeType DEF DictInv, AllSearchable
<1>5. \A s \in LiveSlots(table[src]) : s < next
  <2>1. \A s \in LiveSlots(table[src]) : s \in Slots(size[src])
    BY <1>4 DEF LiveSlots, Searchable, Table
  <2> QED
    BY <1>1, <1>3, <1>4, <2>1 DEF Slots
<1>6. Entries(src) = Held(table[src]) /\ Entries(cur) = Held(table[cur])
  BY <1>1, EntriesAre
<1>7. /\ Contents(src) = MapOf(Held(table[src]))
      /\ Contents(cur) = MapOf(Held(table[cur]))
  BY <1>1, <1>6, EntriesAre
<1>8. PICK e \in Held(table[src]) : c = Same[e.key]
  BY <1>7 DEF MapOf
<1>9. PICK s \in LiveSlots(table[src]) : e = table[src][s]
  BY <1>8 DEF Held
<1>10. PICK x \in Held(table[cur]) : Same[x.key] = c /\ x.value = e.value
  BY <1>5, <1>8, <1>9 DEF MapInv, CopiedSoFar
<1>11. Contents(src)[c] = e.value
  BY <1>1, <1>6, <1>7, <1>8, MapValue
<1> QED
  BY <1>1, <1>6, <1>7, <1>10, <1>11, MapValue

(***************************************************************************)
(* Counting                                                                 *)
(***************************************************************************)
LEMMA TableFinite ==
  ASSUME NEW n \in Nat, NEW t, DOMAIN t = Slots(n)
  PROVE  /\ IsFiniteSet(LiveSlots(t)) /\ Cardinality(LiveSlots(t)) \in Nat
         /\ IsFiniteSet(FullSlots(t)) /\ Cardinality(FullSlots(t)) \in Nat
         /\ \A i : IsFiniteSet(Rest(t, i)) /\ Cardinality(Rest(t, i)) \in Nat
<1>1. IsFiniteSet(Slots(n))
  BY FS_Interval DEF Slots
<1>2. LiveSlots(t) \in SUBSET Slots(n) /\ FullSlots(t) \in SUBSET Slots(n)
  BY DEF LiveSlots, FullSlots
<1>3. IsFiniteSet(LiveSlots(t)) /\ IsFiniteSet(FullSlots(t))
  BY <1>1, <1>2, FS_Subset
<1>4. ASSUME NEW i PROVE IsFiniteSet(Rest(t, i))
  <2>1. Rest(t, i) \in SUBSET Slots(n)
    BY <1>2 DEF Rest
  <2> QED
    BY <1>1, <2>1, FS_Subset
<1> QED
  BY <1>3, <1>4, FS_CardinalityType

LEMMA WrittenSlots ==
  ASSUME NEW n \in Sizes \cup {0}, NEW t, NEW q, Searchable(t, n),
         NEW s, NEW k \in Keys, NEW v \in Values, Written(t, q, n, s, k, v)
  PROVE  /\ LiveSlots(q) = LiveSlots(t) \cup {s}
         /\ FullSlots(q) = FullSlots(t) \cup {s}
         /\ s \in LiveSlots(t) <=> Live(t[s])
         /\ s \in FullSlots(t) <=> t[s].key # NoKey
         /\ Live(t[s]) => s \in FullSlots(t)
<1>1. DOMAIN t = Slots(n) /\ DOMAIN q = Slots(n) /\ s \in Slots(n)
  BY DEF Searchable, Table, Written
<1>2. q[s].key # NoKey /\ Live(q[s])
  BY DictAssumption DEF Written, Matches, Live
<1>3. \A u \in Slots(n) : u # s => q[u] = t[u]
  BY DEF Written
<1>4. LiveSlots(q) = LiveSlots(t) \cup {s}
  BY <1>1, <1>2, <1>3 DEF LiveSlots
<1>5. FullSlots(q) = FullSlots(t) \cup {s}
  BY <1>1, <1>2, <1>3 DEF FullSlots
<1>6. Live(t[s]) => t[s].key # NoKey
  BY <1>1, DictAssumption DEF Searchable, WellFormed
<1> QED
  BY <1>1, <1>4, <1>5, <1>6 DEF LiveSlots, FullSlots

\* An insertion fills at most one slot more, and is counted.
LEMMA InsertCounts ==
  ASSUME MapInv, Counted, NEW d \in Dicts, NEW k \in Keys, NEW v \in Values, Insert(d, k, v)
  PROVE  /\ Counted'
         /\ fill'[d] = fill[d] \/ fill'[d] = fill[d] + 1
         /\ \A o \in Dicts : o # d => UNCHANGED <<fill[o], used[o], table[o]>>
<1> DEFINE t == table[d]  q == table'[d]  n == size[d]
<1>1. /\ DictInv /\ Searchable(t, n) /\ n \in Sizes \cup {0} /\ n \in Nat
      /\ fill \in [Dicts -> Nat] /\ used \in [Dicts -> Int]
      /\ DOMAIN t = Slots(n)
  BY SizeType DEF MapInv, DictInv, AllSearchable, TypeOK, Searchable, Table
<1>2. /\ \A o \in Dicts : o # d => table'[o] = table[o]
      /\ \E s \in Slots(n) :
           /\ Written(t, q, n, s, k, v)
           /\ Live(t[s]) => UNCHANGED <<fill, used>>
           /\ ~Live(t[s]) =>
                /\ fill' = [fill EXCEPT ![d] = @ + FillAdds(t[s])]
                /\ used' = [used EXCEPT ![d] = @ + 1]
  BY <1>1, InsertWrites
<1>3. PICK s \in Slots(n) :
        /\ Written(t, q, n, s, k, v)
        /\ Live(t[s]) => UNCHANGED <<fill, used>>
        /\ ~Live(t[s]) =>
             /\ fill' = [fill EXCEPT ![d] = @ + FillAdds(t[s])]
             /\ used' = [used EXCEPT ![d] = @ + 1]
  BY <1>2
<1>4. /\ LiveSlots(q) = LiveSlots(t) \cup {s}
      /\ FullSlots(q) = FullSlots(t) \cup {s}
      /\ s \in LiveSlots(t) <=> Live(t[s])
      /\ s \in FullSlots(t) <=> t[s].key # NoKey
      /\ Live(t[s]) => s \in FullSlots(t)
  BY <1>1, <1>3, WrittenSlots
<1>5. /\ IsFiniteSet(LiveSlots(t)) /\ IsFiniteSet(FullSlots(t))
      /\ fill[d] = Cardinality(FullSlots(t)) /\ used[d] = Cardinality(LiveSlots(t))
  BY <1>1, TableFinite DEF Counted
<1>6. /\ Cardinality(LiveSlots(q)) = IF Live(t[s]) THEN used[d] ELSE used[d] + 1
      /\ Cardinality(FullSlots(q)) = IF t[s].key # NoKey THEN fill[d] ELSE fill[d] + 1
  BY <1>4, <1>5, FS_AddElement
<1>7. /\ fill'[d] = Cardinality(FullSlots(q)) /\ used'[d] = Cardinality(LiveSlots(q))
      /\ \A o \in Dicts : o # d => fill'[o] = fill[o] /\ used'[o] = used[o]
  BY <1>1, <1>3, <1>4, <1>6 DEF FillAdds
<1>8. fill'[d] = fill[d] \/ fill'[d] = fill[d] + 1
  BY <1>6, <1>7
<1> QED
  BY <1>2, <1>7, <1>8 DEF Counted

LEMMA SameCounts == ASSUME Counted, UNCHANGED <<table, fill, used>> PROVE Counted'
BY DEF Counted

LEMMA NewCounts ==
  ASSUME MapInv, Counted, NEW d \in Dicts, NEW n,
         table' = [table EXCEPT ![d] = NewTable(n)],
         fill' = [fill EXCEPT ![d] = 0], used' = [used EXCEPT ![d] = 0]
  PROVE  Counted'
<1>1. DOMAIN table = Dicts /\ DOMAIN fill = Dicts /\ DOMAIN used = Dicts
  BY DEF MapInv, DictInv, TypeOK
<1>2. LiveSlots(NewTable(n)) = {} /\ FullSlots(NewTable(n)) = {}
  BY DEF LiveSlots, FullSlots, NewTable, Null, Live
<1> QED
  BY <1>1, <1>2, FS_EmptySet DEF Counted

LEMMA DeleteCounts ==
  ASSUME MapInv, Counted, NEW d \in Dicts, NEW k \in Keys, DelItem(d, k)
  PROVE  Counted'
<1> DEFINE t == table[d]  q == table'[d]  n == size[d]
<1>1. /\ Ends(d, k) /\ Live(t[Lookup(d, k)]) /\ fill' = fill
      /\ table' = [table EXCEPT ![d][Lookup(d, k)] = Deleted]
      /\ used' = [used EXCEPT ![d] = @ - 1]
  BY DEF DelItem
<1>2. /\ TypeOK /\ Searchable(t, n) /\ n \in Nat /\ DOMAIN table = Dicts
      /\ DOMAIN t = Slots(n) /\ used \in [Dicts -> Int]
  BY SizeType DEF MapInv, DictInv, AllSearchable, TypeOK, Searchable, Table
<1>3. PICK w \in Slots(n) : w = Lookup(d, k)
  BY <1>1, <1>2, LookupFacts
<1>4. /\ q = [t EXCEPT ![w] = Deleted]
      /\ \A o \in Dicts : o # d => table'[o] = table[o] /\ used'[o] = used[o]
      /\ used'[d] = used[d] - 1
  BY <1>1, <1>2, <1>3
<1>5. w \in LiveSlots(t) /\ w \in FullSlots(t)
  BY <1>1, <1>2, <1>3, DictAssumption DEF LiveSlots, FullSlots, Searchable, WellFormed
<1>6. /\ DOMAIN q = Slots(n) /\ ~Live(q[w]) /\ q[w].key # NoKey
      /\ \A u \in Slots(n) : u # w => q[u] = t[u]
  BY <1>2, <1>4, DictAssumption DEF Live, Deleted
<1>7. LiveSlots(q) = LiveSlots(t) \ {w}
  BY <1>2, <1>6 DEF LiveSlots
<1>8. FullSlots(q) = FullSlots(t)
  BY <1>2, <1>5, <1>6 DEF FullSlots
<1>9. IsFiniteSet(LiveSlots(t)) /\ used[d] = Cardinality(LiveSlots(t))
  BY <1>2, TableFinite DEF Counted
<1>10. Cardinality(LiveSlots(q)) = used[d] - 1
  BY <1>5, <1>7, <1>9, FS_RemoveElement
<1> QED
  BY <1>1, <1>4, <1>8, <1>10 DEF Counted

LEMMA InitCounts == Init => Counted
<1>1. LiveSlots(NewTable(0)) = {} /\ FullSlots(NewTable(0)) = {}
  BY DEF LiveSlots, FullSlots, NewTable, Null, Live
<1> QED
  BY <1>1, FS_EmptySet DEF Init, Counted

LEMMA NextCounts == MapInv /\ Counted /\ [Next]_vars => Counted'
<1> SUFFICES ASSUME MapInv, Counted, [Next]_vars PROVE Counted'
  OBVIOUS
<1>1. DictInv /\ TypeOK
  BY DEF MapInv, DictInv
<1>2. ASSUME NEW d \in Dicts, NEW m, NEW then, Resize(d, m, then) PROVE Counted'
  BY <1>2, NewCounts DEF Resize
<1>3. CASE UNCHANGED <<table, fill, used>>
  BY <1>3, SameCounts
<1>4. ASSUME NEW d \in Dicts, NEW k \in Keys, Find(d, k) PROVE Counted'
  BY <1>3, <1>4 DEF Find
<1>5. ASSUME NEW d \in Dicts, NEW k \in Keys, NEW v \in Values, SetItem(d, k, v) PROVE Counted'
  BY <1>2, <1>3, <1>5 DEF SetItem, dictVars
<1>6. ASSUME NEW d \in Dicts, PyDict_Clear(d) PROVE Counted'
  BY <1>6, NewCounts DEF PyDict_Clear
<1>7. ASSUME NEW d \in Dicts, NEW o \in Dicts, Update(d, o) PROVE Counted'
  BY <1>2, <1>3, <1>7 DEF Update, dictVars
<1>8. ASSUME NEW d \in Dicts, NEW o \in Dicts, Copy(d, o) PROVE Counted'
  BY <1>2, <1>8 DEF Copy
<1>9. CASE Move
  <2>1. pc = "resize" /\ next \in DOMAIN old
    BY <1>9 DEF Move, ToMove
  <2>2. cur \in Dicts
    BY <1>1, <2>1 DEF TypeOK
  <2>3. CASE Live(old[next])
    <3>1. next \in LiveSlots(old)
      BY <2>1, <2>3 DEF LiveSlots
    <3>2. PICK k \in Keys, v \in Values : k = old[next].key /\ v = old[next].value
      BY <1>1, <3>1, OldEntry
    <3>3. Insert(cur, k, v)
      BY <1>9, <2>3, <3>2 DEF Move
    <3> QED
      BY <2>2, <3>3, InsertCounts
  <2> QED
    BY <1>3, <1>9, <2>3 DEF Move, dictVars
<1>10. CASE Moved \/ Updated
  BY <1>3, <1>10 DEF Moved, Updated, dictVars
<1>11. CASE InsertItem
  <2>1. Insert(cur, arg.key, arg.value) /\ pc = "insert"
    BY <1>11 DEF InsertItem
  <2>2. cur \in Dicts /\ arg.key \in Keys /\ arg.value \in Values
    BY <1>1, <2>1 DEF TypeOK
  <2> QED
    BY <2>1, <2>2, InsertCounts
<1>12. CASE UpdateItem
  <2>1. pc = "update" /\ next \in Slots(size[src])
    BY <1>12 DEF UpdateItem, ToCopy
  <2>2. cur \in Dicts /\ src \in Dicts
    BY <1>1, <2>1 DEF TypeOK
  <2>3. CASE Live(table[src][next])
    <3>1. Searchable(table[src], size[src]) /\ size[src] \in Sizes \cup {0}
      BY <1>1, <2>2, SizeType DEF DictInv, AllSearchable
    <3>2. next \in LiveSlots(table[src])
      BY <2>1, <2>3, <3>1 DEF LiveSlots, Searchable, Table
    <3>3. PICK k \in Keys, v \in Values :
            k = table[src][next].key /\ v = table[src][next].value
      BY <3>1, <3>2, LiveEntry
    <3>4. Insert(cur, k, v)
      BY <1>12, <2>3, <3>3 DEF UpdateItem
    <3> QED
      BY <2>2, <3>4, InsertCounts
  <2> QED
    BY <1>3, <1>12, <2>3 DEF UpdateItem, dictVars
<1>13. CASE UNCHANGED vars
  BY <1>3, <1>13 DEF vars
<1> QED
  BY <1>4, <1>5, <1>6, <1>7, <1>8, <1>9, <1>10, <1>11, <1>12, <1>13, DeleteCounts
  DEF Next, Work

(***************************************************************************)
(* Room in the table                                                        *)
(***************************************************************************)
\* As long as dictresize gets the table it asks for.
ResizeWorks == \A d \in Dicts : ~ResizeFails(used[d] * 2)

\* The program never inserts without asking for room, so the table has room for
\* everything the operation it is in has still to insert, and one more.
RoomLeft ==
  /\ FreeSlot
  /\ pc = "insert" => fill[cur] + 1 < size[cur]
  /\ pc = "resize" =>
       fill[cur] + Cardinality(Rest(old, next))
         + (IF after = "insert" THEN 1 ELSE used[src]) < size[cur]
  /\ pc = "update" => fill[cur] + Cardinality(Rest(table[src], next)) < size[cur]

\* The loop of dictresize or dict_update goes on to the next entry of t.
LEMMA RestStep ==
  ASSUME NEW n \in Nat, NEW t, DOMAIN t = Slots(n), NEW i \in Slots(n)
  PROVE  Cardinality(Rest(t, i))
           = Cardinality(Rest(t, i + 1)) + (IF Live(t[i]) THEN 1 ELSE 0)
<1>1. i \in Nat /\ \A s \in LiveSlots(t) : s \in Nat
  BY DEF Slots, LiveSlots
<1>2. \A s \in LiveSlots(t) : s >= i <=> s >= i + 1 \/ s = i
  BY <1>1
<1>3. Live(t[i]) <=> i \in LiveSlots(t)
  BY DEF LiveSlots
<1>4. IsFiniteSet(Rest(t, i + 1)) /\ Cardinality(Rest(t, i + 1)) \in Nat
  BY TableFinite
<1>5. CASE Live(t[i])
  <2>1. Rest(t, i) = Rest(t, i + 1) \cup {i}
    BY <1>1, <1>2, <1>3, <1>5 DEF Rest
  <2>2. i \notin Rest(t, i + 1)
    BY <1>1 DEF Rest
  <2> QED
    BY <1>4, <1>5, <2>1, <2>2, FS_AddElement
<1>6. CASE ~Live(t[i])
  <2>1. Rest(t, i) = Rest(t, i + 1)
    BY <1>2, <1>3, <1>6 DEF Rest
  <2> QED
    BY <1>4, <1>6, <2>1
<1> QED
  BY <1>5, <1>6

LEMMA RestAll ==
  ASSUME NEW n \in Nat, NEW t, DOMAIN t = Slots(n)
  PROVE  Rest(t, 0) = LiveSlots(t)
BY DEF Rest, LiveSlots, Slots

LEMMA Numbers ==
  ASSUME MapInv, Counted, NEW d \in Dicts
  PROVE  /\ size[d] \in Nat /\ (size[d] # 0 => size[d] >= 4)
         /\ fill[d] \in Nat /\ used[d] \in Nat
         /\ DOMAIN table[d] = Slots(size[d])
         /\ used[d] = Cardinality(Rest(table[d], 0))
<1>1. /\ TypeOK /\ size[d] \in Sizes \cup {0} /\ size[d] \in Nat
      /\ DOMAIN table[d] = Slots(size[d])
  BY SizeType DEF MapInv, DictInv, AllSearchable, Searchable, Table
<1>2. used[d] = Cardinality(LiveSlots(table[d])) /\ used[d] \in Nat
  BY <1>1, TableFinite DEF Counted
<1>3. size[d] # 0 => size[d] >= 4
  BY <1>1, SizesAssumption
<1>4. Rest(table[d], 0) = LiveSlots(table[d])
  BY <1>1, RestAll
<1> QED
  BY <1>1, <1>2, <1>3, <1>4 DEF TypeOK

\* dictresize makes room for what was in the table and for n more.
LEMMA ResizeRoom ==
  ASSUME MapInv, Counted, RoomLeft, NEW d \in Dicts, NEW m \in Int, NEW then, NEW n \in Nat,
         Resize(d, m, then), cur' = d, m >= used[d] + n,
         n = IF then = "insert" THEN 1 ELSE used'[src']
  PROVE  RoomLeft'
<1>1. /\ size' = [size EXCEPT ![d] = NewSize(m)] /\ fill' = [fill EXCEPT ![d] = 0]
      /\ old' = table[d] /\ next' = 0 /\ pc' = "resize" /\ after' = then
      /\ NewSize(m) \in Sizes /\ NewSize(m) > m
  BY NewSizeFits DEF Resize
<1>2. DOMAIN size = Dicts /\ DOMAIN fill = Dicts
  BY DEF MapInv, DictInv, TypeOK
<1>3. size'[d] = NewSize(m) /\ fill'[d] = 0 /\ NewSize(m) \in Nat
  BY <1>1, <1>2, SizesAssumption
<1>4. used[d] \in Nat /\ Cardinality(Rest(table[d], 0)) = used[d]
  BY Numbers
<1>5. FreeSlot'
  <2>1. ASSUME NEW o \in Dicts, o # d, size'[o] # 0 PROVE fill'[o] < size'[o]
    BY <1>1, <1>2, <2>1 DEF RoomLeft, FreeSlot
  <2>2. fill'[d] < size'[d]
    BY <1>1, <1>3, <1>4
  <2> QED
    BY <2>1, <2>2 DEF FreeSlot
<1>6. fill'[d] + Cardinality(Rest(old', next')) + n < size'[d]
  BY <1>1, <1>3, <1>4
<1> QED
  BY <1>1, <1>5, <1>6 DEF RoomLeft

\* An insertion with room for it and for n more.
LEMMA InsertRoom ==
  ASSUME MapInv, Counted, RoomLeft, NEW d \in Dicts, NEW k \in Keys, NEW v \in Values,
         Insert(d, k, v), NEW n \in Nat, fill[d] + n + 1 < size[d]
  PROVE  FreeSlot' /\ fill'[d] + n < size'[d]
<1>1. /\ fill'[d] = fill[d] \/ fill'[d] = fill[d] + 1
      /\ \A o \in Dicts : o # d => fill'[o] = fill[o]
      /\ size' = size
  BY InsertCounts DEF Insert
<1>2. fill[d] \in Nat /\ size[d] \in Nat
  BY Numbers
<1>3. fill'[d] + n < size'[d] /\ fill'[d] < size'[d]
  BY <1>1, <1>2
<1> QED
  BY <1>1, <1>3 DEF RoomLeft, FreeSlot

LEMMA MoveRoom == ASSUME MapInv, Counted, RoomLeft, Move PROVE RoomLeft'
<1>1. /\ pc = "resize" /\ next \in DOMAIN old /\ next' = next + 1
      /\ pc' = pc /\ cur' = cur /\ old' = old /\ src' = src /\ after' = after
  BY DEF Move, ToMove
<1>2. /\ DictInv /\ cur \in Dicts /\ (after # "insert" => src \in Dicts /\ src # cur)
      /\ next \in Nat
  BY <1>1 DEF MapInv, DictInv, TypeOK
<1>3. PICK n \in Nat : DOMAIN old = Slots(n)
  BY <1>2, OldSlots
<1> DEFINE r == Cardinality(Rest(old, next + 1))
           u == IF after = "insert" THEN 1 ELSE used[src]
<1>4. r \in Nat /\ u \in Nat
  BY <1>2, <1>3, TableFinite, Numbers
<1>5. fill[cur] \in Nat /\ size[cur] \in Nat
  BY <1>2, Numbers
<1>6. fill[cur] + Cardinality(Rest(old, next)) + u < size[cur]
  BY <1>1 DEF RoomLeft
<1>7. Cardinality(Rest(old, next)) = r + (IF Live(old[next]) THEN 1 ELSE 0)
  BY <1>1, <1>3, RestStep
<1> HIDE DEF r
<1>8. CASE Live(old[next])
  <2>1. next \in LiveSlots(old)
    BY <1>1, <1>8 DEF LiveSlots
  <2>2. PICK k \in Keys, v \in Values : k = old[next].key /\ v = old[next].value
    BY <1>2, <2>1, OldEntry
  <2>3. Insert(cur, k, v)
    BY <1>8, <2>2 DEF Move
  <2>4. fill[cur] + (r + u) + 1 < size[cur] /\ r + u \in Nat
    BY <1>4, <1>5, <1>6, <1>7, <1>8
  <2>5. FreeSlot' /\ fill'[cur] + (r + u) < size'[cur]
    BY <1>2, <2>3, <2>4, InsertRoom
  <2>6. after # "insert" => used'[src] = used[src]
    BY <1>2, <2>3, InsertCounts
  <2>7. fill'[cur] \in Nat
    BY <1>2, <1>5, <2>3, InsertCounts
  <2>8. fill'[cur] + r + u < size'[cur]
    BY <1>4, <2>5, <2>7
  <2> QED
    BY <1>1, <2>5, <2>6, <2>8 DEF RoomLeft, r
<1>9. CASE ~Live(old[next])
  <2>1. UNCHANGED <<fill, used, size>>
    BY <1>9 DEF Move, dictVars
  <2>2. fill[cur] + r + u < size[cur]
    BY <1>4, <1>6, <1>7, <1>9
  <2> QED
    BY <1>1, <2>1, <2>2 DEF RoomLeft, FreeSlot, r
<1> QED
  BY <1>8, <1>9

LEMMA UpdateItemRoom == ASSUME MapInv, Counted, RoomLeft, UpdateItem PROVE RoomLeft'
<1>1. /\ pc = "update" /\ next \in Slots(size[src]) /\ next' = next + 1
      /\ pc' = pc /\ cur' = cur /\ src' = src
  BY DEF UpdateItem, ToCopy
<1>2. DictInv /\ cur \in Dicts /\ src \in Dicts /\ src # cur
  BY <1>1 DEF MapInv, DictInv, TypeOK
<1> DEFINE t == table[src]
           r == Cardinality(Rest(t, next + 1))
<1>3. /\ size[src] \in Nat /\ DOMAIN t = Slots(size[src])
      /\ fill[cur] \in Nat /\ size[cur] \in Nat
  BY <1>2, Numbers
<1>4. r \in Nat
  BY <1>3, TableFinite
<1>5. fill[cur] + Cardinality(Rest(t, next)) < size[cur]
  BY <1>1 DEF RoomLeft
<1>6. Cardinality(Rest(t, next)) = r + (IF Live(t[next]) THEN 1 ELSE 0)
  BY <1>1, <1>3, RestStep
<1> HIDE DEF r
<1>7. CASE Live(t[next])
  <2>1. next \in LiveSlots(t) /\ Searchable(t, size[src]) /\ size[src] \in Sizes \cup {0}
    BY <1>1, <1>2, <1>3, <1>7, SizeType DEF LiveSlots, DictInv, AllSearchable
  <2>2. PICK k \in Keys, v \in Values : k = t[next].key /\ v = t[next].value
    BY <2>1, LiveEntry
  <2>3. Insert(cur, k, v)
    BY <1>7, <2>2 DEF UpdateItem
  <2>4. fill[cur] + r + 1 < size[cur]
    BY <1>3, <1>4, <1>5, <1>6, <1>7
  <2>5. FreeSlot' /\ fill'[cur] + r < size'[cur]
    BY <1>2, <1>4, <2>3, <2>4, InsertRoom
  <2>6. table'[src] = t
    BY <1>2, <2>3, InsertCounts
  <2> QED
    BY <1>1, <2>5, <2>6 DEF RoomLeft, r
<1>8. CASE ~Live(t[next])
  <2>1. UNCHANGED dictVars
    BY <1>8 DEF UpdateItem
  <2>2. UNCHANGED <<table, fill, size>>
    BY <2>1 DEF dictVars
  <2>3. fill[cur] + r < size[cur]
    BY <1>3, <1>4, <1>5, <1>6, <1>8
  <2> QED
    BY <1>1, <2>2, <2>3 DEF RoomLeft, FreeSlot, r
<1> QED
  BY <1>7, <1>8

LEMMA MovedRoom == ASSUME MapInv, Counted, RoomLeft, Moved PROVE RoomLeft'
<1>1. /\ pc = "resize" /\ pc' = after /\ next' = 0 /\ cur' = cur /\ src' = src
      /\ UNCHANGED <<table, fill, size>>
  BY DEF Moved, dictVars
<1>2. /\ DictInv /\ cur \in Dicts /\ (after = "update" => src \in Dicts)
      /\ after \in {"insert", "update"}
  BY <1>1 DEF MapInv, DictInv, TypeOK
<1>3. PICK n \in Nat : DOMAIN old = Slots(n)
  BY <1>2, OldSlots
<1>4. Cardinality(Rest(old, next)) \in Nat /\ fill[cur] \in Nat /\ size[cur] \in Nat
  BY <1>2, <1>3, TableFinite, Numbers
<1>5. after = "update" => used[src] \in Nat /\ used[src] = Cardinality(Rest(table[src], 0))
  BY <1>2, Numbers
<1>6. fill[cur] + Cardinality(Rest(old, next))
        + (IF after = "insert" THEN 1 ELSE used[src]) < size[cur]
  BY <1>1 DEF RoomLeft
<1>7. CASE after = "insert"
  <2>1. fill[cur] + 1 < size[cur]
    BY <1>4, <1>6, <1>7
  <2> QED
    BY <1>1, <1>7, <2>1 DEF RoomLeft, FreeSlot
<1>8. CASE after = "update"
  <2>1. fill[cur] + Cardinality(Rest(table[src], 0)) < size[cur]
    BY <1>4, <1>5, <1>6, <1>8
  <2> QED
    BY <1>1, <1>8, <2>1 DEF RoomLeft, FreeSlot
<1> QED
  BY <1>2, <1>7, <1>8

\* The test before an insertion asks for enough: two thirds of at least 4 slots
\* leave one for the key and one more.
LEMMA SetItemRoom ==
  ASSUME MapInv, Counted, RoomLeft, ResizeWorks,
         NEW d \in Dicts, NEW k \in Keys, NEW v \in Values, SetItem(d, k, v)
  PROVE  RoomLeft'
<1>1. cur' = d
  BY DEF SetItem
<1>2. /\ size[d] \in Nat /\ (size[d] # 0 => size[d] >= 4)
      /\ fill[d] \in Nat /\ used[d] \in Nat
  BY Numbers
<1>3. CASE ~Crowded(d) /\ pc' = "insert" /\ UNCHANGED dictVars
  <2>1. fill[d] + 1 < size[d]
    BY <1>2, <1>3 DEF Crowded
  <2> QED
    BY <1>1, <1>3, <2>1 DEF RoomLeft, FreeSlot, dictVars
<1>4. CASE Crowded(d) /\ Resize(d, used[d] * 2, "insert")
  <2>1. CASE used[d] = 0
    <3>0. used[d] * 2 = 0
      BY <2>1
    <3>1. NewSize(0) \in Sizes /\ NewSize(0) \in Nat /\ NewSize(0) >= 4
      <4>1. Fits(0) # {}
        BY <1>4, <3>0 DEF Resize
      <4> QED
        BY <4>1, NewSizeFits, SizesAssumption
    <3>2. /\ size' = [size EXCEPT ![d] = NewSize(0)] /\ fill' = [fill EXCEPT ![d] = 0]
          /\ old' = table[d] /\ next' = 0 /\ pc' = "resize" /\ after' = "insert"
      BY <1>4, <3>0 DEF Resize
    <3>3. DOMAIN size = Dicts /\ DOMAIN fill = Dicts
      BY DEF MapInv, DictInv, TypeOK
    <3>4. Cardinality(Rest(old', next')) = 0
      BY <2>1, <3>2, Numbers
    <3>5. FreeSlot'
      BY <3>1, <3>2, <3>3 DEF RoomLeft, FreeSlot
    <3> QED
      BY <1>1, <3>1, <3>2, <3>3, <3>4, <3>5 DEF RoomLeft
  <2>2. CASE used[d] # 0
    <3>1. used[d] * 2 \in Int /\ used[d] * 2 >= used[d] + 1
      BY <1>2, <2>2
    <3> QED
      BY <1>1, <1>4, <3>1, ResizeRoom
  <2> QED
    BY <2>1, <2>2
<1> QED
  BY <1>3, <1>4 DEF SetItem, ResizeWorks

\* The one resize before an update asks for room for all the keys to come.
LEMMA UpdateRoom ==
  ASSUME MapInv, Counted, RoomLeft, NEW d \in Dicts, NEW o \in Dicts,
         Update(d, o) \/ Copy(d, o)
  PROVE  RoomLeft'
<1>1. cur' = d /\ src' = o /\ d # o
  BY DEF Update, Copy
<1>2. /\ size[d] \in Nat /\ fill[d] \in Nat /\ used[d] \in Nat /\ used[o] \in Nat
      /\ used[o] = Cardinality(Rest(table[o], 0))
      /\ DOMAIN used = Dicts
  BY Numbers DEF MapInv, DictInv, TypeOK
<1>3. ASSUME NEW m \in Int, m >= used[d] + used[o], Resize(d, m, "update")
      PROVE  RoomLeft'
  <2>1. used'[o] = used[o]
    BY <1>1, <1>2, <1>3 DEF Resize
  <2> QED
    BY <1>1, <1>2, <1>3, <2>1, ResizeRoom
<1>4. CASE Update(d, o)
  <2>1. CASE (fill[d] + used[o]) * 3 >= size[d] * 2
    <3>1. /\ ((used[d] + used[o]) * 3) \div 2 \in Int
          /\ ((used[d] + used[o]) * 3) \div 2 >= used[d] + used[o]
      BY <1>2
    <3> QED
      BY <1>3, <1>4, <2>1, <3>1 DEF Update
  <2>2. CASE ~ ((fill[d] + used[o]) * 3 >= size[d] * 2)
    <3>1. pc' = "update" /\ next' = 0 /\ UNCHANGED <<table, fill, size>>
      BY <1>4, <2>2 DEF Update, dictVars
    <3>2. fill[d] + used[o] < size[d]
      BY <1>2, <2>2
    <3> QED
      BY <1>1, <1>2, <3>1, <3>2 DEF RoomLeft, FreeSlot
  <2> QED
    BY <2>1, <2>2
<1>5. CASE Copy(d, o)
  <2>1. size[d] = 0 /\ Resize(d, (used[o] * 3) \div 2, "update")
    BY <1>5 DEF Copy
  <2>2. used[d] = 0
    <3>1. LiveSlots(table[d]) = {}
      BY <2>1, Numbers DEF LiveSlots, Slots
    <3> QED
      BY <3>1, FS_EmptySet DEF Counted
  <2>3. (used[o] * 3) \div 2 \in Int /\ (used[o] * 3) \div 2 >= used[d] + used[o]
    BY <1>2, <2>2
  <2> QED
    BY <1>3, <2>1, <2>3
<1> QED
  BY <1>4, <1>5

LEMMA InitRoom == Init => RoomLeft
BY DEF Init, RoomLeft, FreeSlot

LEMMA NextRoom == MapInv /\ Counted /\ RoomLeft /\ ResizeWorks /\ [Next]_vars => RoomLeft'
<1> SUFFICES ASSUME MapInv, Counted, RoomLeft, ResizeWorks, [Next]_vars PROVE RoomLeft'
  OBVIOUS
<1>1. TypeOK
  BY DEF MapInv, DictInv
<1>2. CASE pc' = "idle" /\ UNCHANGED <<fill, size>>
  BY <1>2 DEF RoomLeft, FreeSlot
<1>3. ASSUME NEW d \in Dicts, NEW k \in Keys, Find(d, k) \/ DelItem(d, k) PROVE RoomLeft'
  BY <1>2, <1>3 DEF Find, DelItem, opVars
<1>4. ASSUME NEW d \in Dicts, PyDict_Clear(d) PROVE RoomLeft'
  <2>1. pc' = "idle" /\ DOMAIN size = Dicts
    BY <1>1, <1>4 DEF PyDict_Clear, opVars, TypeOK
  <2> QED
    BY <1>4, <2>1 DEF PyDict_Clear, RoomLeft, FreeSlot
<1>5. CASE InsertItem
  <2>1. Insert(cur, arg.key, arg.value) /\ pc = "insert" /\ pc' = "idle"
    BY <1>5 DEF InsertItem, Done
  <2>2. cur \in Dicts /\ arg.key \in Keys /\ arg.value \in Values
    BY <1>1, <2>1 DEF TypeOK
  <2>3. fill[cur] + 0 + 1 < size[cur]
    BY <2>1, <2>2, Numbers DEF RoomLeft
  <2>4. FreeSlot'
    BY <2>1, <2>2, <2>3, InsertRoom
  <2> QED
    BY <2>1, <2>4 DEF RoomLeft
<1>6. CASE Updated
  BY <1>2, <1>6 DEF Updated, Done, dictVars
<1>7. CASE UNCHANGED vars
  BY <1>7 DEF vars, RoomLeft, FreeSlot
<1> QED
  BY <1>3, <1>4, <1>5, <1>6, <1>7, SetItemRoom, UpdateRoom, MoveRoom, MovedRoom, UpdateItemRoom
  DEF Next, Work

(***************************************************************************)
(* The theorems                                                             *)
(***************************************************************************)
\* The strengthened invariant holds in every reachable state.
THEOREM MapInvCorrect == Spec => []MapInv
BY InitMap, NextMap, PTL DEF Spec

\* A dictionary is a mapping, whatever collides in it: insertdict sets one key,
\* PyDict_DelItem removes one, and dictresize, in every step, changes nothing.
THEOREM MappingCorrect == Spec => IsMapping
<1>1. Spec => Abstract!Init
  BY MapsInit DEF Spec
<1>2. Spec => [][Abstract!Next]_(Abstract!vars)
  BY MapInvCorrect, MapsNext, PTL DEF Spec
<1> QED
  BY <1>1, <1>2 DEF IsMapping, Abstract!Spec

\* PyDict_Update and PyDict_Copy leave all the keys of the other dictionary, with
\* their values, in the one they fill.
THEOREM CopiesCorrect == Spec => UpdateCopiesAll
<1> DEFINE Copied ==
      pc = "update" /\ pc' = "idle" =>
        \A c \in DOMAIN Contents(src) :
          c \in DOMAIN Contents(cur) /\ Contents(cur)[c] = Contents(src)[c]
<1>1. MapInv /\ [Next]_vars => [Copied]_vars
  BY UpdateEnds
<1>2. Spec => [][Copied]_vars
  BY <1>1, MapInvCorrect, PTL DEF Spec
<1> QED
  BY <1>2 DEF UpdateCopiesAll

\* ma_fill and ma_used are the numbers of entries that are not NULL and of those
\* with a value, at every step of every operation.
THEOREM CountedCorrect == Spec => []Counted
BY InitCounts, NextCounts, MapInvCorrect, PTL DEF Spec

\* A table always has a NULL entry, so that every search ends, as long as there is
\* memory for the tables dictresize asks for: the assumption that Dict_memory.cfg
\* shows to be needed.
THEOREM FreeSlotCorrect == Spec /\ []ResizeWorks => []FreeSlot
<1>1. RoomLeft => FreeSlot
  BY DEF RoomLeft
<1>2. Spec /\ []ResizeWorks => []RoomLeft
  BY InitRoom, NextRoom, MapInvCorrect, CountedCorrect, PTL DEF Spec
<1> QED
  BY <1>1, <1>2, PTL
=============================================================================
