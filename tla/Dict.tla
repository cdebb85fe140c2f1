-------------------------------- MODULE Dict --------------------------------
(***************************************************************************)
(* The hash tables of Source/Objects/dictobject.c: open addressing with     *)
(* dummy entries for deleted keys, a table that is rebuilt when two thirds  *)
(* of it are not NULL, and a lookup for tables of strings that gives way to *)
(* the general one.                                                         *)
(*                                                                          *)
(* A table is a function from 0..size-1 to entries.  The loops that rebuild *)
(* a table and that insert one dictionary into another take a step for each *)
(* entry.  The order in which a lookup visits the slots is a constant: see  *)
(* DictProbe for the arithmetic that computes it.                           *)
(***************************************************************************)
EXTENDS Integers, FiniteSets

CONSTANTS
  Dicts,          \* the dictionaries
  Keys, Values,   \* the objects used as keys and as values
  Same,           \* the key that stands for all keys equal to a key
  StringKeys,     \* the keys that are strings
  Hash,           \* the hash of each key
  Sizes,          \* the sizes a table may have: powers of two from MINSIZE on
  Probe,          \* Probe[h][n][j]: the j-th slot a search for hash h visits in n
  MemoryMayFail,  \* may the allocation of a table fail?
  NoKey, Dummy, NoValue, NoDict

ASSUME DictAssumption ==
  /\ NoKey \notin Keys /\ Dummy \notin Keys /\ NoKey # Dummy
  /\ NoValue \notin Values
  /\ NoDict \notin Dicts
  /\ Same \in [Keys -> Keys]
  /\ \A k \in Keys : Same[Same[k]] = Same[k]
  /\ StringKeys \subseteq Keys
  /\ MemoryMayFail \in BOOLEAN
ASSUME HashAssumption ==
  \A k, l \in Keys : Same[k] = Same[l] => Hash[k] = Hash[l]
ASSUME SizesAssumption ==
  /\ Sizes \subseteq Nat
  /\ \A n \in Sizes : n >= 4
ASSUME ProbeAssumption ==
  \A k \in Keys, n \in Sizes :
    /\ Probe[Hash[k]][n] \in [1..n -> 0..n-1]
    /\ \A s \in 0..n-1 : \E j \in 1..n : Probe[Hash[k]][n][j] = s

VARIABLES
  table,   \* ma_table
  size,    \* ma_size, 0 when there is no table
  fill,    \* ma_fill, the entries that are not NULL
  used,    \* ma_used, the entries with a value
  lookup,  \* ma_lookup
  pc,      \* where the program is: in dictresize, about to insert, in a copy
  cur,     \* the dictionary it works on
  arg,     \* the entry it will insert
  old,     \* the table dictresize moves
  next,    \* the slot the loop is at
  src,     \* the dictionary dict_update or PyDict_Copy reads
  after    \* where the program goes from dictresize

dictVars == <<table, size, fill, used, lookup>>
opVars == <<pc, cur, arg, old, next, src, after>>
vars == <<table, size, fill, used, lookup, pc, cur, arg, old, next, src, after>>

Entry == [key : Keys \cup {NoKey, Dummy}, value : Values \cup {NoValue}]
Null == [key |-> NoKey, value |-> NoValue]
\* The fault of freeing the entry of a deleted key.
Freed == [key |-> NoKey, value |-> NoValue]
Deleted == [key |-> Dummy, value |-> NoValue]
Live(e) == e.value # NoValue
Slots(n) == 0..n-1
NewTable(n) == [s \in Slots(n) |-> Null]

Init ==
  /\ table = [d \in Dicts |-> NewTable(0)]
  /\ size = [d \in Dicts |-> 0]
  /\ fill = [d \in Dicts |-> 0]
  /\ used = [d \in Dicts |-> 0]
  /\ lookup = [d \in Dicts |-> "string"]
  /\ pc = "idle"
  /\ cur = NoDict
  /\ src = NoDict
  /\ arg = Null
  /\ old = NewTable(0)
  /\ next = 0
  /\ after = "idle"

-----------------------------------------------------------------------------
(* The lookup of lookdict and lookdict_string *)

Matches(e, k) == e.key \in Keys /\ Same[e.key] = Same[k]
Visit(d, k, j) == Probe[Hash[k]][size[d]][j]
Stops(d, k, j) ==
  LET e == table[d][Visit(d, k, j)] IN e.key = NoKey \/ Matches(e, k)

\* The loop has no other end than a NULL entry or the key.
Ends(d, k) == \E j \in 1..size[d] : Stops(d, k, j)
End(d, k) ==
  CHOOSE j \in 1..size[d] :
    Stops(d, k, j) /\ \A i \in 1..j-1 : ~Stops(d, k, i)
Dummies(d, k) ==
  {j \in 1..End(d, k)-1 : table[d][Visit(d, k, j)].key = Dummy}

\* The entry with the key, or the one where the key goes.
Lookup(d, k) ==
  LET end == End(d, k)  free == Dummies(d, k) IN
  IF table[d][Visit(d, k, end)].key = NoKey /\ free # {}
  THEN Visit(d, k, CHOOSE j \in free : \A i \in free : j <= i)
  ELSE Visit(d, k, end)

\* The fault of a string lookup that does not give way.
KeepsLookup(d, k) == lookup[d]
\* lookdict_string hands over to lookdict when the key is not a string.
LookupAfter(d, k) == IF k \in StringKeys THEN lookup[d] ELSE "any"

Called(d, k) == lookup' = [lookup EXCEPT ![d] = LookupAfter(d, k)]

\* The fault of counting an entry as filled again when a dummy is reused.
FillAlways(e) == 1
FillAdds(e) == IF e.key = NoKey THEN 1 ELSE 0
\* insertdict: an equal key stays and only its value is replaced.
Insert(d, k, v) ==
  LET s == Lookup(d, k)  e == table[d][s] IN
  /\ Ends(d, k)
  /\ Called(d, k)
  /\ IF Live(e)
     THEN /\ table' = [table EXCEPT ![d][s] = [key |-> e.key, value |-> v]]
          /\ UNCHANGED <<fill, used>>
     ELSE /\ table' = [table EXCEPT ![d][s] = [key |-> k, value |-> v]]
          /\ fill' = [fill EXCEPT ![d] = @ + FillAdds(e)]
          /\ used' = [used EXCEPT ![d] = @ + 1]
  /\ UNCHANGED size

-----------------------------------------------------------------------------
(* dictresize: a new table that is larger than minused, or no memory *)

Fits(minused) == {n \in Sizes : n > minused}
NewSize(minused) == CHOOSE n \in Fits(minused) : \A m \in Fits(minused) : n <= m
ResizeFails(minused) == MemoryMayFail \/ Fits(minused) = {}

Resize(d, minused, then) ==
  /\ Fits(minused) # {}
  /\ table' = [table EXCEPT ![d] = NewTable(NewSize(minused))]
  /\ size' = [size EXCEPT ![d] = NewSize(minused)]
  /\ fill' = [fill EXCEPT ![d] = 0]
  /\ used' = [used EXCEPT ![d] = 0]
  /\ old' = table[d]
  /\ pc' = "resize"
  /\ next' = 0
  /\ after' = then
  /\ UNCHANGED lookup

\* The fault of moving the entries up to the last one but one.
AlmostLast(t) == DOMAIN t \ {Cardinality(DOMAIN t) - 1}
ToMove(t) == DOMAIN t

Move ==
  /\ pc = "resize"
  /\ next \in ToMove(old)
  /\ next' = next + 1
  /\ IF Live(old[next])
     THEN Insert(cur, old[next].key, old[next].value)
     ELSE UNCHANGED dictVars
  /\ UNCHANGED <<pc, cur, arg, old, src, after>>

Moved ==
  /\ pc = "resize"
  /\ next \notin ToMove(old)
  /\ pc' = after
  /\ after' = "idle"
  /\ old' = NewTable(0)
  /\ next' = 0
  /\ UNCHANGED <<dictVars, cur, arg, src>>

-----------------------------------------------------------------------------
(* The operations *)

Done ==
  /\ pc' = "idle"
  /\ cur' = NoDict
  /\ src' = NoDict

\* has_key, get, d[k], PyDict_GetItem, and DelItem of a key that is not there.
Find(d, k) ==
  /\ pc = "idle"
  /\ size[d] # 0
  /\ Ends(d, k)
  /\ Called(d, k)
  /\ UNCHANGED <<table, size, fill, used, opVars>>

\* The fault of looking at the keys in use only.
CrowdedByUsed(d) == used[d] * 3 >= size[d] * 2
Crowded(d) == fill[d] * 3 >= size[d] * 2

\* PyDict_SetItem (and setdefault of a key that is not there). When the table
\* cannot be rebuilt the key is inserted if there is room for it.
SetItem(d, k, v) ==
  /\ pc = "idle"
  /\ cur' = d
  /\ arg' = [key |-> k, value |-> v]
  /\ \/ /\ ~Crowded(d)
        /\ pc' = "insert"
        /\ UNCHANGED <<dictVars, old, next, after>>
     \/ /\ Crowded(d)
        /\ Resize(d, used[d] * 2, "insert")
     \/ /\ Crowded(d) /\ ResizeFails(used[d] * 2)
        /\ fill[d] + 1 <= size[d]
        /\ pc' = "insert"
        /\ UNCHANGED <<dictVars, old, next, after>>
  /\ UNCHANGED src

InsertItem ==
  /\ pc = "insert"
  /\ Insert(cur, arg.key, arg.value)
  /\ Done
  /\ arg' = Null
  /\ UNCHANGED <<old, next, after>>

DelItem(d, k) ==
  /\ pc = "idle"
  /\ size[d] # 0
  /\ Ends(d, k)
  /\ Called(d, k)
  /\ Live(table[d][Lookup(d, k)])
  /\ table' = [table EXCEPT ![d][Lookup(d, k)] = Deleted]
  /\ used' = [used EXCEPT ![d] = @ - 1]
  /\ UNCHANGED <<size, fill, opVars>>

PyDict_Clear(d) ==
  /\ pc = "idle"
  /\ table' = [table EXCEPT ![d] = NewTable(0)]
  /\ size' = [size EXCEPT ![d] = 0]
  /\ fill' = [fill EXCEPT ![d] = 0]
  /\ used' = [used EXCEPT ![d] = 0]
  /\ UNCHANGED <<lookup, opVars>>

\* dict_update: one resize for all the keys to come, or none.
Update(d, o) ==
  /\ pc = "idle"
  /\ d # o
  /\ cur' = d
  /\ src' = o
  /\ IF (fill[d] + used[o]) * 3 >= size[d] * 2
     THEN Resize(d, ((used[d] + used[o]) * 3) \div 2, "update")
     ELSE /\ pc' = "update"
          /\ next' = 0
          /\ UNCHANGED <<dictVars, old, after>>
  /\ UNCHANGED arg

\* PyDict_Copy: d is the new dictionary, and has no table if o is empty.
Copy(d, o) ==
  /\ pc = "idle"
  /\ d # o
  /\ size[d] = 0 /\ lookup[d] = "string"
  /\ used[o] > 0
  /\ cur' = d
  /\ src' = o
  /\ Resize(d, (used[o] * 3) \div 2, "update")
  /\ UNCHANGED arg

\* The fault of copying up to the last slot but one.
ToCopyAlmost(o) == Slots(size[o] - 1)
ToCopy(o) == Slots(size[o])

UpdateItem ==
  /\ pc = "update"
  /\ next \in ToCopy(src)
  /\ next' = next + 1
  /\ LET e == table[src][next] IN
     IF Live(e) THEN Insert(cur, e.key, e.value) ELSE UNCHANGED dictVars
  /\ UNCHANGED <<pc, cur, arg, old, src, after>>

Updated ==
  /\ pc = "update"
  /\ next \notin ToCopy(src)
  /\ Done
  /\ next' = 0
  /\ UNCHANGED <<dictVars, arg, old, after>>

Work == Move \/ Moved \/ InsertItem \/ UpdateItem \/ Updated

Next ==
  \/ \E d \in Dicts, k \in Keys :
       \/ Find(d, k)
       \/ DelItem(d, k)
       \/ \E v \in Values : SetItem(d, k, v)
  \/ \E d \in Dicts : PyDict_Clear(d)
  \/ \E d, o \in Dicts : Update(d, o) \/ Copy(d, o)
  \/ Work

Spec == Init /\ [][Next]_vars

-----------------------------------------------------------------------------
(* Properties *)

Table(n) == [Slots(n) -> Entry]
IsTable(t) == \E n \in Sizes \cup {0} : t \in Table(n)
\* Every variable has its type (the fields of dictobject, and the locals of the
\* operations).
TypeOK ==
  /\ size \in [Dicts -> Sizes \cup {0}]
  /\ table = [d \in Dicts |-> table[d]]
  /\ \A d \in Dicts : table[d] \in Table(size[d])
  /\ fill \in [Dicts -> Nat]
  /\ used \in [Dicts -> Int]
  /\ lookup \in [Dicts -> {"string", "any"}]
  /\ pc \in {"idle", "resize", "insert", "update"}
  /\ cur \in Dicts \cup {NoDict} /\ src \in Dicts \cup {NoDict}
  /\ pc = "idle" <=> cur = NoDict
  /\ pc = "update" \/ after = "update" => src \in Dicts /\ src # cur
  /\ arg \in Entry
  /\ IsTable(old)
  /\ next \in Nat
  /\ after \in {"idle", "insert", "update"}
  /\ pc = "resize" <=> after # "idle"
  /\ pc = "insert" \/ after = "insert" => arg.key \in Keys /\ arg.value \in Values

LiveSlots(t) == {s \in DOMAIN t : Live(t[s])}
FullSlots(t) == {s \in DOMAIN t : t[s].key # NoKey}

\* "The value ma_fill is the number of non-NULL keys; ma_used is the number of
\* non-NULL, non-dummy keys" (dictobject.c:76), at every insertion too.
Counted ==
  \A d \in Dicts :
    /\ fill[d] = Cardinality(FullSlots(table[d]))
    /\ used[d] = Cardinality(LiveSlots(table[d]))

\* "To ensure the lookup algorithm terminates ... there must be at least one
\* NULL key in the table" (dictobject.c:74).
FreeSlot == \A d \in Dicts : size[d] # 0 => fill[d] < size[d]

\* A key in the table is found where it is, however many keys before it on its
\* way were deleted, and an equal key leads to the same entry.
Findable ==
  \A d \in Dicts : \A s \in LiveSlots(table[d]) : \A k \in Keys :
    Matches(table[d][s], k) => Ends(d, k) /\ Lookup(d, k) = s

\* A table that is searched with string comparison holds nothing but strings.
StringsOnly ==
  \A d \in Dicts : lookup[d] = "string" =>
    \A s \in LiveSlots(table[d]) : table[d][s].key \in StringKeys

\* What the dictionary holds; a table that is being rebuilt, with the entries
\* that are still to be moved.
Moving(d) ==
  IF pc = "resize" /\ cur = d THEN {s \in LiveSlots(old) : s >= next} ELSE {}
Entries(d) ==
  {table[d][s] : s \in LiveSlots(table[d])} \cup {old[s] : s \in Moving(d)}
Classes == {Same[k] : k \in Keys}
Contents(d) ==
  [c \in {Same[e.key] : e \in Entries(d)} |->
     (CHOOSE e \in Entries(d) : Same[e.key] = c).value]
Abstract == INSTANCE Mapping WITH
  contents <- [d \in Dicts |-> Contents(d)],
  writing <- cur,
  Nobody <- NoDict

\* Dictionaries are mappings: no operation loses, doubles or changes another
\* key, and rebuilding a table changes nothing.
IsMapping == Abstract!Spec

\* update and copy leave every key of the other dictionary, with its value, in
\* the one they fill, though neither resizes it while they insert.
UpdateCopiesAll ==
  [][pc = "update" /\ pc' = "idle" =>
       \A c \in DOMAIN Contents(src) :
         c \in DOMAIN Contents(cur) /\ Contents(cur)[c] = Contents(src)[c]]_vars
=============================================================================
