---------------------------- MODULE Pieces_proofs ----------------------------
(***************************************************************************)
(* Theorems about three of the parts in Pieces.  No pending call is lost or   *)
(* made twice (PendingCalls), for any size of the ring, any number of calls   *)
(* and handlers nested to any depth.  The trashcan (Trashcan) frees garbage   *)
(* and nothing else, for any number of objects that refer to each other in    *)
(* any way without a cycle, any of which are containers, and any level of 3   *)
(* and more.  Plain integers (IntArith) are computed exactly, or the overflow *)
(* is seen, for words of any even number of bits.                             *)
(***************************************************************************)
EXTENDS PendingCalls, Trashcan, IntArith, FiniteSetTheorems, SequenceTheorems,
        WellFoundedInduction, TLAPS

(***************************************************************************)
(* The trashcan.  The predicates are about values of the variables, so that  *)
(* they can be said of the state before a step, in the middle and after it.  *)
(***************************************************************************)
FrameSet == [do : {"dealloc", "children", "chain", "shred"}, obj : Objects, next : Nat \ {0}]

TrashTypeOK ==
  /\ graph \in Graphs /\ roots \subseteq Objects
  /\ refcnt \in [Objects -> Int] /\ freed \in [Objects -> Nat]
  /\ nesting \in Nat /\ later \in Seq(Objects) /\ frames \in Seq(FrameSet)

(***************************************************************************)
(* References: who holds one, and what is at its end                        *)
(***************************************************************************)
SlotsOf(g) == UNION {{p} \X DOMAIN g[p] : p \in Objects}
Target(g, x) == IF x[1] = 0 THEN x[2] ELSE g[x[1]][x[2]]

\* The program holds one to each of ro; an object holds those in it until it is freed,
\* and while it gives them up those that its deallocation has not come to.
Held(g, fr, fd, ro) ==
  ({0} \X ro) \cup
  {x \in SlotsOf(g) :
     /\ fd[x[1]] = 0
     /\ \A i \in DOMAIN fr : fr[i].do = "children" /\ fr[i].obj = x[1] => fr[i].next <= x[2]}
HeldTo(g, H, o) == {x \in H : Target(g, x) = o}

Ending(f) == f.do \in {"dealloc", "children"}
Dying(fr) == {fr[i].obj : i \in {i \in DOMAIN fr : Ending(fr[i])}}
InChain(la) == {la[i] : i \in DOMAIN la}
Gone(fd) == {o \in Objects : fd[o] # 0}
Dead(fr, fd, la) == Dying(fr) \cup InChain(la) \cup Gone(fd)

\* An object comes to its end once, and is at one stage of it.
Once(fr, fd, la) ==
  /\ \A i, j \in DOMAIN fr : Ending(fr[i]) /\ Ending(fr[j]) /\ fr[i].obj = fr[j].obj => i = j
  /\ \A i, j \in DOMAIN la : la[i] = la[j] => i = j
  /\ Dying(fr) \cap InChain(la) = {}
  /\ Dying(fr) \cap Gone(fd) = {}
  /\ InChain(la) \cap Gone(fd) = {}
  /\ \A o \in Objects : fd[o] \in {0, 1}

\* There is no reference to what comes to its end or came to it; the count of any other
\* object is that of the references to it and, but for those of E, not 0.
Counts(g, H, dead, rc, E) ==
  \A o \in Objects :
    /\ o \in dead => HeldTo(g, H, o) = {}
    /\ o \notin dead => rc[o] = Cardinality(HeldTo(g, H, o))
    /\ o \notin dead /\ o \notin E => rc[o] # 0

Owned(g, fr, fd, ro, la, rc, E) ==
  /\ Once(fr, fd, la)
  /\ Counts(g, Held(g, fr, fd, ro), Dead(fr, fd, la), rc, E)

(***************************************************************************)
(* The stack and the level                                                  *)
(***************************************************************************)
Counted(f) == f.do = "shred" \/ (f.do = "children" /\ f.obj \in Containers)
CountedAt(fr) == {i \in DOMAIN fr : Counted(fr[i])}
Level(fr) == Cardinality(CountedAt(fr))

Shape(fr) ==
  \A i \in DOMAIN fr :
    /\ fr[i].do \in {"dealloc", "chain"} => i = Len(fr)
    /\ fr[i].do \in {"chain", "shred"} => \A j \in DOMAIN fr : j < i => ~Counted(fr[j])

\* What waits is waiting for a deallocation that is under way.
Stacked(fr, la, n) ==
  /\ Shape(fr)
  /\ n = Level(fr) /\ n < PyTrash_UNWIND_LEVEL
  /\ la # <<>> => n > 0 \/ (fr # <<>> /\ fr[Len(fr)].do = "chain")

TrashInv ==
  /\ TrashTypeOK
  /\ Owned(graph, frames, freed, roots, later, refcnt, {})
  /\ Stacked(frames, later, nesting)

(***************************************************************************)
(* Lemmas on sequences and on a frame more                                  *)
(***************************************************************************)
LEMMA Appended ==
  ASSUME NEW S, NEW s \in Seq(S), NEW x \in S
  PROVE  /\ Append(s, x) \in Seq(S) /\ Append(s, x) # <<>>
         /\ Len(s) \in Nat /\ DOMAIN s = 1 .. Len(s)
         /\ Len(Append(s, x)) = Len(s) + 1
         /\ DOMAIN Append(s, x) = 1 .. Len(s) + 1
         /\ DOMAIN Append(s, x) = DOMAIN s \cup {Len(s) + 1}
         /\ \A i \in DOMAIN s : Append(s, x)[i] = s[i]
         /\ Append(s, x)[Len(s) + 1] = x
<1>1. /\ Append(s, x) \in Seq(S) /\ Len(Append(s, x)) = Len(s) + 1 /\ Len(s) \in Nat
      /\ DOMAIN s = 1 .. Len(s)
      /\ \A i \in 1 .. Len(s) : Append(s, x)[i] = s[i]
      /\ Append(s, x)[Len(s) + 1] = x
  BY AppendProperties, LenProperties
<1>2. DOMAIN Append(s, x) = 1 .. Len(s) + 1
  BY <1>1, LenProperties
<1>3. Append(s, x) # <<>>
  BY <1>1, EmptySeq
<1> QED
  BY <1>1, <1>2, <1>3

LEMMA FrontLast ==
  ASSUME NEW S, NEW s \in Seq(S), s # <<>>
  PROVE  /\ Front(s) \in Seq(S) /\ Len(Front(s)) = Len(s) - 1
         /\ s[Len(s)] \in S /\ Len(s) \in Nat \ {0}
         /\ s = Append(Front(s), s[Len(s)])
<1>1. Len(s) \in Nat \ {0} /\ s \in [1 .. Len(s) -> S]
  BY EmptySeq, LenProperties
<1> PICK m \in Nat \ {0} : m = Len(s)
  BY <1>1
<1> PICK n \in Nat : n = m - 1
  OBVIOUS
<1>2. \A i \in 1 .. n : s[i] \in S
  BY <1>1
<1>3. /\ Front(s) \in Seq(S) /\ Len(Front(s)) = n
      /\ \A i \in 1 .. n : Front(s)[i] = s[i]
  BY <1>1, <1>2, SubSeqProperties DEF Front
<1>4. s[Len(s)] \in S
  BY <1>1
<1>5. s = Append(Front(s), s[Len(s)])
  BY <1>1, <1>3, <1>4, Appended, SeqEqual
<1> QED
  BY <1>1, <1>3, <1>4, <1>5

LEMMA DyingAppend ==
  ASSUME NEW s \in Seq(FrameSet), NEW f \in FrameSet
  PROVE  Dying(Append(s, f)) = Dying(s) \cup (IF Ending(f) THEN {f.obj} ELSE {})
BY Appended DEF Dying

LEMMA WaitingAppend ==
  ASSUME NEW la \in Seq(Objects), NEW o \in Objects
  PROVE  InChain(Append(la, o)) = InChain(la) \cup {o}
BY Appended DEF InChain

LEMMA OnceAppend ==
  ASSUME NEW s \in Seq(FrameSet), NEW f \in FrameSet
  PROVE  (\A i, j \in DOMAIN Append(s, f) :
            Ending(Append(s, f)[i]) /\ Ending(Append(s, f)[j])
              /\ Append(s, f)[i].obj = Append(s, f)[j].obj => i = j)
         <=> /\ \A i, j \in DOMAIN s : Ending(s[i]) /\ Ending(s[j]) /\ s[i].obj = s[j].obj => i = j
             /\ Ending(f) => f.obj \notin Dying(s)
<1> DEFINE t == Append(s, f)
<1>1. /\ DOMAIN t = DOMAIN s \cup {Len(s) + 1} /\ Len(s) + 1 \notin DOMAIN s
      /\ \A i \in DOMAIN s : t[i] = s[i]
      /\ t[Len(s) + 1] = f
  BY Appended
<1> HIDE DEF t
<1> QED
  BY <1>1 DEF Dying, t

LEMMA InjectiveAppend ==
  ASSUME NEW la \in Seq(Objects), NEW o \in Objects
  PROVE  (\A i, j \in DOMAIN Append(la, o) : Append(la, o)[i] = Append(la, o)[j] => i = j)
         <=> /\ \A i, j \in DOMAIN la : la[i] = la[j] => i = j
             /\ o \notin InChain(la)
<1> DEFINE t == Append(la, o)
<1>1. /\ DOMAIN t = DOMAIN la \cup {Len(la) + 1} /\ Len(la) + 1 \notin DOMAIN la
      /\ \A i \in DOMAIN la : t[i] = la[i]
      /\ t[Len(la) + 1] = o
  BY Appended
<1> HIDE DEF t
<1> QED
  BY <1>1 DEF InChain, t

LEMMA HeldAppend ==
  ASSUME NEW g, NEW fd, NEW ro, NEW s \in Seq(FrameSet), NEW f \in FrameSet
  PROVE  Held(g, Append(s, f), fd, ro) =
           {x \in Held(g, s, fd, ro) : x[1] # 0 /\ f.do = "children" /\ f.obj = x[1] => f.next <= x[2]}
<1> DEFINE t == Append(s, f)
<1>1. /\ DOMAIN t = DOMAIN s \cup {Len(s) + 1}
      /\ \A i \in DOMAIN s : t[i] = s[i]
      /\ t[Len(s) + 1] = f
  BY Appended
<1>2. \A x \in {0} \X ro : x[1] = 0
  OBVIOUS
<1>3. \A x \in SlotsOf(g) : x[1] # 0
  BY TrashAssumption DEF SlotsOf, Objects
<1> HIDE DEF t
<1> QED
  BY <1>1, <1>2, <1>3 DEF Held, t

LEMMA HeldSame ==
  ASSUME NEW g, NEW fd, NEW ro, NEW s \in Seq(FrameSet), NEW f \in FrameSet,
         \A x \in Held(g, s, fd, ro) :
           x[1] # 0 /\ f.do = "children" /\ f.obj = x[1] => f.next <= x[2]
  PROVE  Held(g, Append(s, f), fd, ro) = Held(g, s, fd, ro)
<1> DEFINE K == Held(g, Append(s, f), fd, ro)
           H == Held(g, s, fd, ro)
<1>1. K = {x \in H : x[1] # 0 /\ f.do = "children" /\ f.obj = x[1] => f.next <= x[2]}
  BY HeldAppend
<1>2. \A x \in H : x[1] # 0 /\ f.do = "children" /\ f.obj = x[1] => f.next <= x[2]
  OBVIOUS
<1>3. K = H
  <2> HIDE DEF K, H
  <2> QED
    BY <1>1, <1>2
<1> QED
  BY <1>3

LEMMA SlotsFinite ==
  ASSUME NEW g \in Graphs
  PROVE  IsFiniteSet(SlotsOf(g))
<1> DEFINE T == {{p} \X DOMAIN g[p] : p \in Objects}
           f == [p \in Objects |-> {p} \X DOMAIN g[p]]
<1>1. IsFiniteSet(Objects)
  BY FS_Interval, TrashAssumption DEF Objects
<1>2. f \in Surjection(Objects, T)
  BY DEF Surjection
<1>3. IsFiniteSet(T)
  BY <1>1, <1>2, FS_Surjection
<1>4. ASSUME NEW p \in Objects PROVE IsFiniteSet({p} \X DOMAIN g[p])
  <2>1. g[p] \in Seq(Objects)
    BY TrashAssumption
  <2>2. IsFiniteSet(DOMAIN g[p])
    BY <2>1, FS_Interval, LenProperties
  <2> QED
    BY <2>2, FS_Singleton, FS_Product
<1> QED
  BY <1>3, <1>4, FS_UNION DEF SlotsOf

LEMMA HeldFinite ==
  ASSUME NEW g \in Graphs, NEW fr, NEW fd, NEW ro, ro \subseteq Objects
  PROVE  IsFiniteSet(Held(g, fr, fd, ro))
<1> DEFINE A == {0} \X ro
           B == {x \in SlotsOf(g) :
                   /\ fd[x[1]] = 0
                   /\ \A i \in DOMAIN fr : fr[i].do = "children" /\ fr[i].obj = x[1] => fr[i].next <= x[2]}
<1>0. IsFiniteSet(Objects)
  BY FS_Interval, TrashAssumption DEF Objects
<1>1. IsFiniteSet(ro)
  BY <1>0, FS_Subset
<1>2. IsFiniteSet(A)
  BY <1>1, FS_Singleton, FS_Product
<1>3. IsFiniteSet(B)
  BY SlotsFinite, FS_Subset
<1> QED
  BY <1>2, <1>3, FS_Union DEF Held

(***************************************************************************)
(* One reference less                                                       *)
(***************************************************************************)
LEMMA HeldToFinite ==
  ASSUME NEW g, NEW H, IsFiniteSet(H), NEW o
  PROVE  /\ IsFiniteSet(HeldTo(g, H, o))
         /\ Cardinality(HeldTo(g, H, o)) \in Nat
         /\ Cardinality(HeldTo(g, H, o)) = 0 <=> HeldTo(g, H, o) = {}
<1>1. HeldTo(g, H, o) \in SUBSET H
  BY DEF HeldTo
<1>2. IsFiniteSet(HeldTo(g, H, o))
  BY <1>1, FS_Subset
<1> QED
  BY <1>2, FS_CardinalityType, FS_EmptySet

\* The count follows when a reference is given up; what it led to is not at its end.
LEMMA LostOne ==
  ASSUME NEW g, NEW H, IsFiniteSet(H), NEW dead, NEW rc \in [Objects -> Int],
         Counts(g, H, dead, rc, {}), NEW x \in H, NEW o \in Objects, Target(g, x) = o
  PROVE  /\ o \notin dead
         /\ Counts(g, H \ {x}, dead, [rc EXCEPT ![o] = @ - 1], {o})
<1> DEFINE c == [rc EXCEPT ![o] = @ - 1]
<1>1. x \in HeldTo(g, H, o)
  BY DEF HeldTo
<1>2. o \notin dead
  BY <1>1 DEF Counts
<1>3. HeldTo(g, H \ {x}, o) = HeldTo(g, H, o) \ {x}
  BY DEF HeldTo
<1>4. Cardinality(HeldTo(g, H \ {x}, o)) = Cardinality(HeldTo(g, H, o)) - 1
  <2>1. IsFiniteSet(HeldTo(g, H, o))
    BY HeldToFinite
  <2> QED
    BY <1>1, <1>3, <2>1, FS_RemoveElement
<1>5. c[o] = Cardinality(HeldTo(g, H \ {x}, o))
  BY <1>2, <1>4 DEF Counts
<1>6. ASSUME NEW q \in Objects, q # o
      PROVE  HeldTo(g, H \ {x}, q) = HeldTo(g, H, q) /\ c[q] = rc[q]
  BY <1>6 DEF HeldTo
<1> HIDE DEF c
<1> QED
  BY <1>2, <1>5, <1>6 DEF Counts, c

\* An object whose count is 0 comes to its end.
LEMMA Ended ==
  ASSUME NEW g \in Graphs, NEW fr \in Seq(FrameSet), NEW fd, NEW ro, ro \subseteq Objects,
         NEW la, NEW rc, NEW o \in Objects,
         Owned(g, fr, fd, ro, la, rc, {o}), o \notin Dead(fr, fd, la)
  PROVE  Owned(g, IF rc[o] = 0 THEN Append(fr, Frame("dealloc", o, 1)) ELSE fr,
               fd, ro, la, rc, {})
<1> DEFINE f == Frame("dealloc", o, 1)
<1>1. CASE rc[o] # 0
  <2>1. Counts(g, Held(g, fr, fd, ro), Dead(fr, fd, la), rc, {})
    BY <1>1 DEF Owned, Counts
  <2> QED
    BY <1>1, <2>1 DEF Owned
<1>2. CASE rc[o] = 0
  <2>1. f \in FrameSet /\ Ending(f) /\ f.obj = o /\ f.do # "children"
    BY DEF Frame, FrameSet, Ending
  <2> HIDE DEF f
  <2>2. Held(g, Append(fr, f), fd, ro) = Held(g, fr, fd, ro)
    BY <2>1, HeldSame
  <2>3. Dying(Append(fr, f)) = Dying(fr) \cup {o}
    BY <2>1, DyingAppend
  <2>4. Dead(Append(fr, f), fd, la) = Dead(fr, fd, la) \cup {o}
    BY <2>3 DEF Dead
  <2>5. HeldTo(g, Held(g, fr, fd, ro), o) = {}
    BY <1>2, HeldFinite, HeldToFinite DEF Owned, Counts
  <2>6. Counts(g, Held(g, Append(fr, f), fd, ro), Dead(Append(fr, f), fd, la), rc, {})
    BY <2>2, <2>4, <2>5 DEF Owned, Counts
  <2>7. Once(Append(fr, f), fd, la)
    <3>1. o \notin Dying(fr) /\ o \notin InChain(la) /\ o \notin Gone(fd)
      BY DEF Dead
    <3>2. Once(fr, fd, la)
      BY DEF Owned
    <3> QED
      BY <2>1, <2>3, <3>1, <3>2, OnceAppend DEF Once
  <2> QED
    BY <1>2, <2>6, <2>7 DEF Owned, f
<1> QED
  BY <1>1, <1>2

(***************************************************************************)
(* The steps: references and counts                                         *)
(***************************************************************************)
LEMMA DropOwned ==
  ASSUME TrashInv, Drop
  PROVE  Owned(graph, frames, freed, roots, later, refcnt, {})'
<1>1. PICK o \in roots :
        /\ roots' = roots \ {o}
        /\ refcnt' = [refcnt EXCEPT ![o] = @ - 1]
        /\ frames' = IF refcnt'[o] = 0 THEN Append(<<>>, Frame("dealloc", o, 1)) ELSE <<>>
  BY DEF Drop, Decref
<1>2. frames = <<>> /\ graph' = graph /\ freed' = freed /\ later' = later
  BY DEF Drop
<1>3. /\ graph \in Graphs /\ refcnt \in [Objects -> Int] /\ o \in Objects
      /\ roots' \subseteq Objects /\ <<>> \in Seq(FrameSet)
  BY <1>1, EmptySeq DEF TrashInv, TrashTypeOK
<1> DEFINE H == Held(graph, <<>>, freed, roots)
           D == Dead(<<>>, freed, later)
<1>4. IsFiniteSet(H) /\ Counts(graph, H, D, refcnt, {}) /\ Once(<<>>, freed, later)
  BY <1>2, HeldFinite DEF TrashInv, TrashTypeOK, Owned
<1>5. <<0, o>> \in H /\ Target(graph, <<0, o>>) = o
  BY <1>1 DEF Held, Target
<1>6. Held(graph, <<>>, freed, roots') = H \ {<<0, o>>}
  <2>1. \A x \in SlotsOf(graph) : x # <<0, o>>
    BY TrashAssumption DEF SlotsOf, Objects
  <2> QED
    BY <1>1, <2>1 DEF Held
<1> HIDE DEF H, D
<1>7. o \notin D /\ Counts(graph, H \ {<<0, o>>}, D, refcnt', {o})
  BY <1>1, <1>3, <1>4, <1>5, LostOne
<1>8. Owned(graph, <<>>, freed, roots', later, refcnt', {o})
  BY <1>4, <1>6, <1>7 DEF Owned, D
<1>9. Owned(graph, IF refcnt'[o] = 0 THEN Append(<<>>, Frame("dealloc", o, 1)) ELSE <<>>,
            freed, roots', later, refcnt', {})
  BY <1>3, <1>7, <1>8, Ended DEF D
<1> QED
  BY <1>1, <1>2, <1>9

\* The stack without its top.
LEMMA TopFrame ==
  ASSUME TrashTypeOK, frames # <<>>
  PROVE  /\ Front(frames) \in Seq(FrameSet) /\ Top \in FrameSet
         /\ frames = Append(Front(frames), Top)
         /\ Top.obj \in Objects /\ Top.next \in Nat \ {0}
<1>1. frames \in Seq(FrameSet)
  BY DEF TrashTypeOK
<1>2. Front(frames) \in Seq(FrameSet) /\ Top \in FrameSet /\ frames = Append(Front(frames), Top)
  BY <1>1, FrontLast DEF Top
<1> QED
  BY <1>2 DEF FrameSet

\* The frame of a chain makes no difference to the references.
LEMMA OwnedChain ==
  ASSUME NEW g, NEW s \in Seq(FrameSet), NEW fd, NEW ro, NEW la, NEW rc, NEW E,
         NEW f \in FrameSet, f.do \in {"chain", "shred"}
  PROVE  Owned(g, Append(s, f), fd, ro, la, rc, E) <=> Owned(g, s, fd, ro, la, rc, E)
<1>1. ~Ending(f) /\ f.do # "children"
  BY DEF Ending
<1>2. Held(g, Append(s, f), fd, ro) = Held(g, s, fd, ro)
  BY <1>1, HeldSame
<1>3. Dying(Append(s, f)) = Dying(s)
  BY <1>1, DyingAppend
<1>4. Once(Append(s, f), fd, la) <=> Once(s, fd, la)
  BY <1>1, <1>3, OnceAppend DEF Once
<1> QED
  BY <1>2, <1>3, <1>4 DEF Owned, Dead

\* Where the end of a deallocation goes.
LEMMA AfterEnd ==
  ASSUME NEW g, NEW s \in Seq(FrameSet), s = Front(frames), NEW fd, NEW ro, NEW la, NEW rc,
         NEW o \in Objects, NEW n, End(o, n, la), Owned(g, s, fd, ro, la, rc, {})
  PROVE  Owned(g, frames', fd, ro, la, rc, {}) /\ later' = la
<1> DEFINE f == Frame("chain", o, 1)
<1>1. f \in FrameSet /\ f.do = "chain"
  BY DEF Frame, FrameSet
<1>2. frames' = Append(s, f) \/ frames' = s
  BY DEF End
<1>3. later' = la
  BY DEF End
<1> HIDE DEF f
<1>4. Owned(g, Append(s, f), fd, ro, la, rc, {})
  BY <1>1, OwnedChain
<1> QED
  BY <1>2, <1>3, <1>4

LEMMA BeginOwned ==
  ASSUME TrashInv, Begin
  PROVE  Owned(graph, frames, freed, roots, later, refcnt, {})'
<1> DEFINE s == Front(frames)
           o == Top.obj
           level == IF o \in Containers THEN nesting + 1 ELSE nesting
<1>1. /\ s \in Seq(FrameSet) /\ Top \in FrameSet /\ frames = Append(s, Top)
      /\ o \in Objects /\ Top.do = "dealloc"
  BY TopFrame DEF TrashInv, Begin, Doing
<1>2. graph' = graph /\ roots' = roots /\ freed' = freed
  BY DEF Begin
<1>3. Owned(graph, Append(s, Top), freed, roots, later, refcnt, {})
  BY <1>1 DEF TrashInv
<1>4. /\ refcnt \in [Objects -> Int] /\ later \in Seq(Objects)
      /\ \A x \in SlotsOf(graph) : x[2] \in Nat \ {0}
  <2>1. \A p \in Objects : graph[p] \in Seq(Objects)
    BY TrashAssumption DEF TrashInv, TrashTypeOK
  <2>2. \A p \in Objects : DOMAIN graph[p] \subseteq Nat \ {0}
    BY <2>1, LenProperties
  <2> QED
    BY <2>2 DEF TrashInv, TrashTypeOK, SlotsOf
<1>5. Held(graph, Append(s, Top), freed, roots) = Held(graph, s, freed, roots)
  BY <1>1, HeldSame
<1>6. Dying(Append(s, Top)) = Dying(s) \cup {o}
  BY <1>1, DyingAppend DEF Ending
<1>7. /\ Once(s, freed, later)
      /\ o \notin Dying(s) /\ o \notin InChain(later) /\ o \notin Gone(freed)
  BY <1>1, <1>3, <1>6, OnceAppend DEF Owned, Once, Ending
<1> DEFINE H == Held(graph, s, freed, roots)
           D == Dead(s, freed, later) \cup {o}
<1>8. Counts(graph, H, D, refcnt, {})
  BY <1>3, <1>5, <1>6 DEF Owned, Dead
<1> HIDE DEF H, D
<1>9. CASE o \in Containers /\ level >= PyTrash_UNWIND_LEVEL
  <2>1. refcnt' = [refcnt EXCEPT ![o] = Py_TRASHCAN_TUPLE] /\ End(o, level, Append(later, o))
    BY <1>9 DEF Begin, Deposited
  <2>2. Counts(graph, H, D, refcnt', {})
    BY <1>4, <1>8, <2>1 DEF Counts, D
  <2>3. InChain(Append(later, o)) = InChain(later) \cup {o}
    BY <1>1, <1>4, WaitingAppend
  <2>4. Dead(s, freed, Append(later, o)) = D
    BY <2>3 DEF Dead, D
  <2>5. Once(s, freed, Append(later, o))
    <3> DEFINE la == Append(later, o)
    <3>1. \A i, j \in DOMAIN la : la[i] = la[j] => i = j
      BY <1>1, <1>4, <1>7, InjectiveAppend DEF Once
    <3> HIDE DEF la
    <3> QED
      BY <1>7, <2>3, <3>1 DEF Once, la
  <2>6. Owned(graph, s, freed, roots, Append(later, o), refcnt', {})
    BY <2>2, <2>4, <2>5 DEF Owned, H
  <2> QED
    BY <1>1, <1>2, <2>1, <2>6, AfterEnd
<1>10. CASE ~(o \in Containers /\ level >= PyTrash_UNWIND_LEVEL)
  <2> DEFINE f == Frame("children", o, 1)
  <2>1. frames' = Append(s, f) /\ refcnt' = refcnt /\ later' = later
    BY <1>10 DEF Begin
  <2>2. f \in FrameSet /\ f.obj = o /\ f.next = 1 /\ Ending(f)
    BY <1>1 DEF Frame, FrameSet, Ending
  <2> HIDE DEF f
  <2>3. Held(graph, Append(s, f), freed, roots) = H
    <3>1. \A x \in H : x[1] # 0 => 1 <= x[2]
      BY <1>4 DEF H, Held
    <3> QED
      BY <1>1, <2>2, <3>1, HeldSame DEF H
  <2>4. Dying(Append(s, f)) = Dying(s) \cup {o}
    BY <1>1, <2>2, DyingAppend
  <2>5. Once(Append(s, f), freed, later)
    BY <1>1, <1>7, <2>2, <2>4, OnceAppend DEF Once
  <2>6. Counts(graph, Held(graph, Append(s, f), freed, roots), Dead(Append(s, f), freed, later), refcnt, {})
    BY <1>8, <2>3, <2>4 DEF Dead, D
  <2> QED
    BY <1>2, <2>1, <2>5, <2>6 DEF Owned
<1> QED
  BY <1>9, <1>10

LEMMA SlotOf ==
  ASSUME NEW g \in Graphs, NEW fr, NEW fd, NEW ro, NEW x \in Held(g, fr, fd, ro), x[1] # 0
  PROVE  /\ x[1] \in Objects /\ x[2] \in 1 .. Len(g[x[1]]) /\ x = <<x[1], x[2]>>
         /\ x \in SlotsOf(g) /\ fd[x[1]] = 0
<1>1. x \in SlotsOf(g) /\ fd[x[1]] = 0
  BY DEF Held
<1>2. PICK p \in Objects : x \in {p} \X DOMAIN g[p]
  BY <1>1 DEF SlotsOf
<1>3. g[p] \in Seq(Objects)
  BY TrashAssumption
<1>4. DOMAIN g[p] = 1 .. Len(g[p])
  BY <1>3, LenProperties
<1> QED
  BY <1>1, <1>2, <1>4

LEMMA ChildOwned ==
  ASSUME TrashInv, Child
  PROVE  Owned(graph, frames, freed, roots, later, refcnt, {})'
<1> DEFINE s == Front(frames)
           p == Top.obj
           n == Top.next
           o == graph[p][n]
           f == Frame("children", p, n + 1)
<1>1. /\ s \in Seq(FrameSet) /\ Top \in FrameSet /\ frames = Append(s, Top)
      /\ p \in Objects /\ n \in Nat \ {0} /\ Top.do = "children" /\ n <= Len(graph[p])
  BY TopFrame DEF TrashInv, Child, Doing
<1>2. graph' = graph /\ roots' = roots /\ freed' = freed /\ later' = later
  BY DEF Child
<1>3. /\ refcnt' = [refcnt EXCEPT ![o] = @ - 1]
      /\ frames' = IF refcnt'[o] = 0 THEN Append(Append(s, f), Frame("dealloc", o, 1))
                   ELSE Append(s, f)
  BY DEF Child, Decref
<1>4. /\ graph \in Graphs /\ refcnt \in [Objects -> Int] /\ roots \subseteq Objects
      /\ graph[p] \in Seq(Objects)
  BY <1>1, TrashAssumption DEF TrashInv, TrashTypeOK
<1>5. n \in DOMAIN graph[p] /\ o \in Objects
  BY <1>1, <1>4, LenProperties, ElementOfSeq
<1>6. f \in FrameSet /\ f.do = "children" /\ f.obj = p /\ f.next = n + 1 /\ Append(s, f) \in Seq(FrameSet)
  BY <1>1, Appended DEF Frame, FrameSet
<1>7. Owned(graph, Append(s, Top), freed, roots, later, refcnt, {})
  BY <1>1 DEF TrashInv
<1> DEFINE Hs == Held(graph, s, freed, roots)
           H == Held(graph, Append(s, Top), freed, roots)
           D == Dead(Append(s, Top), freed, later)
           x0 == <<p, n>>
<1>8. /\ H = {x \in Hs : x[1] # 0 /\ Top.do = "children" /\ Top.obj = x[1] => Top.next <= x[2]}
      /\ Held(graph, Append(s, f), freed, roots)
           = {x \in Hs : x[1] # 0 /\ f.do = "children" /\ f.obj = x[1] => f.next <= x[2]}
  BY <1>1, <1>6, HeldAppend
<1>9. Ending(Top) /\ Ending(f)
  BY <1>1, <1>6 DEF Ending
<1>10. /\ Dying(Append(s, Top)) = Dying(s) \cup {p}
       /\ Dying(Append(s, f)) = Dying(s) \cup {p}
  BY <1>1, <1>6, <1>9, DyingAppend
<1>11. p \notin Dying(s) /\ p \notin Gone(freed) /\ Once(Append(s, f), freed, later)
  <2>1. Once(Append(s, Top), freed, later)
    BY <1>7 DEF Owned
  <2>2. /\ \A i, j \in DOMAIN s : Ending(s[i]) /\ Ending(s[j]) /\ s[i].obj = s[j].obj => i = j
        /\ p \notin Dying(s)
    BY <1>1, <1>9, <2>1, OnceAppend DEF Once
  <2>3. p \notin Gone(freed)
    BY <1>10, <2>1 DEF Once
  <2>4. \A i, j \in DOMAIN Append(s, f) :
          Ending(Append(s, f)[i]) /\ Ending(Append(s, f)[j])
            /\ Append(s, f)[i].obj = Append(s, f)[j].obj => i = j
    <3> HIDE DEF f
    <3> QED
      BY <1>1, <1>6, <2>2, OnceAppend
  <2>5. Once(Append(s, f), freed, later)
    <3> HIDE DEF f
    <3> QED
      BY <1>10, <2>1, <2>4 DEF Once
  <2> QED
    BY <2>2, <2>3, <2>5
<1>12. x0 \in Hs
  <2>1. x0 \in SlotsOf(graph) /\ freed[p] = 0
    BY <1>1, <1>5, <1>11 DEF SlotsOf, Gone
  <2>2. \A i \in DOMAIN s : s[i].do = "children" => s[i].obj # p
    BY <1>11 DEF Dying, Ending
  <2> QED
    BY <2>1, <2>2 DEF Held
<1>13. x0 \in H /\ Target(graph, x0) = o
  <2>1. Target(graph, x0) = o
    BY <1>1, TrashAssumption DEF Target, Objects
  <2>2. x0[1] = p /\ x0[2] = n /\ n <= n
    BY <1>1
  <2> HIDE DEF H, Hs, x0
  <2> QED
    BY <1>1, <1>8, <1>12, <2>1, <2>2
<1>14. Held(graph, Append(s, f), freed, roots) = H \ {x0}
  <2>1. \A x \in Hs : x[1] # 0 => x[2] \in Nat /\ x = <<x[1], x[2]>>
    BY <1>4, SlotOf
  <2>2. ASSUME NEW x \in Hs
        PROVE  (x[1] # 0 /\ f.do = "children" /\ f.obj = x[1] => f.next <= x[2])
               <=> /\ x[1] # 0 /\ Top.do = "children" /\ Top.obj = x[1] => Top.next <= x[2]
                   /\ x # x0
    <3>1. CASE x[1] # 0 /\ x[1] = p
      <4>1. x = <<p, x[2]>> /\ x[2] \in Nat
        BY <2>1, <3>1
      <4>2. x # x0 <=> x[2] # n
        BY <4>1
      <4>3. n + 1 <= x[2] <=> n <= x[2] /\ x[2] # n
        BY <1>1, <4>1
      <4> QED
        BY <1>1, <1>6, <3>1, <4>2, <4>3
    <3>2. CASE ~(x[1] # 0 /\ x[1] = p)
      <4>1. x # x0
        BY <1>1, <3>2, TrashAssumption DEF Objects
      <4> QED
        BY <1>6, <3>2, <4>1
    <3> QED
      BY <3>1, <3>2
  <2> HIDE DEF H, Hs, x0, f
  <2> QED
    BY <1>8, <2>2
<1>15. IsFiniteSet(H) /\ Counts(graph, H, D, refcnt, {})
  BY <1>4, <1>7, HeldFinite DEF Owned
<1>16. o \notin D /\ Counts(graph, H \ {x0}, D, refcnt', {o})
  <2> HIDE DEF H, D, x0, o
  <2> QED
    BY <1>3, <1>4, <1>5, <1>13, <1>15, LostOne
<1>17. Dead(Append(s, f), freed, later) = D
  BY <1>10 DEF Dead
<1>18. Owned(graph, Append(s, f), freed, roots, later, refcnt', {o})
  BY <1>11, <1>14, <1>16, <1>17 DEF Owned
<1>19. Owned(graph, IF refcnt'[o] = 0 THEN Append(Append(s, f), Frame("dealloc", o, 1))
                    ELSE Append(s, f), freed, roots, later, refcnt', {})
  <2> HIDE DEF f, s, o, D
  <2> QED
    BY <1>4, <1>5, <1>6, <1>16, <1>17, <1>18, Ended
<1> QED
  BY <1>2, <1>3, <1>19

LEMMA FreeOwned ==
  ASSUME TrashInv, Free
  PROVE  Owned(graph, frames, freed, roots, later, refcnt, {})'
<1> DEFINE s == Front(frames)
           p == Top.obj
           n == Top.next
<1>1. /\ s \in Seq(FrameSet) /\ Top \in FrameSet /\ frames = Append(s, Top)
      /\ p \in Objects /\ n \in Nat \ {0} /\ Top.do = "children" /\ n > Len(graph[p])
  BY TopFrame DEF TrashInv, Free, Doing
<1>2. graph' = graph /\ roots' = roots /\ refcnt' = refcnt
  BY DEF Free
<1>3. freed' = [freed EXCEPT ![p] = @ + 1] /\ End(p, nesting, later)
  BY DEF Free
<1>4. /\ graph \in Graphs /\ roots \subseteq Objects /\ freed \in [Objects -> Nat]
      /\ graph[p] \in Seq(Objects)
  BY <1>1, TrashAssumption DEF TrashInv, TrashTypeOK
<1>5. Owned(graph, Append(s, Top), freed, roots, later, refcnt, {})
  BY <1>1 DEF TrashInv
<1>6. Ending(Top)
  BY <1>1 DEF Ending
<1>7. Dying(Append(s, Top)) = Dying(s) \cup {p}
  BY <1>1, <1>6, DyingAppend
<1>8. Once(Append(s, Top), freed, later)
  BY <1>5 DEF Owned
<1>9. /\ \A i, j \in DOMAIN s : Ending(s[i]) /\ Ending(s[j]) /\ s[i].obj = s[j].obj => i = j
      /\ p \notin Dying(s)
  BY <1>1, <1>6, <1>8, OnceAppend DEF Once
<1>10. p \notin Gone(freed) /\ p \notin InChain(later) /\ freed[p] = 0
  BY <1>1, <1>7, <1>8 DEF Once, Gone
<1>11. freed'[p] = 1 /\ \A q \in Objects : q # p => freed'[q] = freed[q]
  BY <1>1, <1>3, <1>4, <1>10
<1>12. Gone(freed') = Gone(freed) \cup {p}
  BY <1>1, <1>11 DEF Gone
<1>13. Once(s, freed', later)
  <2>1. Dying(s) \cap InChain(later) = {} /\ InChain(later) \cap Gone(freed) = {}
        /\ Dying(s) \cap Gone(freed) = {}
    BY <1>7, <1>8 DEF Once
  <2>2. \A o \in Objects : freed'[o] \in {0, 1}
    BY <1>8, <1>11 DEF Once
  <2>3. \A i, j \in DOMAIN later : later[i] = later[j] => i = j
    BY <1>8 DEF Once
  <2> QED
    BY <1>9, <1>10, <1>12, <2>1, <2>2, <2>3 DEF Once
<1> DEFINE Hs == Held(graph, s, freed, roots)
           H == Held(graph, Append(s, Top), freed, roots)
           K == Held(graph, s, freed', roots)
<1>14. H = {x \in Hs : x[1] # 0 /\ Top.do = "children" /\ Top.obj = x[1] => Top.next <= x[2]}
  BY <1>1, HeldAppend
<1>15. ASSUME NEW x PROVE x \in H <=> x \in K
  <2>1. CASE x \in {0} \X roots
    BY <1>1, <1>14, <2>1 DEF Held
  <2>2. CASE x \in SlotsOf(graph) /\ x \notin {0} \X roots
    <3>1. x[1] \in Objects /\ x[2] \in 1 .. Len(graph[x[1]]) /\ x[1] # 0
      <4>1. PICK q \in Objects : x \in {q} \X DOMAIN graph[q]
        BY <2>2 DEF SlotsOf
      <4>2. graph[q] \in Seq(Objects)
        BY <1>4, TrashAssumption
      <4>3. DOMAIN graph[q] = 1 .. Len(graph[q])
        BY <4>2, LenProperties
      <4> QED
        BY <4>1, <4>3, TrashAssumption DEF Objects
    <3>2. CASE x[1] = p
      <4>1. x \notin K
        BY <1>11, <2>2, <3>2 DEF Held
      <4>2. ~(n <= x[2])
        <5>1. Len(graph[p]) \in Nat
          BY <1>4, LenProperties
        <5>2. PICK m \in Nat : m = Len(graph[p])
          BY <5>1
        <5> QED
          BY <1>1, <3>1, <3>2, <5>2
      <4> QED
        BY <1>1, <1>14, <3>1, <3>2, <4>1, <4>2
    <3>3. CASE x[1] # p
      <4>1. x \in K <=> x \in Hs
        BY <1>11, <2>2, <3>1, <3>3 DEF Held
      <4>2. x \in H <=> x \in Hs
        BY <1>14, <3>3
      <4> QED
        BY <4>1, <4>2
    <3> QED
      BY <3>2, <3>3
  <2>3. CASE x \notin SlotsOf(graph) /\ x \notin {0} \X roots
    BY <2>3 DEF Held
  <2> QED
    BY <2>1, <2>2, <2>3
<1>16. H = K
  <2> HIDE DEF H, K
  <2> QED
    BY <1>15
<1>17. Dead(s, freed', later) = Dead(Append(s, Top), freed, later)
  BY <1>7, <1>12 DEF Dead
<1>18. Counts(graph, K, Dead(s, freed', later), refcnt', {})
  BY <1>2, <1>5, <1>16, <1>17 DEF Owned
<1>19. Owned(graph, s, freed', roots, later, refcnt', {})
  BY <1>13, <1>18 DEF Owned
<1> QED
  BY <1>1, <1>2, <1>3, <1>19, AfterEnd

LEMMA DestroyedOwned ==
  ASSUME TrashInv, Destroyed
  PROVE  Owned(graph, frames, freed, roots, later, refcnt, {})'
<1>1. /\ Front(frames) \in Seq(FrameSet) /\ Top \in FrameSet
      /\ frames = Append(Front(frames), Top) /\ Top.do = "chain"
  BY TopFrame DEF TrashInv, Destroyed, Doing
<1>2. Owned(graph, Front(frames), freed, roots, later, refcnt, {})
  BY <1>1, OwnedChain DEF TrashInv
<1> QED
  BY <1>2 DEF Destroyed

LEMMA ShreddedOwned ==
  ASSUME TrashInv, Shredded
  PROVE  Owned(graph, frames, freed, roots, later, refcnt, {})'
<1> DEFINE f == Frame("chain", Top.obj, 1)
<1>1. /\ Front(frames) \in Seq(FrameSet) /\ Top \in FrameSet
      /\ frames = Append(Front(frames), Top) /\ Top.do = "shred" /\ Top.obj \in Objects
  BY TopFrame DEF TrashInv, Shredded, Doing
<1>2. Owned(graph, Front(frames), freed, roots, later, refcnt, {})
  BY <1>1, OwnedChain DEF TrashInv
<1>3. f \in FrameSet /\ f.do = "chain"
  BY <1>1 DEF Frame, FrameSet
<1>4. frames' = Append(Front(frames), f)
  BY DEF Shredded
<1> HIDE DEF f
<1>5. Owned(graph, Append(Front(frames), f), freed, roots, later, refcnt, {})
  BY <1>1, <1>2, <1>3, OwnedChain
<1> QED
  BY <1>4, <1>5 DEF Shredded

LEMMA ShredOwned ==
  ASSUME TrashInv, Shred
  PROVE  Owned(graph, frames, freed, roots, later, refcnt, {})'
<1> DEFINE s == Front(frames)
           la == Front(later)
           o == later[Len(later)]
           f == Frame("shred", Top.obj, 1)
<1>1. /\ s \in Seq(FrameSet) /\ Top \in FrameSet /\ frames = Append(s, Top)
      /\ Top.do = "chain" /\ Top.obj \in Objects
  BY TopFrame DEF TrashInv, Shred, Doing
<1>2. la \in Seq(Objects) /\ o \in Objects /\ later = Append(la, o)
  BY FrontLast DEF TrashInv, TrashTypeOK, Shred
<1>3. graph' = graph /\ roots' = roots /\ freed' = freed /\ later' = la
  BY DEF Shred
<1>4. /\ refcnt' = [[refcnt EXCEPT ![o] = 1] EXCEPT ![o] = @ - 1]
      /\ frames' = IF refcnt'[o] = 0 THEN Append(Append(s, f), Frame("dealloc", o, 1))
                   ELSE Append(s, f)
  BY DEF Shred, Decref
<1>5. /\ graph \in Graphs /\ refcnt \in [Objects -> Int] /\ roots \subseteq Objects
  BY DEF TrashInv, TrashTypeOK
<1>6. refcnt'[o] = 0 /\ \A q \in Objects : q # o => refcnt'[q] = refcnt[q]
  BY <1>2, <1>4, <1>5
<1>7. Owned(graph, s, freed, roots, later, refcnt, {})
  BY <1>1, OwnedChain DEF TrashInv
<1>8. InChain(later) = InChain(la) \cup {o}
  BY <1>2, WaitingAppend
<1>9. /\ o \notin InChain(la)
      /\ \A i, j \in DOMAIN la : la[i] = la[j] => i = j
  BY <1>2, <1>7, InjectiveAppend DEF Owned, Once
<1>10. Once(s, freed, la) /\ o \notin Dead(s, freed, la)
  BY <1>7, <1>8, <1>9 DEF Owned, Once, Dead
<1> DEFINE H == Held(graph, s, freed, roots)
<1>11. HeldTo(graph, H, o) = {}
  BY <1>2, <1>7, <1>8 DEF Owned, Counts, Dead
<1>12. Counts(graph, H, Dead(s, freed, la), refcnt', {o})
  <2>1. Cardinality(HeldTo(graph, H, o)) = 0
    BY <1>11, FS_EmptySet
  <2>2. Dead(s, freed, later) = Dead(s, freed, la) \cup {o}
    BY <1>8 DEF Dead
  <2>3. Counts(graph, H, Dead(s, freed, later), refcnt, {})
    BY <1>7 DEF Owned
  <2> HIDE DEF H, o, la, s
  <2> QED
    BY <1>6, <1>11, <2>1, <2>2, <2>3 DEF Counts
<1>13. f \in FrameSet /\ f.do = "shred" /\ Append(s, f) \in Seq(FrameSet)
  BY <1>1, Appended DEF Frame, FrameSet
<1>14. Owned(graph, Append(s, f), freed, roots, la, refcnt', {o})
  <2>1. Owned(graph, s, freed, roots, la, refcnt', {o})
    BY <1>10, <1>12 DEF Owned
  <2> HIDE DEF f
  <2> QED
    BY <1>1, <1>13, <2>1, OwnedChain
<1>15. o \notin Dead(Append(s, f), freed, la)
  <2>1. Dying(Append(s, f)) = Dying(s)
    <3>1. ~Ending(f)
      BY <1>13 DEF Ending
    <3> HIDE DEF f
    <3> QED
      BY <1>1, <1>13, <3>1, DyingAppend
  <2> QED
    BY <1>10, <2>1 DEF Dead
<1>16. Owned(graph, IF refcnt'[o] = 0 THEN Append(Append(s, f), Frame("dealloc", o, 1))
                    ELSE Append(s, f), freed, roots, la, refcnt', {})
  <2> HIDE DEF f, s, o, la
  <2> QED
    BY <1>2, <1>5, <1>13, <1>14, <1>15, Ended
<1> QED
  BY <1>3, <1>4, <1>16

(***************************************************************************)
(* The steps: the stack and the level                                       *)
(***************************************************************************)
LEMMA LevelType ==
  ASSUME NEW s \in Seq(FrameSet)
  PROVE  /\ IsFiniteSet(CountedAt(s)) /\ Level(s) \in Nat
         /\ Level(s) = 0 <=> CountedAt(s) = {}
<1>1. IsFiniteSet(DOMAIN s)
  BY LenProperties, FS_Interval
<1>2. IsFiniteSet(CountedAt(s))
  BY <1>1, FS_Subset DEF CountedAt
<1> QED
  BY <1>2, FS_CardinalityType, FS_EmptySet DEF Level

LEMMA LevelAppend ==
  ASSUME NEW s \in Seq(FrameSet), NEW f \in FrameSet
  PROVE  /\ Level(s) \in Nat /\ Level(s) = 0 <=> \A i \in DOMAIN s : ~Counted(s[i])
         /\ Level(Append(s, f)) = IF Counted(f) THEN Level(s) + 1 ELSE Level(s)
<1>2. IsFiniteSet(CountedAt(s))
  BY LevelType
<1>3. Level(s) \in Nat /\ (Level(s) = 0 <=> CountedAt(s) = {})
  BY LevelType
<1>4. CountedAt(Append(s, f)) = IF Counted(f) THEN CountedAt(s) \cup {Len(s) + 1} ELSE CountedAt(s)
  BY Appended DEF CountedAt
<1>5. Len(s) + 1 \notin CountedAt(s)
  BY Appended DEF CountedAt
<1>6. Level(Append(s, f)) = IF Counted(f) THEN Level(s) + 1 ELSE Level(s)
  BY <1>2, <1>4, <1>5, FS_AddElement DEF Level
<1> QED
  BY <1>3, <1>6 DEF CountedAt

\* What the frames below the top may be.
Under(s) ==
  \A i \in DOMAIN s :
    /\ s[i].do \notin {"dealloc", "chain"}
    /\ s[i].do = "shred" => \A j \in DOMAIN s : j < i => ~Counted(s[j])

LEMMA ShapeAppend ==
  ASSUME NEW s \in Seq(FrameSet), NEW f \in FrameSet
  PROVE  /\ Shape(Append(s, f)) <=> Under(s) /\ (f.do \in {"chain", "shred"} => Level(s) = 0)
         /\ Under(s) => Shape(s)
         /\ Under(Append(s, f)) <=>
              /\ Under(s) /\ f.do \notin {"dealloc", "chain"}
              /\ f.do = "shred" => Level(s) = 0
<1> DEFINE t == Append(s, f)
<1> PICK n \in Nat : n = Len(s)
  BY LenProperties
<1>1. /\ DOMAIN s = 1 .. n /\ DOMAIN t = 1 .. n + 1 /\ Len(t) = n + 1
      /\ \A i \in 1 .. n : t[i] = s[i]
      /\ t[n + 1] = f
  BY Appended
<1>2. Level(s) = 0 <=> \A i \in DOMAIN s : ~Counted(s[i])
  BY LevelAppend
<1> HIDE DEF t
<1>3. ASSUME Under(s), f.do \in {"chain", "shred"} => Level(s) = 0
      PROVE  Shape(t)
  BY <1>1, <1>2, <1>3 DEF Under, Shape
<1>4. ASSUME Shape(t)
      PROVE  Under(s) /\ (f.do \in {"chain", "shred"} => Level(s) = 0)
  BY <1>1, <1>2, <1>4 DEF Under, Shape
<1>5. ASSUME Under(s)
      PROVE  Shape(s)
  BY <1>5 DEF Under, Shape
<1>6. ASSUME Under(t)
      PROVE  /\ Under(s) /\ f.do \notin {"dealloc", "chain"}
             /\ f.do = "shred" => Level(s) = 0
  BY <1>1, <1>2, <1>6 DEF Under
<1>7. ASSUME Under(s), f.do \notin {"dealloc", "chain"}, f.do = "shred" => Level(s) = 0
      PROVE  Under(t)
  BY <1>1, <1>2, <1>7 DEF Under
<1> QED
  BY <1>3, <1>4, <1>5, <1>6, <1>7 DEF t

LEMMA StackedAppend ==
  ASSUME NEW s \in Seq(FrameSet), NEW f \in FrameSet, NEW la, NEW n
  PROVE  Stacked(Append(s, f), la, n) <=>
           /\ Under(s) /\ (f.do \in {"chain", "shred"} => Level(s) = 0)
           /\ n = IF Counted(f) THEN Level(s) + 1 ELSE Level(s)
           /\ n < PyTrash_UNWIND_LEVEL
           /\ la # <<>> => n > 0 \/ f.do = "chain"
<1> DEFINE t == Append(s, f)
<1>1. t # <<>> /\ t[Len(t)] = f
  BY Appended
<1>2. /\ Shape(t) <=> Under(s) /\ (f.do \in {"chain", "shred"} => Level(s) = 0)
      /\ Level(t) = IF Counted(f) THEN Level(s) + 1 ELSE Level(s)
  BY ShapeAppend, LevelAppend
<1> HIDE DEF t
<1>3. Stacked(t, la, n) <=>
           /\ Under(s) /\ (f.do \in {"chain", "shred"} => Level(s) = 0)
           /\ n = IF Counted(f) THEN Level(s) + 1 ELSE Level(s)
           /\ n < PyTrash_UNWIND_LEVEL
           /\ la # <<>> => n > 0 \/ f.do = "chain"
  BY <1>1, <1>2 DEF Stacked
<1> QED
  BY <1>3 DEF t

\* What is left of the stack when the top is taken off.
LEMMA StackedUnder ==
  ASSUME NEW s \in Seq(FrameSet), NEW la, NEW n, Under(s), n = Level(s),
         n < PyTrash_UNWIND_LEVEL, la # <<>> => n > 0
  PROVE  Stacked(s, la, n)
BY ShapeAppend DEF Stacked, Under, Shape

\* Another deallocation on top.
LEMMA StackedDealloc ==
  ASSUME NEW s \in Seq(FrameSet), NEW o \in Objects, NEW la, NEW n, Under(s), Stacked(s, la, n)
  PROVE  Stacked(Append(s, Frame("dealloc", o, 1)), la, n)
<1> DEFINE f == Frame("dealloc", o, 1)
<1>1. f \in FrameSet /\ f.do = "dealloc" /\ ~Counted(f)
  BY DEF Frame, FrameSet, Counted
<1> HIDE DEF f
<1>2. s # <<>> => s[Len(s)].do # "chain"
  BY Appended, EmptySeq DEF Under
<1>3. n = Level(s) /\ n < PyTrash_UNWIND_LEVEL /\ (la # <<>> => n > 0)
  BY <1>2 DEF Stacked
<1>4. Stacked(Append(s, f), la, n)
  BY <1>1, <1>3, StackedAppend
<1> QED
  BY <1>4 DEF f

LEMMA DropStacked ==
  ASSUME TrashInv, Drop
  PROVE  Stacked(frames, later, nesting)'
<1>1. PICK o \in Objects : frames' = Append(<<>>, Frame("dealloc", o, 1)) \/ frames' = <<>>
  BY DEF Drop, Decref, TrashInv, TrashTypeOK
<1>2. Stacked(<<>>, later, nesting) /\ later' = later /\ nesting' = nesting
  BY DEF Drop, TrashInv
<1>3. Under(<<>>) /\ <<>> \in Seq(FrameSet)
  BY EmptySeq DEF Under
<1>4. Stacked(Append(<<>>, Frame("dealloc", o, 1)), later, nesting)
  BY <1>2, <1>3, StackedDealloc
<1> QED
  BY <1>1, <1>2, <1>4

LEMMA BeginStacked ==
  ASSUME TrashInv, Begin
  PROVE  Stacked(frames, later, nesting)'
<1> DEFINE s == Front(frames)
           o == Top.obj
           level == IF o \in Containers THEN nesting + 1 ELSE nesting
           f == Frame("children", o, 1)
<1>1. /\ s \in Seq(FrameSet) /\ Top \in FrameSet /\ frames = Append(s, Top)
      /\ o \in Objects /\ Top.do = "dealloc"
  BY TopFrame DEF TrashInv, Begin, Doing
<1>2. Stacked(Append(s, Top), later, nesting) /\ ~Counted(Top)
  BY <1>1 DEF TrashInv, Counted
<1>3. /\ Under(s) /\ nesting = Level(s) /\ nesting < PyTrash_UNWIND_LEVEL
      /\ later # <<>> => nesting > 0
  <2> HIDE DEF s
  <2> QED
    BY <1>1, <1>2, StackedAppend
<1>4. nesting \in Nat /\ PyTrash_UNWIND_LEVEL \in Nat /\ PyTrash_UNWIND_LEVEL >= 3
  BY TrashAssumption DEF TrashInv, TrashTypeOK
<1>5. CASE o \in Containers /\ level >= PyTrash_UNWIND_LEVEL
  <2>1. nesting' = level - 1 /\ frames' = IF later' # <<>> /\ nesting' <= 0
                                          THEN Append(s, Frame("chain", o, 1)) ELSE s
    BY <1>5 DEF Begin, End
  <2>2. level = nesting + 1
    BY <1>5
  <2>3. nesting' = nesting /\ nesting' > 0
    BY <1>4, <1>5, <2>1, <2>2
  <2>4. frames' = s
    BY <1>4, <2>1, <2>3
  <2> HIDE DEF s
  <2> QED
    BY <1>1, <1>3, <2>3, <2>4, StackedUnder
<1>6. CASE ~(o \in Containers /\ level >= PyTrash_UNWIND_LEVEL)
  <2>1. nesting' = level /\ frames' = Append(s, f) /\ later' = later
    BY <1>6 DEF Begin
  <2>2. f \in FrameSet /\ f.do = "children" /\ (Counted(f) <=> o \in Containers)
    BY <1>1 DEF Frame, FrameSet, Counted
  <2>3. level < PyTrash_UNWIND_LEVEL /\ (later # <<>> => level > 0)
    BY <1>3, <1>4, <1>6
  <2>4. level = IF Counted(f) THEN Level(s) + 1 ELSE Level(s)
    BY <1>3, <2>2
  <2> HIDE DEF s, f, level
  <2>5. Stacked(Append(s, f), later, level)
    BY <1>1, <1>3, <2>2, <2>3, <2>4, StackedAppend
  <2> QED
    BY <2>1, <2>5
<1> QED
  BY <1>5, <1>6

LEMMA ChildStacked ==
  ASSUME TrashInv, Child
  PROVE  Stacked(frames, later, nesting)'
<1> DEFINE s == Front(frames)
           o == graph[Top.obj][Top.next]
           f == Frame("children", Top.obj, Top.next + 1)
<1>1. /\ s \in Seq(FrameSet) /\ Top \in FrameSet /\ frames = Append(s, Top)
      /\ Top.obj \in Objects /\ Top.next \in Nat \ {0} /\ Top.do = "children"
      /\ Top.next <= Len(graph[Top.obj])
  BY TopFrame DEF TrashInv, Child, Doing
<1>2. o \in Objects
  <2>1. graph[Top.obj] \in Seq(Objects)
    BY <1>1, TrashAssumption DEF TrashInv, TrashTypeOK
  <2> QED
    BY <1>1, <2>1, LenProperties, ElementOfSeq
<1>3. f \in FrameSet /\ f.do = "children" /\ (Counted(f) <=> Counted(Top))
  BY <1>1 DEF Frame, FrameSet, Counted
<1>4. /\ frames' = Append(Append(s, f), Frame("dealloc", o, 1)) \/ frames' = Append(s, f)
      /\ later' = later /\ nesting' = nesting
  BY DEF Child, Decref
<1>5. Stacked(Append(s, Top), later, nesting)
  BY <1>1 DEF TrashInv
<1> HIDE DEF s, f, o
<1>6. Stacked(Append(s, f), later, nesting) /\ Under(s)
  BY <1>1, <1>3, <1>5, StackedAppend
<1>7. Under(Append(s, f)) /\ Append(s, f) \in Seq(FrameSet)
  BY <1>1, <1>3, <1>6, ShapeAppend, Appended
<1>8. Stacked(Append(Append(s, f), Frame("dealloc", o, 1)), later, nesting)
  BY <1>2, <1>6, <1>7, StackedDealloc
<1> QED
  BY <1>4, <1>6, <1>8

LEMMA FreeStacked ==
  ASSUME TrashInv, Free
  PROVE  Stacked(frames, later, nesting)'
<1> DEFINE s == Front(frames)
           o == Top.obj
           f == Frame("chain", o, 1)
<1>1. /\ s \in Seq(FrameSet) /\ Top \in FrameSet /\ frames = Append(s, Top)
      /\ o \in Objects /\ Top.do = "children"
  BY TopFrame DEF TrashInv, Free, Doing
<1>2. Stacked(Append(s, Top), later, nesting) /\ (Counted(Top) <=> o \in Containers)
  BY <1>1 DEF TrashInv, Counted
<1>3. /\ later' = later
      /\ nesting' = IF o \in Containers THEN nesting - 1 ELSE nesting
      /\ frames' = IF o \in Containers /\ later # <<>> /\ nesting' <= 0
                   THEN Append(s, f) ELSE s
  BY DEF Free, End
<1>4. f \in FrameSet /\ f.do = "chain" /\ ~Counted(f)
  BY <1>1 DEF Frame, FrameSet, Counted
<1> HIDE DEF s, f
<1>5. /\ Under(s) /\ Level(s) \in Nat
      /\ nesting = IF o \in Containers THEN Level(s) + 1 ELSE Level(s)
      /\ nesting < PyTrash_UNWIND_LEVEL
      /\ later # <<>> => nesting > 0
  <2>1. Level(s) \in Nat
    BY <1>1, LevelType
  <2>2. Top.do \notin {"chain", "shred"}
    BY <1>1
  <2> QED
    BY <1>1, <1>2, <2>1, <2>2, StackedAppend
<1>6. nesting' = Level(s) /\ nesting' < PyTrash_UNWIND_LEVEL
  BY <1>3, <1>5, TrashAssumption
<1>7. CASE o \in Containers /\ later # <<>> /\ nesting' <= 0
  <2>1. frames' = Append(s, f) /\ Level(s) = 0
    BY <1>3, <1>5, <1>6, <1>7
  <2> QED
    BY <1>1, <1>3, <1>4, <1>5, <1>6, <2>1, StackedAppend
<1>8. CASE ~(o \in Containers /\ later # <<>> /\ nesting' <= 0)
  <2>1. frames' = s /\ (later # <<>> => nesting' > 0)
    BY <1>3, <1>5, <1>6, <1>8
  <2> QED
    BY <1>1, <1>3, <1>5, <1>6, <2>1, StackedUnder
<1> QED
  BY <1>7, <1>8

LEMMA DestroyedStacked ==
  ASSUME TrashInv, Destroyed
  PROVE  Stacked(frames, later, nesting)'
<1> DEFINE s == Front(frames)
<1>1. /\ s \in Seq(FrameSet) /\ Top \in FrameSet /\ frames = Append(s, Top) /\ Top.do = "chain"
  BY TopFrame DEF TrashInv, Destroyed, Doing
<1>2. Stacked(Append(s, Top), later, nesting) /\ ~Counted(Top)
  BY <1>1 DEF TrashInv, Counted
<1>3. frames' = s /\ later' = <<>> /\ nesting' = nesting
  BY DEF Destroyed
<1> HIDE DEF s
<1>4. Under(s) /\ nesting = Level(s) /\ nesting < PyTrash_UNWIND_LEVEL
  BY <1>1, <1>2, StackedAppend
<1> QED
  BY <1>1, <1>3, <1>4, StackedUnder

LEMMA ShredStacked ==
  ASSUME TrashInv, Shred
  PROVE  Stacked(frames, later, nesting)'
<1> DEFINE s == Front(frames)
           o == later[Len(later)]
           f == Frame("shred", Top.obj, 1)
<1>1. /\ s \in Seq(FrameSet) /\ Top \in FrameSet /\ frames = Append(s, Top)
      /\ Top.do = "chain" /\ Top.obj \in Objects
  BY TopFrame DEF TrashInv, Shred, Doing
<1>2. o \in Objects
  BY FrontLast DEF TrashInv, TrashTypeOK, Shred
<1>3. Stacked(Append(s, Top), later, nesting) /\ ~Counted(Top)
  BY <1>1 DEF TrashInv, Counted
<1>4. /\ frames' = Append(Append(s, f), Frame("dealloc", o, 1)) \/ frames' = Append(s, f)
      /\ nesting' = nesting + 1
  BY DEF Shred, Decref
<1>5. f \in FrameSet /\ f.do = "shred" /\ Counted(f)
  BY <1>1 DEF Frame, FrameSet, Counted
<1> HIDE DEF s, f, o
<1>6. Under(s) /\ nesting = Level(s) /\ Level(s) = 0
  BY <1>1, <1>3, StackedAppend
<1>7. nesting' = 1 /\ nesting' < PyTrash_UNWIND_LEVEL
  BY <1>4, <1>6, TrashAssumption
<1>8. Stacked(Append(s, f), later', nesting')
  BY <1>1, <1>5, <1>6, <1>7, StackedAppend
<1>9. Under(Append(s, f)) /\ Append(s, f) \in Seq(FrameSet)
  BY <1>1, <1>5, <1>6, ShapeAppend, Appended
<1>10. Stacked(Append(Append(s, f), Frame("dealloc", o, 1)), later', nesting')
  BY <1>2, <1>8, <1>9, StackedDealloc
<1> QED
  BY <1>4, <1>8, <1>10

LEMMA ShreddedStacked ==
  ASSUME TrashInv, Shredded
  PROVE  Stacked(frames, later, nesting)'
<1> DEFINE s == Front(frames)
           f == Frame("chain", Top.obj, 1)
<1>1. /\ s \in Seq(FrameSet) /\ Top \in FrameSet /\ frames = Append(s, Top)
      /\ Top.do = "shred" /\ Top.obj \in Objects
  BY TopFrame DEF TrashInv, Shredded, Doing
<1>2. Stacked(Append(s, Top), later, nesting) /\ Counted(Top)
  BY <1>1 DEF TrashInv, Counted
<1>3. frames' = Append(s, f) /\ nesting' = nesting - 1 /\ later' = later
  BY DEF Shredded
<1>4. f \in FrameSet /\ f.do = "chain" /\ ~Counted(f)
  BY <1>1 DEF Frame, FrameSet, Counted
<1> HIDE DEF s, f
<1>5. Under(s) /\ Level(s) = 0 /\ nesting = Level(s) + 1
  BY <1>1, <1>2, StackedAppend
<1>6. nesting' = 0 /\ nesting' < PyTrash_UNWIND_LEVEL
  BY <1>3, <1>5, TrashAssumption
<1>7. Stacked(Append(s, f), later, nesting')
  BY <1>1, <1>4, <1>5, <1>6, StackedAppend
<1> QED
  BY <1>3, <1>7

(***************************************************************************)
(* The invariant                                                            *)
(***************************************************************************)
LEMMA TrashInvInit == TrashInit => TrashInv
<1> SUFFICES ASSUME TrashInit PROVE TrashInv
  OBVIOUS
<1>1. PICK g \in Graphs, held \in SUBSET Objects :
        /\ \A o \in Objects : References(g, o) = {} => o \in held
        /\ Start(g, held)
  BY DEF TrashInit
<1>2. /\ graph = g /\ roots = held
      /\ refcnt = [o \in Objects |-> Cardinality(References(g, o)) + (IF o \in held THEN 1 ELSE 0)]
      /\ freed = [o \in Objects |-> 0]
      /\ nesting = 0 /\ later = <<>> /\ frames = <<>>
  BY <1>1 DEF Start
<1> DEFINE H == Held(g, frames, freed, roots)
<1>3. /\ \A o \in Objects : References(g, o) \in SUBSET SlotsOf(g)
      /\ \A o \in Objects : IsFiniteSet(References(g, o)) /\ Cardinality(References(g, o)) \in Nat
      /\ \A o \in Objects : Cardinality(References(g, o)) = 0 => References(g, o) = {}
  <2>1. \A o \in Objects : References(g, o) \in SUBSET SlotsOf(g)
    BY DEF References, SlotsOf
  <2>2. \A o \in Objects : IsFiniteSet(References(g, o))
    BY <2>1, SlotsFinite, FS_Subset
  <2> QED
    BY <2>1, <2>2, FS_CardinalityType, FS_EmptySet
<1>4. Held(g, frames, freed, roots) = ({0} \X held) \cup SlotsOf(g)
  <2>1. \A x \in SlotsOf(g) : x[1] \in Objects
    BY DEF SlotsOf
  <2> QED
    BY <1>2, <2>1 DEF Held
<1>5. ASSUME NEW o \in Objects
      PROVE  HeldTo(g, Held(g, frames, freed, roots), o)
               = IF o \in held THEN References(g, o) \cup {<<0, o>>} ELSE References(g, o)
  <2>1. \A x \in SlotsOf(g) : x[1] # 0 /\ (x \in References(g, o) <=> Target(g, x) = o)
    BY TrashAssumption DEF SlotsOf, References, Target, Objects
  <2>2. \A x \in {0} \X held : x = <<0, x[2]>> /\ Target(g, x) = x[2]
    BY DEF Target
  <2>3. References(g, o) \subseteq SlotsOf(g)
    BY <1>3
  <2> QED
    BY <1>4, <2>1, <2>2, <2>3 DEF HeldTo
<1>6. ASSUME NEW o \in Objects
      PROVE  /\ refcnt[o] = Cardinality(HeldTo(g, Held(g, frames, freed, roots), o))
             /\ refcnt[o] # 0
  <2>1. \A x \in References(g, o) : x # <<0, o>>
    BY <1>3, TrashAssumption DEF SlotsOf, Objects
  <2> PICK c \in Nat : c = Cardinality(References(g, o))
    BY <1>3
  <2>4. c = 0 => References(g, o) = {}
    BY <1>3
  <2>2. CASE o \in held
    <3>1. IsFiniteSet(References(g, o)) /\ <<0, o>> \notin References(g, o)
      BY <1>3, <2>1
    <3>2. Cardinality(References(g, o) \cup {<<0, o>>}) = c + 1
      BY <3>1, FS_AddElement
    <3>3. refcnt[o] = c + 1
      BY <1>2, <2>2
    <3>4. HeldTo(g, Held(g, frames, freed, roots), o) = References(g, o) \cup {<<0, o>>}
      BY <1>5, <2>2
    <3> QED
      BY <3>2, <3>3, <3>4
  <2>3. CASE o \notin held
    <3>1. References(g, o) # {}
      BY <1>1, <2>3
    <3>2. refcnt[o] = c
      BY <1>2, <2>3
    <3> QED
      BY <1>5, <2>3, <2>4, <3>1, <3>2
  <2> QED
    BY <2>2, <2>3
<1>7. TrashTypeOK
  <2>1. refcnt \in [Objects -> Int]
    BY <1>2, <1>3
  <2> QED
    BY <1>1, <1>2, <2>1, EmptySeq DEF TrashTypeOK
<1>8. Dying(frames) = {} /\ InChain(later) = {} /\ Gone(freed) = {}
  BY <1>2 DEF Dying, InChain, Gone
<1>9. Once(frames, freed, later)
  BY <1>2, <1>8 DEF Once
<1>10. Counts(graph, Held(graph, frames, freed, roots), Dead(frames, freed, later), refcnt, {})
  BY <1>2, <1>6, <1>8 DEF Counts, Dead
<1>11. Stacked(frames, later, nesting)
  <2>1. CountedAt(frames) = {}
    BY <1>2 DEF CountedAt
  <2>2. Level(frames) = 0
    BY <2>1, FS_EmptySet DEF Level
  <2> QED
    BY <1>2, <2>2, TrashAssumption DEF Stacked, Shape
<1> QED
  BY <1>7, <1>9, <1>10, <1>11 DEF TrashInv, Owned

LEMMA DecrefType ==
  ASSUME NEW o \in Objects, NEW c \in [Objects -> Int], NEW s \in Seq(FrameSet), Decref(o, c, s)
  PROVE  refcnt' \in [Objects -> Int] /\ frames' \in Seq(FrameSet)
<1>1. Frame("dealloc", o, 1) \in FrameSet
  BY DEF Frame, FrameSet
<1> QED
  BY <1>1, Appended DEF Decref

LEMMA EndType ==
  ASSUME NEW o \in Objects, NEW n, NEW la \in Seq(Objects), TrashTypeOK, frames # <<>>, End(o, n, la)
  PROVE  later' \in Seq(Objects) /\ frames' \in Seq(FrameSet)
<1>1. Frame("chain", o, 1) \in FrameSet
  BY DEF Frame, FrameSet
<1>2. Front(frames) \in Seq(FrameSet)
  BY TopFrame
<1> QED
  BY <1>1, <1>2, Appended DEF End

LEMMA TypeStep ==
  ASSUME TrashTypeOK, TrashNext, Stacked(frames, later, nesting)'
  PROVE  TrashTypeOK'
<1>1. /\ graph' \in Graphs /\ roots' \subseteq Objects
      /\ refcnt' \in [Objects -> Int] /\ freed' \in [Objects -> Nat]
      /\ later' \in Seq(Objects) /\ frames' \in Seq(FrameSet)
  <2>1. CASE Drop
    <3>1. PICK o \in roots : roots' = roots \ {o} /\ Decref(o, refcnt, <<>>)
      BY <2>1 DEF Drop
    <3> QED
      BY <2>1, <3>1, DecrefType, EmptySeq DEF Drop, TrashTypeOK
  <2>2. CASE Begin
    <3> DEFINE o == Top.obj
               level == IF o \in Containers THEN nesting + 1 ELSE nesting
               f == Frame("children", o, 1)
    <3>1. o \in Objects /\ Front(frames) \in Seq(FrameSet) /\ frames # <<>>
      BY <2>2, TopFrame DEF Begin, Doing
    <3>2. UNCHANGED <<graph, roots, freed>>
      BY <2>2 DEF Begin
    <3>3. CASE o \in Containers /\ level >= PyTrash_UNWIND_LEVEL
      <4>1. refcnt' = [refcnt EXCEPT ![o] = Py_TRASHCAN_TUPLE] /\ End(o, level, Append(later, o))
        BY <2>2, <3>3 DEF Begin, Deposited
      <4>2. Append(later, o) \in Seq(Objects)
        BY <3>1, Appended DEF TrashTypeOK
      <4>3. refcnt' \in [Objects -> Int]
        BY <3>1, <4>1 DEF TrashTypeOK, Py_TRASHCAN_TUPLE
      <4> HIDE DEF level
      <4>4. later' \in Seq(Objects) /\ frames' \in Seq(FrameSet)
        BY <3>1, <4>1, <4>2, EndType
      <4> QED
        BY <3>2, <4>3, <4>4 DEF TrashTypeOK
    <3>4. CASE ~(o \in Containers /\ level >= PyTrash_UNWIND_LEVEL)
      <4>1. frames' = Append(Front(frames), f) /\ refcnt' = refcnt /\ later' = later
        BY <2>2, <3>4 DEF Begin
      <4>2. f \in FrameSet
        BY <3>1 DEF Frame, FrameSet
      <4> HIDE DEF f
      <4>3. frames' \in Seq(FrameSet)
        BY <3>1, <4>1, <4>2, Appended
      <4> QED
        BY <3>2, <4>1, <4>3 DEF TrashTypeOK
    <3> QED
      BY <3>3, <3>4
  <2>3. CASE Child
    <3> DEFINE o == graph[Top.obj][Top.next]
               f == Frame("children", Top.obj, Top.next + 1)
    <3>1. /\ Front(frames) \in Seq(FrameSet) /\ Top.obj \in Objects /\ Top.next \in Nat \ {0}
          /\ Top.next <= Len(graph[Top.obj])
      BY <2>3, TopFrame DEF Child, Doing
    <3>2. graph[Top.obj] \in Seq(Objects)
      BY <3>1, TrashAssumption DEF TrashTypeOK
    <3>3. o \in Objects
      BY <3>1, <3>2, LenProperties, ElementOfSeq
    <3>4. f \in FrameSet
      BY <3>1 DEF Frame, FrameSet
    <3>5. Decref(o, refcnt, Append(Front(frames), f))
      BY <2>3 DEF Child
    <3> HIDE DEF o, f
    <3>6. refcnt' \in [Objects -> Int] /\ frames' \in Seq(FrameSet)
      BY <3>1, <3>3, <3>4, <3>5, DecrefType, Appended DEF TrashTypeOK
    <3> QED
      BY <2>3, <3>6 DEF Child, TrashTypeOK
  <2>4. CASE Free
    <3>1. Top.obj \in Objects /\ frames # <<>> /\ End(Top.obj, nesting, later)
      BY <2>4, TopFrame DEF Free, Doing
    <3>2. later' \in Seq(Objects) /\ frames' \in Seq(FrameSet)
      BY <3>1, EndType DEF TrashTypeOK
    <3> QED
      BY <2>4, <3>1, <3>2 DEF Free, TrashTypeOK
  <2>5. CASE Destroyed
    <3>1. Front(frames) \in Seq(FrameSet)
      BY <2>5, TopFrame DEF Destroyed, Doing
    <3> QED
      BY <2>5, <3>1 DEF Destroyed, TrashTypeOK
  <2>6. CASE Shred
    <3> DEFINE o == later[Len(later)]
               f == Frame("shred", Top.obj, 1)
    <3>1. /\ Front(frames) \in Seq(FrameSet) /\ Top.obj \in Objects
      BY <2>6, TopFrame DEF Shred, Doing
    <3>2. o \in Objects /\ Front(later) \in Seq(Objects)
      BY <2>6, FrontLast DEF Shred, TrashTypeOK
    <3>3. f \in FrameSet
      BY <3>1 DEF Frame, FrameSet
    <3>4. /\ Decref(o, [refcnt EXCEPT ![o] = 1], Append(Front(frames), f))
          /\ later' = Front(later) /\ UNCHANGED <<graph, roots, freed>>
      BY <2>6 DEF Shred
    <3> HIDE DEF o, f
    <3>5. [refcnt EXCEPT ![o] = 1] \in [Objects -> Int]
      <4>1. refcnt \in [Objects -> Int] /\ 1 \in Int
        BY DEF TrashTypeOK
      <4> QED
        BY <3>2, <4>1
    <3>6. refcnt' \in [Objects -> Int] /\ frames' \in Seq(FrameSet)
      BY <3>1, <3>2, <3>3, <3>4, <3>5, DecrefType, Appended
    <3> QED
      BY <3>2, <3>4, <3>6 DEF TrashTypeOK
  <2>7. CASE Shredded
    <3>1. Front(frames) \in Seq(FrameSet) /\ Frame("chain", Top.obj, 1) \in FrameSet
      BY <2>7, TopFrame DEF Shredded, Doing, Frame, FrameSet
    <3> QED
      BY <2>7, <3>1, Appended DEF Shredded, TrashTypeOK
  <2> QED
    BY <2>1, <2>2, <2>3, <2>4, <2>5, <2>6, <2>7 DEF TrashNext
<1>2. nesting' \in Nat
  BY <1>1, LevelType DEF Stacked
<1> QED
  BY <1>1, <1>2 DEF TrashTypeOK

LEMMA InvStep == TrashInv /\ [TrashNext]_trashVars => TrashInv'
<1> SUFFICES ASSUME TrashInv, [TrashNext]_trashVars PROVE TrashInv'
  OBVIOUS
<1>1. CASE TrashNext
  <2>1. Owned(graph, frames, freed, roots, later, refcnt, {})'
    BY <1>1, DropOwned, BeginOwned, ChildOwned, FreeOwned, DestroyedOwned, ShredOwned,
       ShreddedOwned DEF TrashNext
  <2>2. Stacked(frames, later, nesting)'
    BY <1>1, DropStacked, BeginStacked, ChildStacked, FreeStacked, DestroyedStacked,
       ShredStacked, ShreddedStacked DEF TrashNext
  <2>3. TrashTypeOK'
    BY <1>1, <2>2, TypeStep DEF TrashInv
  <2> QED
    BY <2>1, <2>2, <2>3 DEF TrashInv
<1>2. CASE UNCHANGED trashVars
  BY <1>2 DEF trashVars, TrashInv, TrashTypeOK
<1> QED
  BY <1>1, <1>2

\* What is at its end is referred to no more and every other count is right; and the
\* level is that of the deallocations on the stack.
THEOREM TrashInvariant == TrashSpec => []TrashInv
<1>1. TrashInit => TrashInv
  BY TrashInvInit
<1>2. TrashInv /\ [TrashNext]_trashVars => TrashInv'
  BY InvStep
<1> QED
  BY <1>1, <1>2, PTL DEF TrashSpec

(***************************************************************************)
(* Garbage                                                                  *)
(***************************************************************************)
Alive == Objects \ Dead(frames, freed, later)

\* What is held leads to what is alive.
LEMMA HeldAlive ==
  ASSUME TrashInv, NEW o \in Objects, NEW x \in Held(graph, frames, freed, roots),
         Target(graph, x) = o
  PROVE  o \in Alive
<1>1. x \in HeldTo(graph, Held(graph, frames, freed, roots), o)
  BY DEF HeldTo
<1> QED
  BY <1>1 DEF TrashInv, Owned, Counts, Alive

LEMMA AliveClosed == ASSUME TrashInv PROVE Closed(Alive)
<1>1. ASSUME NEW o \in roots PROVE o \in Alive
  <2>1. o \in Objects /\ <<0, o>> \in Held(graph, frames, freed, roots)
    BY <1>1 DEF TrashInv, TrashTypeOK, Held
  <2>2. Target(graph, <<0, o>>) = o
    BY DEF Target
  <2> QED
    BY <2>1, <2>2, HeldAlive
<1>2. ASSUME NEW p \in Alive, NEW k \in DOMAIN graph[p] PROVE graph[p][k] \in Alive
  <2>1. p \in Objects /\ p \notin Dying(frames) /\ freed[p] = 0
    BY <1>2 DEF Alive, Dead, Gone
  <2>2. graph[p] \in Seq(Objects)
    BY <2>1, TrashAssumption DEF TrashInv, TrashTypeOK
  <2>3. graph[p][k] \in Objects
    BY <1>2, <2>2, LenProperties
  <2>4. \A i \in DOMAIN frames : frames[i].do = "children" => frames[i].obj # p
    BY <2>1 DEF Dying, Ending
  <2>5. <<p, k>> \in Held(graph, frames, freed, roots)
    BY <1>2, <2>1, <2>4 DEF Held, SlotsOf
  <2>6. Target(graph, <<p, k>>) = graph[p][k]
    BY <2>1, TrashAssumption DEF Target, Objects
  <2> QED
    BY <2>3, <2>5, <2>6, HeldAlive
<1> QED
  BY <1>1, <1>2 DEF Closed

LEMMA ReachableAlive == ASSUME TrashInv PROVE Reachable \subseteq Alive
<1>1. roots \subseteq Alive
  BY AliveClosed DEF Closed
<1>2. ASSUME NEW o \in Reachable, o \notin roots PROVE o \in Alive
  BY <1>2, AliveClosed DEF Reachable, Alive
<1> QED
  BY <1>1, <1>2

\* Nat is well founded.
LEMMA LeastNumber ==
  ASSUME NEW S, S \subseteq Nat, S # {}
  PROVE  \E m \in S : \A x \in S : m <= x
<1>1. PICK m \in S : \A x \in S : ~ (<<x, m>> \in OpToRel(<, Nat))
  BY NatLessThanWellFounded, WFMin
<1>2. ASSUME NEW x \in S PROVE m <= x
  <2>1. ~ (x < m)
    BY <1>1 DEF OpToRel
  <2> QED
    BY <2>1
<1> QED
  BY <1>2

LEMMA LeastObject ==
  ASSUME NEW S, S \subseteq Objects, S # {}
  PROVE  \E m \in S : \A x \in S : m <= x
<1>1. S \subseteq Nat
  BY TrashAssumption DEF Objects
<1> QED
  BY <1>1, LeastNumber

\* What is alive is held, by the program or by an object before it that is alive when
\* nothing is under way: the first object that cannot be reached has no holder.
LEMMA AliveReachable ==
  ASSUME TrashInv, frames = <<>>, later = <<>>
  PROVE  Alive \subseteq Reachable
<1> SUFFICES ASSUME Alive \ Reachable # {} PROVE FALSE
  OBVIOUS
<1>1. PICK o \in Alive \ Reachable : \A x \in Alive \ Reachable : o <= x
  BY LeastObject DEF Alive
<1>2. o \in Objects /\ o \notin Dead(frames, freed, later)
  BY <1>1 DEF Alive
<1>3. HeldTo(graph, Held(graph, frames, freed, roots), o) # {}
  <2>1. /\ refcnt[o] # 0
        /\ refcnt[o] = Cardinality(HeldTo(graph, Held(graph, frames, freed, roots), o))
    BY <1>2 DEF TrashInv, Owned, Counts
  <2> QED
    BY <2>1, FS_EmptySet
<1>4. PICK x \in Held(graph, frames, freed, roots) : Target(graph, x) = o
  BY <1>3 DEF HeldTo
<1>5. CASE x \in {0} \X roots
  <2>1. o \in roots
    BY <1>4, <1>5 DEF Target
  <2> QED
    BY <1>1, <1>2, <2>1 DEF Reachable, Closed
<1>6. CASE x \notin {0} \X roots
  <2>1. x \in SlotsOf(graph) /\ freed[x[1]] = 0
    BY <1>4, <1>6 DEF Held
  <2>2. PICK p \in Objects : x \in {p} \X DOMAIN graph[p]
    BY <2>1 DEF SlotsOf
  <2>3. PICK k \in DOMAIN graph[p] : x = <<p, k>>
    BY <2>2
  <2>4. graph[p][k] = o
    BY <1>4, <2>3, TrashAssumption DEF Target, Objects
  <2>5. p < o
    <3>1. graph[p][k] > p
      BY <2>3, TrashAssumption DEF TrashInv, TrashTypeOK
    <3> QED
      BY <1>2, <2>4, <3>1, TrashAssumption DEF Objects
  <2>6. p \in Alive
    BY <2>1, <2>3 DEF Alive, Dead, Dying, InChain, Gone
  <2>7. p \in Reachable
    BY <1>1, <1>2, <2>5, <2>6, TrashAssumption DEF Objects
  <2> QED
    BY <1>1, <1>2, <2>3, <2>4, <2>7 DEF Reachable, Closed
<1> QED
  BY <1>5, <1>6

LEMMA InvGarbage == TrashInv => GarbageFreed
<1> SUFFICES ASSUME TrashInv PROVE GarbageFreed
  OBVIOUS
<1>1. ASSUME NEW o \in Objects
      PROVE  freed[o] = 0 \/ (freed[o] = 1 /\ o \notin Reachable)
  <2>1. freed[o] \in {0, 1}
    BY <1>1 DEF TrashInv, Owned, Once
  <2>2. freed[o] # 0 => o \notin Alive
    BY <1>1 DEF Alive, Dead, Gone
  <2> QED
    BY <2>1, <2>2, ReachableAlive
<1>2. Depth <= PyTrash_UNWIND_LEVEL
  <2> DEFINE D == {i \in DOMAIN frames :
                     frames[i].do \in {"dealloc", "children"} /\ frames[i].obj \in Containers}
             n == Len(frames)
  <2>1. /\ IsFiniteSet(CountedAt(frames)) /\ Cardinality(CountedAt(frames)) \in Nat
        /\ Cardinality(CountedAt(frames)) = nesting /\ nesting < PyTrash_UNWIND_LEVEL
    BY LevelType DEF TrashInv, TrashTypeOK, Stacked, Level
  <2>2. D \subseteq CountedAt(frames) \cup {n}
    BY DEF TrashInv, Stacked, Shape, CountedAt, Counted
  <2>3. /\ IsFiniteSet(CountedAt(frames) \cup {n})
        /\ Cardinality(CountedAt(frames) \cup {n}) <= nesting + 1
        /\ Cardinality(CountedAt(frames) \cup {n}) \in Nat
    <3> HIDE DEF n
    <3>1. /\ IsFiniteSet(CountedAt(frames) \cup {n})
          /\ Cardinality(CountedAt(frames) \cup {n})
               = IF n \in CountedAt(frames) THEN Cardinality(CountedAt(frames))
                 ELSE Cardinality(CountedAt(frames)) + 1
      BY <2>1, FS_AddElement
    <3>2. Cardinality(CountedAt(frames) \cup {n}) \in {nesting, nesting + 1} /\ nesting \in Nat
      BY <2>1, <3>1
    <3> QED
      BY <3>1, <3>2
  <2>4. Cardinality(D) <= Cardinality(CountedAt(frames) \cup {n}) /\ Cardinality(D) \in Nat
    BY <2>2, <2>3, FS_Subset, FS_CardinalityType
  <2>5. nesting + 1 <= PyTrash_UNWIND_LEVEL /\ nesting \in Nat
    BY <2>1, TrashAssumption
  <2>6. Cardinality(D) <= PyTrash_UNWIND_LEVEL
    <3> HIDE DEF D, n
    <3> PICK a \in Nat : a = Cardinality(D)
      BY <2>4
    <3> PICK b \in Nat : b = Cardinality(CountedAt(frames) \cup {n})
      BY <2>3
    <3> QED
      BY <2>3, <2>4, <2>5, TrashAssumption
  <2> QED
    BY <2>6 DEF Depth
<1>3. ASSUME frames = <<>>
      PROVE  /\ later = <<>> /\ nesting = 0
             /\ \A o \in Objects : o \in Reachable \/ freed[o] = 1
  <2>1. CountedAt(frames) = {}
    BY <1>3 DEF CountedAt
  <2>2. nesting = 0
    BY <2>1, FS_EmptySet DEF TrashInv, Stacked, Level
  <2>3. later = <<>>
    BY <1>3, <2>2 DEF TrashInv, Stacked
  <2>4. ASSUME NEW o \in Objects, o \notin Reachable PROVE freed[o] = 1
    <3>1. o \notin Alive
      BY <1>3, <2>3, <2>4, AliveReachable
    <3>2. o \in Gone(freed)
      BY <1>3, <2>3, <3>1 DEF Alive, Dead, Dying, InChain
    <3> QED
      BY <2>4, <3>2 DEF TrashInv, Owned, Once, Gone
  <2> QED
    BY <2>2, <2>3, <2>4
<1> QED
  BY <1>1, <1>2, <1>3 DEF GarbageFreed

\* Garbage is freed, once and only garbage; all of it, and nothing waits, when the
\* outermost deallocation returns; and the C stack is as deep as the level allows.
THEOREM NoGarbageIsForgotten == TrashSpec => []GarbageFreed
<1>1. TrashSpec => []TrashInv
  BY TrashInvariant
<1>2. TrashInv => GarbageFreed
  BY InvGarbage
<1> QED
  BY <1>1, <1>2, PTL

-----------------------------------------------------------------------------
(***************************************************************************)
(* Plain integers: division with remainder, and the words                   *)
(***************************************************************************)
\* What the provers are to know of \div and %.
LEMMA Quotient ==
  ASSUME NEW w \in Nat \ {0}, NEW x \in Int
  PROVE  /\ x \div w \in Int /\ x % w \in 0 .. w - 1
         /\ x = w * (x \div w) + (x % w)
OBVIOUS

LEMMA QuotientIs ==
  ASSUME NEW w \in Nat \ {0}, NEW q \in Int, NEW r \in 0 .. w - 1
  PROVE  /\ (q * w + r) % w = r /\ (q * w + r) \div w = q
OBVIOUS

LEMMA WordSizes ==
  /\ HALF \in Nat /\ HALF >= 4 /\ HALF \div 2 \in Nat /\ HALF = 2 * (HALF \div 2)
  /\ Words = HALF * HALF /\ Words \in Nat /\ Words >= 16
  /\ Most \in Nat /\ Words = 2 * Most + 2 /\ Least = -Most - 1
  /\ Most + 1 = HALF * (HALF \div 2) /\ Most >= 7
<1> PICK h \in Nat : h = HALF \div 2 /\ HALF = 2 * h /\ h >= 2
  BY IntAssumption
<1>1. Words = 2 * (h * HALF) /\ h * HALF \in Nat /\ h * HALF >= 8
  BY IntAssumption
<1> PICK m \in Nat : m = h * HALF
  BY <1>1
<1>2. Words \div 2 = m
  BY <1>1
<1>3. Most = m - 1
  BY <1>2 DEF Most
<1> QED
  BY <1>1, <1>2, <1>3, IntAssumption DEF Least

LEMMA SignedExact ==
  ASSUME NEW x \in Int, Least <= x, x <= Most
  PROVE  Signed(x) = x
<1>1. Words \in Nat \ {0} /\ Most \in Nat /\ Words = 2 * Most + 2 /\ Least = -Most - 1
  BY WordSizes
<1>2. CASE x >= 0
  <2>1. x % Words = x
    BY <1>1, <1>2
  <2> QED
    BY <1>1, <2>1 DEF Signed, Word
<1>3. CASE x < 0
  <2>1. x % Words = x + Words
    BY <1>1, <1>3
  <2> QED
    BY <1>1, <1>3, <2>1 DEF Signed, Word
<1> QED
  BY <1>2, <1>3

LEMMA SignedOver ==
  ASSUME NEW x \in Int, Most < x, x < Words
  PROVE  Signed(x) = x - Words /\ Signed(x) < 0
<1>1. Words \in Nat \ {0} /\ Most \in Nat /\ Words = 2 * Most + 2 /\ Least = -Most - 1
  BY WordSizes
<1>2. x % Words = x
  BY <1>1
<1> QED
  BY <1>1, <1>2 DEF Signed, Word

LEMMA SignedUnder ==
  ASSUME NEW x \in Int, -Words <= x, x < Least
  PROVE  Signed(x) = x + Words /\ Signed(x) >= 0
<1>1. Words \in Nat \ {0} /\ Most \in Nat /\ Words = 2 * Most + 2 /\ Least = -Most - 1
  BY WordSizes
<1>2. x % Words = x + Words
  BY <1>1
<1> QED
  BY <1>1, <1>2 DEF Signed, Word

LEMMA SumsExact ==
  ASSUME NEW a \in Least .. Most, NEW b \in Least .. Most
  PROVE  SumsAreExact(a, b)
<1>1. Words \in Nat \ {0} /\ Most \in Nat /\ Words = 2 * Most + 2 /\ Least = -Most - 1
  BY WordSizes
<1>2. ASSUME NEW x \in Int, -Words <= x, x < Words
      PROVE  /\ Fits(x) => Signed(x) = x
             /\ x > Most => Signed(x) = x - Words /\ Signed(x) < 0
             /\ x < Least => Signed(x) = x + Words /\ Signed(x) >= 0
             /\ Fits(x) <=> Least <= x /\ x <= Most
  BY <1>1, <1>2, SignedExact, SignedOver, SignedUnder DEF Fits
<1> PICK m \in Nat : m = Most /\ Least = -m - 1 /\ Words = 2 * m + 2
  BY <1>1
<1>3. int_add(a, b) = Exactly(a + b)
  <2> PICK x \in Int : x = a + b
    BY <1>1
  <2>1. -Words <= x /\ x < Words
    BY <1>1
  <2>2. CASE Fits(x)
    BY <1>1, <1>2, <2>1, <2>2 DEF int_add, Exactly, Unlike
  <2>3. CASE x > Most
    <3>1. Signed(x) < 0 /\ ~Fits(x) /\ a >= 0 /\ b >= 0
      BY <1>1, <1>2, <2>1, <2>3
    <3> QED
      BY <3>1 DEF int_add, Exactly, Unlike
  <2>4. CASE x < Least
    <3>1. Signed(x) >= 0 /\ ~Fits(x) /\ a < 0 /\ b < 0 /\ Signed(x) \in Int
      BY <1>1, <1>2, <2>1, <2>4
    <3> QED
      BY <3>1 DEF int_add, Exactly, Unlike
  <2> QED
    BY <1>1, <1>2, <2>1, <2>2, <2>3, <2>4
<1>4. int_sub(a, b) = Exactly(a - b)
  <2> PICK x \in Int : x = a - b
    BY <1>1
  <2>1. -Words <= x /\ x < Words
    BY <1>1
  <2>2. CASE Fits(x)
    BY <1>1, <1>2, <2>1, <2>2 DEF int_sub, Exactly, Unlike
  <2>3. CASE x > Most
    <3>1. Signed(x) < 0 /\ ~Fits(x) /\ a >= 0 /\ b < 0
      BY <1>1, <1>2, <2>1, <2>3
    <3> QED
      BY <3>1 DEF int_sub, Exactly, Unlike
  <2>4. CASE x < Least
    <3>1. Signed(x) >= 0 /\ ~Fits(x) /\ a < 0 /\ b >= 0 /\ Signed(x) \in Int
      BY <1>1, <1>2, <2>1, <2>4
    <3> QED
      BY <3>1 DEF int_sub, Exactly, Unlike
  <2> QED
    BY <1>1, <1>2, <2>1, <2>2, <2>3, <2>4
<1>5. int_neg(a) = Exactly(-a)
  <2> PICK x \in Int : x = -a
    BY <1>1
  <2>1. -Words <= x /\ x < Words /\ x >= Least
    BY <1>1
  <2>2. CASE Fits(x)
    BY <1>1, <1>2, <2>1, <2>2 DEF int_neg, Exactly
  <2>3. CASE x > Most
    <3>1. Signed(x) < 0 /\ ~Fits(x) /\ a < 0
      BY <1>1, <1>2, <2>1, <2>3
    <3> QED
      BY <3>1 DEF int_neg, Exactly
  <2> QED
    BY <1>1, <1>2, <2>1, <2>2, <2>3
<1> QED
  BY <1>3, <1>4, <1>5 DEF SumsAreExact

(***************************************************************************)
(* Products                                                                 *)
(***************************************************************************)
LEMMA Grows ==
  ASSUME NEW x \in Nat, NEW y \in Int, NEW z \in Int, y <= z
  PROVE  x * y <= x * z /\ y * x <= z * x
OBVIOUS

LEMMA Halves ==
  ASSUME NEW a \in Nat, a <= Most
  PROVE  /\ High(a) \in Nat /\ a % HALF \in 0 .. HALF - 1
         /\ a = HALF * High(a) + (a % HALF)
         /\ High(a) < HALF \div 2
         /\ High(a) = 0 <=> a < HALF
         /\ High(a) # 0 => a >= HALF
<1> PICK h \in Nat \ {0} : h = HALF
  BY WordSizes
<1>0. a \div h \in Int /\ a % h \in 0 .. h - 1 /\ a = h * (a \div h) + (a % h)
  BY Quotient
<1> PICK q \in Int : q = a \div h
  BY <1>0
<1> PICK r \in 0 .. h - 1 : r = a % h
  BY <1>0
<1>1. a = h * q + r
  BY <1>0
<1>2. q >= 0
  <2> SUFFICES ASSUME q <= -1 PROVE FALSE
    OBVIOUS
  <2>1. h * q <= h * (-1)
    BY Grows
  <2> QED
    BY <1>1, <2>1
<1> PICK k \in Nat : k = h \div 2 /\ Most + 1 = h * k
  BY WordSizes
<1>3. q < k
  <2> SUFFICES ASSUME q >= k PROVE FALSE
    OBVIOUS
  <2>1. h * k <= h * q
    BY Grows
  <2> QED
    BY <1>1, <2>1, WordSizes
<1>4. q = 0 <=> a < h
  <2>1. q >= 1 => h * 1 <= h * q
    BY Grows
  <2> QED
    BY <1>1, <1>2, <2>1
<1>5. q \in Nat
  BY <1>2
<1>6. High(a) = q /\ HALF = h
  BY DEF High
<1>7. q # 0 => a >= h
  BY <1>4
<1> QED
  BY <1>1, <1>3, <1>4, <1>5, <1>6, <1>7

LEMMA HighOf ==
  ASSUME NEW a \in Least .. Most
  PROVE  High(a) = 0 <=> 0 <= a /\ a < HALF
<1>1. CASE a >= 0
  <2>1. a \in Nat /\ a <= Most
    BY <1>1, WordSizes
  <2>2. High(a) = 0 <=> a < HALF
    BY <2>1, Halves
  <2> QED
    BY <1>1, <2>2
<1>2. CASE a < 0
  <2> PICK h \in Nat \ {0} : h = HALF
    BY WordSizes
  <2>1. a \in Int
    BY WordSizes
  <2>2. a \div h \in Int /\ a % h \in 0 .. h - 1 /\ a = h * (a \div h) + (a % h)
    BY <2>1, Quotient
  <2>3. a \div h # 0
    BY <1>2, <2>2
  <2> QED
    BY <1>2, <2>3 DEF High
<1> QED
  BY <1>1, <1>2, WordSizes

LEMMA ExactlyNat ==
  ASSUME NEW x \in Nat
  PROVE  Exactly(x) = IF x <= Most THEN <<x>> ELSE <<>>
BY WordSizes DEF Exactly, Fits

LEMMA ProductExact ==
  ASSUME NEW a \in Nat, NEW b \in Nat, a < HALF, b < HALF
  PROVE  Product(a, b) = Exactly(a * b)
<1> PICK h \in Nat : h = HALF /\ h >= 4 /\ Words = h * h
  BY WordSizes
<1> PICK x \in Nat : x = a * b
  OBVIOUS
<1>1. x < Words
  <2>1. a * b <= a * h
    BY Grows
  <2>2. a * h <= (h - 1) * h
    BY Grows
  <2>3. (h - 1) * h = h * h - h
    OBVIOUS
  <2> QED
    BY <2>1, <2>2, <2>3
<1>2. CASE x <= Most
  <2>1. Signed(x) = x
    BY <1>2, SignedExact, WordSizes
  <2> QED
    BY <1>2, <2>1, ExactlyNat DEF Product
<1>3. CASE x > Most
  <2>1. Signed(x) < 0
    BY <1>1, <1>3, SignedOver, WordSizes
  <2> QED
    BY <1>3, <2>1, ExactlyNat, WordSizes DEF Product
<1> QED
  BY <1>2, <1>3, WordSizes

LEMMA LongTimesShortExact ==
  ASSUME NEW a \in Nat, NEW b \in Nat, a <= Most, b < HALF
  PROVE  LongTimesShort(a, b) = Exactly(a * b)
<1> PICK h \in Nat : h = HALF /\ h >= 4
  BY WordSizes
<1> PICK k \in Nat : k = h \div 2 /\ h = 2 * k
  BY WordSizes
<1> PICK m \in Nat : m = Most
  BY WordSizes
<1>0. m + 1 = h * k /\ Words = 2 * m + 2 /\ Least = -m - 1
  BY WordSizes
<1>h. High(a) \in Nat /\ a % h \in 0 .. h - 1 /\ a = h * High(a) + (a % h) /\ High(a) < k
  BY Halves
<1> PICK q \in Nat : q = High(a)
  BY <1>h
<1> PICK r \in 0 .. h - 1 : r = a % h
  BY <1>h
<1> PICK y \in Nat : y = q * b
  OBVIOUS
<1> PICK z \in Nat : z = r * b
  OBVIOUS
<1> PICK p \in Nat : p = h * y
  OBVIOUS
<1>1. y <= m
  <2>1. q * b <= q * h
    BY Grows
  <2>2. h * q <= h * k
    BY <1>h, Grows
  <2>3. h * q # h * k
    <3>1. h * q <= h * (k - 1)
      BY <1>h, Grows
    <3>2. h * (k - 1) = h * k - h
      OBVIOUS
    <3> QED
      BY <3>1, <3>2
  <2> QED
    BY <1>0, <2>1, <2>2, <2>3
<1>2. Signed(y) = y
  BY <1>0, <1>1, SignedExact
<1>3. Product(r, b) = Exactly(z)
  BY ProductExact
<1>4. a * b = p + z
  <2>1. (h * q + r) * b = h * (q * b) + r * b
    OBVIOUS
  <2> QED
    BY <1>h, <2>1
<1>5. Exactly(z) = IF z <= m THEN <<z>> ELSE <<>>
  BY ExactlyNat
<1> PICK x \in Nat : x = p + z
  OBVIOUS
<1>6. Exactly(a * b) = IF x <= m THEN <<x>> ELSE <<>>
  <2>1. Exactly(x) = IF x <= m THEN <<x>> ELSE <<>>
    BY ExactlyNat
  <2> QED
    BY <1>4, <2>1
<1>7. LongTimesShort(a, b) = IF y >= k \/ Exactly(z) = <<>> THEN <<>>
                             ELSE IF Signed(Exactly(z)[1] + y * h) < 0 THEN <<>>
                             ELSE <<Signed(Exactly(z)[1] + y * h)>>
  BY <1>2, <1>3 DEF LongTimesShort, HighFits
<1>8. CASE y >= k
  <2>1. h * k <= h * y
    BY <1>8, Grows
  <2>2. x > m
    BY <1>0, <2>1
  <2>3. LongTimesShort(a, b) = <<>>
    BY <1>7, <1>8
  <2>4. Exactly(a * b) = <<>>
    BY <1>6, <2>2
  <2> QED
    BY <2>3, <2>4
<1>9. CASE y < k /\ z > m
  <2>1. x > m
    BY <1>9
  <2>0. Exactly(z) = <<>>
    BY <1>5, <1>9
  <2>2. LongTimesShort(a, b) = <<>>
    BY <1>7, <2>0
  <2>3. Exactly(a * b) = <<>>
    BY <1>6, <2>1
  <2> QED
    BY <2>2, <2>3
<1>10. CASE y < k /\ z <= m
  <2>1. p <= m
    <3>1. h * y <= h * (k - 1)
      BY <1>10, Grows
    <3>2. h * (k - 1) = h * k - h
      OBVIOUS
    <3> QED
      BY <1>0, <3>1, <3>2
  <2>2. Exactly(z) = <<z>>
    BY <1>5, <1>10
  <2>3. Exactly(z) # <<>> /\ Exactly(z)[1] = z
    <3>1. <<z>> # <<>> /\ <<z>>[1] = z
      OBVIOUS
    <3> QED
      BY <2>2, <3>1, Zenon
  <2>4. z + y * h = x
    OBVIOUS
  <2>5. ~(y >= k)
    BY <1>10
  <2>6. LongTimesShort(a, b) = IF Signed(x) < 0 THEN <<>> ELSE <<Signed(x)>>
    BY <1>7, <2>3, <2>4, <2>5
  <2>7. CASE x <= m
    <3>1. Signed(x) = x
      BY <1>0, <2>7, SignedExact
    <3>2. LongTimesShort(a, b) = <<x>>
      BY <2>6, <3>1
    <3> QED
      BY <1>6, <2>7, <3>2
  <2>8. CASE x > m
    <3>1. Signed(x) < 0
      BY <1>0, <1>10, <2>1, <2>8, SignedOver
    <3>2. LongTimesShort(a, b) = <<>>
      BY <2>6, <3>1
    <3>3. Exactly(a * b) = <<>>
      BY <1>6, <2>8
    <3> QED
      BY <3>2, <3>3
  <2> QED
    BY <2>7, <2>8
<1> QED
  BY <1>8, <1>9, <1>10

\* What is to come of a product that is not in the range.
LEMMA TooLarge ==
  ASSUME NEW x \in Int, x > Most \/ x < Least
  PROVE  Exactly(x) = <<>>
<1>1. ~Fits(x)
  BY WordSizes DEF Fits
<1> QED
  BY <1>1 DEF Exactly

LEMMA InRange ==
  ASSUME NEW x \in Int, Least <= x, x <= Most
  PROVE  Exactly(x) = <<x>> /\ Signed(x) = x
<1>1. Fits(x)
  BY WordSizes DEF Fits
<1> QED
  BY <1>1, SignedExact DEF Exactly

\* A product from the product of the absolute values.
LEMMA SignOfProduct ==
  ASSUME NEW a \in Int, NEW b \in Int, NEW m \in Nat, NEW n \in Nat,
         m = IF a < 0 THEN -a ELSE a, n = IF b < 0 THEN -b ELSE b
  PROVE  a * b = IF (a < 0) # (b < 0) THEN -(m * n) ELSE m * n
<1>1. (-m) * n = -(m * n) /\ m * (-n) = -(m * n) /\ (-m) * (-n) = m * n
  OBVIOUS
<1>2. CASE a < 0 /\ b < 0
  BY <1>1, <1>2
<1>3. CASE a < 0 /\ ~(b < 0)
  BY <1>1, <1>3
<1>4. CASE ~(a < 0) /\ b < 0
  BY <1>1, <1>4
<1>5. CASE ~(a < 0) /\ ~(b < 0)
  BY <1>5
<1> QED
  BY <1>2, <1>3, <1>4, <1>5

\* The absolute value of the least integer is the least integer.
LEMMA AbsoluteValue ==
  ASSUME NEW a \in Least .. Most
  PROVE  /\ a = Least => Signed(IF a < 0 THEN -a ELSE a) = Least /\ Least < 0
         /\ a # Least => /\ Signed(IF a < 0 THEN -a ELSE a) = IF a < 0 THEN -a ELSE a
                         /\ (IF a < 0 THEN -a ELSE a) \in 0 .. Most
<1> PICK m \in Nat : m = Most /\ Least = -m - 1 /\ Words = 2 * m + 2
  BY WordSizes
<1>1. CASE a = Least
  <2>1. Signed(m + 1) = m + 1 - Words
    BY SignedOver
  <2> QED
    BY <1>1, <2>1
<1>2. CASE a # Least
  <2> PICK x \in 0 .. m : x = IF a < 0 THEN -a ELSE a
    BY <1>2
  <2>1. Signed(x) = x
    BY SignedExact
  <2> QED
    BY <1>2, <2>1
<1> QED
  BY <1>1, <1>2

\* The product of absolute values, one of which is a half of a word.
LEMMA ShortFactor ==
  ASSUME NEW m \in 0 .. Most, NEW n \in 0 .. Most, High(m) = 0 \/ High(n) = 0
  PROVE  (IF High(m) = 0 /\ High(n) = 0 THEN Product(m, n)
          ELSE IF m < n THEN LongTimesShort(n, m) ELSE LongTimesShort(m, n)) = Exactly(m * n)
<1>1. m \in Nat /\ n \in Nat /\ m <= Most /\ n <= Most
  BY WordSizes
<1>2. (High(m) = 0 <=> m < HALF) /\ (High(n) = 0 <=> n < HALF) /\ HALF \in Nat
  BY <1>1, Halves, WordSizes
<1>3. CASE High(m) = 0 /\ High(n) = 0
  BY <1>1, <1>2, <1>3, ProductExact
<1>4. CASE ~(High(m) = 0 /\ High(n) = 0) /\ m < n
  <2>1. m < HALF
    BY <1>1, <1>2, <1>4
  <2>2. LongTimesShort(n, m) = Exactly(n * m) /\ n * m = m * n
    BY <1>1, <2>1, LongTimesShortExact
  <2> QED
    BY <1>4, <2>2
<1>5. CASE ~(High(m) = 0 /\ High(n) = 0) /\ ~(m < n)
  <2>1. n < HALF
    BY <1>1, <1>2, <1>5
  <2>2. LongTimesShort(m, n) = Exactly(m * n)
    BY <1>1, <2>1, LongTimesShortExact
  <2> QED
    BY <1>5, <2>2
<1> QED
  BY <1>3, <1>4, <1>5

LEMMA ProductsExact ==
  ASSUME NEW a \in Least .. Most, NEW b \in Least .. Most
  PROVE  ProductsAreExact(a, b)
<1> PICK k \in Nat : k = Most /\ Least = -k - 1 /\ Words = 2 * k + 2 /\ k >= 7
  BY WordSizes
<1>0. a \in Int /\ b \in Int
  OBVIOUS
<1>1. CASE High(a) = 0 /\ High(b) = 0
  <2>1. a \in Nat /\ b \in Nat /\ a < HALF /\ b < HALF
    BY <1>1, HighOf
  <2>2. int_mul(a, b) = Exactly(a * b)
    BY <1>1, <2>1, ProductExact DEF int_mul
  <2>3. a * b >= 0
    BY <2>1
  <2>4. a * b # Least
    BY <2>3
  <2> QED
    BY <2>2, <2>4 DEF ProductsAreExact
<1>2. CASE ~(High(a) = 0 /\ High(b) = 0) /\ a = Least
  <2>1. Signed(IF a < 0 THEN -a ELSE a) < 0
    BY <1>2, AbsoluteValue
  <2>2. int_mul(a, b) = IF b \in {0, 1} THEN <<Signed(a * b)>> ELSE <<>>
    BY <1>2, <2>1 DEF int_mul
  <2>3. CASE b = 0
    <3>1. a * b = 0 /\ a * b # Least
      BY <2>3
    <3>2. Exactly(0) = <<0>> /\ Signed(0) = 0
      BY InRange
    <3> QED
      BY <2>2, <2>3, <3>1, <3>2 DEF ProductsAreExact
  <2>4. CASE b = 1
    <3>1. a * b = a
      BY <2>4
    <3>2. Exactly(a) = <<a>> /\ Signed(a) = a
      BY InRange
    <3> QED
      BY <2>2, <2>4, <3>1, <3>2 DEF ProductsAreExact
  <2>5. CASE b > 1 \/ b < 0
    <3>1. a * b < Least \/ a * b > k
      <4>1. ASSUME b > 1 PROVE a * b < Least
        <5>1. (k + 1) * 2 <= (k + 1) * b
          BY <4>1, Grows
        <5>2. a * b = -((k + 1) * b)
          BY <1>2
        <5> QED
          BY <5>1, <5>2
      <4>2. ASSUME b < 0 PROVE a * b > k
        <5>1. (k + 1) * 1 <= (k + 1) * (-b)
          BY <4>2, Grows
        <5>2. a * b = (k + 1) * (-b)
          BY <1>2
        <5> QED
          BY <5>1, <5>2
      <4> QED
        BY <2>5, <4>1, <4>2
    <3>2. Exactly(a * b) = <<>>
      BY <3>1, TooLarge
    <3>3. int_mul(a, b) = <<>>
      BY <2>2, <2>5
    <3> QED
      BY <3>2, <3>3 DEF ProductsAreExact
  <2> QED
    BY <2>3, <2>4, <2>5
<1>3. CASE ~(High(a) = 0 /\ High(b) = 0) /\ a # Least /\ b = Least
  <2> PICK m \in 0 .. k : m = IF a < 0 THEN -a ELSE a
    BY <1>3
  <2>1. Signed(IF a < 0 THEN -a ELSE a) = m /\ Signed(IF b < 0 THEN -b ELSE b) = Least
    BY <1>3, AbsoluteValue
  <2>2. int_mul(a, b) = IF m = 0 \/ (m = 1 /\ a = 1) THEN <<Signed(m * Least)>> ELSE <<>>
    BY <1>3, <2>1 DEF int_mul
  <2>3. CASE a = 0
    <3>1. a * b = 0 /\ m * Least = 0 /\ a * b # Least /\ m = 0
      BY <2>3
    <3>2. Exactly(0) = <<0>> /\ Signed(0) = 0
      BY InRange
    <3> QED
      BY <2>2, <3>1, <3>2 DEF ProductsAreExact
  <2>4. CASE a = 1
    <3>1. a * b = Least /\ m * Least = Least /\ m = 1
      BY <1>3, <2>4
    <3>2. Exactly(Least) = <<Least>> /\ Signed(Least) = Least
      BY InRange
    <3> QED
      BY <2>2, <2>4, <3>1, <3>2 DEF ProductsAreExact
  <2>5. CASE a > 1 \/ a < 0
    <3>1. a * b < Least \/ a * b > k
      <4>1. ASSUME a > 1 PROVE a * b < Least
        <5>1. (k + 1) * 2 <= (k + 1) * a
          BY <4>1, Grows
        <5>2. a * b = -((k + 1) * a)
          BY <1>3
        <5> QED
          BY <5>1, <5>2
      <4>2. ASSUME a < 0 PROVE a * b > k
        <5>1. (k + 1) * 1 <= (k + 1) * (-a)
          BY <4>2, Grows
        <5>2. a * b = (k + 1) * (-a)
          BY <1>3
        <5> QED
          BY <5>1, <5>2
      <4> QED
        BY <2>5, <4>1, <4>2
    <3>2. Exactly(a * b) = <<>>
      BY <3>1, TooLarge
    <3>3. ~(m = 0 \/ (m = 1 /\ a = 1))
      BY <2>5
    <3> QED
      BY <2>2, <3>2, <3>3 DEF ProductsAreExact
  <2> QED
    BY <2>3, <2>4, <2>5
<1>4. CASE ~(High(a) = 0 /\ High(b) = 0) /\ a # Least /\ b # Least
  <2> PICK m \in 0 .. k : m = IF a < 0 THEN -a ELSE a
    BY <1>4
  <2> PICK n \in 0 .. k : n = IF b < 0 THEN -b ELSE b
    BY <1>4
  <2> PICK p \in Nat : p = m * n
    OBVIOUS
  <2>1. Signed(IF a < 0 THEN -a ELSE a) = m /\ Signed(IF b < 0 THEN -b ELSE b) = n
    BY <1>4, AbsoluteValue
  <2>2. a * b = IF (a < 0) # (b < 0) THEN -p ELSE p
    BY SignOfProduct
  <2> DEFINE x == IF High(m) = 0 /\ High(n) = 0 THEN Product(m, n)
                  ELSE IF m < n THEN LongTimesShort(n, m) ELSE LongTimesShort(m, n)
  <2>3. int_mul(a, b) =
          IF (High(m) # 0 /\ High(n) # 0) \/ x = <<>> THEN <<>>
          ELSE <<Signed(IF (a < 0) # (b < 0) THEN -x[1] ELSE x[1])>>
    BY <1>4, <2>1 DEF int_mul
  <2>4. CASE High(m) # 0 /\ High(n) # 0
    <3>0. m \in Nat /\ m <= Most /\ n \in Nat /\ n <= Most
      OBVIOUS
    <3>1. m >= HALF /\ n >= HALF /\ HALF \in Nat /\ Words = HALF * HALF
      <4>1. m >= HALF /\ n >= HALF
        BY <2>4, <3>0, Halves
      <4> QED
        BY <4>1, WordSizes
    <3>2. HALF * HALF <= m * HALF /\ m * HALF <= m * n
      BY <3>1, Grows
    <3>3. p > k + 1
      BY <3>1, <3>2
    <3>4. a * b < Least \/ a * b > k
      BY <2>2, <3>3
    <3>5. Exactly(a * b) = <<>>
      BY <3>4, TooLarge
    <3> QED
      BY <2>3, <2>4, <3>5 DEF ProductsAreExact
  <2>5. CASE ~(High(m) # 0 /\ High(n) # 0)
    <3>1. x = Exactly(p)
      BY <2>5, ShortFactor
    <3> HIDE DEF x
    <3>2. CASE p <= k
      <4>1. x = <<p>>
        BY <3>1, <3>2, InRange
      <4>2. x # <<>> /\ x[1] = p
        BY <4>1
      <4>3. int_mul(a, b) = <<Signed(a * b)>>
        BY <2>2, <2>3, <2>5, <4>2
      <4>4. -k <= a * b /\ a * b <= k
        BY <2>2, <3>2
      <4>5. Exactly(a * b) = <<a * b>> /\ Signed(a * b) = a * b /\ a * b # Least
        BY <4>4, InRange
      <4> QED
        BY <4>3, <4>5 DEF ProductsAreExact
    <3>3. CASE p > k
      <4>1. x = <<>>
        BY <3>1, <3>3, TooLarge
      <4>2. int_mul(a, b) = <<>>
        BY <2>3, <4>1
      <4>3. 1 \notin {a, b}
        BY <3>3
      <4>4. CASE a * b = Least
        BY <4>2, <4>3, <4>4 DEF ProductsAreExact
      <4>5. CASE a * b # Least
        <5>1. a * b < Least \/ a * b > k
          BY <2>2, <3>3, <4>5
        <5>2. Exactly(a * b) = <<>>
          BY <5>1, TooLarge
        <5> QED
          BY <4>2, <4>5, <5>2 DEF ProductsAreExact
      <4> QED
        BY <4>4, <4>5
    <3> QED
      BY <3>2, <3>3
  <2> QED
    BY <2>4, <2>5
<1> QED
  BY <1>1, <1>2, <1>3, <1>4

(***************************************************************************)
(* Quotients                                                                *)
(***************************************************************************)
\* The division of a negative number by a positive one.
LEMMA NegativeQuotient ==
  ASSUME NEW n \in Nat \ {0}, NEW m \in Nat
  PROVE  (-m) \div n = IF m % n = 0 THEN -(m \div n) ELSE -(m \div n) - 1
<1>1. m \div n \in Int /\ m % n \in 0 .. n - 1 /\ m = n * (m \div n) + (m % n)
  BY Quotient
<1> PICK q \in Int : q = m \div n
  BY <1>1
<1> PICK r \in 0 .. n - 1 : r = m % n
  BY <1>1
<1>2. CASE r = 0
  <2>1. -m = (-q) * n + 0
    BY <1>1, <1>2
  <2>2. ((-q) * n + 0) \div n = -q
    <3>1. -q \in Int /\ 0 \in 0 .. n - 1
      OBVIOUS
    <3> QED
      BY <3>1, QuotientIs
  <2>3. (-m) \div n = -q
    BY <2>1, <2>2
  <2> QED
    BY <1>2, <2>3
<1>3. CASE r # 0
  <2>1. -m = (-q - 1) * n + (n - r)
    BY <1>1
  <2>2. n - r \in 0 .. n - 1 /\ -q - 1 \in Int
    BY <1>3
  <2>3. ((-q - 1) * n + (n - r)) \div n = -q - 1
    BY <2>2, QuotientIs
  <2> QED
    BY <1>3, <2>1, <2>3
<1> QED
  BY <1>2, <1>3

LEMMA QuotientsExact ==
  ASSUME NEW x \in Least .. Most, NEW y \in Least .. Most
  PROVE  QuotientsAreExact(x, y)
<1> SUFFICES ASSUME x # Least
             PROVE  i_divmod(x, y) = IF y = 0 THEN <<>> ELSE <<Floor(x, y), Modulo(x, y)>>
  BY DEF QuotientsAreExact
<1> PICK k \in Nat : k = Most /\ Least = -k - 1 /\ Words = 2 * k + 2 /\ k >= 7
  BY WordSizes
<1> PICK m \in 0 .. k : m = IF x < 0 THEN -x ELSE x
  OBVIOUS
<1>1. (IF x < 0 THEN Signed(-x) ELSE x) = m
  BY InRange
<1>2. CASE y = 0
  BY <1>2 DEF i_divmod
<1> DEFINE n == IF y < 0 THEN Signed(-y) ELSE y
           div == IF (x < 0) # (y < 0) THEN Signed(-Cut(m, n)) ELSE Cut(m, n)
           mod == Signed(x - div * y)
<1>3. ASSUME y # 0
      PROVE  i_divmod(x, y) = IF (mod < 0 /\ y > 0) \/ (mod > 0 /\ y < 0)
                              THEN <<Signed(div - 1), Signed(mod + y)>> ELSE <<div, mod>>
  BY <1>1, <1>3 DEF i_divmod
<1>4. CASE y = Least
  <2>1. n = Least
    <3>1. Signed(k + 1) = k + 1 - Words
      BY SignedOver
    <3> QED
      BY <1>4, <3>1
  <2>2. Cut(m, n) = 0
    <3>1. m = 0 * (k + 1) + m /\ m \in 0 .. (k + 1) - 1 /\ k + 1 \in Nat \ {0}
      OBVIOUS
    <3>2. m \div (k + 1) = 0
      BY <3>1, QuotientIs
    <3>3. Signed(0) = 0
      BY InRange
    <3> QED
      BY <2>1, <3>2, <3>3 DEF Cut
  <2>3. div = 0
    <3>1. Signed(0) = 0
      BY InRange
    <3> QED
      BY <2>2, <3>1
  <2> HIDE DEF div
  <2>4. mod = x
    BY <2>3, InRange
  <2> HIDE DEF mod
  <2>5. CASE x > 0
    <3>1. Signed(-1) = -1 /\ Signed(x + Least) = x + Least
      BY <2>5, InRange
    <3>2. i_divmod(x, y) = <<-1, x + Least>>
      BY <1>3, <1>4, <2>3, <2>4, <2>5, <3>1
    <3>3. Floor(x, y) = -1
      <4>1. -x = (-1) * (k + 1) + (k + 1 - x) /\ k + 1 - x \in 0 .. (k + 1) - 1
        BY <2>5
      <4>2. (-x) \div (k + 1) = -1
        BY <4>1, QuotientIs
      <4> QED
        BY <1>4, <4>2 DEF Floor
    <3> QED
      BY <1>4, <3>2, <3>3 DEF Modulo
  <2>6. CASE x <= 0
    <3>1. i_divmod(x, y) = <<0, x>>
      BY <1>3, <1>4, <2>3, <2>4, <2>6
    <3>2. Floor(x, y) = 0
      <4>1. -x = 0 * (k + 1) + (-x) /\ -x \in 0 .. (k + 1) - 1
        BY <2>6
      <4>2. (-x) \div (k + 1) = 0
        BY <4>1, QuotientIs
      <4> QED
        BY <1>4, <4>2 DEF Floor
    <3> QED
      BY <1>4, <3>1, <3>2 DEF Modulo
  <2> QED
    BY <2>5, <2>6
<1>5. CASE y # 0 /\ y # Least
  <2> PICK d \in 1 .. k : d = IF y < 0 THEN -y ELSE y
    BY <1>5
  <2>1. n = d
    BY <1>5, InRange
  <2> HIDE DEF n
  <2>0. d \in Nat \ {0} /\ m \in Int
    OBVIOUS
  <2>2. m \div d \in Int /\ m % d \in 0 .. d - 1 /\ m = d * (m \div d) + (m % d)
    BY <2>0, Quotient
  <2> PICK q \in Int : q = m \div d
    BY <2>2
  <2> PICK r \in 0 .. d - 1 : r = m % d
    BY <2>2
  <2>3. m = d * q + r
    BY <2>2
  <2>4. 0 <= q /\ q <= k
    <3>1. q >= 0
      <4> SUFFICES ASSUME q <= -1 PROVE FALSE
        OBVIOUS
      <4>1. d * q <= d * (-1)
        BY Grows
      <4> QED
        BY <2>3, <4>1
    <3>2. q <= d * q
      <4>1. q * 1 <= q * d
        BY <3>1, Grows
      <4> QED
        BY <4>1
    <3> QED
      BY <2>3, <3>1, <3>2
  <2>5. Cut(m, n) = q
    <3>1. Signed(q) = q
      BY <2>4, InRange
    <3> QED
      BY <2>1, <3>1 DEF Cut
  <2>6. div = IF (x < 0) # (y < 0) THEN -q ELSE q
    <3>1. Signed(-q) = -q
      BY <2>4, InRange
    <3> QED
      BY <2>5, <3>1
  <2> HIDE DEF div
  <2> PICK p \in Int : p = d * q
    OBVIOUS
  <2>7. x - div * y = IF x < 0 THEN -r ELSE r
    <3>1. div * y = IF x < 0 THEN -p ELSE p
      <4>1. q * d = p /\ (-q) * d = -p /\ q * (-d) = -p /\ (-q) * (-d) = p
        OBVIOUS
      <4> QED
        BY <1>5, <2>6, <4>1
    <3> QED
      BY <2>3, <3>1
  <2>8. mod = IF x < 0 THEN -r ELSE r
    <3>1. Signed(r) = r /\ Signed(-r) = -r
      BY InRange
    <3> QED
      BY <2>7, <3>1
  <2> HIDE DEF mod
  <2>9. (-m) \div d = IF r = 0 THEN -q ELSE -q - 1
    <3>1. m \in Nat
      OBVIOUS
    <3>2. (-m) \div d = IF m % d = 0 THEN -(m \div d) ELSE -(m \div d) - 1
      BY <2>0, <3>1, NegativeQuotient
    <3> QED
      BY <3>2
  <2>10. CASE ~((x < 0) # (y < 0))
    <3>1. ~((mod < 0 /\ y > 0) \/ (mod > 0 /\ y < 0))
      BY <2>8, <2>10
    <3>2. i_divmod(x, y) = <<q, mod>>
      BY <1>3, <1>5, <2>6, <2>10, <3>1
    <3>3. Floor(x, y) = q
      BY <1>5, <2>10 DEF Floor
    <3>4. Modulo(x, y) = mod
      BY <2>6, <2>7, <2>8, <2>10, <3>3 DEF Modulo
    <3> QED
      BY <1>5, <3>2, <3>3, <3>4
  <2>11. CASE ((x < 0) # (y < 0)) /\ r = 0
    <3>1. ~((mod < 0 /\ y > 0) \/ (mod > 0 /\ y < 0))
      BY <2>8, <2>11
    <3>2. i_divmod(x, y) = <<-q, mod>>
      BY <1>3, <1>5, <2>6, <2>11, <3>1
    <3>3. Floor(x, y) = -q
      BY <1>5, <2>9, <2>11 DEF Floor
    <3>4. Modulo(x, y) = mod
      BY <2>6, <2>7, <2>8, <2>11, <3>3 DEF Modulo
    <3> QED
      BY <1>5, <3>2, <3>3, <3>4
  <2>12. CASE ((x < 0) # (y < 0)) /\ r # 0
    <3>1. (mod < 0 /\ y > 0) \/ (mod > 0 /\ y < 0)
      BY <1>5, <2>8, <2>12
    <3>2. q < k
      <4>1. CASE d = 1
        BY <2>12, <4>1
      <4>2. CASE d >= 2
        <5>1. q * 2 <= q * d
          BY <2>4, <4>2, Grows
        <5> QED
          BY <2>3, <2>4, <5>1
      <4> QED
        BY <4>1, <4>2
    <3>3. Signed(-q - 1) = -q - 1
      BY <2>4, <3>2, InRange
    <3>4. Signed(mod + y) = mod + y
      BY <1>5, <2>8, <2>12, InRange
    <3>5. i_divmod(x, y) = <<-q - 1, mod + y>>
      BY <1>3, <1>5, <2>6, <2>12, <3>1, <3>3, <3>4
    <3>6. Floor(x, y) = -q - 1
      BY <1>5, <2>9, <2>12 DEF Floor
    <3>7. Modulo(x, y) = mod + y
      <4>1. y * (-q - 1) = div * y - y
        BY <2>6, <2>12
      <4> QED
        BY <2>6, <2>7, <2>8, <3>6, <4>1 DEF Modulo
    <3> QED
      BY <1>5, <3>5, <3>6, <3>7
  <2> QED
    BY <2>10, <2>11, <2>12
<1> QED
  BY <1>2, <1>4, <1>5

\* A sum, a difference, a product or a quotient of plain integers is the exact one, and
\* an exception tells where that does not fit a C long (IntsAreExact says it of words of
\* 8 bits).
THEOREM PlainIntegersAreExact ==
  \A a, b \in Least .. Most :
    SumsAreExact(a, b) /\ ProductsAreExact(a, b) /\ QuotientsAreExact(a, b)
BY SumsExact, ProductsExact, QuotientsExact

-----------------------------------------------------------------------------

(***************************************************************************)
(* Pending calls                                                            *)
(***************************************************************************)
\* What the interrupted handlers of lower levels are doing: a handler that got past
\* the test of busy while one is inside does not exist.
OneInside ==
  \A j, k \in Levels :
    /\ pc[j] \in Critical => addBusy
    /\ pc[j] \in Critical /\ j < k => pc[k] \in {"idle", "test"}

\* busy is set exactly while calls are made.
BusyMaking ==
  main \in {"run", "make", "again"} => ~makeBusy

\* A handler that has a call to store, and only such, holds one.
HoldsCall ==
  \A k \in Levels : pc[k] \in {"test", "claim", "full", "store", "advance"} => arg[k] \in Calls

Inv == TypeOK /\ OneInside /\ BusyMaking /\ HoldsCall /\ NoneForgotten

LEMMA AfterSlot == \A s \in Slots : After(s) \in Slots
BY PendingAssumption DEF After, Slots

LEMMA InvInit == Init => Inv
<1> SUFFICES ASSUME Init PROVE Inv
  OBVIOUS
<1>1. 0 \in Slots
  BY PendingAssumption DEF Slots
<1>2. TypeOK
  <2>1. /\ pendingcalls \in [Slots -> Calls \cup {None}]
        /\ pc \in [Levels -> AddSteps] /\ arg \in [Levels -> Calls \cup {None}]
    BY DEF Init, AddSteps
  <2>2. interrupted \in 0 .. 2
    BY DEF Init
  <2> QED BY <1>1, <2>1, <2>2 DEF Init, TypeOK
<1>3. OneInside /\ BusyMaking /\ HoldsCall /\ NoneForgotten
  BY DEF Init, OneInside, BusyMaking, HoldsCall, NoneForgotten, Critical
<1> QED BY <1>2, <1>3 DEF Inv

-----------------------------------------------------------------------------
(* The handlers *)

LEMMA ArriveInv == ASSUME Inv, Arrive PROVE Inv'
<1> PICK k \in Levels, c \in Calls : Register(k, c) \/ Press(k, c) \/ LastPress(k, c)
  BY DEF Arrive
<1>1. CASE Register(k, c) \/ Press(k, c)
  <2>a. /\ pc[k] = "idle" /\ OnTop(k)
        /\ pc' = [pc EXCEPT ![k] = "test"] /\ arg' = [arg EXCEPT ![k] = c]
        /\ fresh' = fresh \ {c}
        /\ UNCHANGED <<ring, things_to_do, addBusy, makeBusy, main, func>>
        /\ interrupted' = interrupted \/ (interrupted < 2 /\ interrupted' = interrupted + 1)
    BY <1>1 DEF Register, Press, Enter, GoTo
  <2>1. TypeOK'
    BY <2>a DEF Inv, TypeOK, AddSteps, ring
  <2>2. OneInside' /\ HoldsCall'
    BY <2>a DEF Inv, TypeOK, OneInside, HoldsCall, Critical, AddSteps
  <2>3. BusyMaking' /\ NoneForgotten'
    BY <2>a DEF Inv, TypeOK, BusyMaking, NoneForgotten, Running, Looking, ring, AddSteps
  <2> QED BY <2>1, <2>2, <2>3 DEF Inv
<1>2. CASE LastPress(k, c)
  BY <1>2 DEF LastPress, Inv, TypeOK, OneInside, BusyMaking, HoldsCall, NoneForgotten,
    Running, ring, handlers
<1> QED BY <1>1, <1>2

LEMMA AddInv == ASSUME NEW k \in Levels, Inv, Add(k) PROVE Inv'
<1>1. CASE TestBusy(k)
  <2>1. TypeOK'
    BY <1>1 DEF Inv, TypeOK, TestBusy, Refused, AddSteps, ring
  <2>2. OneInside' /\ HoldsCall'
    BY <1>1 DEF Inv, TypeOK, TestBusy, Refused, OneInside, HoldsCall, AddSteps, Critical, Levels
  <2>3. BusyMaking' /\ NoneForgotten'
    BY <1>1 DEF Inv, TypeOK, TestBusy, Refused, BusyMaking, NoneForgotten, Running, Looking, ring
  <2> QED BY <2>1, <2>2, <2>3 DEF Inv
<1>2. CASE Claim(k)
  <2>1. TypeOK'
    BY <1>2 DEF Inv, TypeOK, Claim, GoTo, AddSteps, Critical, ring
  <2>2. OneInside' /\ HoldsCall'
    BY <1>2 DEF Inv, TypeOK, Claim, GoTo, OnTop, OneInside, HoldsCall, AddSteps, Critical, Levels
  <2>3. BusyMaking' /\ NoneForgotten'
    BY <1>2 DEF Inv, TypeOK, Claim, GoTo, BusyMaking, NoneForgotten, Running, Looking, ring
  <2> QED BY <2>1, <2>2, <2>3 DEF Inv
<1>3. CASE TestFull(k)
  <2>1. TypeOK'
    BY <1>3 DEF Inv, TypeOK, TestFull, Refused, AddSteps, Critical, ring
  <2>2. OneInside' /\ HoldsCall'
    BY <1>3 DEF Inv, TypeOK, TestFull, Refused, OneInside, HoldsCall, AddSteps, Critical, Levels
  <2>3. BusyMaking' /\ NoneForgotten'
    BY <1>3 DEF Inv, TypeOK, TestFull, Refused, BusyMaking, NoneForgotten, Running, Looking, ring
  <2> QED BY <2>1, <2>2, <2>3 DEF Inv
<1>4. CASE Store(k)
  <2>1. TypeOK'
    BY <1>4 DEF Inv, TypeOK, Store, GoTo, AddSteps, Critical, HoldsCall
  <2>2. OneInside' /\ HoldsCall'
    BY <1>4 DEF Inv, TypeOK, Store, GoTo, OneInside, HoldsCall, AddSteps, Critical, Levels
  <2>3. BusyMaking' /\ NoneForgotten'
    BY <1>4 DEF Inv, TypeOK, Store, GoTo, BusyMaking, NoneForgotten, Running, Looking
  <2> QED BY <2>1, <2>2, <2>3 DEF Inv
<1>5. CASE Advance(k)
  <2>1. TypeOK'
    BY <1>5, AfterSlot DEF Inv, TypeOK, Advance, GoTo, AddSteps, Critical
  <2>2. OneInside' /\ HoldsCall'
    BY <1>5 DEF Inv, TypeOK, Advance, GoTo, OneInside, HoldsCall, AddSteps, Critical, Levels
  <2>3. BusyMaking'
    BY <1>5 DEF Inv, Advance, GoTo, BusyMaking
  <2>4. pc'[k] = "flag"
    BY <1>5 DEF Inv, TypeOK, Advance, GoTo
  <2> QED BY <2>1, <2>2, <2>3, <2>4 DEF Inv, NoneForgotten
<1>6. CASE Flag(k)
  <2>1. TypeOK'
    BY <1>6 DEF Inv, TypeOK, Flag, GoTo, AddSteps, Critical, ring
  <2>2. OneInside' /\ HoldsCall'
    BY <1>6 DEF Inv, TypeOK, Flag, GoTo, OneInside, HoldsCall, AddSteps, Critical, Levels
  <2>3. BusyMaking' /\ NoneForgotten'
    BY <1>6 DEF Inv, Flag, GoTo, BusyMaking, NoneForgotten
  <2> QED BY <2>1, <2>2, <2>3 DEF Inv
<1>7. CASE Release(k)
  <2>1. TypeOK'
    BY <1>7 DEF Inv, TypeOK, Release, GoTo, AddSteps, Critical, ring
  <2>2. OneInside'
    <3>1. \A j \in Levels : j # k => pc[j] \notin Critical
      BY <1>7 DEF Inv, TypeOK, Release, GoTo, OnTop, OneInside, Critical, Levels
    <3> QED BY <1>7, <3>1 DEF Inv, TypeOK, Release, GoTo, OneInside, Critical, Levels
  <2>3. HoldsCall' /\ BusyMaking' /\ NoneForgotten'
    BY <1>7 DEF Inv, TypeOK, Release, GoTo, HoldsCall, BusyMaking, NoneForgotten, Running,
      Looking, ring
  <2> QED BY <2>1, <2>2, <2>3 DEF Inv
<1> QED BY <1>1, <1>2, <1>3, <1>4, <1>5, <1>6, <1>7 DEF Add

-----------------------------------------------------------------------------
(* The interpreter *)

LEMMA InterpreterInv == ASSUME Inv, Interpreter \/ CheckSignals PROVE Inv'
<1>1. /\ UNCHANGED <<pc, arg, addBusy, pendingcalls, pendinglast, fresh>>
      /\ main \in {"run", "make"} \cup MakeSteps
  BY DEF Interpreter, CheckSignals, LoopHead, Make, Clear, Look, Take, First, Call, Fail,
    Again, Leave, MainGoes, ring, handlers, MakeSteps
<1>2. OneInside' /\ HoldsCall'
  BY <1>1 DEF Inv, OneInside, HoldsCall
<1>3a. CASE LoopHead
  <2>1. TypeOK'
    BY <1>1, <1>3a DEF Inv, TypeOK, LoopHead, MainGoes, MakeSteps, ring, handlers
  <2>2. BusyMaking' /\ NoneForgotten'
    BY <1>1, <1>3a DEF Inv, TypeOK, BusyMaking, NoneForgotten, Running, Looking, LoopHead,
      MainGoes, ring, handlers
  <2> QED BY <1>2, <2>1, <2>2 DEF Inv
<1>3b. CASE Make
  <2>1. TypeOK'
    BY <1>1, <1>3b DEF Inv, TypeOK, Make, MainGoes, MakeSteps, ring, handlers
  <2>2. BusyMaking' /\ NoneForgotten'
    BY <1>1, <1>3b DEF Inv, TypeOK, BusyMaking, NoneForgotten, Running, Looking, Make,
      MainGoes, ring, handlers
  <2> QED BY <1>2, <2>1, <2>2 DEF Inv
<1>3c. CASE Clear
  <2>1. TypeOK'
    BY <1>1, <1>3c DEF Inv, TypeOK, Clear, MainGoes, MakeSteps, Cleared, ClearedAt, ring, handlers
  <2>2. BusyMaking' /\ NoneForgotten'
    BY <1>1, <1>3c DEF Inv, TypeOK, BusyMaking, NoneForgotten, Running, Looking, Clear,
      MainGoes, Cleared, ClearedAt, ring, handlers
  <2> QED BY <1>2, <2>1, <2>2 DEF Inv
<1>3d. CASE Look
  <2>1. TypeOK'
    BY <1>1, <1>3d DEF Inv, TypeOK, Look, MainGoes, MakeSteps, ring, handlers
  <2>2. BusyMaking' /\ NoneForgotten'
    BY <1>1, <1>3d DEF Inv, TypeOK, BusyMaking, NoneForgotten, Running, Looking, Look,
      MainGoes, ring, handlers
  <2> QED BY <1>2, <2>1, <2>2 DEF Inv
<1>4. CASE Take
  BY <1>1, <1>2, <1>4 DEF Inv, TypeOK, BusyMaking, NoneForgotten, Running, Looking, Take,
    MainGoes, MakeSteps, ring, handlers
<1>5. CASE First
  BY <1>1, <1>2, <1>5, AfterSlot DEF Inv, TypeOK, BusyMaking, NoneForgotten, Running, Looking,
    First, MainGoes, MakeSteps, handlers
<1>6. CASE Call
  <2>1. main' \in {"fail", "look"} /\ func' = None /\ interrupted' \in {0, interrupted}
    BY <1>6 DEF Call, Outcomes
  <2> QED BY <1>1, <1>2, <1>6, <2>1 DEF Inv, TypeOK, BusyMaking, NoneForgotten, Running,
    Looking, Call, MakeSteps, ring, handlers
<1>7a. CASE Fail
  <2>1. TypeOK'
    BY <1>1, <1>7a DEF Inv, TypeOK, Fail, MainGoes, MakeSteps, ring, handlers
  <2>2. BusyMaking' /\ NoneForgotten'
    BY <1>1, <1>7a DEF Inv, TypeOK, BusyMaking, NoneForgotten, Running, Looking, Fail,
      MainGoes, ring, handlers
  <2> QED BY <1>2, <2>1, <2>2 DEF Inv
<1>7b. CASE Again
  <2>1. TypeOK'
    BY <1>1, <1>7b DEF Inv, TypeOK, Again, MainGoes, MakeSteps, ring, handlers
  <2>2. BusyMaking' /\ NoneForgotten'
    BY <1>1, <1>7b DEF Inv, TypeOK, BusyMaking, NoneForgotten, Running, Looking, Again,
      MainGoes, ring, handlers
  <2> QED BY <1>2, <2>1, <2>2 DEF Inv
<1>7c. CASE Leave
  <2>1. TypeOK'
    BY <1>1, <1>7c DEF Inv, TypeOK, Leave, MainGoes, MakeSteps, Cleared, ClearedAt, ring, handlers
  <2>2. BusyMaking' /\ NoneForgotten'
    BY <1>1, <1>7c DEF Inv, TypeOK, BusyMaking, NoneForgotten, Running, Looking, Leave,
      MainGoes, Cleared, ClearedAt, ring, handlers
  <2> QED BY <1>2, <2>1, <2>2 DEF Inv
<1>8. CASE CheckSignals
  BY <1>1, <1>2, <1>8 DEF Inv, TypeOK, BusyMaking, NoneForgotten, Running, Looking,
    CheckSignals, ring, handlers
<1> QED BY <1>3a, <1>3b, <1>3c, <1>3d, <1>4, <1>5, <1>6, <1>7a, <1>7b, <1>7c, <1>8
  DEF Interpreter

LEMMA StutterInv == ASSUME Inv, UNCHANGED vars PROVE Inv'
BY DEF Inv, vars, ring, handlers, TypeOK, OneInside, BusyMaking, HoldsCall, NoneForgotten,
  Running, Looking

LEMMA Invariance == Spec => []Inv
<1>1. Inv /\ [Next]_vars => Inv'
  BY ArriveInv, AddInv, InterpreterInv, StutterInv DEF Next
<1> QED BY <1>1, InvInit, PTL DEF Spec

-----------------------------------------------------------------------------
(* The ring as a queue *)

LEMMA Mod ==
  ASSUME NEW n \in Nat \ {0}, NEW x \in Int
  PROVE  /\ 0 <= x /\ x < n => x % n = x
         /\ n <= x /\ x < 2 * n => x % n = x - n
         /\ 0 - n <= x /\ x < 0 => x % n = x + n
<1>1. ASSUME 0 <= x, x < n PROVE x % n = x
  BY <1>1
<1>2. ASSUME n <= x, x < 2 * n PROVE x % n = x - n
  BY <1>2
<1>3. ASSUME 0 - n <= x, x < 0 PROVE x % n = x + n
  BY <1>3
<1> QED BY <1>1, <1>2, <1>3

\* The number of calls in a ring, and the slot of the n-th.
LEMMA RingFacts ==
  ASSUME NEW f \in Slots, NEW l \in Slots
  PROVE  /\ (l - f) % NPendingCalls = IF f <= l THEN l - f ELSE l - f + NPendingCalls
         /\ (l - f) % NPendingCalls \in 0 .. NPendingCalls - 1
         /\ After(l) = IF l = NPendingCalls - 1 THEN 0 ELSE l + 1
         /\ \A n \in 1 .. NPendingCalls :
              (f + n - 1) % NPendingCalls
                = IF f + n - 1 < NPendingCalls THEN f + n - 1 ELSE f + n - 1 - NPendingCalls
<1> DEFINE N == NPendingCalls
<1>1. /\ N \in Nat \ {0} /\ N \in Int /\ f \in Int /\ l \in Int
      /\ 0 <= f /\ f < N /\ 0 <= l /\ l < N /\ N > 1
  BY PendingAssumption DEF Slots
<1> HIDE DEF N
<1>2. (l - f) % N = IF f <= l THEN l - f ELSE l - f + N
  <2>1. PICK x \in Int : x = l - f
    BY <1>1
  <2>2. /\ 0 <= x /\ x < N => x % N = x
        /\ 0 - N <= x /\ x < 0 => x % N = x + N
    BY <1>1, Mod
  <2> QED BY <1>1, <2>1, <2>2
<1>3. After(l) = IF l = N - 1 THEN 0 ELSE l + 1
  <2>1. PICK x \in Int : x = l + 1
    BY <1>1
  <2>2. /\ 0 <= x /\ x < N => x % N = x
        /\ N <= x /\ x < 2 * N => x % N = x - N
    BY <1>1, Mod
  <2>3. (l + 1) % N = IF l = N - 1 THEN 0 ELSE l + 1
    BY <1>1, <2>1, <2>2
  <2> QED BY <2>3 DEF After, N
<1>4. ASSUME NEW n \in 1 .. N
      PROVE  (f + n - 1) % N = IF f + n - 1 < N THEN f + n - 1 ELSE f + n - 1 - N
  <2>1. PICK x \in Int : x = f + n - 1
    BY <1>1
  <2>2. /\ 0 <= x /\ x < N => x % N = x
        /\ N <= x /\ x < 2 * N => x % N = x - N
    BY <1>1, Mod
  <2> QED BY <1>1, <2>1, <2>2
<1>5. (l - f) % N \in 0 .. N - 1
  BY <1>1, <1>2
<1> QED BY <1>2, <1>3, <1>4, <1>5 DEF N

QueueOf(r, f, l) ==
  [n \in 1 .. (l - f) % NPendingCalls |-> r[(f + n - 1) % NPendingCalls]]

\* Writing to the slot after the last call changes no call in the ring.
LEMMA StoreRing ==
  ASSUME NEW r \in [Slots -> Calls \cup {None}], NEW f \in Slots, NEW l \in Slots, NEW c
  PROVE  QueueOf([r EXCEPT ![l] = c], f, l) = QueueOf(r, f, l)
<1> DEFINE q == [r EXCEPT ![l] = c]
           m == (l - f) % NPendingCalls
<1>0. m = (IF f <= l THEN l - f ELSE l - f + NPendingCalls) /\ m \in 0 .. NPendingCalls - 1
  BY RingFacts
<1> HIDE DEF m
<1>1. ASSUME NEW n \in 1 .. m
      PROVE  q[(f + n - 1) % NPendingCalls] = r[(f + n - 1) % NPendingCalls]
  <2>1. n \in 1 .. NPendingCalls /\ n \in 1 .. (IF f <= l THEN l - f ELSE l - f + NPendingCalls)
    BY <1>0, PendingAssumption DEF Slots
  <2>2. (f + n - 1) % NPendingCalls
          = IF f + n - 1 < NPendingCalls THEN f + n - 1 ELSE f + n - 1 - NPendingCalls
    BY <2>1, RingFacts
  <2>3. (f + n - 1) % NPendingCalls # l /\ (f + n - 1) % NPendingCalls \in Slots
    BY <2>1, <2>2, PendingAssumption DEF Slots
  <2> QED BY <2>3
<1> QED BY <1>1 DEF QueueOf, m

LEMMA AdvanceRing ==
  ASSUME NEW r \in [Slots -> Calls \cup {None}], NEW f \in Slots, NEW l \in Slots,
         After(l) # f, QueueOf(r, f, l) \in Seq(Calls), r[l] \in Calls
  PROVE  QueueOf(r, f, After(l)) = Append(QueueOf(r, f, l), r[l])
<1> DEFINE m == (l - f) % NPendingCalls
<1>1. After(l) \in Slots /\ NPendingCalls \in Nat \ {0, 1}
  BY AfterSlot, PendingAssumption
<1>2. m = (IF f <= l THEN l - f ELSE l - f + NPendingCalls) /\ m \in 0 .. NPendingCalls - 1
  BY RingFacts
<1> HIDE DEF m
<1>3. (After(l) - f) % NPendingCalls = m + 1
  <2>1. (After(l) - f) % NPendingCalls
          = IF f <= After(l) THEN After(l) - f ELSE After(l) - f + NPendingCalls
    BY <1>1, RingFacts
  <2>2. After(l) = IF l = NPendingCalls - 1 THEN 0 ELSE l + 1
    BY RingFacts
  <2> QED BY <1>1, <1>2, <2>1, <2>2 DEF Slots
<1>4. (f + (m + 1) - 1) % NPendingCalls = l
  <2>1. m + 1 \in 1 .. NPendingCalls
    BY <1>1, <1>2
  <2>2. (f + (m + 1) - 1) % NPendingCalls
          = IF f + (m + 1) - 1 < NPendingCalls THEN f + (m + 1) - 1
            ELSE f + (m + 1) - 1 - NPendingCalls
    BY <2>1, RingFacts
  <2> QED BY <1>1, <1>2, <2>2 DEF Slots
<1>5. QueueOf(r, f, l) = [n \in 1 .. m |-> r[(f + n - 1) % NPendingCalls]]
  BY DEF QueueOf, m
<1>6. QueueOf(r, f, After(l)) = [n \in 1 .. m + 1 |-> r[(f + n - 1) % NPendingCalls]]
  BY <1>3 DEF QueueOf
<1>7. Len(QueueOf(r, f, l)) = m
  BY <1>2, <1>5
<1> DEFINE a == Append(QueueOf(r, f, l), r[l])
<1>8. /\ a \in Seq(Calls) /\ Len(a) = m + 1
      /\ \A n \in 1 .. m : a[n] = QueueOf(r, f, l)[n]
      /\ a[m + 1] = r[l]
  BY <1>7, AppendProperties
<1>9. a = [n \in 1 .. m + 1 |-> a[n]]
  BY <1>8, LenProperties
<1>10. \A n \in 1 .. m + 1 : n # m + 1 => n \in 1 .. m
  BY <1>2
<1> HIDE DEF a
<1>11. \A n \in 1 .. m + 1 : a[n] = r[(f + n - 1) % NPendingCalls]
  BY <1>4, <1>5, <1>8, <1>10
<1>12. a = [n \in 1 .. m + 1 |-> r[(f + n - 1) % NPendingCalls]]
  BY <1>9, <1>11
<1> QED BY <1>6, <1>12 DEF a

LEMMA FirstRing ==
  ASSUME NEW r \in [Slots -> Calls \cup {None}], NEW f \in Slots, NEW l \in Slots,
         f # l, QueueOf(r, f, l) \in Seq(Calls)
  PROVE  /\ QueueOf(r, f, l) # <<>>
         /\ r[f] = Head(QueueOf(r, f, l)) /\ r[f] \in Calls
         /\ QueueOf(r, After(f), l) = Tail(QueueOf(r, f, l))
<1> DEFINE m == (l - f) % NPendingCalls
<1>1. After(f) \in Slots /\ NPendingCalls \in Nat \ {0, 1}
  BY AfterSlot, PendingAssumption
<1>2. m = (IF f <= l THEN l - f ELSE l - f + NPendingCalls) /\ m \in 0 .. NPendingCalls - 1
  BY RingFacts
<1>3. m \in 1 .. NPendingCalls - 1
  BY <1>1, <1>2 DEF Slots
<1>4. After(f) = IF f = NPendingCalls - 1 THEN 0 ELSE f + 1
  BY RingFacts
<1>5. (l - After(f)) % NPendingCalls = m - 1
  <2>1. (l - After(f)) % NPendingCalls
          = IF After(f) <= l THEN l - After(f) ELSE l - After(f) + NPendingCalls
    BY <1>1, RingFacts
  <2> QED BY <1>1, <1>2, <1>4, <2>1 DEF Slots
<1>6. (f + 1 - 1) % NPendingCalls = f
  <2>1. f + 1 - 1 = f /\ f \in Int /\ 0 <= f /\ f < NPendingCalls
    BY <1>1 DEF Slots
  <2> QED BY <1>1, <2>1, Mod
<1>7. ASSUME NEW n \in 1 .. m - 1
      PROVE  (After(f) + n - 1) % NPendingCalls = (f + (n + 1) - 1) % NPendingCalls
  <2>1. n \in 1 .. NPendingCalls /\ n + 1 \in 1 .. NPendingCalls
    BY <1>1, <1>3
  <2>2. (After(f) + n - 1) % NPendingCalls
          = IF After(f) + n - 1 < NPendingCalls THEN After(f) + n - 1
            ELSE After(f) + n - 1 - NPendingCalls
    BY <1>1, <2>1, RingFacts
  <2>3. (f + (n + 1) - 1) % NPendingCalls
          = IF f + (n + 1) - 1 < NPendingCalls THEN f + (n + 1) - 1
            ELSE f + (n + 1) - 1 - NPendingCalls
    BY <2>1, RingFacts
  <2> QED BY <1>1, <1>3, <1>4, <2>2, <2>3 DEF Slots
<1> HIDE DEF m
<1>8. QueueOf(r, f, l) = [n \in 1 .. m |-> r[(f + n - 1) % NPendingCalls]]
  BY DEF QueueOf, m
<1>9. QueueOf(r, After(f), l) = [n \in 1 .. m - 1 |-> r[(After(f) + n - 1) % NPendingCalls]]
  BY <1>5 DEF QueueOf
<1>10. Len(QueueOf(r, f, l)) = m /\ QueueOf(r, f, l) # <<>>
  BY <1>3, <1>8
<1>11. Head(QueueOf(r, f, l)) = QueueOf(r, f, l)[1] /\ 1 \in 1 .. m
  BY <1>3, <1>10
<1>12. r[f] = Head(QueueOf(r, f, l)) /\ r[f] \in Calls
  <2>1. QueueOf(r, f, l)[1] = r[f]
    BY <1>6, <1>8, <1>11
  <2>2. QueueOf(r, f, l)[1] \in Calls
    BY <1>10, <1>11, ElementOfSeq
  <2> QED BY <1>11, <2>1, <2>2
<1> DEFINE a == Tail(QueueOf(r, f, l))
<1>13. /\ a \in Seq(Calls) /\ Len(a) = m - 1
       /\ \A n \in 1 .. m - 1 : a[n] = QueueOf(r, f, l)[n + 1]
  BY <1>10, HeadTailProperties
<1>14. a = [n \in 1 .. m - 1 |-> a[n]]
  BY <1>13, LenProperties
<1>15. \A n \in 1 .. m - 1 : n + 1 \in 1 .. m
  BY <1>3
<1> HIDE DEF a
<1>16. \A n \in 1 .. m - 1 : a[n] = r[(After(f) + n - 1) % NPendingCalls]
  BY <1>7, <1>8, <1>13, <1>15
<1>17. a = QueueOf(r, After(f), l)
  BY <1>9, <1>14, <1>16
<1> QED BY <1>10, <1>12, <1>17 DEF a

-----------------------------------------------------------------------------
(* The invariant of the queue *)

\* Only a handler that is still to store a call holds one, and no two hold the same.
Holding ==
  \A k \in Levels : arg[k] # None => pc[k] \in {"test", "claim", "full", "store", "advance"}
Apart ==
  /\ \A k \in Levels : arg[k] \notin fresh
  /\ \A j, k \in Levels : arg[j] # None /\ arg[j] = arg[k] => j = k

\* Nothing fills the ring, or overwrites the slot, between the test and the advance.
Storing ==
  \A k \in Levels :
    /\ pc[k] \in {"store", "advance"} => ~Full
    /\ pc[k] = "advance" => pendingcalls[pendinglast] = arg[k]

\* The call the interpreter took out is the first of the ring until it says so.
Making ==
  /\ main \in {"take", "first"} => pendingfirst # pendinglast
  /\ main = "first" => func = pendingcalls[pendingfirst]
  /\ main = "call" => func \in Calls

QueueInv == Inv /\ Holding /\ Apart /\ Storing /\ Making /\ Queue \in Seq(Calls)

LEMMA QueueIs == Queue = QueueOf(pendingcalls, pendingfirst, pendinglast)
BY DEF Queue, Count, QueueOf

LEMMA QueueNext == Queue' = QueueOf(pendingcalls', pendingfirst', pendinglast')
BY DEF Queue, Count, QueueOf

LEMMA SameQueue == ASSUME UNCHANGED ring PROVE Queue' = Queue /\ (Full' <=> Full)
BY DEF ring, Queue, Count, Full, After

\* When the interpreter goes on, no handler holds a call.
LEMMA HandlersIdle ==
  ASSUME Inv, OnTop(0), NEW k \in Levels
  PROVE  pc[k] = "idle"
BY DEF OnTop, Levels

\* A handler in its critical section has the ring for itself.
LEMMA OneCritical ==
  ASSUME Inv, NEW j \in Levels, NEW k \in Levels, pc[j] \in Critical, pc[k] \in Critical
  PROVE  j = k
<1>1. /\ j < k => pc[k] \in {"idle", "test"}
      /\ k < j => pc[j] \in {"idle", "test"}
  BY DEF Inv, OneInside
<1>2. j \in Int /\ k \in Int
  BY DEF Levels
<1> QED BY <1>1, <1>2 DEF Critical

LEMMA QueueInit == Init => QueueInv
<1> SUFFICES ASSUME Init PROVE QueueInv
  OBVIOUS
<1>1. 0 \in Slots
  BY PendingAssumption DEF Slots
<1>2. Count = 0
  BY <1>1, RingFacts DEF Init, Count
<1>3. Queue = <<>>
  BY <1>2 DEF Queue
<1>4. Queue \in Seq(Calls)
  BY <1>3
<1> QED BY <1>4, InvInit, PendingAssumption DEF Init, QueueInv, Holding, Apart, Storing, Making

LEMMA EnterQueue ==
  ASSUME QueueInv, NEW k \in Levels, NEW c \in Calls, Enter(k, c), UNCHANGED <<ring, main, func>>
  PROVE  Holding' /\ Apart' /\ Storing' /\ Making' /\ Queue' \in Seq(Calls)
<1>1. /\ pc[k] = "idle" /\ pc' = [pc EXCEPT ![k] = "test"]
      /\ arg' = [arg EXCEPT ![k] = c] /\ c \in fresh /\ fresh' = fresh \ {c}
  BY DEF Enter, GoTo
<1>2. pc \in [Levels -> AddSteps] /\ arg \in [Levels -> Calls \cup {None}]
  BY DEF QueueInv, Inv, TypeOK
<1>3. Holding' /\ Apart'
  BY <1>1, <1>2 DEF QueueInv, Holding, Apart
<1>4. Storing' /\ Making'
  BY <1>1, <1>2, SameQueue DEF QueueInv, Storing, Making, ring
<1> QED BY <1>3, <1>4, SameQueue DEF QueueInv

\* A handler that keeps its call or gives it up.
LEMMA ApartStays ==
  ASSUME QueueInv, NEW k \in Levels, UNCHANGED fresh,
         arg' = arg \/ arg' = [arg EXCEPT ![k] = None]
  PROVE  Apart'
<1>1. arg \in [Levels -> Calls \cup {None}] /\ fresh \subseteq Calls
  BY DEF QueueInv, Inv, TypeOK
<1>2. \A j \in Levels : arg'[j] = arg[j] \/ arg'[j] = None
  BY <1>1
<1>3. \A j \in Levels : arg'[j] \notin fresh'
  BY <1>1, <1>2, PendingAssumption DEF QueueInv, Apart
<1>4. \A i, j \in Levels : arg'[i] # None /\ arg'[i] = arg'[j] => i = j
  BY <1>2 DEF QueueInv, Apart
<1> QED BY <1>3, <1>4 DEF Apart

LEMMA AddQueue ==
  ASSUME QueueInv, NEW k \in Levels, Add(k)
  PROVE  Holding' /\ Apart' /\ Storing' /\ Making' /\ Queue' \in Seq(Calls)
<1>1. /\ Inv /\ pc \in [Levels -> AddSteps] /\ arg \in [Levels -> Calls \cup {None}]
      /\ pendingcalls \in [Slots -> Calls \cup {None}]
      /\ pendingfirst \in Slots /\ pendinglast \in Slots /\ fresh \subseteq Calls
  BY DEF QueueInv, Inv, TypeOK
<1>2. UNCHANGED <<main, func, fresh>> /\ pendingfirst' = pendingfirst
  BY DEF Add, TestBusy, Claim, TestFull, Store, Advance, Flag, Release, ring
<1>3. CASE TestBusy(k) \/ Claim(k) \/ TestFull(k) \/ Flag(k) \/ Release(k)
  <2>1. UNCHANGED ring
    BY <1>3 DEF TestBusy, Claim, TestFull, Flag, Release, ring
  <2>2. \/ pc' = [pc EXCEPT ![k] = "idle"] /\ arg' = [arg EXCEPT ![k] = None]
        \/ /\ UNCHANGED arg
           /\ \/ pc[k] \in {"test", "claim"} /\ \E l \in {"claim", "full"} : pc' = [pc EXCEPT ![k] = l]
              \/ pc[k] = "full" /\ ~Full /\ pc' = [pc EXCEPT ![k] = "store"]
              \/ pc[k] \in {"flag", "release"}
                   /\ \E l \in {"release", "idle"} : pc' = [pc EXCEPT ![k] = l]
    BY <1>3 DEF TestBusy, Claim, TestFull, Flag, Release, Refused, GoTo
  <2>3. Holding' /\ Apart'
    <3>1. Holding'
      BY <1>1, <2>2 DEF QueueInv, Holding
    <3> QED BY <1>2, <3>1, <2>2, ApartStays
  <2>4. Storing' /\ Making'
    BY <1>1, <1>2, <2>1, <2>2, SameQueue DEF QueueInv, Storing, Making, ring
  <2> QED BY <2>1, <2>3, <2>4, SameQueue DEF QueueInv
<1>4. CASE Store(k)
  <2>1. /\ pc[k] = "store" /\ pc' = [pc EXCEPT ![k] = "advance"] /\ UNCHANGED <<arg, pendinglast>>
        /\ pendingcalls' = [pendingcalls EXCEPT ![pendinglast] = arg[k]]
    BY <1>4 DEF Store, GoTo
  <2>2. Holding' /\ Apart'
    <3>1. Holding'
      BY <1>1, <2>1 DEF QueueInv, Holding
    <3> QED BY <1>2, <3>1, <2>1, ApartStays
  <2>3. Full' = Full
    BY <1>2, <2>1 DEF Full, After
  <2>4. \A j \in Levels : pc'[j] = "advance" => j = k
    BY <1>1, <2>1, OneCritical DEF Critical
  <2>5. Storing'
    BY <1>1, <2>1, <2>3, <2>4 DEF QueueInv, Storing
  <2>6. Making'
    BY <1>1, <1>2, <2>1 DEF QueueInv, Making
  <2>7. Queue' = Queue
    BY <1>1, <1>2, <2>1, StoreRing, QueueIs, QueueNext
  <2> QED BY <2>2, <2>5, <2>6, <2>7 DEF QueueInv
<1>5. CASE Advance(k)
  <2>1. /\ pc[k] = "advance" /\ pc' = [pc EXCEPT ![k] = "flag"]
        /\ arg' = [arg EXCEPT ![k] = None] /\ pendingcalls' = pendingcalls
        /\ pendinglast' = After(pendinglast)
    BY <1>5 DEF Advance, GoTo
  <2>2. /\ After(pendinglast) # pendingfirst /\ pendingcalls[pendinglast] = arg[k]
        /\ arg[k] \in Calls
    BY <1>1, <2>1 DEF QueueInv, Inv, HoldsCall, Storing, Full
  <2>3. Holding' /\ Apart'
    <3>1. Holding'
      BY <1>1, <2>1 DEF QueueInv, Holding
    <3> QED BY <1>2, <3>1, <2>1, ApartStays
  <2>4. \A j \in Levels : pc'[j] \notin {"store", "advance"}
    BY <1>1, <2>1, OneCritical DEF Critical
  <2>5. Storing' /\ Making'
    BY <1>2, <2>1, <2>2, <2>4 DEF QueueInv, Storing, Making
  <2>6. Queue' = Append(Queue, arg[k])
    BY <1>1, <1>2, <2>1, <2>2, AdvanceRing, QueueIs, QueueNext DEF QueueInv
  <2> QED BY <2>2, <2>3, <2>5, <2>6, AppendProperties DEF QueueInv
<1> QED BY <1>3, <1>4, <1>5 DEF Add

LEMMA InterpreterQueue ==
  ASSUME QueueInv, Interpreter \/ CheckSignals
  PROVE  Holding' /\ Apart' /\ Storing' /\ Making' /\ Queue' \in Seq(Calls)
<1>1. /\ Inv /\ pendingcalls \in [Slots -> Calls \cup {None}]
      /\ pendingfirst \in Slots /\ pendinglast \in Slots
  BY DEF QueueInv, Inv, TypeOK
<1>2. /\ UNCHANGED <<pc, arg, fresh, pendingcalls, pendinglast>> /\ OnTop(0)
  BY DEF Interpreter, CheckSignals, LoopHead, Make, Clear, Look, Take, First, Call, Fail,
    Again, Leave, MainGoes, ring, handlers
<1>3. \A k \in Levels : pc'[k] = "idle"
  BY <1>1, <1>2, HandlersIdle
<1>4. Holding' /\ Apart' /\ Storing'
  BY <1>2, <1>3 DEF QueueInv, Holding, Apart, Storing
<1>5. CASE First
  <2>1. /\ main = "first" /\ main' = "call" /\ func' = func
        /\ pendingfirst' = After(pendingfirst)
    BY <1>5 DEF First, MainGoes
  <2>2. /\ pendingfirst # pendinglast /\ func = pendingcalls[pendingfirst]
    BY <2>1 DEF QueueInv, Making
  <2>3. /\ pendingcalls[pendingfirst] \in Calls
        /\ Queue # <<>> /\ Queue' = Tail(Queue)
    BY <1>1, <1>2, <2>1, <2>2, FirstRing, QueueIs, QueueNext DEF QueueInv
  <2>4. Making'
    BY <2>1, <2>2, <2>3 DEF Making
  <2> QED BY <1>4, <2>3, <2>4, HeadTailProperties DEF QueueInv
<1>6. CASE ~First
  <2>1. UNCHANGED ring
    BY <1>6 DEF Interpreter, CheckSignals, LoopHead, Make, Clear, Look, Take, Call, Fail,
      Again, Leave, ring
  <2>2. Making'
    <3>1. CASE Look
      BY <2>1, <3>1 DEF Look, MainGoes, Making, ring
    <3>2. CASE Take
      BY <2>1, <3>2 DEF QueueInv, Take, MainGoes, Making, ring
    <3>3. CASE CheckSignals
      BY <2>1, <3>3 DEF QueueInv, CheckSignals, Making, ring
    <3>4. CASE Call
      BY <3>4 DEF Call, Outcomes, Making
    <3>5. CASE LoopHead \/ Make \/ Clear \/ Fail \/ Again \/ Leave
      BY <3>5 DEF LoopHead, Make, Clear, Fail, Again, Leave, MainGoes, Making
    <3> QED BY <1>6, <3>1, <3>2, <3>3, <3>4, <3>5 DEF Interpreter
  <2> QED BY <1>4, <2>1, <2>2, SameQueue DEF QueueInv
<1> QED BY <1>5, <1>6

LEMMA QueueStep == QueueInv /\ [Next]_vars => QueueInv'
<1> SUFFICES ASSUME QueueInv, [Next]_vars PROVE QueueInv'
  OBVIOUS
<1>1. Inv'
  BY ArriveInv, AddInv, InterpreterInv, StutterInv DEF QueueInv, Next
<1>2. ASSUME NEW k \in Levels, NEW c \in Calls, Register(k, c) \/ Press(k, c) PROVE QueueInv'
  <2>1. Enter(k, c) /\ UNCHANGED <<ring, main, func>>
    BY <1>2 DEF Register, Press
  <2> QED BY <1>1, <2>1, EnterQueue DEF QueueInv
<1>3. ASSUME NEW k \in Levels, NEW c \in Calls, LastPress(k, c) PROVE QueueInv'
  <2>1. UNCHANGED <<ring, pc, arg, func, fresh>> /\ main' = "exit"
    BY <1>3 DEF LastPress, handlers
  <2>2. Holding' /\ Apart' /\ Storing' /\ Making'
    BY <2>1, SameQueue DEF QueueInv, Holding, Apart, Storing, Making, ring
  <2> QED BY <1>1, <2>1, <2>2, SameQueue DEF QueueInv
<1>4. CASE UNCHANGED vars
  <2>1. UNCHANGED <<ring, pc, arg, func, fresh, main>>
    BY <1>4 DEF vars, handlers
  <2>2. Holding' /\ Apart' /\ Storing' /\ Making'
    BY <2>1, SameQueue DEF QueueInv, Holding, Apart, Storing, Making, ring
  <2> QED BY <1>1, <2>1, <2>2, SameQueue DEF QueueInv
<1> QED BY <1>1, <1>2, <1>3, <1>4, AddQueue, InterpreterQueue DEF Next, Arrive, QueueInv

-----------------------------------------------------------------------------
(* Every step is a step of the queue or none *)

Asked == IF Running THEN {arg[k] : k \in Levels} \ {None} ELSE {}
Waiting == IF Running THEN Queue ELSE <<>>
Made == IF main = "call" THEN func ELSE None

LEMMA Keeps ==
  ASSUME Asked' = Asked, Waiting' = Waiting, Made' = Made
  PROVE  UNCHANGED Abstract!vars
BY DEF Abstract!vars, Asked, Waiting, Made

LEMMA QueueStarts == Init => Abstract!Init
<1> SUFFICES ASSUME Init PROVE Abstract!Init
  OBVIOUS
<1>1. 0 \in Slots
  BY PendingAssumption DEF Slots
<1>2. Count = 0
  BY <1>1, RingFacts DEF Init, Count
<1>3. Queue = <<>>
  BY <1>2 DEF Queue
<1> QED BY <1>3 DEF Init, Abstract!Init, Running

LEMMA EnterAsks ==
  ASSUME QueueInv, NEW k \in Levels, NEW c \in Calls, Enter(k, c), UNCHANGED <<ring, main, func>>
  PROVE  Abstract!Ask(c)
<1>1. /\ pc[k] = "idle" /\ arg' = [arg EXCEPT ![k] = c] /\ c \in fresh
      /\ Running /\ Running' /\ arg \in [Levels -> Calls \cup {None}]
  BY DEF Enter, GoTo, OnTop, Running, QueueInv, Inv, TypeOK
<1>2. arg[k] = None /\ c # None /\ c \notin Asked
  BY <1>1, PendingAssumption DEF QueueInv, Holding, Apart, Asked
<1>3. Asked' = Asked \cup {c}
  BY <1>1, <1>2 DEF Asked
<1>4. Waiting' = Waiting /\ Made' = Made
  BY <1>1, SameQueue DEF Waiting, Made
<1> QED BY <1>2, <1>3, <1>4 DEF Abstract!Ask, Asked, Waiting, Made

LEMMA AddAbstract ==
  ASSUME QueueInv, NEW k \in Levels, Add(k)
  PROVE  Abstract!Next \/ UNCHANGED Abstract!vars
<1>1. /\ Running /\ Running' /\ arg \in [Levels -> Calls \cup {None}] /\ UNCHANGED <<main, func>>
      /\ Inv
  BY DEF Add, TestBusy, Claim, TestFull, Store, Advance, Flag, Release, GoTo, OnTop, Running,
    QueueInv, Inv, TypeOK
<1>2. Made' = Made
  BY <1>1 DEF Made
\* A handler that gives up its call.
<1>3. ASSUME arg[k] \in Calls, arg' = [arg EXCEPT ![k] = None]
      PROVE  arg[k] \in Asked /\ Asked' = Asked \ {arg[k]}
  <2>1. \A j \in Levels : j # k => arg[j] # arg[k] /\ arg'[j] = arg[j]
    BY <1>1, <1>3, PendingAssumption DEF QueueInv, Apart
  <2> QED BY <1>1, <1>3, <2>1, PendingAssumption DEF Asked
<1>4. CASE TestBusy(k) \/ TestFull(k)
  <2>1. Waiting' = Waiting
    BY <1>1, <1>4, SameQueue DEF TestBusy, TestFull, Waiting
  <2>2. CASE UNCHANGED arg
    BY <1>1, <1>2, <2>1, <2>2, Keeps DEF Asked
  <2>3. CASE Refused(k)
    <3>1. arg[k] \in Calls /\ arg' = [arg EXCEPT ![k] = None]
      BY <1>1, <1>4, <2>3 DEF TestBusy, TestFull, Refused, Inv, HoldsCall
    <3>2. arg[k] \in Asked /\ Asked' = Asked \ {arg[k]}
      BY <1>3, <3>1
    <3>3. PICK c \in Calls : c = arg[k]
      BY <3>1
    <3>4. Abstract!Refuse(c)
      BY <1>2, <2>1, <3>2, <3>3 DEF Abstract!Refuse, Asked, Waiting, Made
    <3> QED BY <3>4 DEF Abstract!Next
  <2> QED BY <1>4, <2>2, <2>3 DEF TestBusy, TestFull
<1>5. CASE Claim(k) \/ Flag(k) \/ Release(k)
  <2>1. UNCHANGED <<ring, arg>>
    BY <1>5 DEF Claim, Flag, Release
  <2> QED BY <1>1, <1>2, <2>1, SameQueue, Keeps DEF Asked, Waiting
<1>6. CASE Store(k)
  <2>1. /\ UNCHANGED <<pendingfirst, pendinglast, arg>>
        /\ pendingcalls' = [pendingcalls EXCEPT ![pendinglast] = arg[k]]
    BY <1>6 DEF Store
  <2>2. Queue' = Queue
    BY <1>1, <2>1, StoreRing, QueueIs, QueueNext DEF Inv, TypeOK
  <2> QED BY <1>1, <1>2, <2>1, <2>2, Keeps DEF Asked, Waiting
<1>7. CASE Advance(k)
  <2>1. /\ pc[k] = "advance" /\ arg' = [arg EXCEPT ![k] = None]
        /\ UNCHANGED <<pendingcalls, pendingfirst>> /\ pendinglast' = After(pendinglast)
    BY <1>7 DEF Advance, GoTo
  <2>2. /\ After(pendinglast) # pendingfirst /\ pendingcalls[pendinglast] = arg[k]
        /\ arg[k] \in Calls
    BY <1>1, <2>1 DEF QueueInv, Inv, HoldsCall, Storing, Full
  <2>3. Queue' = Append(Queue, arg[k])
    BY <1>1, <2>1, <2>2, AdvanceRing, QueueIs, QueueNext DEF QueueInv, Inv, TypeOK
  <2>4. arg[k] \in Asked /\ Asked' = Asked \ {arg[k]}
    BY <1>3, <2>1, <2>2
  <2>5. Waiting' = Append(Waiting, arg[k])
    BY <1>1, <2>3 DEF Waiting
  <2>6. PICK c \in Calls : c = arg[k]
    BY <2>2
  <2>7. Abstract!Accept(c)
    BY <1>2, <2>4, <2>5, <2>6 DEF Abstract!Accept, Asked, Waiting, Made
  <2> QED BY <2>7 DEF Abstract!Next
<1> QED BY <1>4, <1>5, <1>6, <1>7 DEF Add

LEMMA InterpreterAbstract ==
  ASSUME QueueInv, Interpreter \/ CheckSignals
  PROVE  Abstract!Next \/ UNCHANGED Abstract!vars
<1>1. /\ Inv /\ pendingcalls \in [Slots -> Calls \cup {None}]
      /\ pendingfirst \in Slots /\ pendinglast \in Slots
  BY DEF QueueInv, Inv, TypeOK
<1>2. /\ UNCHANGED <<arg, pendingcalls, pendinglast>> /\ Running /\ Running'
  BY DEF Interpreter, CheckSignals, LoopHead, Make, Clear, Look, Take, First, Call, Fail,
    Again, Leave, MainGoes, OnTop, Outcomes, Running, ring, handlers
<1>3. Asked' = Asked
  BY <1>2 DEF Asked
<1>4. CASE First
  <2>1. /\ main = "first" /\ main' = "call" /\ func' = func
        /\ pendingfirst' = After(pendingfirst)
    BY <1>4 DEF First, MainGoes
  <2>2. /\ pendingfirst # pendinglast /\ func = pendingcalls[pendingfirst]
    BY <2>1 DEF QueueInv, Making
  <2>3. /\ Queue # <<>> /\ Queue' = Tail(Queue) /\ func = Head(Queue)
    BY <1>1, <1>2, <2>1, <2>2, FirstRing, QueueIs, QueueNext DEF QueueInv
  <2>4. Abstract!Run
    BY <1>2, <1>3, <2>1, <2>3 DEF Abstract!Run, Asked
  <2> QED BY <2>4 DEF Abstract!Next
<1>5. CASE Call
  <2>1. /\ main = "call" /\ main' # "call" /\ UNCHANGED ring
    BY <1>5 DEF Call, Outcomes
  <2>2. func # None
    BY <2>1, PendingAssumption DEF QueueInv, Making
  <2>3. Queue' = Queue
    BY <2>1, SameQueue
  <2>4. Abstract!Return
    BY <1>2, <1>3, <2>1, <2>2, <2>3 DEF Abstract!Return, Asked
  <2> QED BY <2>4 DEF Abstract!Next
<1>6. CASE ~First /\ ~Call
  <2>1. UNCHANGED ring
    BY <1>6 DEF Interpreter, CheckSignals, LoopHead, Make, Clear, Look, Take, Fail,
      Again, Leave
  <2>2. Made' = Made
    BY <1>6 DEF Interpreter, CheckSignals, LoopHead, Make, Clear, Look, Take, Fail,
      Again, Leave, MainGoes, Made
  <2> QED BY <1>2, <1>3, <2>1, <2>2, SameQueue, Keeps DEF Waiting
<1> QED BY <1>4, <1>5, <1>6

LEMMA QueueRefines == QueueInv /\ [Next]_vars => [Abstract!Next]_(Abstract!vars)
<1> SUFFICES ASSUME QueueInv, [Next]_vars PROVE Abstract!Next \/ UNCHANGED Abstract!vars
  OBVIOUS
<1>1. ASSUME NEW k \in Levels, NEW c \in Calls, Register(k, c) \/ Press(k, c)
      PROVE  Abstract!Next
  <2>1. Enter(k, c) /\ UNCHANGED <<ring, main, func>>
    BY <1>1 DEF Register, Press
  <2> QED BY <2>1, EnterAsks DEF Abstract!Next
<1>2. ASSUME NEW k \in Levels, NEW c \in Calls, LastPress(k, c) PROVE Abstract!Next
  BY <1>2 DEF LastPress, Running, Abstract!Exit, Abstract!Next
<1>3. CASE UNCHANGED vars
  <2>1. UNCHANGED <<ring, arg, func, main>>
    BY <1>3 DEF vars, handlers
  <2> QED BY <2>1, SameQueue, Keeps DEF Asked, Waiting, Made, Running
<1> QED BY <1>1, <1>2, <1>3, AddAbstract, InterpreterAbstract DEF Next, Arrive

-----------------------------------------------------------------------------
(* The theorems *)

\* Every variable keeps its type.
THEOREM TypeCorrect == Spec => []TypeOK
BY Invariance, PTL DEF Inv

\* Handlers nested to any depth never write the ring at the same time, which the
\* comment of Py_AddPendingCall does not claim ("not against (1)").
THEOREM NestedCorrect == Spec => []OneInside
BY Invariance, PTL DEF Inv

\* A call that was accepted is seen by the loop that runs, or the next one is told to
\* look, wherever handlers cut into Py_MakePendingCalls.
THEOREM NoneForgottenCorrect == Spec => []NoneForgotten
BY Invariance, PTL DEF Inv

\* The ring is a queue, of which handlers of any level and the interpreter may be in
\* the middle of changing it: what Py_AddPendingCall accepts is made once and in
\* order, and nothing else is made.
THEOREM QueueCorrect == Spec => IsQueue
<1>1. Spec => []QueueInv
  BY QueueInit, QueueStep, PTL DEF Spec
<1>2. Spec => Abstract!Init
  BY QueueStarts DEF Spec
<1>3. Spec => [][Abstract!Next]_(Abstract!vars)
  BY <1>1, QueueRefines, PTL DEF Spec
<1> QED BY <1>2, <1>3 DEF IsQueue
=============================================================================
