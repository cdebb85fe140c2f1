------------------------------ MODULE Trashcan ------------------------------
(***************************************************************************)
(* The end of nested objects (Py_DECREF and the trashcan of                  *)
(* src/Source/Include/object.h and Objects/object.c): a container gives up   *)
(* its references when its own count is 0, which may end others, one inside  *)
(* the other on the C stack.  From PyTrash_UNWIND_LEVEL on they wait in a    *)
(* chain, which is destroyed when the outermost is done.  An object that     *)
(* is no such container (an instance) ends without looking at the level.   *)
(***************************************************************************)
EXTENDS Integers, Sequences, FiniteSets

CONSTANTS
  Number,                \* the number of objects
  PyTrash_UNWIND_LEVEL,
  Graphs,                \* what the objects refer to
  Containers             \* the objects of a type that uses the trashcan

Objects == 1 .. Number

\* A level of 2 would put an object back into the chain for ever.
ASSUME TrashAssumption ==
  /\ Number \in Nat /\ PyTrash_UNWIND_LEVEL \in Nat /\ PyTrash_UNWIND_LEVEL >= 3
  /\ Containers \subseteq Objects
  /\ \A g \in Graphs :
       /\ g \in [Objects -> Seq(Objects)]
       /\ \A o \in Objects : \A i \in DOMAIN g[o] : g[o][i] > o

VARIABLES
  graph,
  roots,       \* the objects that the program holds a reference to
  refcnt,
  freed,       \* how often an object was freed
  nesting,     \* _PyTrash_delete_nesting
  later,       \* _PyTrash_delete_later, the first of the chain last
  frames       \* the C stack

trashVars == <<graph, roots, refcnt, freed, nesting, later, frames>>

References(g, o) ==
  {s \in UNION {{p} \X DOMAIN g[p] : p \in Objects} : g[s[1]][s[2]] = o}

Start(g, held) ==
  /\ graph = g /\ roots = held
  /\ refcnt = [o \in Objects |-> Cardinality(References(g, o)) + (IF o \in held THEN 1 ELSE 0)]
  /\ freed = [o \in Objects |-> 0]
  /\ nesting = 0 /\ later = <<>> /\ frames = <<>>

TrashInit ==
  \E g \in Graphs, held \in SUBSET Objects :
    /\ \A o \in Objects : References(g, o) = {} => o \in held
    /\ Start(g, held)

Front(s) == SubSeq(s, 1, Len(s) - 1)
Top == frames[Len(frames)]
Doing(what) == frames # <<>> /\ Top.do = what
Frame(what, o, n) == [do |-> what, obj |-> o, next |-> n]

\* Py_DECREF of an object with these counts, on a stack.
Decref(o, counts, stack) ==
  /\ refcnt' = [counts EXCEPT ![o] = @ - 1]
  /\ frames' = IF refcnt'[o] = 0 THEN Append(stack, Frame("dealloc", o, 1)) ELSE stack

\* The program gives up a reference.
Drop ==
  /\ frames = <<>>
  /\ \E o \in roots : roots' = roots \ {o} /\ Decref(o, refcnt, <<>>)
  /\ UNCHANGED <<graph, freed, nesting, later>>

-----------------------------------------------------------------------------
(* A deallocation between Py_TRASHCAN_SAFE_BEGIN and Py_TRASHCAN_SAFE_END *)

Py_TRASHCAN_TUPLE == 1

\* The fault of losing what waits already.
DepositedAlone(o) == <<o>>
\* _PyTrash_deposit_object.
Deposited(o) == Append(later, o)

\* The end of the macro: what waits is destroyed when no deallocation is under way.
End(o, level, waiting) ==
  /\ nesting' = IF o \in Containers THEN level - 1 ELSE level
  /\ later' = waiting
  /\ frames' = IF o \in Containers /\ waiting # <<>> /\ nesting' <= 0
               THEN Append(Front(frames), Frame("chain", o, 1)) ELSE Front(frames)

\* The count of what is deposited holds its type meanwhile.
Begin ==
  /\ Doing("dealloc")
  /\ LET o == Top.obj
         level == IF o \in Containers THEN nesting + 1 ELSE nesting
     IN  IF o \in Containers /\ level >= PyTrash_UNWIND_LEVEL
         THEN refcnt' = [refcnt EXCEPT ![o] = Py_TRASHCAN_TUPLE] /\ End(o, level, Deposited(o))
         ELSE /\ nesting' = level
              /\ frames' = Append(Front(frames), Frame("children", o, 1))
              /\ UNCHANGED <<refcnt, later>>
  /\ UNCHANGED <<graph, roots, freed>>

Child ==
  /\ Doing("children") /\ Top.next <= Len(graph[Top.obj])
  /\ Decref(graph[Top.obj][Top.next], refcnt,
            Append(Front(frames), Frame("children", Top.obj, Top.next + 1)))
  /\ UNCHANGED <<graph, roots, freed, nesting, later>>

Free ==
  /\ Doing("children") /\ Top.next > Len(graph[Top.obj])
  /\ freed' = [freed EXCEPT ![Top.obj] = @ + 1]
  /\ End(Top.obj, nesting, later)
  /\ UNCHANGED <<graph, roots, refcnt>>

-----------------------------------------------------------------------------
(* _PyTrash_destroy_chain *)

Destroyed ==
  /\ Doing("chain") /\ later = <<>>
  /\ frames' = Front(frames)
  /\ UNCHANGED <<graph, roots, refcnt, freed, nesting, later>>

Shred ==
  /\ Doing("chain") /\ later # <<>>
  /\ LET shredder == later[Len(later)]
     IN  Decref(shredder, [refcnt EXCEPT ![shredder] = 1],
                Append(Front(frames), Frame("shred", Top.obj, 1)))
  /\ later' = Front(later) /\ nesting' = nesting + 1
  /\ UNCHANGED <<graph, roots, freed>>

Shredded ==
  /\ Doing("shred")
  /\ frames' = Append(Front(frames), Frame("chain", Top.obj, 1))
  /\ nesting' = nesting - 1
  /\ UNCHANGED <<graph, roots, refcnt, freed, later>>

TrashNext == Drop \/ Begin \/ Child \/ Free \/ Destroyed \/ Shred \/ Shredded

TrashSpec == TrashInit /\ [][TrashNext]_trashVars

-----------------------------------------------------------------------------
(* Properties *)

Closed(S) == roots \subseteq S /\ \A p \in S : \A k \in DOMAIN graph[p] : graph[p][k] \in S
Reachable ==
  roots \cup {o \in Objects : \A S \in SUBSET Objects : Closed(S) => o \in S}

Depth == Cardinality({i \in DOMAIN frames :
                        frames[i].do \in {"dealloc", "children"} /\ frames[i].obj \in Containers})

\* Nothing is freed that can be reached, and nothing twice, though an object waits in
\* the chain without a count; when the outermost deallocation returns, everything else
\* is free and the chain is empty; and the C stack holds a bounded number of
\* deallocations of containers, however deep the objects are nested.
GarbageFreed ==
  /\ \A o \in Objects : freed[o] = 0 \/ (freed[o] = 1 /\ o \notin Reachable)
  /\ Depth <= PyTrash_UNWIND_LEVEL
  /\ frames = <<>> => /\ later = <<>> /\ nesting = 0
                      /\ \A o \in Objects : o \in Reachable \/ freed[o] = 1
=============================================================================
