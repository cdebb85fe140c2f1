------------------------------ MODULE MC_Dict ------------------------------
(***************************************************************************)
(* Keys that collide in every table (1, 1.0 and "a" have the same hash, the  *)
(* others meet their slots), two equal keys and strings among them, and the  *)
(* search order that DictArith computes.                                     *)
(***************************************************************************)
EXTENDS Dict, DictArith, TLC

CONSTANTS one, oneF, strA, strB, strC

MCKeys == {one, oneF, strA, strB, strC}
FewKeys == {one, strA, strB}
MCSame == (oneF :> one) @@ [k \in MCKeys \ {oneF} |-> k]
FewSame == [k \in FewKeys |-> k]
MCHash == (one :> 1) @@ (oneF :> 1) @@ (strA :> 1) @@ (strB :> 5) @@ (strC :> 10)
MCStrings == {strA, strB, strC}
FewStrings == {strA, strB}
MCSizes == {4, 8, 16}
Bits == (4 :> 2) @@ (8 :> 3) @@ (16 :> 4)
\* The search orders, written out rather than computed at each search.
MCProbe ==
  (1 :> ((4 :> <<2, 3, 0, 1>>) @@ (8 :> <<6, 7, 0, 2, 1, 4, 5, 3>>) @@
         (16 :> <<14, 15, 0, 2, 6, 1, 4, 10, 9, 3, 8, 5, 12, 13, 11, 7>>))) @@
  (5 :> ((4 :> <<2, 3, 0, 1>>) @@ (8 :> <<2, 7, 3, 4, 6, 5, 0, 1>>) @@
         (16 :> <<10, 15, 4, 1, 8, 9, 7, 3, 11, 12, 14, 2, 13, 0, 6, 5>>))) @@
  (10 :> ((4 :> <<1, 0, 2, 3>>) @@ (8 :> <<5, 0, 3, 4, 2, 6, 7, 1>>) @@
          (16 :> <<5, 0, 10, 15, 12, 3, 4, 2, 14, 6, 7, 9, 13, 8, 11, 1>>)))
ASSUME ProbeIsComputed ==
  \A h \in {1, 5, 10}, n \in MCSizes : MCProbe[h][n] = ProbeOrder(h, Bits[n])

DictSymmetry == Permutations(Dicts)
=============================================================================
