--------------------------- MODULE MC_ARexxPort ---------------------------
(* Two tasks; one has a second port, as a program that calls SendARexxMsg. *)
EXTENDS ARexxPort, TLC

CONSTANTS t1, t2, p1, p2, p3

MCOwner == (p1 :> t1) @@ (p2 :> t2) @@ (p3 :> t1)
MCOwner2 == (p1 :> t1) @@ (p2 :> t2)
MCOwner1 == p1 :> t1
MCOwner13 == (p1 :> t1) @@ (p3 :> t1)
MessageSymmetry == Permutations(Messages)
=============================================================================
