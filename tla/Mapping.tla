------------------------------ MODULE Mapping ------------------------------
(***************************************************************************)
(* What Python promises of dictionaries: each is a finite function from     *)
(* keys, taken up to equality, to values, and an operation changes one key  *)
(* of one dictionary or removes all of them.  An operation that takes several *)
(* steps works on one dictionary and only sets keys of it.                  *)
(***************************************************************************)
EXTENDS Functions

CONSTANTS Dicts, Values, Classes, Nobody

VARIABLES
  contents,   \* the function each dictionary stands for
  writing     \* the dictionary an operation is working on, or Nobody

vars == <<contents, writing>>

Partial == UNION {[C -> Values] : C \in SUBSET Classes}
Nothing == [c \in {} |-> c]

Init ==
  /\ contents = [d \in Dicts |-> Nothing]
  /\ writing = Nobody

Begin(d) ==
  /\ writing = Nobody
  /\ writing' = d
  /\ UNCHANGED contents

With(f, c, v) == [x \in DOMAIN f \cup {c} |-> IF x = c THEN v ELSE f[x]]

Set(d) ==
  /\ writing = d
  /\ \E c \in Classes, v \in Values :
       contents' = [contents EXCEPT ![d] = With(@, c, v)]
  /\ writing' \in {d, Nobody}

End(d) ==
  /\ writing = d
  /\ writing' = Nobody
  /\ UNCHANGED contents

Delete(d) ==
  /\ writing = Nobody
  /\ \E c \in DOMAIN contents[d] :
       contents' = [contents EXCEPT ![d] = Restrict(@, DOMAIN @ \ {c})]
  /\ UNCHANGED writing

Clear(d) ==
  /\ writing = Nobody
  /\ contents' = [contents EXCEPT ![d] = Nothing]
  /\ UNCHANGED writing

Next == \E d \in Dicts : Begin(d) \/ Set(d) \/ End(d) \/ Delete(d) \/ Clear(d)

Spec == Init /\ [][Next]_vars
=============================================================================
