----------------------------- MODULE DictProbe -----------------------------
(***************************************************************************)
(* The loop of lookdict (Source/Objects/dictobject.c) over the slots of a   *)
(* table in which nothing ends it: does it come by every slot?  The variable *)
(* st holds the hash looked up, the size of the table (2^bits slots), the    *)
(* locals of lookdict, the slots visited and the rounds of the loop.        *)
(***************************************************************************)
EXTENDS DictArith

CONSTANTS
  Hashes,   \* the hash values looked up, as unsigned words
  MaxBits   \* the tables have 2^2 .. 2^MaxBits slots

VARIABLE st

Init ==
  \E bits \in MINBITS..MaxBits, hash \in Hashes :
    st = [machine |-> "probe", bits |-> bits, hash |-> hash, i |-> Start(hash, bits),
          incr |-> FirstIncr(hash, bits), seen |-> {Start(hash, bits)}, steps |-> 0]

\* Once round the loop in a table in which nothing ends the search.
Probe ==
  /\ st.machine = "probe" /\ st.steps < Mask(st.bits)
  /\ st' = [st EXCEPT !.seen = @ \cup {Slot(st.i, st.incr, st.bits)},
                      !.incr = NextIncr(@, st.bits), !.steps = @ + 1]

Next == Probe

-----------------------------------------------------------------------------
(* Properties *)

\* "we cycle through the values of GF(2^n)-{0}" (dictobject.c:162): the search of
\* a key visits every slot, and so finds the NULL entry wherever it is, after
\* size - 1 rounds at the latest.  The increment never becomes 0.
VisitsAll ==
  st.machine = "probe" =>
    /\ st.incr \in 1..Mask(st.bits)
    /\ st.steps = Mask(st.bits) => st.seen = 0..Mask(st.bits)
=============================================================================
