------------------------------- MODULE Pieces -------------------------------
(***************************************************************************)
(* Parts of the interpreter that share no state: the pending calls, the      *)
(* sort of a list, the end of nested objects, a text that is written and     *)
(* read, and algorithms of which each is a machine of its own in the         *)
(* variable st.  A behaviour is one of the first four or of one machine.    *)
(***************************************************************************)
EXTENDS PendingCalls, ListSort, Trashcan, IntArith, Lines

CONSTANTS
  SHIFT, Left, Right, Moduli,
  Hashes, MaxBits

VARIABLE st

Numeric == INSTANCE Arithmetic
Search == INSTANCE DictProbe

ASSUME PiecesAssumption == Numeric!LongAssumption

\* Objects where nothing ends.
Graph == CHOOSE g \in Graphs : TRUE

InitPieces ==
  /\ Init
  /\ \/ st \in [machine : {"calls", "sort", "trash", "lines"}]
     \/ Numeric!Init \/ Search!Init
  /\ (st.machine # "sort" => key = NoOrder) /\ SortInit
  /\ IF st.machine = "trash" THEN TrashInit
     ELSE Start(Graph, Objects)
  /\ IF st.machine = "lines" THEN LinesInit
     ELSE LinesStart(<<>>)

Machines == Numeric!Next \/ Search!Next

NextPieces ==
  \/ st.machine = "calls" /\ Next /\ UNCHANGED <<sortVars, trashVars, linesVars, st>>
  \/ st.machine = "sort" /\ SortNext /\ UNCHANGED <<vars, trashVars, linesVars, st>>
  \/ st.machine = "trash" /\ TrashNext /\ UNCHANGED <<vars, sortVars, linesVars, st>>
  \/ st.machine = "lines" /\ LinesNext /\ UNCHANGED <<vars, sortVars, trashVars, st>>
  \/ Machines /\ UNCHANGED <<vars, sortVars, trashVars, linesVars>>

\* The machines need no fairness: nothing is said of their end.
SpecPieces ==
  InitPieces /\ [][NextPieces]_<<vars, sortVars, trashVars, linesVars, st>> /\ Fairness

-----------------------------------------------------------------------------
(* Properties: see the modules they are from *)

\* Long integers are the integers (Arithmetic).
LongsAreIntegers == Numeric!LongsAreIntegers

\* Plain integers are, or say that they are not (Arithmetic).
IntsAreExact == Numeric!IntsAreExact

\* The search for a key comes by every slot (DictProbe).
VisitsAll == Search!VisitsAll
=============================================================================
