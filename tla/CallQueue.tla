----------------------------- MODULE CallQueue -----------------------------
(***************************************************************************)
(* What Py_AddPendingCall and Py_MakePendingCalls promise together: a call   *)
(* that is asked for is either accepted or refused; those accepted run in    *)
(* the order they were accepted in, each once, one at a time.                *)
(***************************************************************************)
EXTENDS Sequences

CONSTANTS Calls, None

VARIABLES asked, queue, running

vars == <<asked, queue, running>>

Init == asked = {} /\ queue = <<>> /\ running = None

Ask(c) ==
  /\ c \in Calls \ asked
  /\ asked' = asked \cup {c}
  /\ UNCHANGED <<queue, running>>

Accept(c) ==
  /\ c \in asked
  /\ asked' = asked \ {c}
  /\ queue' = Append(queue, c)
  /\ UNCHANGED running

Refuse(c) ==
  /\ c \in asked
  /\ asked' = asked \ {c}
  /\ UNCHANGED <<queue, running>>

Run ==
  /\ queue # <<>> /\ running = None
  /\ running' = Head(queue)
  /\ queue' = Tail(queue)
  /\ UNCHANGED asked

Return ==
  /\ running # None
  /\ running' = None
  /\ UNCHANGED <<asked, queue>>

\* The program stops (Py_Exit from the handler of the third Ctrl-C).
Exit == asked' = {} /\ running' = None /\ queue' = <<>>

Next == (\E c \in Calls : Ask(c) \/ Accept(c) \/ Refuse(c)) \/ Run \/ Return \/ Exit

Spec == Init /\ [][Next]_vars
=============================================================================
