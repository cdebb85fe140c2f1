---------------------------- MODULE PendingCalls ----------------------------
(***************************************************************************)
(* Pending calls and Ctrl-C (src/Source/Python/ceval.c, Parser/intrcheck.c). *)
(* A handler that interrupts the interpreter registers a call in a ring; the *)
(* interpreter's loop makes the registered calls when it next looks at       *)
(* things_to_do.  There are no threads in this build: a handler runs to its  *)
(* end before what it interrupted goes on, but handlers of a higher level    *)
(* interrupt those of a lower one, between any two accesses to the shared    *)
(* variables.                                                              *)
(*                                                                         *)
(* MaxNesting bounds the handlers inside each other.  Each call is           *)
(* registered at most once; those in Presses are made by intcatcher.         *)
(***************************************************************************)
EXTENDS Integers, Sequences

CONSTANTS
  NPendingCalls,
  MaxNesting,
  Calls,
  Presses,       \* the calls that intcatcher registers, one for each Ctrl-C
  None

ASSUME PendingAssumption ==
  /\ NPendingCalls \in Nat \ {0, 1} /\ MaxNesting \in Nat
  /\ Presses \subseteq Calls
  /\ None \notin Calls

Slots == 0 .. NPendingCalls - 1
Levels == 1 .. MaxNesting

VARIABLES
  pendingcalls, pendingfirst, pendinglast, things_to_do,
  addBusy, makeBusy,    \* the static busy of either function
  pc, arg,              \* the handler of each level
  main, func,           \* the interpreter, and the call it makes
  interrupted,          \* intrcheck.c: presses nobody has looked at
  fresh                 \* calls that were never registered

ring == <<pendingcalls, pendingfirst, pendinglast>>
handlers == <<pc, arg>>
vars == <<ring, things_to_do, addBusy, makeBusy, handlers, main, func, interrupted, fresh>>

Critical == {"full", "store", "advance", "flag", "release"}
AddSteps == {"idle", "test", "claim"} \cup Critical
MakeSteps == {"clear", "look", "take", "first", "call", "fail", "again", "leave"}

TypeOK ==
  /\ pendingcalls \in [Slots -> Calls \cup {None}]
  /\ pendingfirst \in Slots /\ pendinglast \in Slots
  /\ things_to_do \in BOOLEAN /\ addBusy \in BOOLEAN /\ makeBusy \in BOOLEAN
  /\ pc \in [Levels -> AddSteps]
  /\ arg \in [Levels -> Calls \cup {None}]
  /\ main \in {"run", "make", "exit"} \cup MakeSteps
  /\ func \in Calls \cup {None}
  /\ interrupted \in 0 .. 2
  /\ fresh \subseteq Calls

Init ==
  /\ pendingcalls = [s \in Slots |-> None]
  /\ pendingfirst = 0 /\ pendinglast = 0
  /\ things_to_do = FALSE /\ addBusy = FALSE /\ makeBusy = FALSE
  /\ pc = [k \in Levels |-> "idle"]
  /\ arg = [k \in Levels |-> None]
  /\ main = "run" /\ func = None
  /\ interrupted = 0
  /\ fresh = Calls

After(s) == (s + 1) % NPendingCalls

\* Nothing has interrupted this level; 0 is the interpreter.
OnTop(k) == main # "exit" /\ \A j \in Levels : j > k => pc[j] = "idle"

GoTo(k, from, to) == OnTop(k) /\ pc[k] = from /\ pc' = [pc EXCEPT ![k] = to]
MainGoes(from, to) == OnTop(0) /\ main = from /\ main' = to

-----------------------------------------------------------------------------
(* Py_AddPendingCall, in a handler *)

Enter(k, c) ==
  /\ GoTo(k, "idle", "test")
  /\ arg' = [arg EXCEPT ![k] = c]
  /\ c \in fresh /\ fresh' = fresh \ {c}

\* Any other handler.
Register(k, c) ==
  /\ c \notin Presses
  /\ Enter(k, c)
  /\ UNCHANGED <<ring, things_to_do, addBusy, makeBusy, main, func, interrupted>>

\* intcatcher counts the presses; it ends the program at the third in a row.
Press(k, c) ==
  /\ c \in Presses /\ interrupted < 2
  /\ Enter(k, c)
  /\ interrupted' = interrupted + 1
  /\ UNCHANGED <<ring, things_to_do, addBusy, makeBusy, main, func>>

LastPress(k, c) ==
  /\ c \in Presses \cap fresh /\ interrupted = 2
  /\ OnTop(k) /\ pc[k] = "idle"
  /\ main' = "exit" /\ interrupted' = 0
  /\ UNCHANGED <<ring, things_to_do, addBusy, makeBusy, handlers, func, fresh>>

Refused(k) ==
  /\ pc' = [pc EXCEPT ![k] = "idle"]
  /\ arg' = [arg EXCEPT ![k] = None]

TestBusy(k) ==
  /\ OnTop(k) /\ pc[k] = "test"
  /\ IF addBusy THEN Refused(k)
     ELSE pc' = [pc EXCEPT ![k] = "claim"] /\ UNCHANGED arg
  /\ UNCHANGED <<ring, things_to_do, addBusy, makeBusy, main, func, interrupted, fresh>>

Claim(k) ==
  /\ GoTo(k, "claim", "full")
  /\ addBusy' = TRUE
  /\ UNCHANGED <<ring, things_to_do, makeBusy, arg, main, func, interrupted, fresh>>

\* The fault of a ring that may be filled to the last slot.
OverFull == FALSE
Full == After(pendinglast) = pendingfirst

\* A full queue is left with busy set: from now on every registration is refused.
TestFull(k) ==
  /\ OnTop(k) /\ pc[k] = "full"
  /\ IF Full THEN Refused(k)
     ELSE pc' = [pc EXCEPT ![k] = "store"] /\ UNCHANGED arg
  /\ UNCHANGED <<ring, things_to_do, addBusy, makeBusy, main, func, interrupted, fresh>>

Store(k) ==
  /\ GoTo(k, "store", "advance")
  /\ pendingcalls' = [pendingcalls EXCEPT ![pendinglast] = arg[k]]
  /\ UNCHANGED <<pendingfirst, pendinglast, things_to_do, addBusy, makeBusy, arg,
                 main, func, interrupted, fresh>>

\* The call is accepted here; the interpreter may find it before it is told to look.
Advance(k) ==
  /\ GoTo(k, "advance", "flag")
  /\ pendinglast' = After(pendinglast)
  /\ arg' = [arg EXCEPT ![k] = None]
  /\ UNCHANGED <<pendingcalls, pendingfirst, things_to_do, addBusy, makeBusy,
                 main, func, interrupted, fresh>>

Flag(k) ==
  /\ GoTo(k, "flag", "release")
  /\ things_to_do' = TRUE
  /\ UNCHANGED <<ring, addBusy, makeBusy, arg, main, func, interrupted, fresh>>

Release(k) ==
  /\ GoTo(k, "release", "idle")
  /\ addBusy' = FALSE
  /\ UNCHANGED <<ring, things_to_do, makeBusy, arg, main, func, interrupted, fresh>>

-----------------------------------------------------------------------------
(* Py_MakePendingCalls, called at the head of the interpreter's loop *)

\* eval_code2 looks at things_to_do before every instruction.
LoopHead ==
  /\ things_to_do
  /\ MainGoes("run", "make")
  /\ UNCHANGED <<ring, things_to_do, addBusy, makeBusy, handlers, func, interrupted, fresh>>

\* The loop of a function that is called comes here with busy set and changes nothing.
Make ==
  /\ MainGoes("make", IF makeBusy THEN "run" ELSE "clear")
  /\ makeBusy' = TRUE
  /\ UNCHANGED <<ring, things_to_do, addBusy, handlers, func, interrupted, fresh>>

\* The fault of forgetting that there are things to do when they are done, not before.
ClearedLate == {"leave"}
ClearedAt == {"clear"}
Cleared(step) == IF step \in ClearedAt THEN FALSE ELSE things_to_do

Clear ==
  /\ MainGoes("clear", "look")
  /\ things_to_do' = Cleared("clear")
  /\ UNCHANGED <<ring, addBusy, makeBusy, handlers, func, interrupted, fresh>>

Look ==
  /\ MainGoes("look", IF pendingfirst = pendinglast THEN "leave" ELSE "take")
  /\ UNCHANGED <<ring, things_to_do, addBusy, makeBusy, handlers, func, interrupted, fresh>>

Take ==
  /\ MainGoes("take", "first")
  /\ func' = pendingcalls[pendingfirst]
  /\ UNCHANGED <<ring, things_to_do, addBusy, makeBusy, handlers, interrupted, fresh>>

First ==
  /\ MainGoes("first", "call")
  /\ pendingfirst' = After(pendingfirst)
  /\ UNCHANGED <<pendingcalls, pendinglast, things_to_do, addBusy, makeBusy, handlers,
                 func, interrupted, fresh>>

\* checksignals_witharg fails with KeyboardInterrupt if there was a press since the
\* last look; another function may do either.
Outcomes ==
  IF func \in Presses THEN {IF interrupted > 0 THEN "fail" ELSE "look"}
  ELSE {"fail", "look"}

Call ==
  /\ OnTop(0) /\ main = "call"
  /\ main' \in Outcomes
  /\ interrupted' = IF func \in Presses THEN 0 ELSE interrupted
  /\ func' = None
  /\ UNCHANGED <<ring, things_to_do, addBusy, makeBusy, handlers, fresh>>

\* The call failed: the rest is left for the next time.
Fail ==
  /\ MainGoes("fail", "again")
  /\ makeBusy' = FALSE
  /\ UNCHANGED <<ring, things_to_do, addBusy, handlers, func, interrupted, fresh>>

Again ==
  /\ MainGoes("again", "run")
  /\ things_to_do' = TRUE
  /\ UNCHANGED <<ring, addBusy, makeBusy, handlers, func, interrupted, fresh>>

Leave ==
  /\ MainGoes("leave", "run")
  /\ makeBusy' = FALSE
  /\ things_to_do' = Cleared("leave")
  /\ UNCHANGED <<ring, addBusy, handlers, func, interrupted, fresh>>

\* PyErr_CheckSignals from the inside of a long computation or of an output.
CheckSignals ==
  /\ OnTop(0) /\ main \in {"run", "call"}
  /\ interrupted > 0 /\ interrupted' = 0
  /\ UNCHANGED <<ring, things_to_do, addBusy, makeBusy, handlers, main, func, fresh>>

-----------------------------------------------------------------------------
Add(k) ==
  \/ TestBusy(k) \/ Claim(k) \/ TestFull(k) \/ Store(k) \/ Advance(k) \/ Flag(k)
  \/ Release(k)

Interpreter ==
  \/ LoopHead \/ Make \/ Clear \/ Look \/ Take \/ First \/ Call \/ Fail \/ Again \/ Leave

Arrive == \E k \in Levels, c \in Calls : Register(k, c) \/ Press(k, c) \/ LastPress(k, c)

Next == Arrive \/ (\E k \in Levels : Add(k)) \/ Interpreter \/ CheckSignals

\* The program goes on: handlers end, functions return, and the loop comes round.
Fairness == WF_vars(Interpreter) /\ \A k \in Levels : WF_vars(Add(k))

Spec == Init /\ [][Next]_vars /\ Fairness

-----------------------------------------------------------------------------
(* Properties *)

Count == (pendinglast - pendingfirst) % NPendingCalls
Queue == [n \in 1 .. Count |-> pendingcalls[(pendingfirst + n - 1) % NPendingCalls]]
Running == main # "exit"

\* A registration in a handler and the loop that takes calls out may cut into each
\* other anywhere: the ring is a queue, an answer of 0 means that the call is in it,
\* and each is made once, in order.  Handlers inside handlers are safe too, although
\* the comment of Py_AddPendingCall says they are not.
Abstract == INSTANCE CallQueue WITH
  asked <- IF Running THEN {arg[k] : k \in Levels} \ {None} ELSE {},
  queue <- IF Running THEN Queue ELSE <<>>,
  running <- IF main = "call" THEN func ELSE None
IsQueue == Abstract!Init /\ [][Abstract!Next]_(Abstract!vars)

\* No accepted call is forgotten: while one is in the ring, somebody will look at it,
\* because things_to_do is set, is about to be, or the loop has yet to find the ring
\* empty.
Looking == main \in {"make", "clear", "look", "take", "first", "call", "fail", "again"}
NoneForgotten ==
  Running /\ pendingfirst # pendinglast =>
    things_to_do \/ Looking \/ \E k \in Levels : pc[k] = "flag"

\* A call in the ring is made, unless the program ends.
AcceptedRuns ==
  \A c \in Calls :
    (\E s \in 1 .. Count : Queue[s] = c) ~> (main = "exit" \/ (main = "call" /\ func = c))
=============================================================================
