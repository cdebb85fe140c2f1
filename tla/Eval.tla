-------------------------------- MODULE Eval --------------------------------
(***************************************************************************)
(* The loop of eval_code2 on the code that Blocks compiles: one instruction  *)
(* a step, with the unwinding it may cause.                                   *)
(***************************************************************************)
EXTENDS Blocks, FiniteSetsExt

CONSTANT MaxChoices

ASSUME ChoicesAssumption == MaxChoices \in Nat

VARIABLES
  pc,               \* the next instruction, 0 once the frame is left
  stack, blocks,    \* the value stack and f_blockstack
  choices,          \* the results of the evaluations so far
  outcome           \* how the frame was left

vars == <<prog, work, compiling, pc, stack, blocks, choices, outcome>>

Ended(why, n, at) == [why |-> why, val |-> n, at |-> at]

Init ==
  /\ \E s \in Programs : Start(s)
  /\ pc = 1 /\ stack = <<>> /\ blocks = <<>> /\ choices = <<>>
  /\ outcome = Ended("none", 0, 0)

\* The function is called once it is compiled, if it could be.
Compiled == work = <<>> /\ ~error
Running == Compiled /\ pc > 0

\* Values: the result of a choice, what an exception or a finally leaves on
\* the stack, and others of no interest.
Result(n, true) == [is |-> "result", n |-> n, true |-> true]
Reason(why) == [is |-> why, n |-> 0, true |-> TRUE]
Exc(n) == [is |-> "exception", n |-> n, true |-> TRUE]
Other == [is |-> "other", n |-> 0, true |-> FALSE]
None == [is |-> "None", n |-> 0, true |-> FALSE]

Cut(n) == SubSeq(stack, 1, Len(stack) - n)
Top(n) == stack[Len(stack) - n]   \* n values below the topmost

Frame(st, bl, next) ==
  /\ stack' = st /\ blocks' = bl /\ pc' = next
  /\ UNCHANGED <<prog, work, compiling, outcome>>
Step(st, next) == Frame(st, blocks, next) /\ UNCHANGED choices

\* The fault of a finally that a break does not run.
CatchesNoBreak(b, why) ==
  \/ b.type = "SETUP_LOOP" /\ why = "break"
  \/ b.type = "SETUP_FINALLY" /\ why # "break"
  \/ b.type = "SETUP_EXCEPT" /\ why = "exception"

\* Does the unwinding stop at block b?
Catches(b, why) ==
  \/ b.type = "SETUP_LOOP" /\ why = "break"
  \/ b.type = "SETUP_FINALLY"
  \/ b.type = "SETUP_EXCEPT" /\ why = "exception"

\* What a handler finds on the stack.
Handed(b, why, n) ==
  CASE why = "exception" -> <<Other, Other, Exc(n)>>
    [] why = "return" -> <<Result(n, TRUE), Reason(why)>>
    [] OTHER -> IF b.type = "SETUP_LOOP" THEN <<>> ELSE <<Reason(why)>>

\* The end of the loop: with a reason to leave, blocks are popped until one
\* catches it, and the value stack is cut to that block's level.
Unwind(why, n, st) ==
  LET catchers == {i \in DOMAIN blocks : Catches(blocks[i], why)}
      b == blocks[Max(catchers)]
  IN IF catchers = {}
     THEN /\ outcome' = Ended(why, n, Len(choices'))
          /\ pc' = 0 /\ stack' = <<>> /\ blocks' = <<>>
          /\ UNCHANGED <<prog, work, compiling>>
     ELSE Frame(SubSeq(st, 1, b.level) \o Handed(b, why, n),
                SubSeq(blocks, 1, Max(catchers) - 1), b.handler)

Leave(why, n, st) == UNCHANGED choices /\ Unwind(why, n, st)

\* An evaluation: its result is free for the first MaxChoices of them.
Free == Len(choices) < MaxChoices
Choose(c) == choices' = Append(choices, c)
Is(op) == Running /\ code[pc].op = op

-----------------------------------------------------------------------------
(* One action for each instruction *)

Eval ==
  /\ Is("EVAL")
  /\ \E c \in IF Free THEN {"true", "false", "raise"} ELSE {"false"} :
       /\ Choose(c)
       /\ IF c = "raise" THEN Unwind("exception", Len(choices) + 1, stack)
          ELSE Frame(Append(stack, Result(Len(choices) + 1, c = "true")),
                     blocks, pc + 1)

\* The next item, or the loop ends and its sequence and index are popped.
ForLoop ==
  /\ Is("FOR_LOOP")
  /\ \E c \in IF Free THEN {"true", "false", "raise"} ELSE {"false"} :
       /\ Choose(c)
       /\ CASE c = "raise" -> Unwind("exception", Len(choices) + 1, Cut(2))
            [] c = "true" -> Frame(Append(stack, Other), blocks, pc + 1)
            [] c = "false" -> Frame(Cut(2), blocks, code[pc].arg)

PopTop == (Is("POP_TOP") \/ Is("STORE_NAME")) /\ Step(Cut(1), pc + 1)
DupTop == Is("DUP_TOP") /\ Step(Append(stack, Top(0)), pc + 1)
LoadZero == Is("LOAD_ZERO") /\ Step(Append(stack, Other), pc + 1)
LoadNone == Is("LOAD_NONE") /\ Step(Append(stack, None), pc + 1)

\* COMPARE_OP EXC_MATCH: the class decides.
ExcMatch == Is("EXC_MATCH") /\ Step(Append(Cut(2), Top(0)), pc + 1)

JumpIfFalse ==
  Is("JUMP_IF_FALSE") /\ Step(stack, IF Top(0).true THEN pc + 1 ELSE code[pc].arg)
Jump == (Is("JUMP_FORWARD") \/ Is("JUMP_ABSOLUTE")) /\ Step(stack, code[pc].arg)

Setup ==
  \E type \in {"SETUP_LOOP", "SETUP_EXCEPT", "SETUP_FINALLY"} :
    /\ Is(type)
    /\ Frame(stack,
             Append(blocks, [type |-> type, level |-> Len(stack),
                             handler |-> code[pc].arg]), pc + 1)
    /\ UNCHANGED choices

PopBlock ==
  /\ Is("POP_BLOCK")
  /\ LET b == blocks[Len(blocks)]
         st == IF Len(stack) > b.level THEN SubSeq(stack, 1, b.level) ELSE stack
     IN Frame(st, SubSeq(blocks, 1, Len(blocks) - 1), pc + 1)
  /\ UNCHANGED choices

BreakLoop == Is("BREAK_LOOP") /\ Leave("break", 0, stack)
ReturnValue == Is("RETURN_VALUE") /\ Leave("return", Top(0).n, Cut(1))
RaiseVarargs == Is("RAISE_VARARGS") /\ Leave("exception", Top(0).n, Cut(1))

\* The reason on the stack is taken up again.
EndFinally ==
  /\ Is("END_FINALLY")
  /\ CASE Top(0).is = "None" -> Step(Cut(1), pc + 1)
       [] Top(0).is = "break" -> Leave("break", 0, Cut(1))
       [] Top(0).is = "return" -> Leave("return", Top(1).n, Cut(2))
       [] Top(0).is = "exception" -> Leave("exception", Top(0).n, Cut(3))
       [] OTHER -> Leave("exception", 0, Cut(1))

Translate == Compile /\ UNCHANGED <<pc, stack, blocks, choices, outcome>>

\* The frame has been left, or there was nothing to run.
Finished == work = <<>> /\ (error \/ pc = 0)
Done == Finished /\ UNCHANGED vars

Next ==
  \/ Translate
  \/ Eval \/ ForLoop \/ PopTop \/ DupTop \/ LoadZero \/ LoadNone \/ ExcMatch
  \/ JumpIfFalse \/ Jump \/ Setup \/ PopBlock
  \/ BreakLoop \/ ReturnValue \/ RaiseVarargs \/ EndFinally
  \/ Done

Spec == Init /\ [][Next]_vars /\ WF_vars(Next)

-----------------------------------------------------------------------------
(* Properties *)

\* The values an instruction takes off the stack, or looks at.
Taken(op) ==
  CASE op \in {"POP_TOP", "STORE_NAME", "DUP_TOP", "JUMP_IF_FALSE", "RETURN_VALUE",
              "RAISE_VARARGS"} -> 1
    [] op \in {"EXC_MATCH", "FOR_LOOP"} -> 2
    [] op = "END_FINALLY" -> CASE stack = <<>> -> 1
                               [] Top(0).is = "return" -> 2
                               [] Top(0).is = "exception" -> 3
                               [] OTHER -> 1
    [] OTHER -> 0

\* The frame is allocated with the stack size and the blocks the compiler has
\* counted: neither is exceeded, whatever is raised, returned or broken out of
\* (ceval.c checks neither), the next instruction is in the code, and it finds
\* the values and the block it takes.
FrameFits ==
  Running =>
    /\ Len(stack) <= max /\ Len(blocks) <= MaxBlocks
    /\ pc \in DOMAIN code /\ Len(stack) >= Taken(code[pc].op)
    /\ code[pc].op = "POP_BLOCK" => blocks # <<>>
    /\ \A i \in DOMAIN blocks : blocks[i].level \in 0 .. Len(stack)

\* Code comes to its end: no jump leads back other than to a loop's test.
Finishes == <>Finished
=============================================================================
