------------------------------- MODULE Blocks -------------------------------
(***************************************************************************)
(* How compile.c translates statements to code, with a block stack and the   *)
(* level of the value stack kept at compile time.  com_node calls itself for *)
(* the parts of a statement: work holds its calls, the innermost last, each  *)
(* at some place of what the function for the statement does.  A function is *)
(* given as the list of its calls of the primitives.                        *)
(*                                                                         *)
(* An instruction has its target for an argument; bytes, line numbers and    *)
(* the chains of com_backpatch are left out.                                *)
(***************************************************************************)
EXTENDS Integers, Sequences

CONSTANTS Programs, MaxBlocks

ASSUME BlocksAssumption == MaxBlocks \in Nat

VARIABLES
  prog,                                            \* the statement compiled
  work,                                            \* the calls of com_node
  code, block, begin, loops, level, max, error     \* struct compiling

compiling == <<code, block, begin, loops, level, max, error>>

-----------------------------------------------------------------------------
(* The primitives, as they are called *)

\* com_addbyte or com_addoparg, and com_push or com_pop of n values.
Byte(op, n) == [do |-> "byte", op |-> op, n |-> n]
Fwref(op, anchor) == [do |-> "fwref", op |-> op, anchor |-> anchor]
Patch(anchor) == [do |-> "patch", anchor |-> anchor]
Level(n) == [do |-> "level", n |-> n]
Push(type) == [do |-> "push", type |-> type]
Pop(type) == [do |-> "pop", type |-> type]
Begin == [do |-> "begin"]
Loop == [do |-> "loop"]
Again == [do |-> "again"]
Part(s) == [do |-> "part", s |-> s]

\* Any expression, and what is left of one that is a statement.
Evaluate == Byte("EVAL", 1)
Drop == Byte("POP_TOP", -1)

-----------------------------------------------------------------------------
(* The functions for the statements *)

\* An if whose test is the constant false is what is behind it (is_constant_false).
IfStmt(s) ==
  IF s.never THEN <<Part(s.els)>>
  ELSE <<Evaluate, Fwref("JUMP_IF_FALSE", "false"), Drop, Part(s.body),
         Fwref("JUMP_FORWARD", "end"), Patch("false"), Byte("POP_TOP", 0), Part(s.els),
         Patch("end")>>

\* The fault of a loop that begins after its test.
WhileStmtLate(s) ==
  <<Fwref("SETUP_LOOP", "block"), Push("SETUP_LOOP"),
    Evaluate, Fwref("JUMP_IF_FALSE", "false"), Drop, Begin, Loop, Part(s.body), Again,
    Patch("false"), Byte("POP_TOP", 0), Byte("POP_BLOCK", 0), Pop("SETUP_LOOP"),
    Part(s.els), Patch("block")>>

\* The test is a part of what continue goes back to.
WhileStmt(s) ==
  <<Fwref("SETUP_LOOP", "block"), Push("SETUP_LOOP"), Begin,
    Evaluate, Fwref("JUMP_IF_FALSE", "false"), Drop, Loop, Part(s.body), Again,
    Patch("false"), Byte("POP_TOP", 0), Byte("POP_BLOCK", 0), Pop("SETUP_LOOP"),
    Part(s.els), Patch("block")>>

ForStmt(s) ==
  <<Fwref("SETUP_LOOP", "block"), Push("SETUP_LOOP"), Evaluate, Byte("LOAD_ZERO", 1), Begin,
    Fwref("FOR_LOOP", "false"), Level(1), Byte("STORE_NAME", -1), Loop, Part(s.body), Again,
    Patch("false"), Level(-2), Byte("POP_BLOCK", 0), Pop("SETUP_LOOP"),
    Part(s.els), Patch("block")>>

\* try: ... except: ... else: ...
TryExcept(s) ==
  <<Fwref("SETUP_EXCEPT", "block"), Push("SETUP_EXCEPT"), Part(s.body),
    Byte("POP_BLOCK", 0), Pop("SETUP_EXCEPT"), Fwref("JUMP_FORWARD", "else"),
    Patch("block"), Level(3), Drop, Drop, Drop, Part(s.handler), Fwref("JUMP_FORWARD", "end"),
    Byte("END_FINALLY", 0), Patch("else"), Part(s.els), Patch("end")>>

\* try: ... except C: ... else: ...
TryExceptTyped(s) ==
  <<Fwref("SETUP_EXCEPT", "block"), Push("SETUP_EXCEPT"), Part(s.body),
    Byte("POP_BLOCK", 0), Pop("SETUP_EXCEPT"), Fwref("JUMP_FORWARD", "else"),
    Patch("block"), Level(3), Byte("DUP_TOP", 1), Evaluate, Byte("EXC_MATCH", -1),
    Fwref("JUMP_IF_FALSE", "false"), Drop, Drop, Drop, Drop, Part(s.handler),
    Fwref("JUMP_FORWARD", "end"), Patch("false"), Byte("POP_TOP", 0),
    Byte("END_FINALLY", 0), Patch("else"), Part(s.els), Patch("end")>>

\* The fault of counting for a finally only what falls through to it.
TryFinallyOne(s) ==
  <<Fwref("SETUP_FINALLY", "block"), Push("SETUP_FINALLY"), Part(s.body),
    Byte("POP_BLOCK", 0), Pop("SETUP_FINALLY"), Push("END_FINALLY"), Byte("LOAD_NONE", 1),
    Patch("block"), Part(s.els), Byte("END_FINALLY", 0), Pop("END_FINALLY"), Level(-1)>>

\* What is raised, returned or broken out of may lie on the stack meanwhile.
TryFinally(s) ==
  <<Fwref("SETUP_FINALLY", "block"), Push("SETUP_FINALLY"), Part(s.body),
    Byte("POP_BLOCK", 0), Pop("SETUP_FINALLY"), Push("END_FINALLY"), Byte("LOAD_NONE", 3),
    Patch("block"), Part(s.els), Byte("END_FINALLY", 0), Pop("END_FINALLY"), Level(-3)>>

\* compile_funcdef: a function ends with "return None".
FuncDef(s) == <<Part(s.body), Byte("LOAD_NONE", 1), Byte("RETURN_VALUE", -1)>>

\* com_node
Calls(s) ==
  CASE s.kind = "expr" -> <<Evaluate, Drop>>
    [] s.kind \in {"break", "continue"} -> <<[do |-> s.kind]>>
    [] s.kind = "return" -> <<Evaluate, Byte("RETURN_VALUE", -1)>>
    [] s.kind = "raise" -> <<Evaluate, Byte("RAISE_VARARGS", -1)>>
    [] s.kind = "seq" -> <<Part(s.body), Part(s.els)>>
    [] s.kind = "if" -> IfStmt(s)
    [] s.kind = "while" -> WhileStmt(s)
    [] s.kind = "for" -> ForStmt(s)
    [] s.kind = "except" -> IF s.typed THEN TryExceptTyped(s) ELSE TryExcept(s)
    [] s.kind = "finally" -> TryFinally(s)
    [] s.kind = "def" -> FuncDef(s)
    [] OTHER -> <<>>   \* pass

-----------------------------------------------------------------------------
(* The compiler: one call of a primitive a step *)

Anchors == {"block", "false", "else", "end"}

\* The beginning of a call of com_node: all keep c_begin, for the loops.
Node(s) == [s |-> s, at |-> 1, anchor |-> [n \in Anchors |-> 0], begin |-> begin]

\* A function with s for its body.
Start(s) ==
  /\ prog = s
  /\ code = <<>> /\ block = <<>> /\ begin = 0 /\ loops = 0 /\ level = 0 /\ max = 0
  /\ error = FALSE
  /\ work = <<Node([kind |-> "def", body |-> s])>>

Here == Len(code) + 1
Call == work[Len(work)]
Calling(f) == Calls(f.s)[f.at]
Doing(what) ==
  work # <<>> /\ Call.at <= Len(Calls(Call.s)) /\ Calling(Call).do = what
Op == Calling(Call)
Advanced == [work EXCEPT ![Len(work)].at = @ + 1]

Emit(op, arg) == code' = Append(code, [op |-> op, arg |-> arg])
SetLevel(n) ==
  /\ level' = n
  /\ max' = IF n > max THEN n ELSE max
\* com_push and com_pop
Shifted(n) == IF level + n < 0 THEN 0 ELSE level + n

AddByte ==
  /\ Doing("byte") /\ Emit(Op.op, 0) /\ SetLevel(Shifted(Op.n)) /\ work' = Advanced
  /\ UNCHANGED <<prog, block, begin, loops, error>>

AddFwref ==
  /\ Doing("fwref") /\ Emit(Op.op, 0)
  /\ work' = [work EXCEPT ![Len(work)].at = @ + 1, ![Len(work)].anchor[Op.anchor] = Here]
  /\ UNCHANGED <<prog, block, begin, loops, level, max, error>>

Backpatch ==
  /\ Doing("patch") /\ code' = [code EXCEPT ![Call.anchor[Op.anchor]].arg = Here]
  /\ work' = Advanced
  /\ UNCHANGED <<prog, block, begin, loops, level, max, error>>

ChangeLevel ==
  /\ Doing("level") /\ SetLevel(Shifted(Op.n)) /\ work' = Advanced
  /\ UNCHANGED <<prog, code, block, begin, loops, error>>

BlockPush ==
  /\ Doing("push") /\ work' = Advanced
  /\ IF Len(block) >= MaxBlocks THEN error' = TRUE /\ UNCHANGED block
     ELSE block' = Append(block, Op.type) /\ UNCHANGED error
  /\ UNCHANGED <<prog, code, begin, loops, level, max>>

BlockPop ==
  /\ Doing("pop") /\ work' = Advanced
  /\ block' = SubSeq(block, 1, Len(block) - 1)
  /\ error' = (error \/ block = <<>> \/ block[Len(block)] # Op.type)
  /\ UNCHANGED <<prog, code, begin, loops, level, max>>

BeginLoop ==
  /\ Doing("begin") /\ begin' = Here /\ work' = Advanced
  /\ UNCHANGED <<prog, code, block, loops, level, max, error>>

EnterLoop ==
  /\ Doing("loop") /\ loops' = loops + 1 /\ work' = Advanced
  /\ UNCHANGED <<prog, code, block, begin, level, max, error>>

\* Back to the test; the surrounding loop is the innermost again.
EndLoop ==
  /\ Doing("again") /\ loops' = loops - 1
  /\ Emit("JUMP_ABSOLUTE", begin) /\ begin' = Call.begin /\ work' = Advanced
  /\ UNCHANGED <<prog, block, level, max, error>>

BreakStmt ==
  /\ Doing("break") /\ Emit("BREAK_LOOP", 0) /\ error' = (error \/ loops = 0)
  /\ work' = Advanced
  /\ UNCHANGED <<prog, block, begin, loops, level, max>>

\* The fault of a continue that only needs a loop around it.
ContinuesAnywhere == loops > 0
\* A continue needs a loop for the innermost block.
Continues == block # <<>> /\ block[Len(block)] = "SETUP_LOOP"

ContinueStmt ==
  /\ Doing("continue") /\ work' = Advanced
  /\ IF Continues THEN Emit("JUMP_ABSOLUTE", begin) /\ UNCHANGED error
     ELSE error' = TRUE /\ UNCHANGED code
  /\ UNCHANGED <<prog, block, begin, loops, level, max>>

\* com_node of a part, and its return.
NodeCall ==
  /\ Doing("part") /\ work' = Append(work, Node(Op.s))
  /\ UNCHANGED <<prog, compiling>>
NodeReturn ==
  /\ work # <<>> /\ Call.at = Len(Calls(Call.s)) + 1
  /\ LET rest == SubSeq(work, 1, Len(work) - 1)
     IN  work' = IF rest = <<>> THEN <<>> ELSE [rest EXCEPT ![Len(rest)].at = @ + 1]
  /\ UNCHANGED <<prog, compiling>>

Compile ==
  \/ AddByte \/ AddFwref \/ Backpatch \/ ChangeLevel \/ BlockPush \/ BlockPop
  \/ BeginLoop \/ EnterLoop \/ EndLoop \/ BreakStmt \/ ContinueStmt \/ NodeCall \/ NodeReturn
=============================================================================
