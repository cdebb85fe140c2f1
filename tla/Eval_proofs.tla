---------------------------- MODULE Eval_proofs ----------------------------
(***************************************************************************)
(* FrameFits for every program, any limit of the blocks and any results of    *)
(* the evaluations.  Of the code that is compiled, every instruction has a    *)
(* place (Places): the shape of the value stack and the blocks that are set   *)
(* up when it comes to run.  The invariant of the compiler (CompileOK) says   *)
(* where each call of com_node began and what its list of calls has added to  *)
(* that so far (ShapeAt, BlockAt, LevelAt), and which instructions wait for a *)
(* target; that of the frame (Sits), that its stacks are those of the place   *)
(* of the next instruction.                                                  *)
(*                                                                         *)
(* RefusesMisplaced likewise: the program is allowed if and only if nothing    *)
(* forbidden is left to do for any call of com_node (Refusal).                *)
(***************************************************************************)
EXTENDS Eval, Nesting, WellFoundedInduction, TLAPS
-----------------------------------------------------------------------------
(* What the compiler knows of the stacks at each instruction: the cells of    *)
(* the value stack, each with the height the stack may have there, and the    *)
(* instructions that set up the blocks.  A cell is a value, an exception or   *)
(* the reason a finally is entered for, one to three values.                  *)

Kinds == {"value", "exc", "why"}
Cells == [kind : Kinds, top : Nat]
Places == [shape : Seq(Cells), blks : Seq(Nat)]

Height(sh) == IF sh = <<>> THEN 0 ELSE sh[Len(sh)].top
Weight(kind) == IF kind = "why" THEN 3 ELSE 1
Pushed(sh, kind) == Append(sh, [kind |-> kind, top |-> Height(sh) + Weight(kind)])
V(sh) == Pushed(sh, "value")
H(sh) == Pushed(V(V(sh)), "exc")
W(sh) == Pushed(sh, "why")
At(sh, bl) == [shape |-> sh, blks |-> bl]

Setups == {"SETUP_LOOP", "SETUP_EXCEPT", "SETUP_FINALLY"}
Jumps == {"JUMP_FORWARD", "JUMP_ABSOLUTE"}
Aiming == Setups \cup Jumps \cup {"JUMP_IF_FALSE", "FOR_LOOP"}
Taking == {"POP_TOP", "STORE_NAME", "RETURN_VALUE", "RAISE_VARARGS"}

\* x is the lower part of y.
Under(x, y) == Len(x) <= Len(y) /\ \A j \in 1 .. Len(x) : x[j] = y[j]

\* The blocks of a place are set up by instructions, each below the next.
Nested(A, c, a) ==
  \A i \in 1 .. Len(a.blks) :
    LET k == a.blks[i]
    IN /\ k \in 1 .. Len(c) /\ c[k].op \in Setups
       /\ Len(A[k].blks) = i - 1 /\ Under(A[k].blks, a.blks)
       /\ Under(A[k].shape, a.shape)

\* Instruction number k leads from place a to n, the one of the next.
Flows(A, op, k, a, n) ==
  /\ op \in {"EVAL", "LOAD_ZERO"} => n = At(V(a.shape), a.blks)
  /\ op = "LOAD_NONE" => n.blks = a.blks /\ n.shape \in {V(a.shape), W(a.shape)}
  /\ op \in {"DUP_TOP", "FOR_LOOP"} => a.shape # <<>> /\ n = At(V(a.shape), a.blks)
  /\ op \in Taking => n.blks = a.blks /\ a.shape \in {V(n.shape), Pushed(n.shape, "exc")}
  /\ op = "EXC_MATCH" => \E sh \in Seq(Cells) : n = At(V(sh), a.blks) /\ a.shape = V(V(sh))
  /\ op = "JUMP_IF_FALSE" => a.shape # <<>> /\ n = a
  /\ op = "END_FINALLY" => n.blks = a.blks /\ a.shape \in {W(n.shape), H(n.shape)}
  /\ op \in Setups => n = At(a.shape, Append(a.blks, k))
  /\ op = "POP_BLOCK" => \E j \in 1 .. k : a = At(n.shape, Append(n.blks, j)) /\ A[j] = n

\* An instruction at place a may jump to place t, or have it for a handler.
Aims(op, a, t) ==
  /\ op \in Jumps \cup {"JUMP_IF_FALSE", "SETUP_LOOP"} => t = a
  /\ op = "FOR_LOOP" => a = At(V(V(t.shape)), t.blks)
  /\ op = "SETUP_EXCEPT" => t = At(H(a.shape), a.blks)
  /\ op = "SETUP_FINALLY" => t = At(W(a.shape), a.blks)

Good(A, c, k) ==
  /\ Flows(A, c[k].op, k, A[k], A[k + 1])
  /\ c[k].arg # 0 => c[k].arg \in 1 .. Len(c) + 1 /\ Aims(c[k].op, A[k], A[c[k].arg])

Annotated(A, c, m) ==
  /\ A \in Seq(Places) /\ Len(A) = Len(c) + 1 /\ A[1] = At(<<>>, <<>>)
  /\ \A k \in 1 .. Len(A) : Nested(A, c, A[k])
  /\ \A k \in 1 .. Len(c) : Good(A, c, k) /\ Height(A[k].shape) <= m /\ Len(A[k].blks) <= MaxBlocks

-----------------------------------------------------------------------------
(* A call f of com_node began at some place, with some blocks, and has come   *)
(* to f.at in the list of its calls: what it has added to these by then.      *)

Kind(s) ==
  CASE s.kind \in {"typed", "bare", "skip"} -> "none"
    [] s.kind = "except" -> IF s.typed THEN "typed" ELSE "bare"
    [] s.kind = "if" -> IF s.never THEN "skip" ELSE "if"
    [] OTHER -> s.kind

BlockTypes == Setups \cup {"END_FINALLY"}

\* b: the place, the block stack and c_begin at the start; c_begin in its loop.
Bases == [shape : Seq(Cells), blks : Seq(Nat), block : Seq(BlockTypes), begin : Nat, loop : Nat]

ShapeAt(K, at, sh) ==
  CASE \/ K = "def" /\ at = 3
       \/ K \in {"expr", "return", "raise"} /\ at = 2
       \/ K = "if" /\ at \in {2, 3, 6, 7}
       \/ K = "while" /\ at \in {5, 6, 10, 11}
       \/ K = "for" /\ at = 4
       \/ K = "bare" /\ at = 11
       \/ K = "typed" /\ at = 16 -> V(sh)
    [] \/ K = "for" /\ at \in {5, 6, 9, 10, 11}
       \/ K = "bare" /\ at = 10
       \/ K = "typed" /\ at = 15 -> V(V(sh))
    [] K = "for" /\ at \in {7, 8} -> V(V(V(sh)))
    [] \/ K = "bare" /\ at \in {7, 8, 9, 14}
       \/ K = "typed" /\ at \in {7, 8, 9, 14, 21} -> H(sh)
    [] K = "typed" /\ at \in {10, 12, 13, 19, 20} -> V(H(sh))
    [] K = "typed" /\ at = 11 -> V(V(H(sh)))
    [] K = "finally" /\ at \in 8 .. 10 -> W(sh)
    [] OTHER -> sh

\* The instruction that sets up the block of f has been added, and is open.
Opened(K, at) ==
  at > 1 /\ K \in {"while", "for", "bare", "typed", "finally"}
Open(K, at) ==
  \/ K = "while" /\ at \in 2 .. 12
  \/ K = "for" /\ at \in 2 .. 14
  \/ K \in {"bare", "typed", "finally"} /\ at \in 2 .. 4

PlaceAt(K, at, own, b) ==
  At(ShapeAt(K, at, b.shape), IF Open(K, at) THEN Append(b.blks, own) ELSE b.blks)

BlockAt(K, at, b) ==
  CASE \/ K = "while" /\ at \in 3 .. 13
       \/ K = "for" /\ at \in 3 .. 15 -> Append(b.block, "SETUP_LOOP")
    [] K \in {"bare", "typed"} /\ at \in 3 .. 5 -> Append(b.block, "SETUP_EXCEPT")
    [] K = "finally" /\ at \in 3 .. 5 -> Append(b.block, "SETUP_FINALLY")
    [] K = "finally" /\ at \in 7 .. 11 -> Append(b.block, "END_FINALLY")
    [] OTHER -> b.block

LevelAt(K, at) ==
  CASE \/ K = "def" /\ at = 3
       \/ K \in {"expr", "return", "raise"} /\ at = 2
       \/ K = "if" /\ at \in 2 .. 3
       \/ K = "while" /\ at \in 5 .. 6
       \/ K = "for" /\ at = 4
       \/ K = "bare" /\ at = 11
       \/ K = "typed" /\ at = 16 -> 1
    [] \/ K = "for" /\ at \in (5 .. 7) \cup (9 .. 13)
       \/ K = "bare" /\ at = 10
       \/ K = "typed" /\ at = 15 -> 2
    [] \/ K = "for" /\ at = 8
       \/ K = "bare" /\ at = 9
       \/ K = "typed" /\ at \in {9, 14}
       \/ K = "finally" /\ at \in 8 .. 12 -> 3
    [] K = "typed" /\ at \in {10, 12, 13} -> 4
    [] K = "typed" /\ at = 11 -> 5
    [] OTHER -> 0

PeakAt(K, at) ==
  CASE \/ K = "def" /\ at >= 3
       \/ K \in {"expr", "return", "raise"} /\ at >= 2
       \/ K = "if" /\ at >= 2
       \/ K = "while" /\ at >= 5
       \/ K = "for" /\ at = 4 -> 1
    [] K = "for" /\ at \in 5 .. 7 -> 2
    [] \/ K = "for" /\ at >= 8
       \/ K = "bare" /\ at >= 9
       \/ K = "typed" /\ at = 9
       \/ K = "finally" /\ at >= 8 -> 3
    [] K = "typed" /\ at = 10 -> 4
    [] K = "typed" /\ at >= 11 -> 5
    [] OTHER -> 0

\* Inside a loop c_begin is its own.
Looping(K, at) == (K = "while" /\ at \in 4 .. 9) \/ (K = "for" /\ at \in 6 .. 11)
BeginAt(K, at, b) == IF Looping(K, at) THEN b.loop ELSE b.begin
LoopPlace(K, own, b) ==
  At(IF K = "for" THEN V(V(b.shape)) ELSE b.shape, Append(b.blks, own))

\* The anchors of f that are not backpatched yet, and the place they stand for.
Owes(K, at, n) ==
  \/ /\ n = "block"
     /\ \/ K = "while" /\ at \in 2 .. 15
        \/ K = "for" /\ at \in 2 .. 17
        \/ K \in {"bare", "typed"} /\ at \in 2 .. 7
        \/ K = "finally" /\ at \in 2 .. 8
  \/ /\ n = "false"
     /\ \/ K = "if" /\ at \in 3 .. 6
        \/ K = "while" /\ at \in 6 .. 10
        \/ K = "for" /\ at \in 7 .. 12
        \/ K = "typed" /\ at \in 13 .. 19
  \/ /\ n = "else"
     /\ \/ K = "bare" /\ at \in 7 .. 15
        \/ K = "typed" /\ at \in 7 .. 22
  \/ /\ n = "end"
     /\ \/ K = "if" /\ at \in 6 .. 9
        \/ K = "bare" /\ at \in 14 .. 17
        \/ K = "typed" /\ at \in 19 .. 24

Lands(K, own, b, n) ==
  CASE n = "false" /\ K = "if" -> At(V(b.shape), b.blks)
    [] n = "false" /\ K = "while" -> At(V(b.shape), Append(b.blks, own))
    [] n = "false" /\ K = "for" -> At(b.shape, Append(b.blks, own))
    [] n = "false" /\ K = "typed" -> At(V(H(b.shape)), b.blks)
    [] n = "block" /\ K \in {"bare", "typed"} -> At(H(b.shape), b.blks)
    [] n = "block" /\ K = "finally" -> At(W(b.shape), b.blks)
    [] OTHER -> At(b.shape, b.blks)

-----------------------------------------------------------------------------
(* The invariant of the compiler, for the places A of the code, and the bases *)
(* B of the calls of com_node.                                                *)

\* Of a call f that began at base b, with c and m for code and max.
IsCall(f) ==
  /\ f = [s |-> f.s, at |-> f.at, anchor |-> f.anchor, begin |-> f.begin]
  /\ f.at \in 1 .. Len(Calls(f.s)) + 1 /\ f.anchor \in [Anchors -> Nat]

Own(f) == f.anchor["block"]
PlaceOf(f, b) == PlaceAt(Kind(f.s), f.at, Own(f), b)
BasePlace(b) == At(b.shape, b.blks)

BaseOK(A, c, b) ==
  /\ Len(b.blks) <= Len(b.block) /\ Nested(A, c, BasePlace(b))
  /\ b.block # <<>> /\ b.block[Len(b.block)] = "SETUP_LOOP" =>
       b.begin \in 1 .. Len(c) + 1 /\ A[b.begin] = BasePlace(b)

OpenOK(A, c, f, b) ==
  Opened(Kind(f.s), f.at) =>
    Own(f) \in 1 .. Len(c) /\ c[Own(f)].op \in Setups /\ A[Own(f)] = BasePlace(b)

LoopOK(A, c, f, b) ==
  Looping(Kind(f.s), f.at) =>
    b.loop \in 1 .. Len(c) + 1 /\ A[b.loop] = LoopPlace(Kind(f.s), Own(f), b)

OwesOK(A, c, f, b) ==
  \A n \in Anchors : Owes(Kind(f.s), f.at, n) =>
    /\ f.anchor[n] \in 1 .. Len(c)
    /\ Aims(c[f.anchor[n]].op, A[f.anchor[n]], Lands(Kind(f.s), Own(f), b, n))

FrameOK(A, c, m, f, b) ==
  /\ IsCall(f) /\ f.begin = b.begin /\ BaseOK(A, c, b)
  /\ Height(b.shape) + PeakAt(Kind(f.s), f.at) <= m
  /\ OpenOK(A, c, f, b) /\ LoopOK(A, c, f, b) /\ OwesOK(A, c, f, b)

\* b2 is the base of the call that f makes for a part.
Begins(f, b, b2) ==
  /\ BasePlace(b2) = PlaceOf(f, b)
  /\ b2.block = BlockAt(Kind(f.s), f.at, b) /\ b2.begin = BeginAt(Kind(f.s), f.at, b)
  /\ Height(b2.shape) = Height(b.shape) + LevelAt(Kind(f.s), f.at)

FramesOK(A, c, m, w, B) ==
  /\ B \in Seq(Bases) /\ Len(B) = Len(w)
  /\ \A j \in 1 .. Len(w) : FrameOK(A, c, m, w[j], B[j])

AtPart(f) == f.at <= Len(Calls(f.s)) /\ Calling(f).do = "part"
Linked(w, B) ==
  \A j \in 1 .. Len(w) - 1 : AtPart(w[j]) /\ Begins(w[j], B[j], B[j + 1])

\* Every jump whose target is not known yet is owed by a call.
Covered(c, w) ==
  \A k \in 1 .. Len(c) : c[k].op \in Aiming /\ c[k].arg = 0 =>
    \E j \in 1 .. Len(w), n \in Anchors : Owes(Kind(w[j].s), w[j].at, n) /\ w[j].anchor[n] = k

\* The outermost call ends the code with "return None".
Ending(c, w) ==
  /\ w # <<>> /\ Kind(w[1].s) = "def"
  /\ w[1].at >= 3 => \A k \in 1 .. Len(c) : c[k].arg <= Len(c)
  /\ w[1].at = 4 => c # <<>> /\ c[Len(c)].op = "RETURN_VALUE"

\* The compiler's variables for the innermost call.
NowAt(A, c, bl, be, lv, f, b) ==
  /\ A[Len(c) + 1] = PlaceOf(f, b)
  /\ bl = BlockAt(Kind(f.s), f.at, b) /\ be = BeginAt(Kind(f.s), f.at, b)
  /\ lv = Height(b.shape) + LevelAt(Kind(f.s), f.at)

IsSeq(w) == Len(w) \in Nat /\ w = [i \in 1 .. Len(w) |-> w[i]]
Ops == Aiming \cup
  {"EVAL", "POP_TOP", "STORE_NAME", "DUP_TOP", "LOAD_ZERO", "LOAD_NONE", "EXC_MATCH", "POP_BLOCK",
   "BREAK_LOOP", "RETURN_VALUE", "RAISE_VARARGS", "END_FINALLY"}
Instrs == [op : Ops, arg : Nat]
Codes == Seq(Instrs)

CompileOK(A, B, c, bl, be, lv, m, w) ==
  /\ c \in Codes /\ bl \in Seq(BlockTypes) /\ be \in Nat /\ IsSeq(w)
  /\ lv \in Nat /\ m \in Nat /\ lv <= m /\ Len(bl) <= MaxBlocks
  /\ Annotated(A, c, m) /\ FramesOK(A, c, m, w, B) /\ Linked(w, B)
  /\ NowAt(A, c, bl, be, lv, w[Len(w)], B[Len(w)])
  /\ Covered(c, w) /\ Ending(c, w)

Compiling(A, B) == CompileOK(A, B, code, block, begin, level, max, work)

-----------------------------------------------------------------------------
(* What com_node calls, for each kind of statement: kind, place in the list   *)
(* and arguments.                                                             *)

BytesOf ==
  {<<"def", 2, "LOAD_NONE", 1>>, <<"def", 3, "RETURN_VALUE", -1>>,
   <<"expr", 1, "EVAL", 1>>, <<"expr", 2, "POP_TOP", -1>>,
   <<"return", 1, "EVAL", 1>>, <<"return", 2, "RETURN_VALUE", -1>>,
   <<"raise", 1, "EVAL", 1>>, <<"raise", 2, "RAISE_VARARGS", -1>>,
   <<"if", 1, "EVAL", 1>>, <<"if", 3, "POP_TOP", -1>>, <<"if", 7, "POP_TOP", 0>>,
   <<"while", 4, "EVAL", 1>>, <<"while", 6, "POP_TOP", -1>>,
   <<"while", 11, "POP_TOP", 0>>, <<"while", 12, "POP_BLOCK", 0>>,
   <<"for", 3, "EVAL", 1>>, <<"for", 4, "LOAD_ZERO", 1>>,
   <<"for", 8, "STORE_NAME", -1>>, <<"for", 14, "POP_BLOCK", 0>>,
   <<"bare", 4, "POP_BLOCK", 0>>, <<"bare", 9, "POP_TOP", -1>>,
   <<"bare", 10, "POP_TOP", -1>>, <<"bare", 11, "POP_TOP", -1>>,
   <<"bare", 14, "END_FINALLY", 0>>, <<"typed", 4, "POP_BLOCK", 0>>,
   <<"typed", 9, "DUP_TOP", 1>>, <<"typed", 10, "EVAL", 1>>,
   <<"typed", 11, "EXC_MATCH", -1>>, <<"typed", 13, "POP_TOP", -1>>,
   <<"typed", 14, "POP_TOP", -1>>, <<"typed", 15, "POP_TOP", -1>>,
   <<"typed", 16, "POP_TOP", -1>>, <<"typed", 20, "POP_TOP", 0>>,
   <<"typed", 21, "END_FINALLY", 0>>, <<"finally", 4, "POP_BLOCK", 0>>,
   <<"finally", 7, "LOAD_NONE", 3>>, <<"finally", 10, "END_FINALLY", 0>>}
FwrefsOf ==
  {<<"if", 2, "JUMP_IF_FALSE", "false">>, <<"if", 5, "JUMP_FORWARD", "end">>,
   <<"while", 1, "SETUP_LOOP", "block">>, <<"while", 5, "JUMP_IF_FALSE", "false">>,
   <<"for", 1, "SETUP_LOOP", "block">>, <<"for", 6, "FOR_LOOP", "false">>,
   <<"bare", 1, "SETUP_EXCEPT", "block">>, <<"bare", 6, "JUMP_FORWARD", "else">>,
   <<"bare", 13, "JUMP_FORWARD", "end">>, <<"typed", 1, "SETUP_EXCEPT", "block">>,
   <<"typed", 6, "JUMP_FORWARD", "else">>, <<"typed", 12, "JUMP_IF_FALSE", "false">>,
   <<"typed", 18, "JUMP_FORWARD", "end">>,
   <<"finally", 1, "SETUP_FINALLY", "block">>}
PatchesOf ==
  {<<"if", 6, "false">>, <<"if", 9, "end">>, <<"while", 10, "false">>,
   <<"while", 15, "block">>, <<"for", 12, "false">>, <<"for", 17, "block">>,
   <<"bare", 7, "block">>, <<"bare", 15, "else">>, <<"bare", 17, "end">>,
   <<"typed", 7, "block">>, <<"typed", 19, "false">>, <<"typed", 22, "else">>,
   <<"typed", 24, "end">>, <<"finally", 8, "block">>}
LevelsOf ==
  {<<"for", 7, 1>>, <<"for", 13, -2>>, <<"bare", 8, 3>>, <<"typed", 8, 3>>,
   <<"finally", 12, -3>>}
PushesOf ==
  {<<"while", 2, "SETUP_LOOP">>, <<"for", 2, "SETUP_LOOP">>,
   <<"bare", 2, "SETUP_EXCEPT">>, <<"typed", 2, "SETUP_EXCEPT">>,
   <<"finally", 2, "SETUP_FINALLY">>, <<"finally", 6, "END_FINALLY">>}
PopsOf ==
  {<<"while", 13, "SETUP_LOOP">>, <<"for", 15, "SETUP_LOOP">>,
   <<"bare", 5, "SETUP_EXCEPT">>, <<"typed", 5, "SETUP_EXCEPT">>,
   <<"finally", 5, "SETUP_FINALLY">>, <<"finally", 11, "END_FINALLY">>}
BeginsOf ==
  {<<"while", 3>>, <<"for", 5>>}
LoopsOf ==
  {<<"while", 7>>, <<"for", 9>>}
AgainsOf ==
  {<<"while", 9>>, <<"for", 11>>}
PartsOf ==
  {<<"def", 1>>, <<"seq", 1>>, <<"seq", 2>>, <<"skip", 1>>, <<"if", 4>>, <<"if", 8>>,
   <<"while", 8>>, <<"while", 14>>, <<"for", 10>>, <<"for", 16>>, <<"bare", 3>>,
   <<"bare", 12>>, <<"bare", 16>>, <<"typed", 3>>, <<"typed", 17>>, <<"typed", 23>>,
   <<"finally", 3>>, <<"finally", 9>>}

-----------------------------------------------------------------------------
(* Shapes of the value stack. *)

LEMMA HeightIsNat ==
  ASSUME NEW sh \in Seq(Cells)
  PROVE  Height(sh) \in Nat
<1>1. CASE sh = <<>> BY <1>1 DEF Height
<1>2. CASE sh # <<>>
  <2>1. Len(sh) \in 1 .. Len(sh) BY <1>2
  <2>2. sh[Len(sh)] \in Cells BY <2>1
  <2> QED BY <1>2, <2>2 DEF Height, Cells
<1> QED BY <1>1, <1>2

LEMMA PushedIs ==
  ASSUME NEW sh \in Seq(Cells), NEW kind \in Kinds
  PROVE  LET up == Pushed(sh, kind)
         IN /\ up \in Seq(Cells) /\ Len(up) = Len(sh) + 1 /\ up # <<>>
            /\ \A i \in 1 .. Len(sh) : up[i] = sh[i]
            /\ up[Len(sh) + 1] = [kind |-> kind, top |-> Height(sh) + Weight(kind)]
            /\ Height(up) = Height(sh) + Weight(kind)
<1> DEFINE cell == [kind |-> kind, top |-> Height(sh) + Weight(kind)]
           up == Append(sh, cell)
<1>1. Height(sh) \in Nat /\ Weight(kind) \in Nat
  BY HeightIsNat DEF Weight
<1>2. cell \in Cells
  BY <1>1 DEF Cells
<1> HIDE DEF cell
<1>3. /\ up \in Seq(Cells) /\ Len(up) = Len(sh) + 1
      /\ \A i \in 1 .. Len(sh) : up[i] = sh[i]
      /\ up[Len(sh) + 1] = cell
  BY <1>2
<1>4. up # <<>>
  BY <1>3
<1>5. Height(up) = Height(sh) + Weight(kind)
  BY <1>3, <1>4 DEF Height, cell
<1> QED BY <1>3, <1>4, <1>5 DEF Pushed, cell

\* A value, a handled exception and the reason for a finally on top of sh.
LEMMA ShapesAre ==
  ASSUME NEW sh \in Seq(Cells)
  PROVE  /\ V(sh) \in Seq(Cells) /\ V(sh) # <<>> /\ Height(V(sh)) = Height(sh) + 1
         /\ H(sh) \in Seq(Cells) /\ H(sh) # <<>> /\ Height(H(sh)) = Height(sh) + 3
         /\ W(sh) \in Seq(Cells) /\ W(sh) # <<>> /\ Height(W(sh)) = Height(sh) + 3
         /\ Height(sh) \in Nat
<1> USE DEF Kinds
<1>1. \A x \in Seq(Cells) : V(x) \in Seq(Cells) /\ V(x) # <<>> /\ Height(V(x)) = Height(x) + 1
  BY PushedIs DEF V, Weight
<1>2. V(sh) \in Seq(Cells) /\ V(V(sh)) \in Seq(Cells) /\ Height(V(V(sh))) = Height(V(sh)) + 1
  BY <1>1
<1>3. H(sh) \in Seq(Cells) /\ H(sh) # <<>> /\ Height(H(sh)) = Height(V(V(sh))) + 1
  BY <1>2, PushedIs DEF H, Weight
<1>4. W(sh) \in Seq(Cells) /\ W(sh) # <<>> /\ Height(W(sh)) = Height(sh) + 3
  BY PushedIs DEF W, Weight
<1>5. Height(sh) \in Nat
  BY HeightIsNat
<1> QED BY <1>1, <1>2, <1>3, <1>4, <1>5

-----------------------------------------------------------------------------
(* The tables say what is called. *)

CallOf(K, at, c) ==
  /\ c.do = "byte" => <<K, at, c.op, c.n>> \in BytesOf
  /\ c.do = "fwref" => <<K, at, c.op, c.anchor>> \in FwrefsOf
  /\ c.do = "patch" => <<K, at, c.anchor>> \in PatchesOf
  /\ c.do = "level" => <<K, at, c.n>> \in LevelsOf
  /\ c.do = "push" => <<K, at, c.type>> \in PushesOf
  /\ c.do = "pop" => <<K, at, c.type>> \in PopsOf
  /\ c.do = "begin" => <<K, at>> \in BeginsOf
  /\ c.do = "loop" => <<K, at>> \in LoopsOf
  /\ c.do = "again" => <<K, at>> \in AgainsOf
  /\ c.do = "part" => <<K, at>> \in PartsOf
  /\ c.do \in {"break", "continue"} => K = c.do /\ at = 1

LEMMA CallsOfCompound ==
  ASSUME NEW s, NEW at \in 1 .. Len(Calls(s)),
         Kind(s) \in {"if", "while", "for", "bare", "typed", "finally"}
  PROVE  CallOf(Kind(s), at, Calls(s)[at])
<1> USE DEF Byte, Fwref, Patch, Level, Push, Pop, Begin, Loop, Again, Part, Evaluate, Drop,
            CallOf, BytesOf, FwrefsOf, PatchesOf, LevelsOf, PushesOf, PopsOf, BeginsOf,
            LoopsOf, AgainsOf, PartsOf
<1>1. CASE Kind(s) = "if"
  <2>1. Calls(s) = IfStmt(s) /\ ~s.never BY <1>1 DEF Calls, Kind
  <2> QED BY <1>1, <2>1 DEF IfStmt
<1>2. CASE Kind(s) = "while"
  <2>1. Calls(s) = WhileStmt(s) BY <1>2 DEF Calls, Kind
  <2> QED BY <1>2, <2>1 DEF WhileStmt
<1>3. CASE Kind(s) = "for"
  <2>1. Calls(s) = ForStmt(s) BY <1>3 DEF Calls, Kind
  <2> QED BY <1>3, <2>1 DEF ForStmt
<1>4. CASE Kind(s) = "bare"
  <2>1. Calls(s) = TryExcept(s) BY <1>4 DEF Calls, Kind
  <2> QED BY <1>4, <2>1 DEF TryExcept
<1>5. CASE Kind(s) = "typed"
  <2>1. Calls(s) = TryExceptTyped(s) BY <1>5 DEF Calls, Kind
  <2>2. at \in 1 .. 12 => CallOf(Kind(s), at, Calls(s)[at])
    BY <1>5, <2>1 DEF TryExceptTyped
  <2>3. at \in 13 .. 24 => CallOf(Kind(s), at, Calls(s)[at])
    BY <1>5, <2>1 DEF TryExceptTyped
  <2>4. at \in 1 .. 24 BY <2>1 DEF TryExceptTyped
  <2> QED BY <2>2, <2>3, <2>4
<1>6. CASE Kind(s) = "finally"
  <2>1. Calls(s) = TryFinally(s) BY <1>6 DEF Calls, Kind
  <2> QED BY <1>6, <2>1 DEF TryFinally
<1> QED BY <1>1, <1>2, <1>3, <1>4, <1>5, <1>6

LEMMA CallsOfSimple ==
  ASSUME NEW s, NEW at \in 1 .. Len(Calls(s)),
         Kind(s) \notin {"if", "while", "for", "bare", "typed", "finally"}
  PROVE  CallOf(Kind(s), at, Calls(s)[at])
<1> USE DEF Byte, Part, Evaluate, Drop, CallOf, BytesOf, PartsOf
<1>1. CASE Kind(s) = "expr"
  <2>1. Calls(s) = <<Evaluate, Drop>> BY <1>1 DEF Calls, Kind
  <2> QED BY <1>1, <2>1
<1>2. CASE Kind(s) \in {"break", "continue"}
  <2>1. Calls(s) = <<[do |-> Kind(s)]>> BY <1>2 DEF Calls, Kind
  <2> QED BY <1>2, <2>1
<1>3. CASE Kind(s) = "return"
  <2>1. Calls(s) = <<Evaluate, Byte("RETURN_VALUE", -1)>> BY <1>3 DEF Calls, Kind
  <2> QED BY <1>3, <2>1
<1>4. CASE Kind(s) = "raise"
  <2>1. Calls(s) = <<Evaluate, Byte("RAISE_VARARGS", -1)>> BY <1>4 DEF Calls, Kind
  <2> QED BY <1>4, <2>1
<1>5. CASE Kind(s) = "seq"
  <2>1. Calls(s) = <<Part(s.body), Part(s.els)>> BY <1>5 DEF Calls, Kind
  <2> QED BY <1>5, <2>1
<1>6. CASE Kind(s) = "def"
  <2>1. Calls(s) = FuncDef(s) BY <1>6 DEF Calls, Kind
  <2> QED BY <1>6, <2>1 DEF FuncDef
<1>7. CASE Kind(s) = "skip"
  <2>1. Calls(s) = IfStmt(s) /\ s.never BY <1>7 DEF Calls, Kind
  <2>2. Calls(s) = <<Part(s.els)>> BY <2>1 DEF IfStmt
  <2> QED BY <1>7, <2>2
<1>8. CASE Kind(s) \notin {"expr", "break", "continue", "return", "raise", "seq", "def", "skip"}
  <2>1. s.kind \notin {"expr", "break", "continue", "return", "raise", "seq", "def",
                       "if", "while", "for", "except", "finally"}
    BY <1>8 DEF Kind
  <2>2. Calls(s) = <<>> BY <2>1 DEF Calls
  <2> QED BY <2>2
<1> QED BY <1>1, <1>2, <1>3, <1>4, <1>5, <1>6, <1>7, <1>8

LEMMA CallsAre ==
  ASSUME NEW s, NEW at \in 1 .. Len(Calls(s))
  PROVE  CallOf(Kind(s), at, Calls(s)[at])
BY CallsOfCompound, CallsOfSimple

\* Where the list of the calls ends.
LastOf(K) ==
  CASE K = "if" -> 10 [] K = "while" -> 16 [] K = "for" -> 18 [] K = "bare" -> 18
    [] K = "typed" -> 25 [] K = "finally" -> 13 [] K = "def" -> 4
    [] K \in {"seq", "expr", "return", "raise"} -> 3
    [] K \in {"break", "continue", "skip"} -> 2 [] OTHER -> 1

LEMMA CallsLast ==
  ASSUME NEW s
  PROVE  Len(Calls(s)) + 1 = LastOf(Kind(s))
<1> DEFINE K == Kind(s)
<1> USE DEF LastOf
<1>1. CASE K \in {"if", "skip"}
  <2>1. Calls(s) = IfStmt(s) BY <1>1 DEF Calls, Kind
  <2>2. K = "skip" <=> s.never BY <1>1 DEF Kind
  <2> QED BY <1>1, <2>1, <2>2 DEF IfStmt
<1>2. CASE K = "while" BY <1>2 DEF Calls, Kind, WhileStmt
<1>3. CASE K = "for" BY <1>3 DEF Calls, Kind, ForStmt
<1>4. CASE K = "bare"
  <2>1. Calls(s) = TryExcept(s) BY <1>4 DEF Calls, Kind
  <2> QED BY <1>4, <2>1 DEF TryExcept
<1>5. CASE K = "typed"
  <2>1. Calls(s) = TryExceptTyped(s) BY <1>5 DEF Calls, Kind
  <2> QED BY <1>5, <2>1 DEF TryExceptTyped
<1>6. CASE K = "finally" BY <1>6 DEF Calls, Kind, TryFinally
<1>7. CASE K \in {"seq", "expr", "return", "raise"} BY <1>7 DEF Calls, Kind
<1>8. CASE K \in {"break", "continue"} BY <1>8 DEF Calls, Kind
<1>9. CASE K = "def" BY <1>9 DEF Calls, Kind, FuncDef
<1>10. CASE K \notin {"if", "while", "for", "bare", "typed", "finally", "seq", "expr",
                      "return", "raise", "break", "continue", "def", "skip"}
  BY <1>10 DEF Calls, Kind
<1> QED BY <1>1, <1>2, <1>3, <1>4, <1>5, <1>6, <1>7, <1>8, <1>9, <1>10

\* When the list of its calls is done, a call leaves nothing behind.
LEMMA CallsEnd ==
  ASSUME NEW s, NEW at, at = Len(Calls(s)) + 1, NEW own, NEW b
  PROVE  /\ PlaceAt(Kind(s), at, own, b) = BasePlace(b) /\ LevelAt(Kind(s), at) = 0
         /\ BlockAt(Kind(s), at, b) = b.block /\ BeginAt(Kind(s), at, b) = b.begin
         /\ \A n \in Anchors : ~Owes(Kind(s), at, n)
         /\ Kind(s) = "def" => at = 4
<1> DEFINE K == Kind(s)
<1>1. at = LastOf(K)
  BY CallsLast
<1> USE DEF LastOf
<1> HIDE DEF K
<1>2. PlaceAt(K, at, own, b) = BasePlace(b)
  BY <1>1 DEF PlaceAt, ShapeAt, Open, BasePlace
<1>3. LevelAt(K, at) = 0
  BY <1>1 DEF LevelAt
<1>4. BlockAt(K, at, b) = b.block /\ BeginAt(K, at, b) = b.begin
  BY <1>1 DEF BlockAt, BeginAt, Looping
<1>5. \A n \in Anchors : ~Owes(K, at, n)
  BY <1>1 DEF Owes
<1>6. K = "def" => at = 4
  BY <1>1
<1> QED BY <1>2, <1>3, <1>4, <1>5, <1>6 DEF K

-----------------------------------------------------------------------------
(* What each primitive does to the row of the tables. *)

SameBlock(K, at, b) == BlockAt(K, at + 1, b) = BlockAt(K, at, b)
SamePlace(K, at, own, b) == PlaceAt(K, at + 1, own, b) = PlaceAt(K, at, own, b)
SameLoop(K, at) == Looping(K, at + 1) <=> Looping(K, at)
SameOpen(K, at) == Opened(K, at + 1) <=> Opened(K, at)
SameOwed(K, at) == \A n \in Anchors : Owes(K, at + 1, n) <=> Owes(K, at, n)
SameLevel(K, at) == LevelAt(K, at + 1) = LevelAt(K, at) /\ PeakAt(K, at + 1) = PeakAt(K, at)
Climbs(K, at, n) ==
  /\ LevelAt(K, at + 1) = LevelAt(K, at) + n
  /\ PeakAt(K, at + 1) <= PeakAt(K, at) \/ PeakAt(K, at + 1) <= LevelAt(K, at + 1)

LEMMA LevelsInRange ==
  ASSUME NEW K, NEW at
  PROVE  LevelAt(K, at) \in 0 .. 5 /\ PeakAt(K, at) \in 0 .. 5
BY DEF LevelAt, PeakAt

LEMMA StartOfCall ==
  ASSUME NEW K, NEW own, NEW b
  PROVE  /\ PlaceAt(K, 1, own, b) = BasePlace(b) /\ BlockAt(K, 1, b) = b.block
         /\ BeginAt(K, 1, b) = b.begin /\ LevelAt(K, 1) = 0 /\ PeakAt(K, 1) = 0
         /\ ~Opened(K, 1) /\ ~Looping(K, 1) /\ \A n \in Anchors : ~Owes(K, 1, n)
<1>1. PlaceAt(K, 1, own, b) = BasePlace(b)
  BY DEF PlaceAt, ShapeAt, Open, BasePlace
<1>2. BlockAt(K, 1, b) = b.block /\ BeginAt(K, 1, b) = b.begin /\ ~Looping(K, 1) /\ ~Opened(K, 1)
  BY DEF BlockAt, BeginAt, Looping, Opened
<1>3. LevelAt(K, 1) = 0 /\ PeakAt(K, 1) = 0
  BY DEF LevelAt, PeakAt
<1>4. \A n \in Anchors : ~Owes(K, 1, n)
  BY DEF Owes
<1> QED BY <1>1, <1>2, <1>3, <1>4

LEMMA ByteRows ==
  ASSUME NEW K, NEW at, NEW op, NEW n, <<K, at, op, n>> \in BytesOf, NEW b
  PROVE  /\ op \in Ops /\ op \notin Aiming /\ n \in Int /\ at \in Nat
         /\ SameBlock(K, at, b) /\ SameLoop(K, at) /\ SameOpen(K, at) /\ SameOwed(K, at)
         /\ Climbs(K, at, n)
<1>1. op \in Ops /\ op \notin Aiming /\ n \in Int /\ at \in Nat
  <2>1. op \notin Aiming
    BY DEF BytesOf, Aiming, Setups, Jumps
  <2>2. op \in Ops
    BY DEF BytesOf, Ops
  <2>3. n \in Int
    BY DEF BytesOf
  <2>4. at \in Nat
    BY DEF BytesOf
  <2> QED BY <2>1, <2>2, <2>3, <2>4
<1>2. SameBlock(K, at, b)
  BY DEF BytesOf, SameBlock, BlockAt
<1>3. SameLoop(K, at) /\ SameOpen(K, at)
  BY DEF BytesOf, SameLoop, Looping, SameOpen, Opened
<1>4. SameOwed(K, at)
  BY DEF BytesOf, SameOwed, Owes
<1>5. LevelAt(K, at + 1) = LevelAt(K, at) + n
  BY DEF BytesOf, LevelAt
<1>6. PeakAt(K, at + 1) <= PeakAt(K, at) \/ PeakAt(K, at + 1) <= LevelAt(K, at + 1)
  <2>1. CASE K = "typed" BY <2>1 DEF BytesOf, LevelAt, PeakAt
  <2>2. CASE K = "for" BY <2>2 DEF BytesOf, LevelAt, PeakAt
  <2>3. CASE K = "while" BY <2>3 DEF BytesOf, LevelAt, PeakAt
  <2>4. CASE K \notin {"typed", "for", "while"} BY <2>4 DEF BytesOf, LevelAt, PeakAt
  <2> QED BY <2>1, <2>2, <2>3, <2>4
<1> QED BY <1>1, <1>2, <1>3, <1>4, <1>5, <1>6 DEF Climbs

\* An instruction that is neither a jump nor sets up a block goes where the next row says.
LEMMA ByteFlows ==
  ASSUME NEW K, NEW at, NEW op, NEW n, <<K, at, op, n>> \in BytesOf,
         NEW A, NEW k \in Nat, NEW b \in Bases, NEW own \in Nat,
         Opened(K, at) => own \in 1 .. k /\ A[own] = BasePlace(b)
  PROVE  Flows(A, op, k, PlaceAt(K, at, own, b), PlaceAt(K, at + 1, own, b))
<1> DEFINE a == PlaceAt(K, at, own, b)
           t == PlaceAt(K, at + 1, own, b)
           x == ShapeAt(K, at, b.shape)
           y == ShapeAt(K, at + 1, b.shape)
<1>1. op \in {"EVAL", "LOAD_ZERO", "DUP_TOP"} => y = V(x)
  BY DEF BytesOf, ShapeAt
<1>2. op = "LOAD_NONE" => y \in {V(x), W(x)}
  BY DEF BytesOf, ShapeAt
<1>3. op = "DUP_TOP" => x = H(b.shape)
  BY DEF BytesOf, ShapeAt
<1>4. op \in Taking => x \in {V(y), Pushed(y, "exc")}
  BY DEF BytesOf, ShapeAt, Taking, H
<1>5. op = "EXC_MATCH" => y = V(H(b.shape)) /\ x = V(V(H(b.shape)))
  BY DEF BytesOf, ShapeAt
<1>6. op = "END_FINALLY" => x \in {W(y), H(y)}
  BY DEF BytesOf, ShapeAt
<1>7. op = "POP_BLOCK" =>
        x = b.shape /\ y = x /\ Open(K, at) /\ ~Open(K, at + 1) /\ Opened(K, at)
  BY DEF BytesOf, ShapeAt, Open, Opened
<1>8. op # "POP_BLOCK" => (Open(K, at) <=> Open(K, at + 1))
  BY DEF BytesOf, Open
<1>9. a.shape = x /\ t = At(y, t.blks) /\ (op # "POP_BLOCK" => t.blks = a.blks)
  BY <1>8 DEF PlaceAt, At
<1>10. H(b.shape) \in Seq(Cells) /\ H(b.shape) # <<>>
  BY ShapesAre DEF Bases
<1>11. op \notin Setups /\ op # "FOR_LOOP" /\ op # "JUMP_IF_FALSE"
  BY ByteRows DEF Aiming
<1>12. op = "POP_BLOCK" =>
         \E j \in 1 .. k : a = At(t.shape, Append(t.blks, j)) /\ A[j] = t
  <2> SUFFICES ASSUME op = "POP_BLOCK"
               PROVE  a = At(t.shape, Append(t.blks, own)) /\ own \in 1 .. k /\ A[own] = t
    OBVIOUS
  <2>1. a = At(b.shape, Append(b.blks, own)) /\ t = At(b.shape, b.blks)
    BY <1>7 DEF PlaceAt
  <2>2. own \in 1 .. k /\ A[own] = At(b.shape, b.blks)
    BY <1>7 DEF BasePlace
  <2> HIDE DEF a, t, x, y
  <2> QED BY <2>1, <2>2 DEF At
<1>13. op = "EXC_MATCH" =>
         \E sh \in Seq(Cells) : t = At(V(sh), a.blks) /\ a.shape = V(V(sh))
  <2> HIDE DEF a, t, x, y
  <2> QED BY <1>5, <1>9, <1>10
<1> HIDE DEF a, t, x, y
<1>14. op \in {"EVAL", "LOAD_ZERO", "DUP_TOP"} => t = At(V(a.shape), a.blks)
  BY <1>1, <1>9
<1>15. op = "LOAD_NONE" => t.blks = a.blks /\ t.shape \in {V(a.shape), W(a.shape)}
  BY <1>2, <1>9 DEF At
<1>16. op = "DUP_TOP" => a.shape # <<>>
  BY <1>3, <1>9, <1>10
<1>17. op \in Taking => t.blks = a.blks /\ a.shape \in {V(t.shape), Pushed(t.shape, "exc")}
  BY <1>4, <1>9 DEF At, Taking
<1>18. op = "END_FINALLY" => t.blks = a.blks /\ a.shape \in {W(t.shape), H(t.shape)}
  BY <1>6, <1>9 DEF At
<1> QED
  BY <1>11, <1>12, <1>13, <1>14, <1>15, <1>16, <1>17, <1>18 DEF Flows, a, t

LEMMA RoomToEmit ==
  ASSUME NEW K, NEW at, NEW own, NEW b \in Bases, Len(b.blks) <= Len(b.block),
         \/ \E op, n : <<K, at, op, n>> \in BytesOf
         \/ \E op, n : <<K, at, op, n>> \in FwrefsOf
         \/ <<K, at>> \in AgainsOf
         \/ K \in {"break", "continue"}
  PROVE  /\ Height(PlaceAt(K, at, own, b).shape) <= Height(b.shape) + PeakAt(K, at)
         /\ Len(PlaceAt(K, at, own, b).blks) <= Len(BlockAt(K, at, b))
<1> DEFINE x == ShapeAt(K, at, b.shape)
<1>1. /\ b.shape \in Seq(Cells) /\ b.block \in Seq(BlockTypes) /\ b.blks \in Seq(Nat)
      /\ PeakAt(K, at) \in Nat /\ Height(b.shape) \in Nat
  <2>1. b.shape \in Seq(Cells) /\ b.block \in Seq(BlockTypes) /\ b.blks \in Seq(Nat)
    BY DEF Bases
  <2>2. Height(b.shape) \in Nat
    BY <2>1, HeightIsNat
  <2>3. PeakAt(K, at) \in 0 .. 5
    BY LevelsInRange
  <2> QED BY <2>1, <2>2, <2>3
<1>2. \A t \in BlockTypes : Len(Append(b.block, t)) = Len(b.block) + 1
  BY <1>1
<1>3. Len(PlaceAt(K, at, own, b).blks) <= Len(BlockAt(K, at, b))
  <2>1. \E t \in BlockTypes \cup {"none"} :
          BlockAt(K, at, b) = IF t = "none" THEN b.block ELSE Append(b.block, t)
    BY DEF BlockAt, BlockTypes, Setups
  <2>2. Open(K, at) => \E t \in BlockTypes : BlockAt(K, at, b) = Append(b.block, t)
    <3>1. at # 2 \/ ~Open(K, at)
      BY DEF BytesOf, FwrefsOf, AgainsOf, Open
    <3>2. Open(K, at) => \/ K = "while" /\ at \in 3 .. 12
                         \/ K = "for" /\ at \in 3 .. 14
                         \/ K \in {"bare", "typed", "finally"} /\ at \in 3 .. 4
      BY <3>1 DEF Open
    <3> QED BY <3>2 DEF BlockAt, BlockTypes, Setups
  <2>3. Len(BlockAt(K, at, b)) >= Len(b.block)
    BY <2>1, <1>1, <1>2
  <2>4. Open(K, at) => Len(BlockAt(K, at, b)) = Len(b.block) + 1
    BY <2>2, <1>2
  <2>5. Len(PlaceAt(K, at, own, b).blks) = IF Open(K, at) THEN Len(b.blks) + 1 ELSE Len(b.blks)
    BY <1>1 DEF PlaceAt, At
  <2> QED BY <1>1, <2>3, <2>4, <2>5
<1>4. PlaceAt(K, at, own, b).shape = x
  BY DEF PlaceAt, At
<1>5. \/ x = b.shape /\ PeakAt(K, at) >= 0
      \/ x = V(b.shape) /\ PeakAt(K, at) >= 1
      \/ x = V(V(b.shape)) /\ PeakAt(K, at) >= 2
      \/ x = V(V(V(b.shape))) /\ PeakAt(K, at) >= 3
      \/ x = H(b.shape) /\ PeakAt(K, at) >= 3
      \/ x = W(b.shape) /\ PeakAt(K, at) >= 3
      \/ x = V(H(b.shape)) /\ PeakAt(K, at) >= 4
      \/ x = V(V(H(b.shape))) /\ PeakAt(K, at) >= 5
  BY DEF BytesOf, FwrefsOf, AgainsOf, ShapeAt, PeakAt
<1> HIDE DEF x
<1>6. Height(x) <= Height(b.shape) + PeakAt(K, at)
  <2> DEFINE h == Height(b.shape)
  <2>1. V(b.shape) \in Seq(Cells) /\ Height(V(b.shape)) = h + 1
    BY <1>1, ShapesAre
  <2>2. V(V(b.shape)) \in Seq(Cells) /\ Height(V(V(b.shape))) = h + 1 + 1
    BY <2>1, ShapesAre
  <2>3. Height(V(V(V(b.shape)))) = h + 1 + 1 + 1
    BY <2>2, ShapesAre
  <2>4. H(b.shape) \in Seq(Cells) /\ Height(H(b.shape)) = h + 3
    BY <1>1, ShapesAre
  <2>5. V(H(b.shape)) \in Seq(Cells) /\ Height(V(H(b.shape))) = h + 3 + 1
    BY <2>4, ShapesAre
  <2>6. Height(V(V(H(b.shape)))) = h + 3 + 1 + 1
    BY <2>5, ShapesAre
  <2>7. Height(W(b.shape)) = h + 3
    BY <1>1, ShapesAre
  <2>8. h \in Nat /\ PeakAt(K, at) \in Nat
    BY <1>1
  <2>9. Height(b.shape) = h
    OBVIOUS
  <2> HIDE DEF h
  <2>10. CASE x = b.shape /\ PeakAt(K, at) >= 0
    BY <2>8, <2>9, <2>10
  <2>11. CASE x = V(b.shape) /\ PeakAt(K, at) >= 1
    <3>1. Height(x) = h + 1 BY <2>1, <2>11
    <3> QED BY <2>8, <2>9, <2>11, <3>1
  <2>12. CASE x = V(V(b.shape)) /\ PeakAt(K, at) >= 2
    <3>1. Height(x) = h + 1 + 1 BY <2>2, <2>12
    <3> QED BY <2>8, <2>9, <2>12, <3>1
  <2>13. CASE x = V(V(V(b.shape))) /\ PeakAt(K, at) >= 3
    <3>1. Height(x) = h + 1 + 1 + 1 BY <2>3, <2>13
    <3> QED BY <2>8, <2>9, <2>13, <3>1
  <2>14. CASE x = H(b.shape) /\ PeakAt(K, at) >= 3
    <3>1. Height(x) = h + 3 BY <2>4, <2>14
    <3> QED BY <2>8, <2>9, <2>14, <3>1
  <2>15. CASE x = W(b.shape) /\ PeakAt(K, at) >= 3
    <3>1. Height(x) = h + 3 BY <2>7, <2>15
    <3> QED BY <2>8, <2>9, <2>15, <3>1
  <2>16. CASE x = V(H(b.shape)) /\ PeakAt(K, at) >= 4
    <3>1. Height(x) = h + 3 + 1 BY <2>5, <2>16
    <3> QED BY <2>8, <2>9, <2>16, <3>1
  <2>17. CASE x = V(V(H(b.shape))) /\ PeakAt(K, at) >= 5
    <3>1. Height(x) = h + 3 + 1 + 1 BY <2>6, <2>17
    <3> QED BY <2>8, <2>9, <2>17, <3>1
  <2> QED BY <1>5, <2>10, <2>11, <2>12, <2>13, <2>14, <2>15, <2>16, <2>17
<1> QED BY <1>3, <1>4, <1>6

\* An instruction whose target comes later, inside a statement.
LEMMA FwrefRows ==
  ASSUME NEW K, NEW at, NEW op, NEW n, <<K, at, op, n>> \in FwrefsOf, NEW b \in Bases
  PROVE  /\ op \in Aiming /\ op \in Ops /\ at \in Nat /\ n \in Anchors
         /\ SameBlock(K, at, b) /\ SameLoop(K, at) /\ SameLevel(K, at)
         /\ \A m \in Anchors : Owes(K, at + 1, m) <=> (Owes(K, at, m) \/ m = n)
         /\ ~Owes(K, at, n)
         /\ op \in Setups => at = 1 /\ n = "block" /\ Opened(K, 2)
         /\ op \notin Setups => n # "block" /\ SameOpen(K, at)
<1>1. op \in Aiming /\ op \in Ops
  BY DEF FwrefsOf, Aiming, Setups, Jumps, Ops
<1>2. at \in Nat /\ n \in Anchors
  BY DEF FwrefsOf, Anchors
<1>3. SameBlock(K, at, b)
  BY DEF FwrefsOf, SameBlock, BlockAt
<1>4. SameLoop(K, at)
  BY DEF FwrefsOf, SameLoop, Looping
<1>5. SameLevel(K, at)
  BY DEF FwrefsOf, SameLevel, LevelAt, PeakAt
<1>6. \A m \in Anchors : Owes(K, at + 1, m) <=> (Owes(K, at, m) \/ m = n)
  <2>1. CASE n = "block" BY <2>1 DEF FwrefsOf, Owes, Anchors
  <2>2. CASE n = "false" BY <2>2 DEF FwrefsOf, Owes, Anchors
  <2>3. CASE n = "else" BY <2>3 DEF FwrefsOf, Owes, Anchors
  <2>4. CASE n = "end" BY <2>4 DEF FwrefsOf, Owes, Anchors
  <2> QED BY <1>2, <2>1, <2>2, <2>3, <2>4 DEF Anchors
<1>7. ~Owes(K, at, n)
  BY DEF FwrefsOf, Owes
<1>8. op \in Setups => at = 1 /\ n = "block" /\ Opened(K, 2)
  BY DEF FwrefsOf, Setups, Opened
<1>9. op \notin Setups => n # "block" /\ SameOpen(K, at)
  BY DEF FwrefsOf, Setups, SameOpen, Opened
<1> QED BY <1>1, <1>2, <1>3, <1>4, <1>5, <1>6, <1>7, <1>8, <1>9

\* own is the block of the call afterwards.
LEMMA FwrefFlows ==
  ASSUME NEW K, NEW at, NEW op, NEW n, <<K, at, op, n>> \in FwrefsOf,
         NEW A, NEW k \in Nat, NEW b \in Bases, NEW own \in Nat,
         op \in Setups => own = k
  PROVE  /\ Flows(A, op, k, PlaceAt(K, at, own, b), PlaceAt(K, at + 1, own, b))
         /\ Aims(op, PlaceAt(K, at, own, b), Lands(K, own, b, n))
<1> DEFINE a == PlaceAt(K, at, own, b)
           t == PlaceAt(K, at + 1, own, b)
           l == Lands(K, own, b, n)
           x == ShapeAt(K, at, b.shape)
           y == ShapeAt(K, at + 1, b.shape)
<1>1. a = At(x, a.blks) /\ t = At(y, t.blks)
  BY DEF PlaceAt, At
<1>2. op \notin Setups => t.blks = a.blks
  BY DEF FwrefsOf, PlaceAt, At, Open, Setups
<1>3. op \in Setups => a = At(b.shape, b.blks) /\ t = At(b.shape, Append(b.blks, own))
  BY DEF FwrefsOf, PlaceAt, Open, Setups, ShapeAt
<1>4. op = "FOR_LOOP" => /\ a = At(V(V(b.shape)), Append(b.blks, own)) /\ y = V(x)
                         /\ l = At(b.shape, Append(b.blks, own))
  BY DEF FwrefsOf, PlaceAt, Open, ShapeAt, Lands
<1>5. op = "JUMP_IF_FALSE" => x \in {V(b.shape), V(H(b.shape))} /\ y = x /\ l = a
  BY DEF FwrefsOf, PlaceAt, Open, ShapeAt, Lands
<1>6. op \in Jumps \cup {"SETUP_LOOP"} => l = a
  BY DEF FwrefsOf, PlaceAt, Open, ShapeAt, Lands, Jumps
<1>7. op = "SETUP_EXCEPT" => l = At(H(b.shape), b.blks)
  BY DEF FwrefsOf, Lands
<1>8. op = "SETUP_FINALLY" => l = At(W(b.shape), b.blks)
  BY DEF FwrefsOf, Lands
<1>9. V(b.shape) # <<>> /\ V(V(b.shape)) # <<>> /\ V(H(b.shape)) # <<>>
  BY ShapesAre DEF Bases
<1>10. op \in Aiming
  BY FwrefRows
<1> HIDE DEF a, t, l, x, y
<1>11. Flows(A, op, k, a, t)
  <2>1. op = "FOR_LOOP" => a.shape # <<>> /\ t = At(V(a.shape), a.blks)
    BY <1>1, <1>2, <1>4, <1>9 DEF At, Setups
  <2>2. op = "JUMP_IF_FALSE" => a.shape # <<>> /\ t = a
    BY <1>1, <1>2, <1>5, <1>9 DEF At, Setups
  <2>3. op \in Setups => t = At(a.shape, Append(a.blks, k))
    BY <1>3 DEF At
  <2> QED BY <2>1, <2>2, <2>3, <1>10 DEF Flows, Aiming, Jumps, Setups, Taking
<1>12. Aims(op, a, l)
  <2>1. op = "FOR_LOOP" => a = At(V(V(l.shape)), l.blks)
    BY <1>4 DEF At
  <2>2. op = "SETUP_EXCEPT" => l = At(H(a.shape), a.blks)
    BY <1>3, <1>7 DEF At, Setups
  <2>3. op = "SETUP_FINALLY" => l = At(W(a.shape), a.blks)
    BY <1>3, <1>8 DEF At, Setups
  <2> QED BY <1>5, <1>6, <2>1, <2>2, <2>3 DEF Aims
<1> QED BY <1>11, <1>12 DEF a, t, l

LEMMA PatchRows ==
  ASSUME NEW K, NEW at, NEW n, <<K, at, n>> \in PatchesOf, NEW b, NEW own
  PROVE  /\ at \in Nat /\ n \in Anchors /\ Owes(K, at, n)
         /\ SamePlace(K, at, own, b) /\ SameBlock(K, at, b) /\ SameLoop(K, at)
         /\ SameOpen(K, at) /\ SameLevel(K, at)
         /\ Lands(K, own, b, n) = PlaceAt(K, at, own, b)
         /\ \A m \in Anchors : Owes(K, at, m) <=> (Owes(K, at + 1, m) \/ m = n)
<1>1. at \in Nat /\ n \in Anchors /\ Owes(K, at, n)
  BY DEF PatchesOf, Anchors, Owes
<1>2. SamePlace(K, at, own, b)
  BY DEF PatchesOf, SamePlace, PlaceAt, ShapeAt, Open
<1>3. SameBlock(K, at, b)
  BY DEF PatchesOf, SameBlock, BlockAt
<1>4. SameLoop(K, at) /\ SameOpen(K, at)
  BY DEF PatchesOf, SameLoop, Looping, SameOpen, Opened
<1>5. SameLevel(K, at)
  BY DEF PatchesOf, SameLevel, LevelAt, PeakAt
<1>6. Lands(K, own, b, n) = PlaceAt(K, at, own, b)
  BY DEF PatchesOf, Lands, PlaceAt, ShapeAt, Open
<1>7. \A m \in Anchors : Owes(K, at, m) <=> (Owes(K, at + 1, m) \/ m = n)
  <2>1. CASE n = "block" BY <2>1 DEF PatchesOf, Owes, Anchors
  <2>2. CASE n = "false" BY <2>2 DEF PatchesOf, Owes, Anchors
  <2>3. CASE n = "else" BY <2>3 DEF PatchesOf, Owes, Anchors
  <2>4. CASE n = "end" BY <2>4 DEF PatchesOf, Owes, Anchors
  <2> QED BY <1>1, <2>1, <2>2, <2>3, <2>4 DEF Anchors
<1> QED BY <1>1, <1>2, <1>3, <1>4, <1>5, <1>6, <1>7

\* The other primitives add no instruction.
LEMMA LevelRows ==
  ASSUME NEW K, NEW at, NEW n, <<K, at, n>> \in LevelsOf, NEW b, NEW own
  PROVE  /\ at \in Nat /\ n \in Int
         /\ SamePlace(K, at, own, b) /\ SameBlock(K, at, b) /\ SameLoop(K, at)
         /\ SameOpen(K, at) /\ SameOwed(K, at) /\ Climbs(K, at, n)
<1>1. at \in Nat /\ n \in Int
  BY DEF LevelsOf
<1>2. SamePlace(K, at, own, b) /\ SameBlock(K, at, b)
  BY DEF LevelsOf, SamePlace, PlaceAt, ShapeAt, Open, SameBlock, BlockAt
<1>3. SameLoop(K, at) /\ SameOpen(K, at) /\ SameOwed(K, at)
  BY DEF LevelsOf, SameLoop, Looping, SameOpen, Opened, SameOwed, Owes, Anchors
<1>4. Climbs(K, at, n)
  BY DEF LevelsOf, Climbs, LevelAt, PeakAt
<1> QED BY <1>1, <1>2, <1>3, <1>4

LEMMA PushRows ==
  ASSUME NEW K, NEW at, NEW t, <<K, at, t>> \in PushesOf, NEW b, NEW own
  PROVE  /\ at \in Nat /\ t \in BlockTypes
         /\ SamePlace(K, at, own, b) /\ SameLoop(K, at) /\ SameLevel(K, at)
         /\ SameOpen(K, at) /\ SameOwed(K, at)
         /\ BlockAt(K, at + 1, b) = Append(BlockAt(K, at, b), t)
<1>1. at \in Nat /\ t \in BlockTypes
  BY DEF PushesOf, BlockTypes, Setups
<1>2. SamePlace(K, at, own, b)
  BY DEF PushesOf, SamePlace, PlaceAt, ShapeAt, Open
<1>3. SameLoop(K, at) /\ SameOpen(K, at) /\ SameOwed(K, at)
  BY DEF PushesOf, SameLoop, Looping, SameOpen, Opened, SameOwed, Owes, Anchors
<1>4. SameLevel(K, at)
  BY DEF PushesOf, SameLevel, LevelAt, PeakAt
<1>5. BlockAt(K, at + 1, b) = Append(BlockAt(K, at, b), t)
  <2>1. BlockAt(K, at, b) = b.block
    BY DEF PushesOf, BlockAt
  <2>2. BlockAt(K, at + 1, b) = Append(b.block, t)
    BY DEF PushesOf, BlockAt
  <2> QED BY <2>1, <2>2
<1> QED BY <1>1, <1>2, <1>3, <1>4, <1>5

LEMMA PopRows ==
  ASSUME NEW K, NEW at, NEW t, <<K, at, t>> \in PopsOf, NEW b, NEW own
  PROVE  /\ at \in Nat /\ t \in BlockTypes
         /\ SamePlace(K, at, own, b) /\ SameLoop(K, at) /\ SameLevel(K, at)
         /\ SameOpen(K, at) /\ SameOwed(K, at)
         /\ BlockAt(K, at, b) = Append(BlockAt(K, at + 1, b), t)
<1>1. at \in Nat /\ t \in BlockTypes
  BY DEF PopsOf, BlockTypes, Setups
<1>2. SamePlace(K, at, own, b)
  BY DEF PopsOf, SamePlace, PlaceAt, ShapeAt, Open
<1>3. SameLoop(K, at) /\ SameOpen(K, at) /\ SameOwed(K, at)
  BY DEF PopsOf, SameLoop, Looping, SameOpen, Opened, SameOwed, Owes, Anchors
<1>4. SameLevel(K, at)
  BY DEF PopsOf, SameLevel, LevelAt, PeakAt
<1>5. BlockAt(K, at, b) = Append(BlockAt(K, at + 1, b), t)
  <2>1. BlockAt(K, at, b) = Append(b.block, t)
    BY DEF PopsOf, BlockAt
  <2>2. BlockAt(K, at + 1, b) = b.block
    BY DEF PopsOf, BlockAt
  <2> QED BY <2>1, <2>2
<1> QED BY <1>1, <1>2, <1>3, <1>4, <1>5

LEMMA BeginRows ==
  ASSUME NEW K, NEW at, <<K, at>> \in BeginsOf, NEW b, NEW own
  PROVE  /\ at \in Nat /\ SamePlace(K, at, own, b) /\ SameBlock(K, at, b)
         /\ SameLevel(K, at) /\ SameOpen(K, at) /\ SameOwed(K, at)
         /\ ~Looping(K, at) /\ Looping(K, at + 1)
         /\ LoopPlace(K, own, b) = PlaceAt(K, at, own, b)
<1>1. at \in Nat /\ ~Looping(K, at) /\ Looping(K, at + 1)
  BY DEF BeginsOf, Looping
<1>2. SamePlace(K, at, own, b) /\ SameBlock(K, at, b)
  BY DEF BeginsOf, SamePlace, PlaceAt, ShapeAt, Open, SameBlock, BlockAt
<1>3. SameOpen(K, at) /\ SameOwed(K, at) /\ SameLevel(K, at)
  BY DEF BeginsOf, SameOpen, Opened, SameOwed, Owes, Anchors, SameLevel, LevelAt, PeakAt
<1>4. LoopPlace(K, own, b) = PlaceAt(K, at, own, b)
  BY DEF BeginsOf, LoopPlace, PlaceAt, ShapeAt, Open
<1> QED BY <1>1, <1>2, <1>3, <1>4

LEMMA AgainRows ==
  ASSUME NEW K, NEW at, <<K, at>> \in AgainsOf, NEW b, NEW own
  PROVE  /\ at \in Nat /\ SameBlock(K, at, b) /\ SameLevel(K, at)
         /\ SameOpen(K, at) /\ SameOwed(K, at)
         /\ Looping(K, at) /\ ~Looping(K, at + 1)
         /\ LoopPlace(K, own, b) = PlaceAt(K, at, own, b)
<1>1. at \in Nat /\ Looping(K, at) /\ ~Looping(K, at + 1)
  BY DEF AgainsOf, Looping
<1>2. SameBlock(K, at, b)
  BY DEF AgainsOf, SameBlock, BlockAt
<1>3. SameOpen(K, at) /\ SameOwed(K, at) /\ SameLevel(K, at)
  BY DEF AgainsOf, SameOpen, Opened, SameOwed, Owes, Anchors, SameLevel, LevelAt, PeakAt
<1>4. LoopPlace(K, own, b) = PlaceAt(K, at, own, b)
  BY DEF AgainsOf, LoopPlace, PlaceAt, ShapeAt, Open
<1> QED BY <1>1, <1>2, <1>3, <1>4

\* The body of a loop, a part of a statement, break and continue.
LEMMA StillRows ==
  ASSUME NEW K, NEW at, NEW b, NEW own,
         \/ <<K, at>> \in LoopsOf
         \/ <<K, at>> \in PartsOf
         \/ K \in {"break", "continue"} /\ at = 1
  PROVE  /\ at \in Nat /\ SamePlace(K, at, own, b) /\ SameBlock(K, at, b)
         /\ SameLoop(K, at) /\ SameLevel(K, at) /\ SameOpen(K, at) /\ SameOwed(K, at)
         /\ K = "def" => at = 1
<1>1. at \in Nat /\ (K = "def" => at = 1)
  BY DEF LoopsOf, PartsOf
<1>2. SamePlace(K, at, own, b)
  BY DEF LoopsOf, PartsOf, SamePlace, PlaceAt, ShapeAt, Open
<1>3. SameBlock(K, at, b) /\ SameLoop(K, at)
  BY DEF LoopsOf, PartsOf, SameBlock, BlockAt, SameLoop, Looping
<1>4. SameLevel(K, at)
  BY DEF LoopsOf, PartsOf, SameLevel, LevelAt, PeakAt
<1>5. SameOpen(K, at) /\ SameOwed(K, at)
  BY DEF LoopsOf, PartsOf, SameOpen, Opened, SameOwed, Owes, Anchors
<1> QED BY <1>1, <1>2, <1>3, <1>4, <1>5

LEMMA PlaceIsPlace ==
  ASSUME NEW K, NEW at, NEW own \in Nat, NEW b \in Bases
  PROVE  PlaceAt(K, at, own, b) \in Places
<1>1. b.shape \in Seq(Cells) /\ b.blks \in Seq(Nat)
  BY DEF Bases
<1>2. \A sh \in Seq(Cells) : V(sh) \in Seq(Cells) /\ H(sh) \in Seq(Cells) /\ W(sh) \in Seq(Cells)
  BY ShapesAre
<1>3. ShapeAt(K, at, b.shape) \in Seq(Cells)
  <2>1. H(b.shape) \in Seq(Cells) /\ W(b.shape) \in Seq(Cells) /\ V(b.shape) \in Seq(Cells)
    BY <1>1, <1>2
  <2>2. V(V(b.shape)) \in Seq(Cells) /\ V(H(b.shape)) \in Seq(Cells)
    BY <2>1, <1>2
  <2>3. V(V(V(b.shape))) \in Seq(Cells) /\ V(V(H(b.shape))) \in Seq(Cells)
    BY <2>2, <1>2
  <2> QED BY <1>1, <2>1, <2>2, <2>3 DEF ShapeAt
<1>4. Append(b.blks, own) \in Seq(Nat)
  BY <1>1
<1> QED BY <1>1, <1>3, <1>4 DEF PlaceAt, At, Places

-----------------------------------------------------------------------------
(* Stacks of any values. *)

LEMMA SeqIs ==
  ASSUME NEW w, IsSeq(w), NEW S, \A i \in 1 .. Len(w) : w[i] \in S
  PROVE  w \in Seq(S)
<1>1. w \in [1 .. Len(w) -> S] /\ Len(w) \in Nat
  BY DEF IsSeq
<1> QED BY <1>1

LEMMA IsSeqOf ==
  ASSUME NEW S, NEW w \in Seq(S)
  PROVE  IsSeq(w)
BY DEF IsSeq

PutAt(w, k, x, v) == k \in 1 .. Len(w) /\ v = [w EXCEPT ![k] = x]
AddedTo(w, x, v) == v = Append(w, x)
FrontOf(w, v) == w # <<>> /\ v = SubSeq(w, 1, Len(w) - 1)
AddedInstr(c, op, arg, c2) == AddedTo(c, [op |-> op, arg |-> arg], c2)

LEMMA SeqPut ==
  ASSUME NEW w, IsSeq(w), NEW k, NEW x, NEW v, PutAt(w, k, x, v)
  PROVE  /\ IsSeq(v) /\ Len(v) = Len(w) /\ v[k] = x
         /\ \A i \in 1 .. Len(w) : i # k => v[i] = w[i]
<1> DEFINE S == {w[i] : i \in 1 .. Len(w)} \cup {x}
<1> USE DEF PutAt, AddedTo
<1>1. w \in Seq(S)
  <2>1. \A i \in 1 .. Len(w) : w[i] \in S OBVIOUS
  <2> QED BY <2>1, SeqIs
<1>2. x \in S OBVIOUS
<1> HIDE DEF S
<1>3. v \in Seq(S) /\ Len(v) = Len(w) /\ v[k] = x /\ \A i \in 1 .. Len(w) : i # k => v[i] = w[i]
  BY <1>1, <1>2
<1>4. IsSeq(v)
  BY <1>3, IsSeqOf
<1> QED BY <1>3, <1>4

LEMMA SeqAppend ==
  ASSUME NEW w, IsSeq(w), NEW x, NEW v, AddedTo(w, x, v)
  PROVE  /\ IsSeq(v) /\ Len(v) = Len(w) + 1 /\ v[Len(w) + 1] = x
         /\ \A i \in 1 .. Len(w) : v[i] = w[i]
<1> DEFINE S == {w[i] : i \in 1 .. Len(w)} \cup {x}
<1> USE DEF PutAt, AddedTo
<1>1. w \in Seq(S)
  <2>1. \A i \in 1 .. Len(w) : w[i] \in S OBVIOUS
  <2> QED BY <2>1, SeqIs
<1>2. x \in S OBVIOUS
<1> HIDE DEF S
<1>3. /\ v \in Seq(S) /\ Len(v) = Len(w) + 1 /\ v[Len(w) + 1] = x
      /\ \A i \in 1 .. Len(w) : v[i] = w[i]
  BY <1>1, <1>2
<1>4. IsSeq(v)
  BY <1>3, IsSeqOf
<1> QED BY <1>3, <1>4

LEMMA SeqFront ==
  ASSUME NEW w, IsSeq(w), NEW v, FrontOf(w, v)
  PROVE  /\ Len(w) \in 1 .. Len(w) /\ IsSeq(v) /\ Len(v) = Len(w) - 1
         /\ \A i \in 1 .. Len(w) - 1 : v[i] = w[i]
<1> DEFINE S == {w[i] : i \in 1 .. Len(w)}
<1>1. w \in Seq(S)
  <2>1. \A i \in 1 .. Len(w) : w[i] \in S OBVIOUS
  <2> QED BY <2>1, SeqIs
<1> HIDE DEF S
<1>2. Len(w) \in Nat /\ Len(w) # 0
  BY <1>1 DEF FrontOf
<1>3. v \in Seq(S) /\ Len(v) = Len(w) - 1 /\ \A i \in 1 .. Len(w) - 1 : v[i] = w[i]
  <2>1. 1 \in Int /\ Len(w) - 1 \in Nat /\ Len(w) - 1 <= Len(w)
    BY <1>2
  <2>2. v = [i \in 1 .. Len(w) - 1 |-> w[i]]
    BY <1>1, <2>1 DEF FrontOf
  <2>3. \A i \in 1 .. Len(w) - 1 : w[i] \in S
    BY <1>1, <2>1
  <2>4. v \in [1 .. Len(w) - 1 -> S]
    BY <2>2, <2>3
  <2>5. v \in Seq(S) /\ Len(v) = Len(w) - 1
    <3>1. v \in Seq(S)
      BY <2>1, <2>4
    <3>2. Len(v) \in Nat /\ DOMAIN v = 1 .. Len(v) /\ DOMAIN v = 1 .. Len(w) - 1
      BY <2>4, <3>1
    <3>3. Len(v) = Len(w) - 1
      BY <2>1, <3>2
    <3> QED BY <3>1, <3>3
  <2> QED BY <2>2, <2>5
<1>4. IsSeq(v)
  BY <1>3, IsSeqOf
<1> QED BY <1>2, <1>3, <1>4

-----------------------------------------------------------------------------
(* The places of more code. *)

Extends(A, c, A2, c2) ==
  /\ Len(A) = Len(c) + 1 /\ Len(A2) = Len(c2) + 1 /\ Len(c) <= Len(c2)
  /\ \A k \in 1 .. Len(c) : c2[k].op = c[k].op
  /\ \A k \in 1 .. Len(A) : A2[k] = A[k]

LEMMA NestedStays ==
  ASSUME NEW A, NEW c \in Codes, NEW A2, NEW c2 \in Codes, Extends(A, c, A2, c2),
         NEW a \in Places, Nested(A, c, a)
  PROVE  Nested(A2, c2, a)
<1> SUFFICES ASSUME NEW i \in 1 .. Len(a.blks), NEW k, k = a.blks[i]
             PROVE  /\ k \in 1 .. Len(c2) /\ c2[k].op \in Setups
                    /\ Len(A2[k].blks) = i - 1 /\ Under(A2[k].blks, a.blks)
                    /\ Under(A2[k].shape, a.shape)
  BY DEF Nested
<1>1. /\ k \in 1 .. Len(c) /\ c[k].op \in Setups
      /\ Len(A[k].blks) = i - 1 /\ Under(A[k].blks, a.blks) /\ Under(A[k].shape, a.shape)
  BY DEF Nested
<1>2. A2[k] = A[k] /\ c2[k].op = c[k].op /\ k \in 1 .. Len(c2)
  BY <1>1 DEF Extends, Codes
<1> QED BY <1>1, <1>2

LEMMA FlowsStays ==
  ASSUME NEW A, NEW A2, NEW k \in Nat, \A j \in 1 .. k : A2[j] = A[j],
         NEW op, NEW a, NEW n, Flows(A, op, k, a, n)
  PROVE  Flows(A2, op, k, a, n)
BY DEF Flows

LEMMA UnderLonger ==
  ASSUME NEW x, NEW y, NEW z, Under(x, y), Under(y, z),
         Len(x) \in Nat, Len(y) \in Nat, Len(z) \in Nat
  PROVE  Under(x, z)
<1>1. Len(x) <= Len(y) /\ Len(y) <= Len(z)
  BY DEF Under
<1>2. Len(x) <= Len(z)
  BY <1>1
<1>3. ASSUME NEW j \in 1 .. Len(x) PROVE x[j] = z[j]
  <2>1. j \in 1 .. Len(y)
    BY <1>1
  <2>2. x[j] = y[j] /\ y[j] = z[j]
    BY <2>1 DEF Under
  <2> QED BY <2>2
<1> QED BY <1>2, <1>3 DEF Under

LEMMA NestedPush ==
  ASSUME NEW A, NEW c, NEW sh \in Seq(Cells), NEW bl \in Seq(Nat), NEW kind \in Kinds,
         Nested(A, c, At(sh, bl)),
         \A k \in 1 .. Len(c) : A[k].shape \in Seq(Cells)
  PROVE  Nested(A, c, At(Pushed(sh, kind), bl))
<1> DEFINE up == Pushed(sh, kind)
<1>1. Len(up) = Len(sh) + 1 /\ \A i \in 1 .. Len(sh) : up[i] = sh[i]
  BY PushedIs
<1> HIDE DEF up
<1> SUFFICES ASSUME NEW i \in 1 .. Len(bl), NEW k, k = bl[i]
             PROVE  /\ k \in 1 .. Len(c) /\ c[k].op \in Setups
                    /\ Len(A[k].blks) = i - 1 /\ Under(A[k].blks, bl) /\ Under(A[k].shape, up)
  BY DEF Nested, At, up
<1>2. /\ k \in 1 .. Len(c) /\ c[k].op \in Setups
      /\ Len(A[k].blks) = i - 1 /\ Under(A[k].blks, bl) /\ Under(A[k].shape, sh)
  BY DEF Nested, At
<1>3. Under(A[k].shape, up)
  <2>1. A[k].shape \in Seq(Cells) BY <1>2
  <2>2. Len(A[k].shape) \in Nat /\ Len(sh) \in Nat BY <2>1
  <2>3. Len(up) \in Nat BY <1>1, <2>2
  <2>4. Under(sh, up) BY <1>1, <2>2 DEF Under
  <2>5. Under(A[k].shape, sh) BY <1>2
  <2> QED BY <2>2, <2>3, <2>4, <2>5, UnderLonger
<1> QED BY <1>2, <1>3

LEMMA NestedOpen ==
  ASSUME NEW A, NEW c, NEW sh \in Seq(Cells), NEW bl \in Seq(Nat), NEW k \in Nat,
         k \in 1 .. Len(c), c[k].op \in Setups, A[k] = At(sh, bl), Nested(A, c, At(sh, bl))
  PROVE  Nested(A, c, At(sh, Append(bl, k)))
<1> DEFINE more == Append(bl, k)
<1>1. Len(more) = Len(bl) + 1 /\ more[Len(bl) + 1] = k /\ \A i \in 1 .. Len(bl) : more[i] = bl[i]
  OBVIOUS
<1> HIDE DEF more
<1> SUFFICES ASSUME NEW i \in 1 .. Len(more), NEW j, j = more[i]
             PROVE  /\ j \in 1 .. Len(c) /\ c[j].op \in Setups
                    /\ Len(A[j].blks) = i - 1 /\ Under(A[j].blks, more) /\ Under(A[j].shape, sh)
  BY DEF Nested, At, more
<1>2. CASE i = Len(bl) + 1
  <2>1. j = k /\ A[j].blks = bl /\ A[j].shape = sh
    BY <1>1, <1>2 DEF At
  <2>2. Under(bl, more) /\ Under(sh, sh)
    BY <1>1 DEF Under
  <2> QED BY <1>2, <2>1, <2>2
<1>3. CASE i \in 1 .. Len(bl)
  <2>1. j = bl[i]
    BY <1>1, <1>3
  <2>2. /\ j \in 1 .. Len(c) /\ c[j].op \in Setups
        /\ Len(A[j].blks) = i - 1 /\ Under(A[j].blks, bl) /\ Under(A[j].shape, sh)
    BY <1>3, <2>1 DEF Nested, At
  <2>3. Under(A[j].blks, more)
    <3>1. Len(A[j].blks) \in Nat /\ Len(bl) \in Nat /\ Len(bl) <= Len(more) /\ Len(more) \in Nat
      BY <1>1, <1>3, <2>2
    <3>2. Under(bl, more)
      BY <1>1, <3>1 DEF Under
    <3>3. Under(A[j].blks, bl)
      BY <2>2
    <3> QED BY <3>1, <3>2, <3>3, UnderLonger
  <2> QED BY <2>2, <2>3
<1> QED BY <1>1, <1>2, <1>3

\* Whatever a call has done, its place is nested like the one it began at.
LEMMA NestedPlace ==
  ASSUME NEW A, NEW c, NEW K, NEW at, NEW own \in Nat, NEW b \in Bases,
         \A k \in 1 .. Len(c) : A[k].shape \in Seq(Cells),
         Nested(A, c, BasePlace(b)),
         Open(K, at) => own \in 1 .. Len(c) /\ c[own].op \in Setups /\ A[own] = BasePlace(b)
  PROVE  Nested(A, c, PlaceAt(K, at, own, b))
<1> DEFINE bl == IF Open(K, at) THEN Append(b.blks, own) ELSE b.blks
           OK(sh) == sh \in Seq(Cells) /\ Nested(A, c, At(sh, bl))
<1>1. b.shape \in Seq(Cells) /\ b.blks \in Seq(Nat) /\ bl \in Seq(Nat)
  BY DEF Bases
<1>2. OK(b.shape)
  <2>1. CASE Open(K, at)
    BY <1>1, <2>1, NestedOpen DEF BasePlace
  <2>2. CASE ~Open(K, at)
    BY <1>1, <2>2 DEF BasePlace
  <2> QED BY <2>1, <2>2
<1> HIDE DEF bl
<1>3. ASSUME NEW sh, OK(sh), NEW kind \in Kinds
      PROVE  OK(Pushed(sh, kind))
  BY <1>1, <1>3, NestedPush, PushedIs
<1> HIDE DEF OK
<1>4. OK(V(b.shape)) /\ OK(W(b.shape))
  BY <1>2, <1>3 DEF V, W, Kinds
<1>5. OK(V(V(b.shape)))
  BY <1>3, <1>4 DEF V, Kinds
<1>6. OK(V(V(V(b.shape)))) /\ OK(H(b.shape))
  BY <1>3, <1>5 DEF V, H, Kinds
<1>7. OK(V(H(b.shape)))
  BY <1>3, <1>6 DEF V, Kinds
<1>8. OK(V(V(H(b.shape))))
  BY <1>3, <1>7 DEF V, Kinds
<1>9. OK(ShapeAt(K, at, b.shape))
  BY <1>2, <1>4, <1>5, <1>6, <1>7, <1>8 DEF ShapeAt
<1> QED BY <1>9 DEF PlaceAt, OK, bl

LEMMA EmitAnnotated ==
  ASSUME NEW c \in Codes, NEW m \in Nat, NEW m2 \in Nat, m <= m2, NEW A, Annotated(A, c, m),
         NEW op \in Ops, NEW arg \in Nat, NEW n \in Places,
         NEW c2, AddedInstr(c, op, arg, c2), NEW A2, AddedTo(A, n, A2),
         Flows(A, op, Len(c) + 1, A[Len(c) + 1], n),
         arg # 0 => arg \in 1 .. Len(c) + 1 /\ Aims(op, A[Len(c) + 1], A[arg]),
         Height(A[Len(c) + 1].shape) <= m, Len(A[Len(c) + 1].blks) <= MaxBlocks,
         Nested(A2, c2, n)
  PROVE  c2 \in Codes /\ Extends(A, c, A2, c2) /\ Annotated(A2, c2, m2)
<1> DEFINE k == Len(c) + 1
<1> USE DEF AddedInstr, AddedTo
<1>1. A \in Seq(Places) /\ Len(A) = Len(c) + 1 /\ A[1] = At(<<>>, <<>>)
  BY DEF Annotated
<1>2. c \in Seq(Instrs) /\ Len(c) \in Nat
  BY DEF Codes
<1>3. /\ c2 \in Seq(Instrs) /\ Len(c2) = Len(c) + 1
      /\ \A i \in 1 .. Len(c) : c2[i] = c[i]
      /\ c2[k] = [op |-> op, arg |-> arg]
  <2>1. [op |-> op, arg |-> arg] \in Instrs BY DEF Instrs
  <2> QED BY <1>2, <2>1
<1>4. /\ A2 \in Seq(Places) /\ Len(A2) = Len(A) + 1
      /\ \A i \in 1 .. Len(A) : A2[i] = A[i]
      /\ A2[k + 1] = n
  BY <1>1, <1>2
<1>5. Extends(A, c, A2, c2)
  BY <1>1, <1>2, <1>3, <1>4 DEF Extends
<1>6. ASSUME NEW i \in 1 .. Len(A2)
      PROVE  Nested(A2, c2, A2[i])
  <2>1. CASE i = k + 1
    BY <1>4, <2>1
  <2>2. CASE i \in 1 .. Len(A)
    <3>1. A2[i] = A[i] /\ A[i] \in Places /\ Nested(A, c, A[i])
      BY <1>1, <1>4, <2>2 DEF Annotated
    <3>2. c2 \in Codes
      BY <1>3 DEF Codes
    <3>3. Nested(A2, c2, A[i])
      BY <1>5, <3>1, <3>2, NestedStays
    <3> QED BY <3>1, <3>3
  <2> QED BY <1>1, <1>2, <1>4, <2>1, <2>2
<1>7. ASSUME NEW i \in 1 .. Len(c2)
      PROVE  Good(A2, c2, i) /\ Height(A2[i].shape) <= m2 /\ Len(A2[i].blks) <= MaxBlocks
  <2>1. CASE i = k
    <3>1. Flows(A2, op, k, A[k], n)
      <4>1. k \in Nat /\ \A j \in 1 .. k : A2[j] = A[j]
        BY <1>1, <1>2, <1>4
      <4> QED BY <4>1, FlowsStays
    <3>2. A2[k] = A[k] /\ A2[k + 1] = n /\ c2[k].op = op /\ c2[k].arg = arg
      BY <1>1, <1>2, <1>3, <1>4
    <3>3. arg # 0 => arg \in 1 .. Len(c2) + 1 /\ Aims(op, A2[k], A2[arg])
      BY <1>1, <1>2, <1>3, <1>4
    <3>4. A[k].shape \in Seq(Cells)
      <4>1. A[k] \in Places BY <1>1, <1>2
      <4> QED BY <4>1 DEF Places
    <3>5. Height(A2[k].shape) <= m2
      BY <3>2, <3>4, HeightIsNat
    <3> QED BY <2>1, <3>1, <3>2, <3>3, <3>5 DEF Good
  <2>2. CASE i \in 1 .. Len(c)
    <3>1. Good(A, c, i) /\ Height(A[i].shape) <= m /\ Len(A[i].blks) <= MaxBlocks
      BY <2>2 DEF Annotated
    <3>2. A2[i] = A[i] /\ A2[i + 1] = A[i + 1] /\ c2[i] = c[i]
      BY <1>1, <1>2, <1>3, <1>4, <2>2
    <3>3. Flows(A, c[i].op, i, A[i], A[i + 1])
      BY <3>1 DEF Good
    <3>4. Flows(A2, c[i].op, i, A[i], A[i + 1])
      <4>1. i \in Nat /\ \A j \in 1 .. i : A2[j] = A[j]
        BY <1>1, <1>2, <1>4, <2>2
      <4> QED BY <3>3, <4>1 DEF Flows
    <3>5. c[i].arg # 0 => c[i].arg \in 1 .. Len(c2) + 1 /\ Aims(c[i].op, A[i], A2[c[i].arg])
      BY <1>1, <1>2, <1>3, <1>4, <2>2, <3>1 DEF Good
    <3>6. A[i].shape \in Seq(Cells)
      <4>1. A[i] \in Places BY <1>1, <1>2, <2>2
      <4> QED BY <4>1 DEF Places
    <3>7. Height(A[i].shape) <= m2
      BY <3>1, <3>6, HeightIsNat
    <3>8. Good(A2, c2, i)
      BY <3>2, <3>4, <3>5 DEF Good
    <3>9. Height(A2[i].shape) <= m2 /\ Len(A2[i].blks) <= MaxBlocks
      BY <3>1, <3>2, <3>7
    <3> QED BY <3>8, <3>9
  <2>3. i = k \/ i \in 1 .. Len(c)
    BY <1>2, <1>3
  <2> QED BY <2>1, <2>2, <2>3
<1>8. A2[1] = At(<<>>, <<>>) /\ Len(A2) = Len(c2) + 1
  BY <1>1, <1>2, <1>3, <1>4
<1> QED BY <1>3, <1>4, <1>5, <1>6, <1>7, <1>8 DEF Annotated, Codes

LEMMA PatchAnnotated ==
  ASSUME NEW c \in Codes, NEW m \in Nat, NEW A, Annotated(A, c, m),
         NEW k \in 1 .. Len(c), Aims(c[k].op, A[k], A[Len(c) + 1]),
         NEW c2, c2 = [c EXCEPT ![k].arg = Len(c) + 1]
  PROVE  c2 \in Codes /\ Extends(A, c, A, c2) /\ Annotated(A, c2, m)
<1>1. A \in Seq(Places) /\ Len(A) = Len(c) + 1 /\ A[1] = At(<<>>, <<>>)
  BY DEF Annotated
<1>2. c \in Seq(Instrs) /\ Len(c) \in Nat
  BY DEF Codes
<1>3. c2 \in Seq(Instrs) /\ Len(c2) = Len(c)
  <2>1. c[k] \in Instrs
    BY <1>2
  <2>2. [c[k] EXCEPT !.arg = Len(c) + 1] \in Instrs
    BY <1>2, <2>1 DEF Instrs
  <2>3. c2 = [c EXCEPT ![k] = [c[k] EXCEPT !.arg = Len(c) + 1]]
    OBVIOUS
  <2> QED BY <1>2, <2>2, <2>3
<1>4. \A i \in 1 .. Len(c) : c2[i].op = c[i].op /\ (i # k => c2[i] = c[i])
  BY <1>2
<1>5. c2[k].arg = Len(c) + 1
  BY <1>2
<1>6. Extends(A, c, A, c2)
  BY <1>1, <1>2, <1>3, <1>4 DEF Extends
<1>7. \A i \in 1 .. Len(A) : Nested(A, c2, A[i])
  <2> TAKE i \in 1 .. Len(A)
  <2>1. A[i] \in Places /\ Nested(A, c, A[i])
    BY <1>1 DEF Annotated
  <2> QED BY <1>3, <1>6, <2>1, NestedStays DEF Codes
<1>8. ASSUME NEW i \in 1 .. Len(c)
      PROVE  Good(A, c2, i) /\ Height(A[i].shape) <= m /\ Len(A[i].blks) <= MaxBlocks
  <2>1. Good(A, c, i) /\ Height(A[i].shape) <= m /\ Len(A[i].blks) <= MaxBlocks
    BY DEF Annotated
  <2>2. CASE i = k
    BY <1>2, <1>3, <1>4, <1>5, <2>1, <2>2 DEF Good
  <2>3. CASE i # k
    BY <1>3, <1>4, <2>1, <2>3 DEF Good
  <2> QED BY <2>1, <2>2, <2>3
<1> QED BY <1>1, <1>3, <1>6, <1>7, <1>8 DEF Annotated, Codes

-----------------------------------------------------------------------------
(* The calls of com_node, while the code grows. *)

LEMMA BaseStays ==
  ASSUME NEW A, NEW c \in Codes, NEW A2, NEW c2 \in Codes, Extends(A, c, A2, c2),
         NEW b \in Bases, BaseOK(A, c, b)
  PROVE  BaseOK(A2, c2, b)
<1>1. BasePlace(b) \in Places
  BY DEF Bases, BasePlace, At, Places
<1>2. Nested(A2, c2, BasePlace(b))
  BY <1>1, NestedStays DEF BaseOK
<1>3. Len(c) \in Nat /\ Len(c2) \in Nat
  BY DEF Codes
<1> QED BY <1>2, <1>3 DEF BaseOK, Extends

LEMMA FrameStays ==
  ASSUME NEW A, NEW c \in Codes, NEW A2, NEW c2 \in Codes, Extends(A, c, A2, c2),
         NEW m \in Nat, NEW m2 \in Nat, m <= m2,
         NEW f, NEW b \in Bases, FrameOK(A, c, m, f, b)
  PROVE  FrameOK(A2, c2, m2, f, b)
<1>1. BaseOK(A2, c2, b)
  BY BaseStays DEF FrameOK
<1>2. Len(c) \in Nat /\ Len(c2) \in Nat /\ 1 .. Len(c) \subseteq 1 .. Len(A)
      /\ 1 .. Len(c) \subseteq 1 .. Len(c2) /\ Len(A) = Len(c) + 1
  BY DEF Codes, Extends
<1>3. OpenOK(A2, c2, f, b)
  BY <1>2 DEF FrameOK, OpenOK, Extends
<1>4. LoopOK(A2, c2, f, b)
  BY <1>2 DEF FrameOK, LoopOK, Extends
<1>5. OwesOK(A2, c2, f, b)
  <2> SUFFICES ASSUME NEW n \in Anchors, Owes(Kind(f.s), f.at, n)
               PROVE  /\ f.anchor[n] \in 1 .. Len(c2)
                      /\ Aims(c2[f.anchor[n]].op, A2[f.anchor[n]], Lands(Kind(f.s), Own(f), b, n))
    BY DEF OwesOK
  <2>1. /\ f.anchor[n] \in 1 .. Len(c)
        /\ Aims(c[f.anchor[n]].op, A[f.anchor[n]], Lands(Kind(f.s), Own(f), b, n))
    BY DEF FrameOK, OwesOK
  <2>2. c2[f.anchor[n]].op = c[f.anchor[n]].op /\ A2[f.anchor[n]] = A[f.anchor[n]]
    BY <1>2, <2>1 DEF Extends
  <2> QED BY <1>2, <2>1, <2>2
<1>6. Height(b.shape) + PeakAt(Kind(f.s), f.at) <= m2
  <2>1. Height(b.shape) \in Nat /\ PeakAt(Kind(f.s), f.at) \in 0 .. 5
    BY HeightIsNat, LevelsInRange DEF Bases
  <2> QED BY <2>1 DEF FrameOK
<1> QED BY <1>1, <1>3, <1>4, <1>5, <1>6 DEF FrameOK

\* A call goes on to the next in its list.
Moved(f) == [f EXCEPT !.at = f.at + 1]

LEMMA MovedIs ==
  ASSUME NEW f, IsCall(f), f.at <= Len(Calls(f.s))
  PROVE  LET g == Moved(f)
         IN /\ IsCall(g) /\ g.s = f.s /\ g.at = f.at + 1 /\ g.anchor = f.anchor
            /\ g.begin = f.begin /\ Own(g) = Own(f)
<1> PICK s, at, anchor, begin0 :
      f = [s |-> s, at |-> at, anchor |-> anchor, begin |-> begin0]
  BY DEF IsCall
<1>1. Moved(f) = [s |-> s, at |-> at + 1, anchor |-> anchor, begin |-> begin0]
  BY DEF Moved
<1>2. at \in 1 .. Len(Calls(s)) + 1 /\ anchor \in [Anchors -> Nat] /\ at <= Len(Calls(s))
  BY DEF IsCall
<1>3. at + 1 \in 1 .. Len(Calls(s)) + 1
  BY <1>2
<1> QED BY <1>1, <1>2, <1>3 DEF IsCall, Own

LEMMA FrameMoves ==
  ASSUME NEW A, NEW c, NEW m, NEW f, NEW b, FrameOK(A, c, m, f, b),
         f.at <= Len(Calls(f.s)),
         SameOpen(Kind(f.s), f.at), SameLoop(Kind(f.s), f.at),
         \A n \in Anchors : Owes(Kind(f.s), f.at + 1, n) => Owes(Kind(f.s), f.at, n),
         Height(b.shape) + PeakAt(Kind(f.s), f.at + 1) <= m
  PROVE  FrameOK(A, c, m, Moved(f), b)
<1> DEFINE g == Moved(f)
<1>1. /\ IsCall(g) /\ g.s = f.s /\ g.at = f.at + 1 /\ g.anchor = f.anchor
      /\ g.begin = f.begin /\ Own(g) = Own(f)
  BY MovedIs DEF FrameOK
<1> HIDE DEF g
<1>2. OpenOK(A, c, g, b)
  BY <1>1 DEF FrameOK, OpenOK, SameOpen
<1>3. LoopOK(A, c, g, b)
  BY <1>1 DEF FrameOK, LoopOK, SameLoop
<1>4. OwesOK(A, c, g, b)
  BY <1>1 DEF FrameOK, OwesOK
<1>5. FrameOK(A, c, m, g, b)
  BY <1>1, <1>2, <1>3, <1>4 DEF FrameOK
<1> QED BY <1>5 DEF g

\* A new call begins at a place where nothing is owed.
LEMMA FrameBegins ==
  ASSUME NEW A, NEW c, NEW m \in Nat, NEW b \in Bases, BaseOK(A, c, b), Height(b.shape) <= m,
         NEW f, NEW s, f = [s |-> s, at |-> 1, anchor |-> [n \in Anchors |-> 0], begin |-> b.begin]
  PROVE  FrameOK(A, c, m, f, b)
<1>1. f.s = s /\ f.at = 1 /\ f.anchor = [n \in Anchors |-> 0] /\ f.begin = b.begin
  OBVIOUS
<1>2. Len(Calls(s)) \in Nat
  BY DEF Calls, IfStmt, WhileStmt, ForStmt, TryExcept, TryExceptTyped, TryFinally, FuncDef
<1>3. IsCall(f)
  BY <1>1, <1>2 DEF IsCall
<1>4. /\ PeakAt(Kind(s), 1) = 0 /\ ~Opened(Kind(s), 1) /\ ~Looping(Kind(s), 1)
      /\ \A n \in Anchors : ~Owes(Kind(s), 1, n)
  BY StartOfCall
<1>5. Height(b.shape) + PeakAt(Kind(f.s), f.at) <= m
  BY <1>1, <1>4, HeightIsNat DEF Bases
<1> QED BY <1>1, <1>3, <1>4, <1>5 DEF FrameOK, OpenOK, LoopOK, OwesOK

-----------------------------------------------------------------------------
(* The innermost call goes on. *)

Pending(f, k) == \E n \in Anchors : Owes(Kind(f.s), f.at, n) /\ f.anchor[n] = k
SameBase(b, b2) ==
  b2.shape = b.shape /\ b2.blks = b.blks /\ b2.block = b.block /\ b2.begin = b.begin
EndsWell(c, f) ==
  Kind(f.s) = "def" =>
    /\ f.at >= 3 => \A k \in 1 .. Len(c) : c[k].arg <= Len(c)
    /\ f.at = 4 => c # <<>> /\ c[Len(c)].op = "RETURN_VALUE"

LEMMA Innermost ==
  ASSUME NEW A, NEW B, NEW c, NEW bl, NEW be, NEW lv, NEW m, NEW w,
         CompileOK(A, B, c, bl, be, lv, m, w)
  PROVE  /\ IsSeq(w) /\ IsSeq(B) /\ w # <<>> /\ Len(B) = Len(w) /\ Len(w) \in 1 .. Len(w)
         /\ Len(c) \in Nat /\ m \in Nat /\ lv \in Nat /\ c \in Codes
         /\ \A j \in 1 .. Len(w) : B[j] \in Bases /\ FrameOK(A, c, m, w[j], B[j])
<1>1. IsSeq(w) /\ w # <<>> /\ c \in Codes /\ m \in Nat /\ lv \in Nat
  BY DEF CompileOK, Ending
<1>2. Len(w) \in 1 .. Len(w)
  <2>1. FrontOf(w, SubSeq(w, 1, Len(w) - 1))
    BY <1>1 DEF FrontOf
  <2> QED BY <1>1, <2>1, SeqFront
<1>3. B \in Seq(Bases) /\ Len(B) = Len(w) /\ \A j \in 1 .. Len(w) : FrameOK(A, c, m, w[j], B[j])
  BY DEF CompileOK, FramesOK
<1>4. IsSeq(B) /\ \A j \in 1 .. Len(w) : B[j] \in Bases
  BY <1>3, IsSeqOf
<1> QED BY <1>1, <1>2, <1>3, <1>4 DEF Codes

\* What jumps nowhere is owed by g, or was and is by a call below f.
Dues(c, f, c2, g) ==
  \A k \in 1 .. Len(c2) : c2[k].op \in Aiming /\ c2[k].arg = 0 =>
    Pending(g, k) \/ (k \in 1 .. Len(c) /\ c[k].arg = 0 /\ ~Pending(f, k))

LEMMA Advance ==
  ASSUME NEW A, NEW B, NEW c, NEW bl, NEW be, NEW lv, NEW m, NEW w,
         CompileOK(A, B, c, bl, be, lv, m, w),
         NEW A2, NEW c2 \in Codes, NEW bl2 \in Seq(BlockTypes), NEW be2 \in Nat,
         NEW lv2 \in Nat, NEW m2 \in Nat, lv2 <= m2, m <= m2, Len(bl2) <= MaxBlocks,
         Extends(A, c, A2, c2), Annotated(A2, c2, m2),
         NEW g, NEW b2 \in Bases, SameBase(B[Len(w)], b2), FrameOK(A2, c2, m2, g, b2),
         g.s = w[Len(w)].s, NowAt(A2, c2, bl2, be2, lv2, g, b2),
         Dues(c, w[Len(w)], c2, g), EndsWell(c2, g),
         NEW w2, PutAt(w, Len(w), g, w2), NEW B2, PutAt(B, Len(w), b2, B2)
  PROVE  CompileOK(A2, B2, c2, bl2, be2, lv2, m2, w2)
<1> DEFINE n == Len(w)
<1>1. /\ IsSeq(w) /\ IsSeq(B) /\ w # <<>> /\ Len(B) = n /\ n \in 1 .. n /\ n \in Nat
      /\ Len(c) \in Nat /\ m \in Nat /\ lv \in Nat /\ c \in Codes
      /\ \A j \in 1 .. n : B[j] \in Bases /\ FrameOK(A, c, m, w[j], B[j])
  BY Innermost
<1>0. n = Len(w)
  OBVIOUS
<1> HIDE DEF n
<1>2. IsSeq(w2) /\ Len(w2) = n /\ w2[n] = g /\ \A i \in 1 .. n : i # n => w2[i] = w[i]
  <2>1. PutAt(w, n, g, w2)
    BY <1>0, <1>1
  <2>0. IsSeq(w)
    BY <1>1
  <2>2. /\ IsSeq(w2) /\ Len(w2) = Len(w) /\ w2[n] = g
        /\ \A i \in 1 .. Len(w) : i # n => w2[i] = w[i]
    BY <2>0, <2>1, SeqPut
  <2> QED BY <1>0, <2>2
<1>3. IsSeq(B2) /\ Len(B2) = n /\ B2[n] = b2 /\ \A i \in 1 .. n : i # n => B2[i] = B[i]
  <2>1. PutAt(B, n, b2, B2) /\ Len(B) = n
    BY <1>0, <1>1
  <2>0. IsSeq(B) /\ PutAt(B, n, b2, B2)
    BY <1>1, <2>1
  <2>2. /\ IsSeq(B2) /\ Len(B2) = Len(B) /\ B2[n] = b2
        /\ \A i \in 1 .. Len(B) : i # n => B2[i] = B[i]
    BY <2>0, SeqPut
  <2> QED BY <2>1, <2>2
<1>4. FramesOK(A2, c2, m2, w2, B2)
  <2>1. B2 \in Seq(Bases)
    <3>1. \A i \in 1 .. Len(B2) : B2[i] \in Bases
      BY <1>1, <1>3
    <3> QED BY <1>3, <3>1, SeqIs
  <2>2. ASSUME NEW j \in 1 .. n PROVE FrameOK(A2, c2, m2, w2[j], B2[j])
    <3>1. CASE j = n
      BY <1>2, <1>3, <3>1
    <3>2. CASE j # n
      <4>1. w2[j] = w[j] /\ B2[j] = B[j] /\ B[j] \in Bases /\ FrameOK(A, c, m, w[j], B[j])
        BY <1>1, <1>2, <1>3, <3>2
      <4>2. FrameOK(A2, c2, m2, w[j], B[j])
        BY <1>1, <4>1, FrameStays
      <4> QED BY <4>1, <4>2
    <3> QED BY <3>1, <3>2
  <2> QED BY <1>2, <1>3, <2>1, <2>2 DEF FramesOK
<1>5. Linked(w2, B2)
  <2> SUFFICES ASSUME NEW j \in 1 .. n - 1
               PROVE  AtPart(w2[j]) /\ Begins(w2[j], B2[j], B2[j + 1])
    BY <1>2 DEF Linked
  <2>1. /\ j \in 1 .. n /\ j # n /\ j + 1 \in 1 .. n
        /\ w2[j] = w[j] /\ B2[j] = B[j]
    BY <1>1, <1>2, <1>3
  <2>2. AtPart(w[j]) /\ Begins(w[j], B[j], B[j + 1])
    BY DEF CompileOK, Linked, n
  <2>3. CASE j + 1 = n
    <3>1. SameBase(B[j + 1], B2[j + 1])
      BY <1>3, <2>3 DEF n
    <3> QED BY <2>1, <2>2, <3>1 DEF Begins, SameBase, BasePlace
  <2>4. CASE j + 1 # n
    <3>1. B2[j + 1] = B[j + 1]
      BY <1>3, <2>1, <2>4
    <3> QED BY <2>1, <2>2, <3>1
  <2> QED BY <2>3, <2>4
<1>6. Covered(c2, w2)
  <2> SUFFICES ASSUME NEW k \in 1 .. Len(c2), c2[k].op \in Aiming, c2[k].arg = 0
               PROVE  \E j \in 1 .. n : Pending(w2[j], k)
    BY <1>2 DEF Covered, Pending
  <2>0. Pending(g, k) \/ (k \in 1 .. Len(c) /\ c[k].arg = 0 /\ ~Pending(w[n], k))
    BY DEF Dues, n
  <2>1. CASE Pending(g, k)
    BY <1>1, <1>2, <2>1
  <2>2. CASE k \in 1 .. Len(c) /\ c[k].arg = 0 /\ ~Pending(w[n], k)
    <3>1. c[k].op \in Aiming
      BY <2>2 DEF Extends
    <3>2. PICK j \in 1 .. n : Pending(w[j], k)
      BY <2>2, <3>1 DEF CompileOK, Covered, Pending, n
    <3>3. j # n
      BY <2>2, <3>2
    <3> QED BY <1>2, <3>2, <3>3
  <2> QED BY <2>0, <2>1, <2>2
<1>7. Ending(c2, w2)
  <2>1. w2 # <<>> /\ 1 \in 1 .. n
    BY <1>1, <1>2
  <2>2. Kind(w[1].s) = "def"
    BY DEF CompileOK, Ending
  <2>3. CASE n = 1
    <3>1. w2[1] = g /\ Kind(g.s) = "def"
      BY <1>2, <2>2, <2>3 DEF n
    <3> QED BY <2>1, <3>1 DEF Ending, EndsWell
  <2>4. CASE n # 1
    <3>1. w2[1] = w[1] /\ 1 \in 1 .. n - 1
      BY <1>1, <1>2, <2>1, <2>4
    <3>2. AtPart(w[1]) /\ IsCall(w[1])
      BY <1>1, <2>1, <3>1 DEF CompileOK, Linked, n, FrameOK
    <3>3. w[1].at \in 1 .. Len(Calls(w[1].s)) /\ Calls(w[1].s)[w[1].at].do = "part"
      BY <3>2 DEF AtPart, IsCall, Calling
    <3>4. <<Kind(w[1].s), w[1].at>> \in PartsOf
      BY <3>3, CallsAre DEF CallOf
    <3>5. w[1].at = 1
      BY <2>2, <3>4, StillRows
    <3> QED BY <2>1, <2>2, <3>1, <3>5 DEF Ending
  <2> QED BY <2>3, <2>4
<1>8. NowAt(A2, c2, bl2, be2, lv2, w2[Len(w2)], B2[Len(w2)])
  BY <1>2, <1>3
<1>9. CompileOK(A2, B2, c2, bl2, be2, lv2, m2, w2)
  BY <1>2, <1>4, <1>5, <1>6, <1>7, <1>8 DEF CompileOK
<1> QED BY <1>9

-----------------------------------------------------------------------------
(* One more instruction. *)

LEMMA EmitExtends ==
  ASSUME NEW c \in Codes, NEW A \in Seq(Places), Len(A) = Len(c) + 1,
         NEW op \in Ops, NEW arg \in Nat, NEW n \in Places,
         NEW c2, AddedInstr(c, op, arg, c2), NEW A2, AddedTo(A, n, A2)
  PROVE  /\ c2 \in Codes /\ Len(c2) = Len(c) + 1
         /\ c2[Len(c) + 1].op = op /\ c2[Len(c) + 1].arg = arg
         /\ \A i \in 1 .. Len(c) : c2[i] = c[i]
         /\ A2 \in Seq(Places) /\ Len(A2) = Len(A) + 1 /\ A2[Len(A) + 1] = n
         /\ \A i \in 1 .. Len(A) : A2[i] = A[i]
         /\ Extends(A, c, A2, c2)
<1> DEFINE x == [op |-> op, arg |-> arg]
<1>1. x \in Instrs /\ x.op = op /\ x.arg = arg
  BY DEF Instrs
<1>2. AddedTo(c, x, c2)
  BY DEF AddedInstr
<1> HIDE DEF x
<1>3. c \in Seq(Instrs) /\ Len(c) \in Nat
  BY DEF Codes
<1>4. /\ c2 \in Seq(Instrs) /\ Len(c2) = Len(c) + 1 /\ c2[Len(c) + 1] = x
      /\ \A i \in 1 .. Len(c) : c2[i] = c[i]
  BY <1>1, <1>2, <1>3 DEF AddedTo
<1>5. /\ A2 \in Seq(Places) /\ Len(A2) = Len(A) + 1 /\ A2[Len(A) + 1] = n
      /\ \A i \in 1 .. Len(A) : A2[i] = A[i]
  BY DEF AddedTo
<1>6. Extends(A, c, A2, c2)
  BY <1>3, <1>4, <1>5 DEF Extends
<1> QED BY <1>1, <1>4, <1>5, <1>6 DEF Codes

\* Where the current call emits an instruction, with own for its block then.
Emitting(K, at) ==
  \/ \E op, n : <<K, at, op, n>> \in BytesOf
  \/ \E op, n : <<K, at, op, n>> \in FwrefsOf
  \/ <<K, at>> \in AgainsOf
  \/ K \in {"break", "continue"}

Owner(A, c, own, b) == own \in 1 .. Len(c) /\ c[own].op \in Setups /\ A[own] = BasePlace(b)

\* The current call f, which began at base b, is at place at of its list.
Current(w, B, f, b, K, at) ==
  f = w[Len(w)] /\ b = B[Len(w)] /\ K = Kind(f.s) /\ at = f.at /\ at <= Len(Calls(f.s))

\* What it becomes when it has emitted the instruction.
Becomes(c, f, K, at, own, op, arg, g) ==
  /\ IsCall(g) /\ g.s = f.s /\ g.at = at + 1 /\ g.begin = f.begin /\ Own(g) = own
  /\ Looping(K, at + 1) => Looping(K, at) /\ own = Own(f)
  /\ \A n \in Anchors : Owes(K, at, n) =>
       own = Own(f) /\ Owes(K, at + 1, n) /\ g.anchor[n] = f.anchor[n]
  /\ op \in Aiming /\ arg = 0 => \E n \in Anchors : Owes(K, at + 1, n) /\ g.anchor[n] = Len(c) + 1

\* How the instruction leads from the place of the call to its next one.
Leads(A, c, f, b, K, at, own, op, arg, g) ==
  /\ Flows(A, op, Len(c) + 1, PlaceOf(f, b), PlaceAt(K, at + 1, own, b))
  /\ arg # 0 => arg \in 1 .. Len(c) + 1 /\ Aims(op, PlaceOf(f, b), A[arg])
  /\ Opened(K, at + 1) =>
       \/ Owner(A, c, own, b)
       \/ own = Len(c) + 1 /\ op \in Setups /\ PlaceOf(f, b) = BasePlace(b)
  /\ \A n \in Anchors : Owes(K, at + 1, n) /\ ~Owes(K, at, n) =>
       g.anchor[n] = Len(c) + 1 /\ Aims(op, PlaceOf(f, b), Lands(K, own, b, n))
  /\ K = "def" /\ at = 3 => op = "RETURN_VALUE"

\* The level and the maximum after that.
Rises(b, K, at, lv2, m, m2) ==
  /\ lv2 \in Nat /\ m2 \in Nat /\ lv2 <= m2 /\ m <= m2
  /\ lv2 = Height(b.shape) + LevelAt(K, at + 1)
  /\ Height(b.shape) + PeakAt(K, at + 1) <= m2

LEMMA Emitted ==
  ASSUME NEW A, NEW B, NEW c, NEW bl, NEW be, NEW lv, NEW m, NEW w,
         CompileOK(A, B, c, bl, be, lv, m, w),
         NEW f, NEW b, NEW K, NEW at, Current(w, B, f, b, K, at), Emitting(K, at),
         NEW op \in Ops, NEW arg \in Nat, NEW own \in Nat, NEW g,
         Leads(A, c, f, b, K, at, own, op, arg, g), NEW m2 \in Nat, m <= m2,
         NEW c2, AddedInstr(c, op, arg, c2), NEW n, n = PlaceAt(K, at + 1, own, b),
         NEW A2, AddedTo(A, n, A2)
  PROVE  /\ c2 \in Codes /\ Extends(A, c, A2, c2) /\ Annotated(A2, c2, m2)
         /\ Len(c2) = Len(c) + 1 /\ A2[Len(c2) + 1] = n /\ A2[Len(c) + 1] = PlaceOf(f, b)
         /\ c2[Len(c) + 1].op = op /\ c2[Len(c) + 1].arg = arg
         /\ \A i \in 1 .. Len(c) : c2[i] = c[i]
         /\ Opened(K, at + 1) => Owner(A2, c2, own, b)
<1>1. /\ c \in Codes /\ Len(c) \in Nat /\ m \in Nat /\ b \in Bases /\ FrameOK(A, c, m, f, b)
      /\ Annotated(A, c, m) /\ NowAt(A, c, bl, be, lv, f, b) /\ Len(bl) <= MaxBlocks
      /\ bl \in Seq(BlockTypes) /\ K = Kind(f.s) /\ at = f.at
  BY Innermost DEF CompileOK, Current
<1>2. A \in Seq(Places) /\ Len(A) = Len(c) + 1
  BY <1>1 DEF Annotated
<1>3. n \in Places
  BY <1>1, PlaceIsPlace
<1>4. /\ c2 \in Codes /\ Len(c2) = Len(c) + 1
      /\ c2[Len(c) + 1].op = op /\ c2[Len(c) + 1].arg = arg
      /\ \A i \in 1 .. Len(c) : c2[i] = c[i]
      /\ A2 \in Seq(Places) /\ Len(A2) = Len(A) + 1 /\ A2[Len(A) + 1] = n
      /\ \A i \in 1 .. Len(A) : A2[i] = A[i]
      /\ Extends(A, c, A2, c2)
  BY <1>1, <1>2, <1>3, EmitExtends
<1>5. A[Len(c) + 1] = PlaceOf(f, b) /\ A2[Len(c) + 1] = PlaceOf(f, b)
  <2>1. Len(c) + 1 \in 1 .. Len(A)
    BY <1>1, <1>2
  <2> QED BY <1>1, <1>4, <2>1 DEF NowAt
<1>6. Opened(K, at + 1) => Owner(A2, c2, own, b)
  <2> SUFFICES ASSUME Opened(K, at + 1) PROVE Owner(A2, c2, own, b)
    OBVIOUS
  <2>0. \/ Owner(A, c, own, b)
        \/ own = Len(c) + 1 /\ op \in Setups /\ PlaceOf(f, b) = BasePlace(b)
    BY DEF Leads
  <2>1. CASE Owner(A, c, own, b)
    <3>1. own \in 1 .. Len(c) /\ own \in 1 .. Len(A) /\ own \in 1 .. Len(c2)
      BY <1>1, <1>2, <1>4, <2>1 DEF Owner
    <3> QED BY <1>4, <2>1, <3>1 DEF Owner
  <2>2. CASE own = Len(c) + 1 /\ op \in Setups /\ PlaceOf(f, b) = BasePlace(b)
    BY <1>1, <1>4, <1>5, <2>2 DEF Owner
  <2> QED BY <2>0, <2>1, <2>2
<1>7. Nested(A2, c2, n)
  <2>1. \A k \in 1 .. Len(c2) : A2[k].shape \in Seq(Cells)
    <3>1. \A k \in 1 .. Len(c2) : A2[k] \in Places
      BY <1>1, <1>2, <1>4
    <3> QED BY <3>1 DEF Places
  <2>2. Nested(A2, c2, BasePlace(b))
    <3>1. BasePlace(b) \in Places /\ Nested(A, c, BasePlace(b))
      BY <1>1 DEF Bases, BasePlace, At, Places, FrameOK, BaseOK
    <3> QED BY <1>1, <1>4, <3>1, NestedStays
  <2>3. Open(K, at + 1) => Opened(K, at + 1)
    BY <1>1 DEF Open, Opened, FrameOK, IsCall
  <2>4. Open(K, at + 1) => own \in 1 .. Len(c2) /\ c2[own].op \in Setups /\ A2[own] = BasePlace(b)
    BY <1>6, <2>3 DEF Owner
  <2> QED BY <1>1, <2>1, <2>2, <2>4, NestedPlace
<1>8. Height(A[Len(c) + 1].shape) <= m /\ Len(A[Len(c) + 1].blks) <= MaxBlocks
  <2>1. Len(b.blks) <= Len(b.block)
    BY <1>1 DEF FrameOK, BaseOK
  <2>2. /\ Height(PlaceAt(K, at, Own(f), b).shape) <= Height(b.shape) + PeakAt(K, at)
        /\ Len(PlaceAt(K, at, Own(f), b).blks) <= Len(BlockAt(K, at, b))
    BY <1>1, <2>1, RoomToEmit DEF Emitting
  <2>3. Height(b.shape) + PeakAt(K, at) <= m /\ bl = BlockAt(K, at, b)
    BY <1>1 DEF FrameOK, NowAt
  <2>4. Own(f) \in Nat
    BY <1>1 DEF FrameOK, IsCall, Own, Anchors
  <2>5. PlaceAt(K, at, Own(f), b) \in Places
    BY <1>1, <2>4, PlaceIsPlace
  <2>6. /\ Height(PlaceAt(K, at, Own(f), b).shape) \in Nat
        /\ Len(PlaceAt(K, at, Own(f), b).blks) \in Nat
    BY <2>5, HeightIsNat DEF Places
  <2>7. Height(b.shape) \in Nat /\ PeakAt(K, at) \in Nat
    <3>1. Height(b.shape) \in Nat
      BY <1>1, HeightIsNat DEF Bases
    <3>2. PeakAt(K, at) \in 0 .. 5
      BY LevelsInRange
    <3> QED BY <3>1, <3>2
  <2>8. Height(PlaceOf(f, b).shape) <= m
    BY <1>1, <2>2, <2>3, <2>6, <2>7 DEF PlaceOf
  <2>9. Len(PlaceOf(f, b).blks) <= MaxBlocks
    BY <1>1, <2>2, <2>3, <2>6, BlocksAssumption DEF PlaceOf
  <2> QED BY <1>5, <2>8, <2>9
<1>9. Annotated(A2, c2, m2)
  <2>1. Flows(A, op, Len(c) + 1, A[Len(c) + 1], n)
    BY <1>5 DEF Leads
  <2>2. arg # 0 => arg \in 1 .. Len(c) + 1 /\ Aims(op, A[Len(c) + 1], A[arg])
    BY <1>5 DEF Leads
  <2> QED BY <1>1, <1>3, <1>7, <1>8, <2>1, <2>2, EmitAnnotated
<1>10. A2[Len(c2) + 1] = n
  BY <1>2, <1>4
<1> QED BY <1>4, <1>5, <1>6, <1>9, <1>10
LEMMA EmitStep ==
  ASSUME NEW A, NEW B, NEW c, NEW bl, NEW be, NEW lv, NEW m, NEW w,
         CompileOK(A, B, c, bl, be, lv, m, w),
         NEW f, NEW b, NEW K, NEW at, Current(w, B, f, b, K, at), Emitting(K, at),
         NEW op \in Ops, NEW arg \in Nat, NEW own \in Nat, NEW g,
         Becomes(c, f, K, at, own, op, arg, g), Leads(A, c, f, b, K, at, own, op, arg, g),
         SameBlock(K, at, b), NEW be2 \in Nat, be2 = BeginAt(K, at + 1, b),
         NEW lv2, NEW m2, Rises(b, K, at, lv2, m, m2),
         NEW c2, AddedInstr(c, op, arg, c2), NEW w2, PutAt(w, Len(w), g, w2)
  PROVE  \E A2, B2 : CompileOK(A2, B2, c2, bl, be2, lv2, m2, w2)
<1> DEFINE n == PlaceAt(K, at + 1, own, b)
           A2 == Append(A, n)
           B2 == [B EXCEPT ![Len(w)] = b]
<1>1. /\ c \in Codes /\ Len(c) \in Nat /\ m \in Nat /\ b \in Bases /\ FrameOK(A, c, m, f, b)
      /\ Annotated(A, c, m) /\ NowAt(A, c, bl, be, lv, f, b) /\ Len(bl) <= MaxBlocks
      /\ bl \in Seq(BlockTypes) /\ K = Kind(f.s) /\ at = f.at
      /\ PutAt(B, Len(w), b, B2)
  BY Innermost DEF CompileOK, Current, PutAt
<1>2. AddedTo(A, n, A2) /\ n = PlaceAt(K, at + 1, own, b)
  BY DEF AddedTo
<1> HIDE DEF n, A2, B2
<1>3. /\ c2 \in Codes /\ Extends(A, c, A2, c2) /\ Annotated(A2, c2, m2)
      /\ Len(c2) = Len(c) + 1 /\ A2[Len(c2) + 1] = n /\ A2[Len(c) + 1] = PlaceOf(f, b)
      /\ c2[Len(c) + 1].op = op /\ c2[Len(c) + 1].arg = arg
      /\ \A i \in 1 .. Len(c) : c2[i] = c[i]
      /\ Opened(K, at + 1) => Owner(A2, c2, own, b)
  <2>1. m2 \in Nat /\ m <= m2
    BY DEF Rises
  <2> QED BY <1>1, <1>2, <2>1, Emitted
<1>4. /\ IsCall(g) /\ g.s = f.s /\ g.at = at + 1 /\ g.begin = f.begin /\ Own(g) = own
      /\ at \in Nat
  BY <1>1 DEF Becomes, FrameOK, IsCall
<1>5. FrameOK(A2, c2, m2, f, b)
  <2>1. m2 \in Nat /\ m <= m2
    BY DEF Rises
  <2> QED BY <1>1, <1>3, <2>1, FrameStays
<1>6. FrameOK(A2, c2, m2, g, b)
  <2>1. g.begin = b.begin /\ BaseOK(A2, c2, b)
    BY <1>4, <1>5 DEF FrameOK
  <2>2. Height(b.shape) + PeakAt(K, g.at) <= m2
    BY <1>4 DEF Rises
  <2>3. OpenOK(A2, c2, g, b)
    BY <1>1, <1>3, <1>4 DEF OpenOK, Owner
  <2>4. LoopOK(A2, c2, g, b)
    BY <1>1, <1>4, <1>5 DEF FrameOK, LoopOK, Becomes
  <2>5. OwesOK(A2, c2, g, b)
    <3> SUFFICES ASSUME NEW i \in Anchors, Owes(K, at + 1, i)
                 PROVE  /\ g.anchor[i] \in 1 .. Len(c2)
                        /\ Aims(c2[g.anchor[i]].op, A2[g.anchor[i]], Lands(K, own, b, i))
      BY <1>1, <1>4 DEF OwesOK
    <3>1. CASE Owes(K, at, i)
      <4>1. own = Own(f) /\ g.anchor[i] = f.anchor[i]
        BY <3>1 DEF Becomes
      <4> QED BY <1>1, <1>5, <3>1, <4>1 DEF FrameOK, OwesOK
    <3>2. CASE ~Owes(K, at, i)
      <4>1. g.anchor[i] = Len(c) + 1 /\ Aims(op, PlaceOf(f, b), Lands(K, own, b, i))
        BY <3>2 DEF Leads
      <4> QED BY <1>1, <1>3, <4>1
    <3> QED BY <3>1, <3>2
  <2> QED BY <1>1, <1>4, <2>1, <2>2, <2>3, <2>4, <2>5 DEF FrameOK
<1>7. NowAt(A2, c2, bl, be2, lv2, g, b)
  <2>1. PlaceOf(g, b) = n
    BY <1>1, <1>2, <1>4 DEF PlaceOf
  <2>2. bl = BlockAt(K, at + 1, b) /\ be2 = BeginAt(K, at + 1, b)
    BY <1>1 DEF NowAt, SameBlock
  <2>3. lv2 = Height(b.shape) + LevelAt(K, at + 1)
    BY DEF Rises
  <2> QED BY <1>1, <1>3, <1>4, <2>1, <2>2, <2>3 DEF NowAt
<1>8. ASSUME NEW k \in 1 .. Len(c2), c2[k].op \in Aiming, c2[k].arg = 0
      PROVE  Pending(g, k) \/ (k \in 1 .. Len(c) /\ c[k].arg = 0 /\ ~Pending(f, k))
  <2>1. CASE k = Len(c) + 1
    BY <1>1, <1>3, <1>4, <1>8, <2>1 DEF Pending, Becomes
  <2>2. CASE k \in 1 .. Len(c)
    <3>1. c[k].arg = 0
      BY <1>3, <1>8, <2>2
    <3>2. Pending(f, k) => Pending(g, k)
      BY <1>1, <1>4 DEF Pending, Becomes
    <3> QED BY <2>2, <3>1, <3>2
  <2>3. k = Len(c) + 1 \/ k \in 1 .. Len(c)
    BY <1>1, <1>3
  <2> QED BY <2>1, <2>2, <2>3
<1>9. EndsWell(c2, g)
  <2>1. \A k \in 1 .. Len(c2) : c2[k].arg <= Len(c2)
    <3> TAKE k \in 1 .. Len(c2)
    <3>1. CASE k = Len(c) + 1
      BY <1>1, <1>3, <3>1 DEF Leads
    <3>2. CASE k \in 1 .. Len(c)
      <4>1. Good(A, c, k) /\ c2[k] = c[k]
        BY <1>1, <1>3, <3>2 DEF Annotated
      <4>2. c[k].arg # 0 => c[k].arg \in 1 .. Len(c) + 1
        BY <4>1 DEF Good
      <4> QED BY <1>1, <1>3, <4>1, <4>2
    <3> QED BY <1>1, <1>3, <3>1, <3>2
  <2>2. ASSUME K = "def", g.at = 4
        PROVE  c2 # <<>> /\ c2[Len(c2)].op = "RETURN_VALUE"
    <3>1. at = 3
      BY <1>4, <2>2
    <3>2. op = "RETURN_VALUE"
      BY <2>2, <3>1 DEF Leads
    <3>3. c2 \in Seq(Instrs) /\ Len(c2) # 0
      BY <1>1, <1>3 DEF Codes
    <3> QED BY <1>3, <3>2, <3>3
  <2> QED BY <1>1, <1>4, <2>1, <2>2 DEF EndsWell
<1>10. CompileOK(A2, B2, c2, bl, be2, lv2, m2, w2)
  <2>1. m2 \in Nat /\ lv2 \in Nat /\ m <= m2 /\ lv2 <= m2
    BY DEF Rises
  <2>2. f = w[Len(w)] /\ SameBase(B[Len(w)], b)
    BY DEF Current, SameBase
  <2>3. Dues(c, w[Len(w)], c2, g)
    BY <1>8, <2>2 DEF Dues
  <2>4. g.s = w[Len(w)].s
    BY <1>1, <1>4, <2>2
  <2> QED BY <1>1, <1>3, <1>6, <1>7, <1>9, <2>1, <2>2, <2>3, <2>4, Advance
<1> QED BY <1>10

-----------------------------------------------------------------------------
(* The steps that emit none. *)

LEMMA BaseKeeps ==
  ASSUME NEW b, NEW b2, SameBase(b, b2)
  PROVE  /\ \A K, at, own : PlaceAt(K, at, own, b2) = PlaceAt(K, at, own, b)
         /\ \A K, at : BlockAt(K, at, b2) = BlockAt(K, at, b)
         /\ \A K, own : LoopPlace(K, own, b2) = LoopPlace(K, own, b)
         /\ \A K, own, n : Lands(K, own, b2, n) = Lands(K, own, b, n)
         /\ BasePlace(b2) = BasePlace(b)
<1>1. \A K, at, own : PlaceAt(K, at, own, b2) = PlaceAt(K, at, own, b)
  BY DEF SameBase, PlaceAt
<1>2. \A K, at : BlockAt(K, at, b2) = BlockAt(K, at, b)
  BY DEF SameBase, BlockAt
<1>3. \A K, own : LoopPlace(K, own, b2) = LoopPlace(K, own, b)
  BY DEF SameBase, LoopPlace
<1>4. \A K, own, n : Lands(K, own, b2, n) = Lands(K, own, b, n)
  BY DEF SameBase, Lands
<1>5. BasePlace(b2) = BasePlace(b)
  BY DEF SameBase, BasePlace
<1> QED BY <1>1, <1>2, <1>3, <1>4, <1>5

LEMMA AnnotatedRises ==
  ASSUME NEW A, NEW c \in Codes, NEW m \in Nat, NEW m2 \in Nat, m <= m2, Annotated(A, c, m)
  PROVE  Annotated(A, c, m2)
<1>1. A \in Seq(Places) /\ Len(A) = Len(c) + 1 /\ Len(c) \in Nat
  BY DEF Annotated, Codes
<1>2. ASSUME NEW k \in 1 .. Len(c) PROVE Height(A[k].shape) <= m2
  <2>1. A[k] \in Places /\ Height(A[k].shape) <= m
    BY <1>1 DEF Annotated
  <2>2. Height(A[k].shape) \in Nat
    BY <2>1, HeightIsNat DEF Places
  <2> QED BY <2>1, <2>2
<1> QED BY <1>2 DEF Annotated

LEMMA SelfExtends ==
  ASSUME NEW A, NEW c \in Codes, NEW m, Annotated(A, c, m)
  PROVE  Extends(A, c, A, c)
BY DEF Extends, Annotated, Codes

\* The list goes on at the same place in the code.
Stays(c, f, b, b2, K, at) ==
  /\ b2 \in Bases /\ SameBase(b, b2)
  /\ SamePlace(K, at, Own(f), b) /\ SameOpen(K, at) /\ SameOwed(K, at)
  /\ Looping(K, at + 1) =>
       \/ Looping(K, at) /\ b2.loop = b.loop
       \/ b2.loop = Len(c) + 1 /\ LoopPlace(K, Own(f), b) = PlaceOf(f, b)
  /\ K = "def" => at = 1

LEMMA StillStep ==
  ASSUME NEW A, NEW B, NEW c, NEW bl, NEW be, NEW lv, NEW m, NEW w,
         CompileOK(A, B, c, bl, be, lv, m, w),
         NEW f, NEW b, NEW K, NEW at, Current(w, B, f, b, K, at),
         NEW b2, Stays(c, f, b, b2, K, at),
         NEW bl2 \in Seq(BlockTypes), Len(bl2) <= MaxBlocks, bl2 = BlockAt(K, at + 1, b),
         NEW be2 \in Nat, be2 = BeginAt(K, at + 1, b2),
         NEW lv2, NEW m2, Rises(b, K, at, lv2, m, m2),
         NEW w2, PutAt(w, Len(w), Moved(f), w2)
  PROVE  \E A2, B2 : CompileOK(A2, B2, c, bl2, be2, lv2, m2, w2)
<1> DEFINE B2 == [B EXCEPT ![Len(w)] = b2]
           g == Moved(f)
<1>1. /\ c \in Codes /\ Len(c) \in Nat /\ m \in Nat /\ b \in Bases /\ FrameOK(A, c, m, f, b)
      /\ Annotated(A, c, m) /\ NowAt(A, c, bl, be, lv, f, b)
      /\ K = Kind(f.s) /\ at = f.at /\ f = w[Len(w)] /\ b = B[Len(w)]
      /\ PutAt(B, Len(w), b2, B2)
  BY Innermost DEF CompileOK, Current, PutAt
<1>2. /\ IsCall(g) /\ g.s = f.s /\ g.at = at + 1 /\ g.anchor = f.anchor
      /\ g.begin = f.begin /\ Own(g) = Own(f) /\ at \in Nat
  <2>1. IsCall(f) /\ f.at <= Len(Calls(f.s)) /\ f.at \in Nat
    BY <1>1 DEF Current, FrameOK, IsCall
  <2> QED BY <1>1, <2>1, MovedIs
<1>3. PutAt(w, Len(w), g, w2)
  OBVIOUS
<1> HIDE DEF B2, g
<1>4. m2 \in Nat /\ lv2 \in Nat /\ m <= m2 /\ lv2 <= m2
  BY DEF Rises
<1>5. b2 \in Bases /\ SameBase(b, b2)
  BY DEF Stays
<1>6. Extends(A, c, A, c) /\ Annotated(A, c, m2)
  BY <1>1, <1>4, SelfExtends, AnnotatedRises
<1>7. /\ BasePlace(b2) = BasePlace(b) /\ b2.shape = b.shape /\ b2.block = b.block
      /\ b2.blks = b.blks /\ b2.begin = b.begin
      /\ LoopPlace(K, Own(f), b2) = LoopPlace(K, Own(f), b)
      /\ \A n : Lands(K, Own(f), b2, n) = Lands(K, Own(f), b, n)
  <2>1. b2.shape = b.shape /\ b2.block = b.block /\ b2.blks = b.blks /\ b2.begin = b.begin
    BY <1>5 DEF SameBase
  <2>2. /\ BasePlace(b2) = BasePlace(b)
        /\ LoopPlace(K, Own(f), b2) = LoopPlace(K, Own(f), b)
        /\ \A n : Lands(K, Own(f), b2, n) = Lands(K, Own(f), b, n)
    BY <1>5, BaseKeeps
  <2> QED BY <2>1, <2>2
<1>8. PlaceAt(K, at + 1, Own(f), b2) = PlaceOf(f, b)
  <2>1. PlaceAt(K, at + 1, Own(f), b2) = PlaceAt(K, at + 1, Own(f), b)
    BY <1>5, BaseKeeps
  <2> QED BY <1>1, <2>1 DEF Stays, SamePlace, PlaceOf
<1>9. A[Len(c) + 1] = PlaceOf(f, b)
  BY <1>1 DEF NowAt
<1>10. FrameOK(A, c, m2, g, b2)
  <2>1. g.begin = b2.begin /\ BaseOK(A, c, b2)
    BY <1>1, <1>2, <1>7 DEF FrameOK, BaseOK
  <2>2. Height(b2.shape) + PeakAt(K, g.at) <= m2
    BY <1>2, <1>7 DEF Rises
  <2>3. OpenOK(A, c, g, b2)
    BY <1>1, <1>2, <1>7 DEF OpenOK, FrameOK, Stays, SameOpen
  <2>4. LoopOK(A, c, g, b2)
    <3> SUFFICES ASSUME Looping(K, at + 1)
                 PROVE  b2.loop \in 1 .. Len(c) + 1 /\ A[b2.loop] = LoopPlace(K, Own(f), b)
      BY <1>1, <1>2, <1>7 DEF LoopOK
    <3>1. CASE Looping(K, at) /\ b2.loop = b.loop
      BY <1>1, <3>1 DEF FrameOK, LoopOK
    <3>2. CASE b2.loop = Len(c) + 1 /\ LoopPlace(K, Own(f), b) = PlaceOf(f, b)
      BY <1>1, <1>9, <3>2
    <3> QED BY <3>1, <3>2 DEF Stays
  <2>5. OwesOK(A, c, g, b2)
    <3> SUFFICES ASSUME NEW n \in Anchors, Owes(K, at + 1, n)
                 PROVE  /\ f.anchor[n] \in 1 .. Len(c)
                        /\ Aims(c[f.anchor[n]].op, A[f.anchor[n]], Lands(K, Own(f), b, n))
      BY <1>1, <1>2, <1>7 DEF OwesOK
    <3>1. Owes(K, at, n)
      BY DEF Stays, SameOwed
    <3> QED BY <1>1, <3>1 DEF FrameOK, OwesOK
  <2> QED BY <1>1, <1>2, <2>1, <2>2, <2>3, <2>4, <2>5 DEF FrameOK
<1>11. NowAt(A, c, bl2, be2, lv2, g, b2)
  <2>1. PlaceOf(g, b2) = PlaceOf(f, b)
    BY <1>1, <1>2, <1>8 DEF PlaceOf
  <2>2. BlockAt(K, at + 1, b2) = BlockAt(K, at + 1, b)
    BY <1>5, BaseKeeps
  <2>3. lv2 = Height(b2.shape) + LevelAt(K, at + 1)
    BY <1>7 DEF Rises
  <2> QED BY <1>1, <1>2, <1>9, <2>1, <2>2, <2>3 DEF NowAt
<1>12. ASSUME NEW k \in 1 .. Len(c), c[k].arg = 0
       PROVE  Pending(g, k) \/ (k \in 1 .. Len(c) /\ c[k].arg = 0 /\ ~Pending(f, k))
  <2>1. Pending(f, k) => Pending(g, k)
    BY <1>1, <1>2 DEF Pending, Stays, SameOwed
  <2> QED BY <1>12, <2>1
<1>13. EndsWell(c, g)
  <2>1. K = "def" => g.at = 2
    BY <1>2 DEF Stays
  <2> QED BY <1>1, <1>2, <2>1 DEF EndsWell
<1>14. CompileOK(A, B2, c, bl2, be2, lv2, m2, w2)
  <2>1. SameBase(B[Len(w)], b2) /\ g.s = w[Len(w)].s
    BY <1>1, <1>2, <1>5
  <2>2. Dues(c, w[Len(w)], c, g)
    BY <1>1, <1>12 DEF Dues
  <2>3. bl2 \in Seq(BlockTypes) /\ be2 \in Nat /\ Len(bl2) <= MaxBlocks
    OBVIOUS
  <2> QED BY <1>1, <1>3, <1>4, <1>5, <1>6, <1>10, <1>11, <1>13, <2>1, <2>2, <2>3, Advance
<1> QED BY <1>14

Patched(c, k, c2) == c2 = [c EXCEPT ![k].arg = Len(c) + 1]

LEMMA PatchStep ==
  ASSUME NEW A, NEW B, NEW c, NEW bl, NEW be, NEW lv, NEW m, NEW w,
         CompileOK(A, B, c, bl, be, lv, m, w),
         NEW f, NEW b, NEW K, NEW at, Current(w, B, f, b, K, at),
         NEW n, <<K, at, n>> \in PatchesOf,
         NEW k, k = f.anchor[n], NEW c2, Patched(c, k, c2),
         NEW w2, PutAt(w, Len(w), Moved(f), w2)
  PROVE  \E A2, B2 : CompileOK(A2, B2, c2, bl, be, lv, m, w2)
<1> DEFINE B2 == [B EXCEPT ![Len(w)] = b]
           g == Moved(f)
<1>1. /\ c \in Codes /\ Len(c) \in Nat /\ m \in Nat /\ b \in Bases /\ FrameOK(A, c, m, f, b)
      /\ Annotated(A, c, m) /\ NowAt(A, c, bl, be, lv, f, b)
      /\ K = Kind(f.s) /\ at = f.at /\ f = w[Len(w)] /\ b = B[Len(w)]
      /\ PutAt(B, Len(w), b, B2)
      /\ bl \in Seq(BlockTypes) /\ Len(bl) <= MaxBlocks /\ be \in Nat /\ lv \in Nat /\ lv <= m
  BY Innermost DEF CompileOK, Current, PutAt
<1>2. /\ IsCall(g) /\ g.s = f.s /\ g.at = at + 1 /\ g.anchor = f.anchor
      /\ g.begin = f.begin /\ Own(g) = Own(f) /\ at \in Nat
  <2>1. IsCall(f) /\ f.at <= Len(Calls(f.s)) /\ f.at \in Nat
    BY <1>1 DEF Current, FrameOK, IsCall
  <2> QED BY <1>1, <2>1, MovedIs
<1>3. PutAt(w, Len(w), g, w2)
  OBVIOUS
<1> HIDE DEF B2, g
<1>4. /\ n \in Anchors /\ Owes(K, at, n)
      /\ SamePlace(K, at, Own(f), b) /\ SameBlock(K, at, b) /\ SameLoop(K, at)
      /\ SameOpen(K, at) /\ SameLevel(K, at)
      /\ Lands(K, Own(f), b, n) = PlaceAt(K, at, Own(f), b)
      /\ \A i \in Anchors : Owes(K, at, i) <=> (Owes(K, at + 1, i) \/ i = n)
  BY PatchRows
<1>5. A[Len(c) + 1] = PlaceOf(f, b) /\ PlaceOf(f, b) = PlaceAt(K, at, Own(f), b)
  BY <1>1 DEF NowAt, PlaceOf
<1>6. k \in 1 .. Len(c) /\ Aims(c[k].op, A[k], A[Len(c) + 1])
  BY <1>1, <1>4, <1>5 DEF FrameOK, OwesOK
<1>7. c2 \in Codes /\ Extends(A, c, A, c2) /\ Annotated(A, c2, m)
  BY <1>1, <1>6, PatchAnnotated DEF Patched
<1>8. Len(c2) = Len(c) /\ c2[k].arg # 0 /\ \A i \in 1 .. Len(c) : i # k => c2[i] = c[i]
  <2>1. c \in Seq(Instrs)
    BY <1>1 DEF Codes
  <2> QED BY <1>1, <1>6, <2>1 DEF Patched
<1>9. FrameOK(A, c2, m, g, b)
  <2>1. FrameOK(A, c2, m, f, b)
    BY <1>1, <1>7, FrameStays
  <2>2. Height(b.shape) + PeakAt(K, at + 1) <= m
    BY <1>1, <1>4 DEF FrameOK, SameLevel
  <2>3. at <= Len(Calls(f.s))
    BY DEF Current
  <2>4. FrameOK(A, c2, m, Moved(f), b)
    BY <1>1, <1>4, <2>1, <2>2, <2>3, FrameMoves
  <2> QED BY <2>4 DEF g
<1>10. NowAt(A, c2, bl, be, lv, g, b)
  <2>1. PlaceOf(g, b) = PlaceOf(f, b)
    BY <1>1, <1>2, <1>4 DEF PlaceOf, SamePlace
  <2>2. BlockAt(K, at + 1, b) = BlockAt(K, at, b) /\ BeginAt(K, at + 1, b) = BeginAt(K, at, b)
    BY <1>4 DEF SameBlock, SameLoop, BeginAt
  <2>3. LevelAt(K, at + 1) = LevelAt(K, at)
    BY <1>4 DEF SameLevel
  <2> QED BY <1>1, <1>2, <1>8, <2>1, <2>2, <2>3 DEF NowAt
<1>11. ASSUME NEW i \in 1 .. Len(c2), c2[i].arg = 0
       PROVE  Pending(g, i) \/ (i \in 1 .. Len(c) /\ c[i].arg = 0 /\ ~Pending(f, i))
  <2>1. i # k /\ i \in 1 .. Len(c) /\ c[i].arg = 0
    BY <1>8, <1>11
  <2>2. Pending(f, i) => Pending(g, i)
    BY <1>1, <1>2, <1>4, <2>1 DEF Pending
  <2> QED BY <2>1, <2>2
<1>12. EndsWell(c2, g)
  <2>1. K # "def"
    BY DEF PatchesOf
  <2> QED BY <1>1, <1>2, <2>1 DEF EndsWell
<1>13. SameBase(b, b) /\ m <= m
  BY <1>1 DEF SameBase
<1>14. CompileOK(A, B2, c2, bl, be, lv, m, w2)
  <2>1. SameBase(B[Len(w)], b) /\ g.s = w[Len(w)].s
    BY <1>1, <1>2, <1>13
  <2>2. Dues(c, w[Len(w)], c2, g)
    BY <1>1, <1>11 DEF Dues
  <2> QED BY <1>1, <1>3, <1>7, <1>9, <1>10, <1>12, <1>13, <2>1, <2>2, Advance
<1> QED BY <1>14

-----------------------------------------------------------------------------
(* The calls of com_node and their returns. *)

\* Where a part is compiled.
PartRow(K, at, own, b) ==
  /\ \/ /\ PlaceAt(K, at, own, b) = BasePlace(b) /\ BlockAt(K, at, b) = b.block
        /\ ~Looping(K, at)
     \/ /\ PlaceAt(K, at, own, b) = LoopPlace(K, own, b) /\ Looping(K, at)
        /\ BlockAt(K, at, b) = Append(b.block, "SETUP_LOOP")
     \/ \E t \in BlockTypes \ {"SETUP_LOOP"} : BlockAt(K, at, b) = Append(b.block, t)
  /\ PlaceAt(K, at, own, b).blks \in {b.blks, Append(b.blks, own)}
  /\ Height(PlaceAt(K, at, own, b).shape) = Height(b.shape) + LevelAt(K, at)

LEMMA PartRows ==
  ASSUME NEW K, NEW at, <<K, at>> \in PartsOf, NEW b \in Bases, NEW own \in Nat
  PROVE  PartRow(K, at, own, b)
<1>1. \/ /\ PlaceAt(K, at, own, b) = BasePlace(b) /\ BlockAt(K, at, b) = b.block
         /\ ~Looping(K, at)
      \/ /\ PlaceAt(K, at, own, b) = LoopPlace(K, own, b) /\ Looping(K, at)
         /\ BlockAt(K, at, b) = Append(b.block, "SETUP_LOOP")
      \/ \E t \in BlockTypes \ {"SETUP_LOOP"} : BlockAt(K, at, b) = Append(b.block, t)
  <2>1. CASE <<K, at>> \in {<<"def", 1>>, <<"seq", 1>>, <<"seq", 2>>, <<"skip", 1>>, <<"if", 4>>,
                            <<"if", 8>>, <<"while", 14>>, <<"for", 16>>, <<"bare", 12>>, <<"bare", 16>>,
                            <<"typed", 17>>, <<"typed", 23>>}
    <3>1. PlaceAt(K, at, own, b) = BasePlace(b)
      BY <2>1 DEF PlaceAt, ShapeAt, Open, BasePlace
    <3>2. BlockAt(K, at, b) = b.block /\ ~Looping(K, at)
      BY <2>1 DEF BlockAt, Looping
    <3> QED BY <3>1, <3>2
  <2>2. CASE <<K, at>> \in {<<"while", 8>>, <<"for", 10>>}
    <3>1. PlaceAt(K, at, own, b) = LoopPlace(K, own, b)
      BY <2>2 DEF PlaceAt, ShapeAt, Open, LoopPlace
    <3>2. BlockAt(K, at, b) = Append(b.block, "SETUP_LOOP") /\ Looping(K, at)
      BY <2>2 DEF BlockAt, Looping
    <3> QED BY <3>1, <3>2
  <2>3. CASE <<K, at>> \in {<<"bare", 3>>, <<"typed", 3>>, <<"finally", 3>>, <<"finally", 9>>}
    <3>1. K \in {"bare", "typed"} => BlockAt(K, at, b) = Append(b.block, "SETUP_EXCEPT")
      BY <2>3 DEF BlockAt
    <3>2. K = "finally" /\ at = 3 => BlockAt(K, at, b) = Append(b.block, "SETUP_FINALLY")
      BY <2>3 DEF BlockAt
    <3>3. K = "finally" /\ at = 9 => BlockAt(K, at, b) = Append(b.block, "END_FINALLY")
      BY <2>3 DEF BlockAt
    <3>4. {"SETUP_EXCEPT", "SETUP_FINALLY", "END_FINALLY"} \subseteq BlockTypes \ {"SETUP_LOOP"}
      BY DEF BlockTypes, Setups
    <3>5. K \in {"bare", "typed"} \/ (K = "finally" /\ at = 3) \/ (K = "finally" /\ at = 9)
      BY <2>3
    <3> QED BY <3>1, <3>2, <3>3, <3>4, <3>5
  <2> QED BY <2>1, <2>2, <2>3 DEF PartsOf
<1>2. PlaceAt(K, at, own, b).blks \in {b.blks, Append(b.blks, own)}
  BY DEF PlaceAt, At
<1>3. Height(PlaceAt(K, at, own, b).shape) = Height(b.shape) + LevelAt(K, at)
  <2>1. PlaceAt(K, at, own, b).shape = ShapeAt(K, at, b.shape) /\ b.shape \in Seq(Cells)
    BY DEF PlaceAt, At, Bases
  <2>2. /\ V(b.shape) \in Seq(Cells) /\ Height(V(b.shape)) = Height(b.shape) + 1
        /\ Height(W(b.shape)) = Height(b.shape) + 3 /\ Height(b.shape) \in Nat
    BY <2>1, ShapesAre
  <2>3. Height(V(V(b.shape))) = Height(b.shape) + 2
    BY <2>2, ShapesAre
  <2>4. CASE K = "for" /\ at = 10
    BY <2>1, <2>3, <2>4 DEF ShapeAt, LevelAt
  <2>5. CASE K = "finally" /\ at = 9
    BY <2>1, <2>2, <2>5 DEF ShapeAt, LevelAt
  <2>6. CASE ~(K = "for" /\ at = 10) /\ ~(K = "finally" /\ at = 9)
    <3>1. ShapeAt(K, at, b.shape) = b.shape
      BY <2>6 DEF PartsOf, ShapeAt
    <3>2. LevelAt(K, at) = 0
      BY <2>6 DEF PartsOf, LevelAt
    <3> QED BY <2>1, <2>2, <3>1, <3>2
  <2> QED BY <2>4, <2>5, <2>6
<1> QED BY <1>1, <1>2, <1>3 DEF PartRow

\* com_node is called for part s2.
Called(s2, be) == [s |-> s2, at |-> 1, anchor |-> [n \in Anchors |-> 0], begin |-> be]

LEMMA CallStep ==
  ASSUME NEW A, NEW B, NEW c, NEW bl, NEW be, NEW lv, NEW m, NEW w,
         CompileOK(A, B, c, bl, be, lv, m, w),
         NEW f, NEW b, NEW K, NEW at, Current(w, B, f, b, K, at),
         AtPart(f), <<K, at>> \in PartsOf, NEW s2, NEW w2, AddedTo(w, Called(s2, be), w2)
  PROVE  \E A2, B2 : CompileOK(A2, B2, c, bl, be, lv, m, w2)
<1> DEFINE f2 == Called(s2, be)
           a == PlaceOf(f, b)
           b2 == [shape |-> a.shape, blks |-> a.blks, block |-> bl, begin |-> be, loop |-> 0]
           B2 == Append(B, b2)
<1>1. /\ c \in Codes /\ Len(c) \in Nat /\ m \in Nat /\ b \in Bases /\ FrameOK(A, c, m, f, b)
      /\ Annotated(A, c, m) /\ NowAt(A, c, bl, be, lv, f, b)
      /\ K = Kind(f.s) /\ at = f.at /\ f = w[Len(w)] /\ b = B[Len(w)]
      /\ IsSeq(w) /\ IsSeq(B) /\ Len(B) = Len(w) /\ w # <<>> /\ Len(w) \in 1 .. Len(w)
      /\ \A j \in 1 .. Len(w) : B[j] \in Bases /\ FrameOK(A, c, m, w[j], B[j])
      /\ bl \in Seq(BlockTypes) /\ Len(bl) <= MaxBlocks /\ be \in Nat /\ lv \in Nat /\ lv <= m
  <2>1. K = Kind(f.s) /\ at = f.at /\ f = w[Len(w)] /\ b = B[Len(w)]
    BY DEF Current
  <2>2. /\ IsSeq(w) /\ IsSeq(B) /\ w # <<>> /\ Len(B) = Len(w) /\ Len(w) \in 1 .. Len(w)
        /\ Len(c) \in Nat /\ m \in Nat /\ lv \in Nat /\ c \in Codes
        /\ \A j \in 1 .. Len(w) : B[j] \in Bases /\ FrameOK(A, c, m, w[j], B[j])
    BY Innermost
  <2>3. b \in Bases /\ FrameOK(A, c, m, f, b)
    BY <2>1, <2>2
  <2>4. /\ Annotated(A, c, m) /\ NowAt(A, c, bl, be, lv, f, b)
        /\ bl \in Seq(BlockTypes) /\ Len(bl) <= MaxBlocks /\ be \in Nat /\ lv <= m
    BY <2>1 DEF CompileOK
  <2> QED BY <2>1, <2>2, <2>3, <2>4
<1>2. Own(f) \in Nat
  BY <1>1 DEF FrameOK, IsCall, Own, Anchors
<1>3. a = PlaceAt(K, at, Own(f), b) /\ a \in Places
  BY <1>1, <1>2, PlaceIsPlace DEF PlaceOf
<1> HIDE DEF a
<1>4. a.shape \in Seq(Cells) /\ a.blks \in Seq(Nat) /\ a = At(a.shape, a.blks)
  BY <1>3 DEF Places, At
<1>5. /\ b2 \in Bases /\ b2.shape = a.shape /\ b2.blks = a.blks /\ b2.block = bl
      /\ b2.begin = be /\ BasePlace(b2) = a
  BY <1>1, <1>4 DEF Bases, BasePlace
<1>6. AddedTo(B, b2, B2) /\ AddedTo(w, f2, w2)
  BY DEF AddedTo
<1>7. f2 = [s |-> s2, at |-> 1, anchor |-> [n \in Anchors |-> 0], begin |-> b2.begin]
  BY DEF Called
<1> HIDE DEF b2, B2, f2
<1>8. IsSeq(w2) /\ Len(w2) = Len(w) + 1 /\ w2[Len(w) + 1] = f2
      /\ \A i \in 1 .. Len(w) : w2[i] = w[i]
  BY <1>1, <1>6, SeqAppend
<1>9. IsSeq(B2) /\ Len(B2) = Len(B) + 1 /\ B2[Len(B) + 1] = b2
      /\ \A i \in 1 .. Len(B) : B2[i] = B[i]
  BY <1>1, <1>6, SeqAppend
<1>10. A[Len(c) + 1] = a /\ bl = BlockAt(K, at, b) /\ be = BeginAt(K, at, b)
       /\ lv = Height(b.shape) + LevelAt(K, at) /\ lv = Height(a.shape)
  <2>1. A[Len(c) + 1] = a /\ bl = BlockAt(K, at, b) /\ be = BeginAt(K, at, b)
        /\ lv = Height(b.shape) + LevelAt(K, at)
    BY <1>1 DEF NowAt, a
  <2>2. Height(a.shape) = Height(b.shape) + LevelAt(K, at)
    BY <1>1, <1>2, <1>3, PartRows DEF PartRow
  <2> QED BY <2>1, <2>2
<1>11. /\ \/ a = BasePlace(b) /\ bl = b.block /\ ~Looping(K, at)
          \/ a = LoopPlace(K, Own(f), b) /\ Looping(K, at) /\ bl = Append(b.block, "SETUP_LOOP")
          \/ \E t \in BlockTypes \ {"SETUP_LOOP"} : bl = Append(b.block, t)
       /\ a.blks \in {b.blks, Append(b.blks, Own(f))}
  <2>1. PartRow(K, at, Own(f), b)
    BY <1>1, <1>2, PartRows
  <2>2. a = PlaceAt(K, at, Own(f), b) /\ bl = BlockAt(K, at, b)
    BY <1>3, <1>10
  <2> QED BY <2>1, <2>2 DEF PartRow
<1>12. b.block \in Seq(BlockTypes) /\ b.blks \in Seq(Nat) /\ Len(b.blks) <= Len(b.block)
  BY <1>1 DEF Bases, FrameOK, BaseOK
<1>13. BaseOK(A, c, b2)
  <2>1. Nested(A, c, a)
    <3>1. Len(c) + 1 \in 1 .. Len(A) /\ \A k \in 1 .. Len(A) : Nested(A, c, A[k])
      BY <1>1 DEF Annotated
    <3> QED BY <1>10, <3>1
  <2>2. Len(a.blks) <= Len(bl)
    <3>1. CASE a = BasePlace(b) /\ bl = b.block
      BY <1>12, <3>1 DEF BasePlace, At
    <3>2. CASE \E t \in BlockTypes : bl = Append(b.block, t)
      <4>1. Len(bl) = Len(b.block) + 1
        BY <1>12, <3>2
      <4>2. Len(a.blks) <= Len(b.blks) + 1
        BY <1>2, <1>11, <1>12
      <4>3. Len(a.blks) \in Nat /\ Len(b.blks) \in Nat /\ Len(b.block) \in Nat
        BY <1>4, <1>12
      <4> QED BY <1>12, <4>1, <4>2, <4>3
    <3> QED BY <1>11, <3>1, <3>2 DEF BlockTypes, Setups
  <2>3. ASSUME bl # <<>>, bl[Len(bl)] = "SETUP_LOOP"
        PROVE  be \in 1 .. Len(c) + 1 /\ A[be] = a
    <3>1. CASE a = BasePlace(b) /\ bl = b.block /\ ~Looping(K, at)
      BY <1>1, <1>10, <2>3, <3>1 DEF BeginAt, FrameOK, BaseOK
    <3>2. CASE a = LoopPlace(K, Own(f), b) /\ Looping(K, at)
      BY <1>1, <1>10, <3>2 DEF BeginAt, FrameOK, LoopOK
    <3>3. CASE \E t \in BlockTypes \ {"SETUP_LOOP"} : bl = Append(b.block, t)
      <4>1. PICK t \in BlockTypes \ {"SETUP_LOOP"} : bl = Append(b.block, t)
        BY <3>3
      <4>2. bl[Len(bl)] = t
        BY <1>12, <4>1
      <4> QED BY <2>3, <4>2
    <3> QED BY <1>11, <3>1, <3>2, <3>3
  <2> QED BY <1>5, <2>1, <2>2, <2>3 DEF BaseOK
<1>14. FrameOK(A, c, m, f2, b2)
  <2>1. Height(b2.shape) <= m
    BY <1>1, <1>5, <1>10
  <2> QED BY <1>1, <1>5, <1>7, <1>13, <2>1, FrameBegins
<1>15. FramesOK(A, c, m, w2, B2)
  <2>1. ASSUME NEW j \in 1 .. Len(w2) PROVE B2[j] \in Bases /\ FrameOK(A, c, m, w2[j], B2[j])
    <3>1. CASE j = Len(w) + 1
      BY <1>1, <1>5, <1>8, <1>9, <1>14, <3>1
    <3>2. CASE j \in 1 .. Len(w)
      BY <1>1, <1>8, <1>9, <3>2
    <3> QED BY <1>1, <1>8, <3>1, <3>2
  <2>2. Len(B2) = Len(w2)
    BY <1>1, <1>8, <1>9
  <2>3. B2 \in Seq(Bases)
    BY <1>9, <2>1, <2>2, SeqIs
  <2> QED BY <2>1, <2>2, <2>3 DEF FramesOK
<1>16. Linked(w2, B2)
  <2> SUFFICES ASSUME NEW j \in 1 .. Len(w)
               PROVE  AtPart(w2[j]) /\ Begins(w2[j], B2[j], B2[j + 1])
    BY <1>1, <1>8 DEF Linked
  <2>1. CASE j = Len(w)
    <3>1. w2[j] = f /\ B2[j] = b /\ B2[j + 1] = b2
      BY <1>1, <1>8, <1>9, <2>1
    <3>2. Begins(f, b, b2)
      BY <1>1, <1>5, <1>10 DEF Begins, a
    <3> QED BY <3>1, <3>2
  <2>2. CASE j # Len(w)
    <3>1. j \in 1 .. Len(w) - 1 /\ w2[j] = w[j] /\ B2[j] = B[j] /\ B2[j + 1] = B[j + 1]
      BY <1>1, <1>8, <1>9, <2>2
    <3> QED BY <3>1 DEF CompileOK, Linked
  <2> QED BY <2>1, <2>2
<1>17. Covered(c, w2)
  <2> SUFFICES ASSUME NEW k \in 1 .. Len(c), c[k].op \in Aiming, c[k].arg = 0
               PROVE  \E j \in 1 .. Len(w2) : Pending(w2[j], k)
    BY DEF Covered, Pending
  <2>1. PICK j \in 1 .. Len(w) : Pending(w[j], k)
    BY DEF CompileOK, Covered, Pending
  <2>2. w2[j] = w[j] /\ j \in 1 .. Len(w2)
    BY <1>1, <1>8
  <2> QED BY <2>1, <2>2
<1>18. Ending(c, w2)
  <2>1. w2 # <<>> /\ w2[1] = w[1]
    BY <1>1, <1>8
  <2> QED BY <2>1 DEF CompileOK, Ending
<1>19. NowAt(A, c, bl, be, lv, f2, b2)
  <2>1. f2.at = 1 /\ f2.s = s2
    BY <1>7
  <2>2. /\ PlaceAt(Kind(s2), 1, Own(f2), b2) = BasePlace(b2)
        /\ BlockAt(Kind(s2), 1, b2) = b2.block
        /\ BeginAt(Kind(s2), 1, b2) = b2.begin /\ LevelAt(Kind(s2), 1) = 0
    BY StartOfCall
  <2>3. lv = Height(b2.shape) + LevelAt(Kind(s2), 1)
    BY <1>1, <1>5, <1>10, <2>2
  <2> QED BY <1>5, <1>10, <2>1, <2>2, <2>3 DEF NowAt, PlaceOf
<1>20. NowAt(A, c, bl, be, lv, w2[Len(w2)], B2[Len(w2)])
  BY <1>1, <1>8, <1>9, <1>19
<1>21. CompileOK(A, B2, c, bl, be, lv, m, w2)
  BY <1>1, <1>8, <1>15, <1>16, <1>17, <1>18, <1>20 DEF CompileOK
<1> QED BY <1>21

\* The innermost call returns: the one that made it is at the same place.
LEMMA PopStep ==
  ASSUME NEW A, NEW B, NEW c, NEW bl, NEW be, NEW lv, NEW m, NEW w,
         CompileOK(A, B, c, bl, be, lv, m, w),
         w[Len(w)].at = Len(Calls(w[Len(w)].s)) + 1, Len(w) # 1,
         NEW v, FrontOf(w, v), NEW D, FrontOf(B, D)
  PROVE  CompileOK(A, D, c, bl, be, lv, m, v)
<1> DEFINE n == Len(w)
           f == w[n]
           b == B[n]
           K == Kind(f.s)
<1>1. /\ IsSeq(w) /\ IsSeq(B) /\ w # <<>> /\ Len(B) = n /\ n \in 1 .. n
      /\ Len(c) \in Nat /\ m \in Nat /\ lv \in Nat /\ c \in Codes
      /\ \A j \in 1 .. n : B[j] \in Bases /\ FrameOK(A, c, m, w[j], B[j])
  BY Innermost
<1>2. NowAt(A, c, bl, be, lv, f, b) /\ Linked(w, B) /\ Covered(c, w) /\ Ending(c, w)
  BY DEF CompileOK
<1>3. /\ PlaceAt(K, f.at, Own(f), b) = BasePlace(b) /\ LevelAt(K, f.at) = 0
      /\ BlockAt(K, f.at, b) = b.block /\ BeginAt(K, f.at, b) = b.begin
      /\ \A i \in Anchors : ~Owes(K, f.at, i)
  BY CallsEnd
<1>0. n = Len(w) /\ f = w[n] /\ b = B[n] /\ K = Kind(f.s) /\ n # 1
  OBVIOUS
<1> HIDE DEF n, f, b, K
<1>4. IsSeq(v) /\ Len(v) = n - 1 /\ \A i \in 1 .. n - 1 : v[i] = w[i]
  BY <1>0, <1>1, SeqFront
<1>5. IsSeq(D) /\ Len(D) = n - 1 /\ \A i \in 1 .. n - 1 : D[i] = B[i]
  BY <1>0, <1>1, SeqFront
<1>6. n - 1 \in 1 .. n - 1 /\ n \in Nat
  BY <1>0, <1>1
<1>7. FramesOK(A, c, m, v, D)
  <2>1. \A j \in 1 .. n - 1 : D[j] \in Bases /\ FrameOK(A, c, m, v[j], D[j])
    BY <1>1, <1>4, <1>5, <1>6
  <2>2. D \in Seq(Bases)
    BY <1>5, <2>1, SeqIs
  <2> QED BY <1>4, <1>5, <2>1, <2>2 DEF FramesOK
<1>8. Linked(v, D)
  <2> SUFFICES ASSUME NEW j \in 1 .. n - 1 - 1
               PROVE  AtPart(v[j]) /\ Begins(v[j], D[j], D[j + 1])
    BY <1>4 DEF Linked
  <2>1. j \in 1 .. n - 1 /\ v[j] = w[j] /\ D[j] = B[j] /\ D[j + 1] = B[j + 1]
    BY <1>4, <1>5, <1>6
  <2> QED BY <1>0, <1>2, <2>1 DEF Linked
<1>9. Covered(c, v)
  <2> SUFFICES ASSUME NEW k \in 1 .. Len(c), c[k].op \in Aiming, c[k].arg = 0
               PROVE  \E j \in 1 .. Len(v) : Pending(v[j], k)
    BY DEF Covered, Pending
  <2>1. PICK j \in 1 .. n : Pending(w[j], k)
    BY <1>0, <1>2 DEF Covered, Pending
  <2>2. j # n
    BY <1>0, <1>3, <2>1 DEF Pending
  <2>3. j \in 1 .. n - 1 /\ v[j] = w[j]
    BY <1>4, <1>6, <2>2
  <2> QED BY <1>4, <2>1, <2>3
<1>10. Ending(c, v)
  <2>1. v # <<>> /\ v[1] = w[1]
    BY <1>4, <1>6
  <2> QED BY <1>2, <2>1 DEF Ending
<1>11. NowAt(A, c, bl, be, lv, v[n - 1], D[n - 1])
  <2>1. AtPart(w[n - 1]) /\ Begins(w[n - 1], B[n - 1], b)
    BY <1>0, <1>2, <1>6 DEF Linked
  <2>2. v[n - 1] = w[n - 1] /\ D[n - 1] = B[n - 1]
    BY <1>4, <1>5, <1>6
  <2>3. PlaceOf(f, b) = BasePlace(b)
    BY <1>0, <1>3 DEF PlaceOf
  <2>4. A[Len(c) + 1] = BasePlace(b) /\ bl = b.block /\ be = b.begin /\ lv = Height(b.shape) + 0
    BY <1>0, <1>2, <1>3, <2>3 DEF NowAt
  <2>5. lv = Height(b.shape)
    <3>1. b \in Bases
      BY <1>0, <1>1
    <3> QED BY <2>4, <3>1, HeightIsNat DEF Bases
  <2> QED BY <2>1, <2>2, <2>4, <2>5 DEF NowAt, Begins
<1>12. NowAt(A, c, bl, be, lv, v[Len(v)], D[Len(v)])
  BY <1>4, <1>11
<1> QED BY <1>4, <1>7, <1>8, <1>9, <1>10, <1>12 DEF CompileOK

LEMMA ReturnStep ==
  ASSUME NEW A, NEW B, NEW c, NEW bl, NEW be, NEW lv, NEW m, NEW w,
         CompileOK(A, B, c, bl, be, lv, m, w),
         w[Len(w)].at = Len(Calls(w[Len(w)].s)) + 1, Len(w) # 1,
         NEW v, FrontOf(w, v), NEW w2, PutAt(v, Len(v), Moved(v[Len(v)]), w2)
  PROVE  \E A2, B2 : CompileOK(A2, B2, c, bl, be, lv, m, w2)
<1> DEFINE D == SubSeq(B, 1, Len(B) - 1)
<1>1. /\ IsSeq(w) /\ IsSeq(B) /\ w # <<>> /\ Len(B) = Len(w) /\ Len(w) \in 1 .. Len(w)
  BY Innermost
<1>2. B # <<>>
  BY <1>1
<1>3. FrontOf(B, D)
  BY <1>2 DEF FrontOf
<1>4. CompileOK(A, D, c, bl, be, lv, m, v)
  BY <1>3, PopStep
<1>5. Len(v) = Len(w) - 1 /\ v[Len(w) - 1] = w[Len(w) - 1]
  <2>1. Len(w) - 1 \in 1 .. Len(w) - 1
    BY <1>1
  <2> QED BY <1>1, <2>1, SeqFront
<1> HIDE DEF D
<1> DEFINE f == v[Len(v)]
           b == D[Len(v)]
           K == Kind(f.s)
           at == f.at
<1>6. AtPart(f)
  <2>1. Len(w) - 1 \in 1 .. Len(w) - 1
    BY <1>1
  <2> QED BY <1>5, <2>1 DEF CompileOK, Linked
<1>7. b \in Bases /\ FrameOK(A, c, m, f, b) /\ m \in Nat /\ lv \in Nat
  BY <1>4, Innermost
<1>8. /\ NowAt(A, c, bl, be, lv, f, b) /\ lv <= m
      /\ bl \in Seq(BlockTypes) /\ Len(bl) <= MaxBlocks /\ be \in Nat
  BY <1>4 DEF CompileOK
<1>9. Current(v, D, f, b, K, at)
  BY <1>6 DEF Current, AtPart
<1>10. PutAt(v, Len(v), Moved(f), w2)
  OBVIOUS
<1> HIDE DEF f, b
<1>11. <<K, at>> \in PartsOf
  <2>1. f.at \in 1 .. Len(Calls(f.s)) /\ Calls(f.s)[f.at].do = "part"
    BY <1>6, <1>7 DEF AtPart, FrameOK, IsCall, Calling
  <2> QED BY <2>1, CallsAre DEF CallOf
<1> HIDE DEF K, at
<1>12. /\ at \in Nat /\ SamePlace(K, at, Own(f), b) /\ SameBlock(K, at, b)
       /\ SameLoop(K, at) /\ SameLevel(K, at) /\ SameOpen(K, at) /\ SameOwed(K, at)
       /\ K = "def" => at = 1
  BY <1>11, StillRows
<1>13. Stays(c, f, b, b, K, at)
  BY <1>7, <1>12 DEF Stays, SameBase, SameLoop
<1>14. bl = BlockAt(K, at + 1, b) /\ be = BeginAt(K, at + 1, b)
  BY <1>8, <1>12 DEF NowAt, SameBlock, SameLoop, BeginAt, K, at
<1>15. Rises(b, K, at, lv, m, m)
  BY <1>7, <1>8, <1>12 DEF Rises, NowAt, SameLevel, FrameOK, K, at
<1> QED BY <1>4, <1>8, <1>9, <1>10, <1>13, <1>14, <1>15, StillStep

\* The last return: the code is complete.
Complete(A, c, m) ==
  /\ c \in Codes /\ m \in Nat /\ Annotated(A, c, m)
  /\ \A k \in 1 .. Len(c) : c[k].op \in Aiming => c[k].arg \in 1 .. Len(c)
  /\ c # <<>> /\ c[Len(c)].op = "RETURN_VALUE"

LEMMA LastReturn ==
  ASSUME NEW A, NEW B, NEW c, NEW bl, NEW be, NEW lv, NEW m, NEW w,
         CompileOK(A, B, c, bl, be, lv, m, w),
         w[Len(w)].at = Len(Calls(w[Len(w)].s)) + 1, Len(w) = 1
  PROVE  Complete(A, c, m)
<1>1. /\ c \in Codes /\ m \in Nat /\ Annotated(A, c, m) /\ Covered(c, w) /\ Ending(c, w)
      /\ Len(c) \in Nat
  BY DEF CompileOK, Codes
<1>2. /\ Kind(w[1].s) = "def" => w[1].at = 4
      /\ \A i \in Anchors : ~Owes(Kind(w[1].s), w[1].at, i)
  BY CallsEnd
<1>3. /\ \A k \in 1 .. Len(c) : c[k].arg <= Len(c)
      /\ c # <<>> /\ c[Len(c)].op = "RETURN_VALUE"
  BY <1>1, <1>2 DEF Ending
<1>4. ASSUME NEW k \in 1 .. Len(c), c[k].op \in Aiming
      PROVE  c[k].arg \in 1 .. Len(c)
  <2>1. c[k].arg # 0
    BY <1>1, <1>2, <1>4 DEF Covered
  <2>2. c[k].arg \in Nat
    <3>1. c[k] \in Instrs
      BY <1>1 DEF Codes
    <3> QED BY <3>1 DEF Instrs
  <2> QED BY <1>1, <1>3, <2>1, <2>2
<1> QED BY <1>1, <1>3, <1>4 DEF Complete

-----------------------------------------------------------------------------
(* One lemma for each action of the compiler. *)

\* What is known of the call that acts.
LEMMA CurrentIs ==
  ASSUME NEW A, NEW B, NEW c, NEW bl, NEW be, NEW lv, NEW m, NEW w,
         CompileOK(A, B, c, bl, be, lv, m, w),
         NEW f, NEW b, NEW K, NEW at, Current(w, B, f, b, K, at)
  PROVE  /\ b \in Bases /\ FrameOK(A, c, m, f, b) /\ NowAt(A, c, bl, be, lv, f, b)
         /\ K = Kind(f.s) /\ at = f.at /\ at \in 1 .. Len(Calls(f.s)) /\ IsCall(f) /\ Own(f) \in Nat
         /\ bl \in Seq(BlockTypes) /\ Len(bl) <= MaxBlocks /\ be \in Nat
         /\ lv \in Nat /\ m \in Nat /\ lv <= m /\ Len(c) \in Nat /\ c \in Codes
<1>1. K = Kind(f.s) /\ at = f.at /\ f = w[Len(w)] /\ b = B[Len(w)] /\ at <= Len(Calls(f.s))
  BY DEF Current
<1>2. b \in Bases /\ FrameOK(A, c, m, f, b) /\ Len(c) \in Nat
  BY <1>1, Innermost
<1>3. IsCall(f) /\ f.at \in 1 .. Len(Calls(f.s)) + 1
  BY <1>2 DEF FrameOK, IsCall
<1>4. Own(f) \in Nat
  BY <1>3 DEF IsCall, Own, Anchors
<1>5. at \in 1 .. Len(Calls(f.s))
  BY <1>1, <1>3
<1> QED BY <1>1, <1>2, <1>3, <1>4, <1>5 DEF CompileOK

LEMMA DoingIs ==
  ASSUME NEW A, NEW B, Compiling(A, B), NEW what, Doing(what)
  PROVE  /\ Current(work, B, Call, B[Len(work)], Kind(Call.s), Call.at)
         /\ CallOf(Kind(Call.s), Call.at, Op) /\ Op.do = what
         /\ PutAt(work, Len(work), Moved(Call), Advanced)
<1>1. CompileOK(A, B, code, block, begin, level, max, work)
  BY DEF Compiling
<1>2. Current(work, B, Call, B[Len(work)], Kind(Call.s), Call.at)
  BY DEF Current, Doing, Call
<1>3. Call.at \in 1 .. Len(Calls(Call.s)) /\ Len(work) \in 1 .. Len(work)
  BY <1>1, <1>2, CurrentIs, Innermost
<1>4. CallOf(Kind(Call.s), Call.at, Op) /\ Op.do = what
  BY <1>3, CallsAre DEF Doing, Op, Calling
<1>5. PutAt(work, Len(work), Moved(Call), Advanced)
  BY <1>3 DEF PutAt, Moved, Advanced, Call
<1> QED BY <1>2, <1>4, <1>5

\* Nothing owed changes.
LEMMA PlainBecomes ==
  ASSUME NEW A, NEW c, NEW m, NEW f, NEW b, NEW K, NEW at, FrameOK(A, c, m, f, b),
         at = f.at, at <= Len(Calls(f.s)), Looping(K, at + 1) => Looping(K, at),
         SameOwed(K, at), NEW op, NEW arg, op \notin Aiming \/ arg # 0
  PROVE  Becomes(c, f, K, at, Own(f), op, arg, Moved(f))
<1>1. IsCall(f) /\ f.at <= Len(Calls(f.s))
  BY DEF FrameOK
<1>2. LET g == Moved(f)
      IN /\ IsCall(g) /\ g.s = f.s /\ g.at = f.at + 1 /\ g.anchor = f.anchor
         /\ g.begin = f.begin /\ Own(g) = Own(f)
  BY <1>1, MovedIs
<1> QED BY <1>2 DEF Becomes, SameOwed

LEMMA PlainLeads ==
  ASSUME NEW A, NEW c, NEW m, NEW f, NEW b, NEW K, NEW at, FrameOK(A, c, m, f, b),
         K = Kind(f.s), at = f.at, SameOpen(K, at), SameOwed(K, at), NEW op, NEW arg, NEW g,
         Flows(A, op, Len(c) + 1, PlaceOf(f, b), PlaceAt(K, at + 1, Own(f), b)),
         arg # 0 => arg \in 1 .. Len(c) + 1 /\ Aims(op, PlaceOf(f, b), A[arg]),
         K = "def" /\ at = 3 => op = "RETURN_VALUE"
  PROVE  Leads(A, c, f, b, K, at, Own(f), op, arg, g)
<1>1. Opened(K, at + 1) => Owner(A, c, Own(f), b)
  BY DEF SameOpen, FrameOK, OpenOK, Owner
<1>2. \A n \in Anchors : Owes(K, at + 1, n) => Owes(K, at, n)
  BY DEF SameOwed
<1> QED BY <1>1, <1>2 DEF Leads

\* com_push and com_pop.
LEMMA RisesBy ==
  ASSUME NEW A, NEW c, NEW bl, NEW be, NEW lv \in Nat, NEW m \in Nat, lv <= m,
         NEW f, NEW b \in Bases, NEW K, NEW at, FrameOK(A, c, m, f, b),
         NowAt(A, c, bl, be, lv, f, b), K = Kind(f.s), at = f.at,
         NEW n \in Int, Climbs(K, at, n),
         NEW lv2, lv2 = IF lv + n < 0 THEN 0 ELSE lv + n,
         NEW m2, m2 = IF lv2 > m THEN lv2 ELSE m
  PROVE  Rises(b, K, at, lv2, m, m2)
<1>1. LevelAt(K, at) \in Nat /\ LevelAt(K, at + 1) \in Nat
  <2>1. LevelAt(K, at) \in 0 .. 5 /\ LevelAt(K, at + 1) \in 0 .. 5
    BY LevelsInRange
  <2> QED BY <2>1
<1>2. PeakAt(K, at) \in Nat /\ PeakAt(K, at + 1) \in Nat
  <2>1. PeakAt(K, at) \in 0 .. 5 /\ PeakAt(K, at + 1) \in 0 .. 5
    BY LevelsInRange
  <2> QED BY <2>1
<1>3. Height(b.shape) \in Nat
  BY HeightIsNat DEF Bases
<1>4. /\ LevelAt(K, at + 1) = LevelAt(K, at) + n
      /\ PeakAt(K, at + 1) <= PeakAt(K, at) \/ PeakAt(K, at + 1) <= LevelAt(K, at + 1)
  BY DEF Climbs
<1>5. lv = Height(b.shape) + LevelAt(K, at) /\ Height(b.shape) + PeakAt(K, at) <= m
  BY DEF NowAt, FrameOK
<1>6. lv2 = Height(b.shape) + LevelAt(K, at + 1) /\ lv2 \in Nat
  BY <1>1, <1>3, <1>4, <1>5
<1>7. m2 \in Nat /\ m <= m2 /\ lv2 <= m2
  BY <1>6
<1>8. Height(b.shape) + PeakAt(K, at + 1) <= m2
  BY <1>1, <1>2, <1>3, <1>4, <1>5, <1>6, <1>7
<1> QED BY <1>6, <1>7, <1>8 DEF Rises

LEMMA AddByteStep ==
  ASSUME NEW A, NEW B, Compiling(A, B), AddByte
  PROVE  \E A2, B2 : Compiling(A2, B2)'
<1> DEFINE f == Call
           b == B[Len(work)]
           K == Kind(f.s)
           at == f.at
           op == Op.op
           n == Op.n
           own == Own(f)
<1>1. CompileOK(A, B, code, block, begin, level, max, work)
  BY DEF Compiling
<1>2. /\ Current(work, B, f, b, K, at) /\ <<K, at, op, n>> \in BytesOf
      /\ PutAt(work, Len(work), Moved(f), Advanced)
  BY DoingIs DEF AddByte, CallOf
<1>3. /\ AddedInstr(code, op, 0, code') /\ work' = Advanced /\ block' = block /\ begin' = begin
      /\ level' = IF level + n < 0 THEN 0 ELSE level + n
      /\ max' = IF level' > max THEN level' ELSE max
  BY DEF AddByte, Emit, SetLevel, Shifted, AddedInstr, AddedTo
<1> HIDE DEF f, b, K, at, op, n, own
<1>4. /\ b \in Bases /\ FrameOK(A, code, max, f, b) /\ NowAt(A, code, block, begin, level, f, b)
      /\ K = Kind(f.s) /\ at = f.at /\ at \in 1 .. Len(Calls(f.s)) /\ Own(f) \in Nat
      /\ begin \in Nat /\ level \in Nat /\ max \in Nat /\ level <= max /\ Len(code) \in Nat
  BY <1>1, <1>2, CurrentIs
<1>5. /\ op \in Ops /\ op \notin Aiming /\ n \in Int
      /\ SameBlock(K, at, b) /\ SameLoop(K, at) /\ SameOpen(K, at) /\ SameOwed(K, at)
      /\ Climbs(K, at, n)
  BY <1>2, ByteRows
<1>6. Rises(b, K, at, level', max, max')
  BY <1>3, <1>4, <1>5, RisesBy
<1>7. Becomes(code, f, K, at, Own(f), op, 0, Moved(f))
  <2>1. Looping(K, at + 1) => Looping(K, at)
    BY <1>5 DEF SameLoop
  <2>2. at <= Len(Calls(f.s)) /\ (op \notin Aiming \/ 0 # 0)
    BY <1>4, <1>5
  <2> QED BY <1>4, <1>5, <2>1, <2>2, PlainBecomes
<1>8. Leads(A, code, f, b, K, at, Own(f), op, 0, Moved(f))
  <2>1. Opened(K, at) => Own(f) \in 1 .. Len(code) + 1 /\ A[Own(f)] = BasePlace(b)
    BY <1>4 DEF FrameOK, OpenOK
  <2>5. Len(code) + 1 \in Nat
    BY <1>4
  <2>2. Flows(A, op, Len(code) + 1, PlaceAt(K, at, Own(f), b), PlaceAt(K, at + 1, Own(f), b))
    BY <1>2, <1>4, <2>1, <2>5, ByteFlows
  <2>3. Flows(A, op, Len(code) + 1, PlaceOf(f, b), PlaceAt(K, at + 1, Own(f), b))
    BY <1>4, <2>2 DEF PlaceOf
  <2>4. K = "def" /\ at = 3 => op = "RETURN_VALUE"
    BY <1>2 DEF BytesOf
  <2> QED BY <1>4, <1>5, <2>3, <2>4, PlainLeads
<1>9. Emitting(K, at)
  BY <1>2 DEF Emitting
<1>10. begin = BeginAt(K, at + 1, b)
  BY <1>4, <1>5 DEF NowAt, SameLoop, BeginAt
<1>11. PutAt(work, Len(work), Moved(f), work')
  BY <1>2, <1>3
<1>12. \E A2, B2 : CompileOK(A2, B2, code', block, begin, level', max', work')
  <2>1. op \in Ops /\ 0 \in Nat /\ Own(f) \in Nat /\ begin \in Nat /\ SameBlock(K, at, b)
    BY <1>4, <1>5
  <2>2. AddedInstr(code, op, 0, code')
    BY <1>3
  <2> QED BY <1>1, <1>2, <1>6, <1>7, <1>8, <1>9, <1>10, <1>11, <2>1, <2>2, EmitStep
<1> QED BY <1>3, <1>12 DEF Compiling

LEMMA EndLoopStep ==
  ASSUME NEW A, NEW B, Compiling(A, B), EndLoop
  PROVE  \E A2, B2 : Compiling(A2, B2)'
<1> DEFINE f == Call
           b == B[Len(work)]
           K == Kind(f.s)
           at == f.at
           op == "JUMP_ABSOLUTE"
<1>1. CompileOK(A, B, code, block, begin, level, max, work)
  BY DEF Compiling
<1>2. /\ Current(work, B, f, b, K, at) /\ <<K, at>> \in AgainsOf
      /\ PutAt(work, Len(work), Moved(f), Advanced)
  BY DoingIs DEF EndLoop, CallOf
<1>3. /\ AddedInstr(code, op, begin, code') /\ work' = Advanced /\ begin' = f.begin
      /\ block' = block /\ level' = level /\ max' = max
  BY DEF EndLoop, Emit, AddedInstr, AddedTo
<1> HIDE DEF f, b, K, at, op
<1>4. /\ b \in Bases /\ FrameOK(A, code, max, f, b) /\ NowAt(A, code, block, begin, level, f, b)
      /\ K = Kind(f.s) /\ at = f.at /\ at \in 1 .. Len(Calls(f.s)) /\ Own(f) \in Nat
      /\ begin \in Nat /\ level \in Nat /\ max \in Nat /\ level <= max /\ Len(code) \in Nat
  BY <1>1, <1>2, CurrentIs
<1>5. /\ SameBlock(K, at, b) /\ SameLevel(K, at) /\ SameOpen(K, at) /\ SameOwed(K, at)
      /\ Looping(K, at) /\ ~Looping(K, at + 1)
      /\ LoopPlace(K, Own(f), b) = PlaceAt(K, at, Own(f), b)
  BY <1>2, AgainRows
<1>6. Rises(b, K, at, level, max, max)
  BY <1>4, <1>5 DEF Rises, NowAt, FrameOK, SameLevel
<1>7. begin # 0 /\ begin \in 1 .. Len(code) + 1 /\ A[begin] = PlaceOf(f, b)
  <2>1. begin = b.loop
    BY <1>4, <1>5 DEF NowAt, BeginAt
  <2>2. b.loop \in 1 .. Len(code) + 1 /\ A[b.loop] = LoopPlace(K, Own(f), b)
    BY <1>4, <1>5 DEF FrameOK, LoopOK
  <2> QED BY <1>4, <1>5, <2>1, <2>2 DEF PlaceOf
<1>8. Becomes(code, f, K, at, Own(f), op, begin, Moved(f))
  <2>1. at <= Len(Calls(f.s)) /\ (op \notin Aiming \/ begin # 0)
    BY <1>4, <1>7
  <2> QED BY <1>4, <1>5, <2>1, PlainBecomes
<1>9. Leads(A, code, f, b, K, at, Own(f), op, begin, Moved(f))
  <2>1. Flows(A, op, Len(code) + 1, PlaceOf(f, b), PlaceAt(K, at + 1, Own(f), b))
    BY DEF Flows, op, Taking, Setups
  <2>2. begin # 0 => begin \in 1 .. Len(code) + 1 /\ Aims(op, PlaceOf(f, b), A[begin])
    BY <1>7 DEF Aims, op
  <2>3. K = "def" /\ at = 3 => op = "RETURN_VALUE"
    BY <1>2 DEF AgainsOf
  <2> QED BY <1>4, <1>5, <2>1, <2>2, <2>3, PlainLeads
<1>10. Emitting(K, at)
  BY <1>2 DEF Emitting
<1>11. f.begin = BeginAt(K, at + 1, b) /\ f.begin \in Nat
  BY <1>4, <1>5 DEF BeginAt, FrameOK, Bases
<1>12. PutAt(work, Len(work), Moved(f), work')
  BY <1>2, <1>3
<1>13. \E A2, B2 : CompileOK(A2, B2, code', block, f.begin, level, max, work')
  <2>1. op \in Ops /\ begin \in Nat /\ Own(f) \in Nat /\ SameBlock(K, at, b)
    BY <1>4, <1>5 DEF op, Ops, Aiming, Jumps
  <2>2. AddedInstr(code, op, begin, code')
    BY <1>3
  <2> QED BY <1>1, <1>2, <1>6, <1>8, <1>9, <1>10, <1>11, <1>12, <2>1, <2>2, EmitStep
<1> QED BY <1>3, <1>13 DEF Compiling

LEMMA BreakStep ==
  ASSUME NEW A, NEW B, Compiling(A, B), BreakStmt
  PROVE  \E A2, B2 : Compiling(A2, B2)'
<1> DEFINE f == Call
           b == B[Len(work)]
           K == Kind(f.s)
           at == f.at
           op == "BREAK_LOOP"
<1>1. CompileOK(A, B, code, block, begin, level, max, work)
  BY DEF Compiling
<1>2. /\ Current(work, B, f, b, K, at) /\ K = "break" /\ at = 1
      /\ PutAt(work, Len(work), Moved(f), Advanced)
  BY DoingIs DEF BreakStmt, CallOf
<1>3. /\ AddedInstr(code, op, 0, code') /\ work' = Advanced /\ begin' = begin
      /\ block' = block /\ level' = level /\ max' = max
  BY DEF BreakStmt, Emit, AddedInstr, AddedTo
<1> HIDE DEF f, b, K, at, op
<1>4. /\ b \in Bases /\ FrameOK(A, code, max, f, b) /\ NowAt(A, code, block, begin, level, f, b)
      /\ K = Kind(f.s) /\ at = f.at /\ at \in 1 .. Len(Calls(f.s)) /\ Own(f) \in Nat
      /\ begin \in Nat /\ level \in Nat /\ max \in Nat /\ level <= max /\ Len(code) \in Nat
  BY <1>1, <1>2, CurrentIs
<1>5. /\ SameBlock(K, at, b) /\ SameLoop(K, at) /\ SameLevel(K, at) /\ SameOpen(K, at)
      /\ SameOwed(K, at)
  BY <1>2, StillRows
<1>6. Rises(b, K, at, level, max, max)
  BY <1>4, <1>5 DEF Rises, NowAt, FrameOK, SameLevel
<1>7. Becomes(code, f, K, at, Own(f), op, 0, Moved(f))
  <2>1. at <= Len(Calls(f.s)) /\ (op \notin Aiming \/ 0 # 0)
    BY <1>4 DEF op, Aiming, Setups, Jumps
  <2>2. Looping(K, at + 1) => Looping(K, at)
    BY <1>5 DEF SameLoop
  <2> QED BY <1>4, <1>5, <2>1, <2>2, PlainBecomes
<1>8. Leads(A, code, f, b, K, at, Own(f), op, 0, Moved(f))
  <2>1. Flows(A, op, Len(code) + 1, PlaceOf(f, b), PlaceAt(K, at + 1, Own(f), b))
    BY DEF Flows, op, Taking, Setups
  <2>2. K = "def" /\ at = 3 => op = "RETURN_VALUE"
    BY <1>2
  <2> QED BY <1>4, <1>5, <2>1, <2>2, PlainLeads
<1>9. Emitting(K, at)
  BY <1>2 DEF Emitting
<1>10. begin = BeginAt(K, at + 1, b)
  BY <1>4, <1>5 DEF NowAt, SameLoop, BeginAt
<1>11. PutAt(work, Len(work), Moved(f), work')
  BY <1>2, <1>3
<1>12. \E A2, B2 : CompileOK(A2, B2, code', block, begin, level, max, work')
  <2>1. op \in Ops /\ 0 \in Nat /\ Own(f) \in Nat /\ begin \in Nat /\ SameBlock(K, at, b)
    BY <1>4, <1>5 DEF op, Ops
  <2>2. AddedInstr(code, op, 0, code')
    BY <1>3
  <2> QED BY <1>1, <1>2, <1>6, <1>7, <1>8, <1>9, <1>10, <1>11, <2>1, <2>2, EmitStep
<1> QED BY <1>3, <1>12 DEF Compiling

LEMMA ContinueStep ==
  ASSUME NEW A, NEW B, Compiling(A, B), ContinueStmt, ~error'
  PROVE  \E A2, B2 : Compiling(A2, B2)'
<1> DEFINE f == Call
           b == B[Len(work)]
           K == Kind(f.s)
           at == f.at
           op == "JUMP_ABSOLUTE"
<1>1. CompileOK(A, B, code, block, begin, level, max, work)
  BY DEF Compiling
<1>2. /\ Current(work, B, f, b, K, at) /\ K = "continue" /\ at = 1
      /\ PutAt(work, Len(work), Moved(f), Advanced)
  BY DoingIs DEF ContinueStmt, CallOf
<1>3. /\ AddedInstr(code, op, begin, code') /\ work' = Advanced /\ begin' = begin
      /\ block' = block /\ level' = level /\ max' = max
      /\ block # <<>> /\ block[Len(block)] = "SETUP_LOOP"
  BY DEF ContinueStmt, Continues, Emit, AddedInstr, AddedTo
<1> HIDE DEF f, b, K, at, op
<1>4. /\ b \in Bases /\ FrameOK(A, code, max, f, b) /\ NowAt(A, code, block, begin, level, f, b)
      /\ K = Kind(f.s) /\ at = f.at /\ at \in 1 .. Len(Calls(f.s)) /\ Own(f) \in Nat
      /\ begin \in Nat /\ level \in Nat /\ max \in Nat /\ level <= max /\ Len(code) \in Nat
  BY <1>1, <1>2, CurrentIs
<1>5. /\ SameBlock(K, at, b) /\ SameLoop(K, at) /\ SameLevel(K, at) /\ SameOpen(K, at)
      /\ SameOwed(K, at)
  BY <1>2, StillRows
<1>6. Rises(b, K, at, level, max, max)
  BY <1>4, <1>5 DEF Rises, NowAt, FrameOK, SameLevel
<1>7. begin # 0 /\ begin \in 1 .. Len(code) + 1 /\ A[begin] = PlaceOf(f, b)
  <2>1. /\ PlaceAt(K, 1, Own(f), b) = BasePlace(b) /\ BlockAt(K, 1, b) = b.block
        /\ BeginAt(K, 1, b) = b.begin
    BY StartOfCall
  <2>2. PlaceOf(f, b) = BasePlace(b) /\ block = b.block /\ begin = b.begin
    BY <1>2, <1>4, <2>1 DEF PlaceOf, NowAt
  <2>3. BaseOK(A, code, b)
    BY <1>4 DEF FrameOK
  <2> QED BY <1>3, <1>4, <2>2, <2>3 DEF BaseOK
<1>8. Becomes(code, f, K, at, Own(f), op, begin, Moved(f))
  <2>1. at <= Len(Calls(f.s)) /\ (op \notin Aiming \/ begin # 0)
    BY <1>4, <1>7
  <2>2. Looping(K, at + 1) => Looping(K, at)
    BY <1>5 DEF SameLoop
  <2> QED BY <1>4, <1>5, <2>1, <2>2, PlainBecomes
<1>9. Leads(A, code, f, b, K, at, Own(f), op, begin, Moved(f))
  <2>1. Flows(A, op, Len(code) + 1, PlaceOf(f, b), PlaceAt(K, at + 1, Own(f), b))
    BY DEF Flows, op, Taking, Setups
  <2>2. begin # 0 => begin \in 1 .. Len(code) + 1 /\ Aims(op, PlaceOf(f, b), A[begin])
    BY <1>7 DEF Aims, op
  <2>3. K = "def" /\ at = 3 => op = "RETURN_VALUE"
    BY <1>2
  <2> QED BY <1>4, <1>5, <2>1, <2>2, <2>3, PlainLeads
<1>10. Emitting(K, at)
  BY <1>2 DEF Emitting
<1>11. begin = BeginAt(K, at + 1, b)
  BY <1>4, <1>5 DEF NowAt, SameLoop, BeginAt
<1>12. PutAt(work, Len(work), Moved(f), work')
  BY <1>2, <1>3
<1>13. \E A2, B2 : CompileOK(A2, B2, code', block, begin, level, max, work')
  <2>1. op \in Ops /\ begin \in Nat /\ Own(f) \in Nat /\ SameBlock(K, at, b)
    BY <1>4, <1>5 DEF op, Ops, Aiming, Jumps
  <2>2. AddedInstr(code, op, begin, code')
    BY <1>3
  <2> QED BY <1>1, <1>2, <1>6, <1>8, <1>9, <1>10, <1>11, <1>12, <2>1, <2>2, EmitStep
<1> QED BY <1>3, <1>13 DEF Compiling

\* A call has an instruction for one of its anchors.
Anchored(f, n, k) == [f EXCEPT !.at = f.at + 1, !.anchor[n] = k]

LEMMA AnchoredIs ==
  ASSUME NEW f, IsCall(f), f.at <= Len(Calls(f.s)), NEW n \in Anchors, NEW k \in Nat
  PROVE  LET g == Anchored(f, n, k)
         IN /\ IsCall(g) /\ g.s = f.s /\ g.at = f.at + 1 /\ g.begin = f.begin
            /\ g.anchor[n] = k /\ \A i \in Anchors : i # n => g.anchor[i] = f.anchor[i]
<1> PICK s, at, anchor, begin0 :
      f = [s |-> s, at |-> at, anchor |-> anchor, begin |-> begin0]
  BY DEF IsCall
<1>1. Anchored(f, n, k) =
        [s |-> s, at |-> at + 1, anchor |-> [anchor EXCEPT ![n] = k], begin |-> begin0]
  <2>1. Anchored(f, n, k) = [f EXCEPT !.at = f.at + 1, !.anchor = [f.anchor EXCEPT ![n] = k]]
    BY DEF Anchored
  <2> QED BY <2>1
<1>2. at \in 1 .. Len(Calls(s)) + 1 /\ anchor \in [Anchors -> Nat] /\ at <= Len(Calls(s))
  BY DEF IsCall
<1>3. at + 1 \in 1 .. Len(Calls(s)) + 1 /\ [anchor EXCEPT ![n] = k] \in [Anchors -> Nat]
  BY <1>2
<1>4. /\ [anchor EXCEPT ![n] = k][n] = k
      /\ \A i \in Anchors : i # n => [anchor EXCEPT ![n] = k][i] = anchor[i]
  BY <1>2
<1> QED BY <1>1, <1>2, <1>3, <1>4 DEF IsCall

LEMMA AddFwrefStep ==
  ASSUME NEW A, NEW B, Compiling(A, B), AddFwref
  PROVE  \E A2, B2 : Compiling(A2, B2)'
<1> DEFINE f == Call
           b == B[Len(work)]
           K == Kind(f.s)
           at == f.at
           op == Op.op
           n == Op.anchor
           g == Anchored(f, n, Len(code) + 1)
<1>1. CompileOK(A, B, code, block, begin, level, max, work)
  BY DEF Compiling
<1>2. Current(work, B, f, b, K, at) /\ <<K, at, op, n>> \in FwrefsOf
  BY DoingIs DEF AddFwref, CallOf
<1>3. /\ AddedInstr(code, op, 0, code') /\ block' = block /\ begin' = begin
      /\ level' = level /\ max' = max
      /\ work' = [work EXCEPT ![Len(work)] = g]
  BY DEF AddFwref, Emit, AddedInstr, AddedTo, Anchored, Here, Call
<1>4. Len(work) \in 1 .. Len(work)
  BY <1>1, Innermost
<1>5. PutAt(work, Len(work), g, work')
  BY <1>3, <1>4 DEF PutAt
<1>6. g = Anchored(f, n, Len(code) + 1)
  OBVIOUS
<1> HIDE DEF f, b, K, at, op, n, g
<1>7. /\ b \in Bases /\ FrameOK(A, code, max, f, b) /\ NowAt(A, code, block, begin, level, f, b)
      /\ K = Kind(f.s) /\ at = f.at /\ at \in 1 .. Len(Calls(f.s)) /\ Own(f) \in Nat /\ IsCall(f)
      /\ begin \in Nat /\ level \in Nat /\ max \in Nat /\ level <= max /\ Len(code) \in Nat
  BY <1>1, <1>2, CurrentIs
<1>8. /\ op \in Aiming /\ op \in Ops /\ n \in Anchors
      /\ SameBlock(K, at, b) /\ SameLoop(K, at) /\ SameLevel(K, at)
      /\ \A i \in Anchors : Owes(K, at + 1, i) <=> (Owes(K, at, i) \/ i = n)
      /\ ~Owes(K, at, n)
      /\ op \in Setups => at = 1 /\ n = "block" /\ Opened(K, 2)
      /\ op \notin Setups => n # "block" /\ SameOpen(K, at)
  BY <1>2, <1>7, FwrefRows
<1>9. /\ IsCall(g) /\ g.s = f.s /\ g.at = at + 1 /\ g.begin = f.begin
      /\ g.anchor[n] = Len(code) + 1 /\ \A i \in Anchors : i # n => g.anchor[i] = f.anchor[i]
  <2>1. f.at <= Len(Calls(f.s)) /\ Len(code) + 1 \in Nat
    BY <1>7
  <2> QED BY <1>6, <1>7, <1>8, <2>1, AnchoredIs
<1>10. /\ op \in Setups => Own(g) = Len(code) + 1
       /\ op \notin Setups => Own(g) = Own(f)
  BY <1>8, <1>9 DEF Own, Anchors
<1>11. Own(g) \in Nat
  BY <1>7, <1>10
<1>12. Rises(b, K, at, level, max, max)
  BY <1>7, <1>8 DEF Rises, NowAt, FrameOK, SameLevel
<1>13. Becomes(code, f, K, at, Own(g), op, 0, g)
  <2>1. op \in Setups => \A i \in Anchors : ~Owes(K, at, i) /\ ~Looping(K, at)
    BY <1>8, StartOfCall
  <2>2. Looping(K, at + 1) => Looping(K, at) /\ Own(g) = Own(f)
    <3>1. Looping(K, at + 1) => Looping(K, at)
      BY <1>8 DEF SameLoop
    <3>2. op \in Setups => ~Looping(K, at)
      BY <1>8, StartOfCall
    <3> QED BY <1>10, <3>1, <3>2
  <2>3. \A i \in Anchors : Owes(K, at, i) =>
          Own(g) = Own(f) /\ Owes(K, at + 1, i) /\ g.anchor[i] = f.anchor[i]
    BY <1>8, <1>9, <1>10, <2>1
  <2>4. Owes(K, at + 1, n) /\ g.anchor[n] = Len(code) + 1 /\ n \in Anchors
    BY <1>8, <1>9
  <2> QED BY <1>9, <2>2, <2>3, <2>4 DEF Becomes
<1>14. Leads(A, code, f, b, K, at, Own(g), op, 0, g)
  <2>1. /\ Flows(A, op, Len(code) + 1, PlaceAt(K, at, Own(g), b), PlaceAt(K, at + 1, Own(g), b))
        /\ Aims(op, PlaceAt(K, at, Own(g), b), Lands(K, Own(g), b, n))
    <3>1. Len(code) + 1 \in Nat
      BY <1>7
    <3> QED BY <1>2, <1>7, <1>10, <1>11, <3>1, FwrefFlows
  <2>2. PlaceAt(K, at, Own(g), b) = PlaceOf(f, b)
    <3>1. CASE op \in Setups
      <4>1. PlaceAt(K, 1, Own(g), b) = BasePlace(b) /\ PlaceAt(K, 1, Own(f), b) = BasePlace(b)
        BY StartOfCall
      <4> QED BY <1>7, <1>8, <3>1, <4>1 DEF PlaceOf
    <3>2. CASE op \notin Setups
      BY <1>7, <1>10, <3>2 DEF PlaceOf
    <3> QED BY <3>1, <3>2
  <2>3. Opened(K, at + 1) =>
          \/ Owner(A, code, Own(g), b)
          \/ Own(g) = Len(code) + 1 /\ op \in Setups /\ PlaceOf(f, b) = BasePlace(b)
    <3>1. CASE op \in Setups
      <4>1. PlaceAt(K, 1, Own(g), b) = BasePlace(b)
        BY StartOfCall
      <4> QED BY <1>8, <1>10, <2>2, <3>1, <4>1
    <3>2. CASE op \notin Setups
      <4>1. Opened(K, at + 1) => Opened(K, at)
        BY <1>8, <3>2 DEF SameOpen
      <4>2. Opened(K, at) => Owner(A, code, Own(f), b)
        BY <1>7 DEF FrameOK, OpenOK, Owner
      <4> QED BY <1>10, <3>2, <4>1, <4>2
    <3> QED BY <3>1, <3>2
  <2>4. ASSUME NEW i \in Anchors, Owes(K, at + 1, i), ~Owes(K, at, i)
        PROVE  g.anchor[i] = Len(code) + 1 /\ Aims(op, PlaceOf(f, b), Lands(K, Own(g), b, i))
    <3>1. i = n
      BY <1>8, <2>4
    <3> QED BY <1>9, <2>1, <2>2, <3>1
  <2>5. K = "def" /\ at = 3 => op = "RETURN_VALUE"
    BY <1>2 DEF FwrefsOf
  <2> QED BY <2>1, <2>2, <2>3, <2>4, <2>5 DEF Leads
<1>15. Emitting(K, at)
  BY <1>2 DEF Emitting
<1>16. begin = BeginAt(K, at + 1, b)
  BY <1>7, <1>8 DEF NowAt, SameLoop, BeginAt
<1>17. \E A2, B2 : CompileOK(A2, B2, code', block, begin, level, max, work')
  <2>1. op \in Ops /\ 0 \in Nat /\ begin \in Nat /\ SameBlock(K, at, b)
    BY <1>7, <1>8
  <2>2. AddedInstr(code, op, 0, code')
    BY <1>3
  <2> QED BY <1>1, <1>2, <1>5, <1>11, <1>12, <1>13, <1>14, <1>15, <1>16, <2>1, <2>2, EmitStep
<1> QED BY <1>3, <1>17 DEF Compiling

LEMMA BackpatchStep ==
  ASSUME NEW A, NEW B, Compiling(A, B), Backpatch
  PROVE  \E A2, B2 : Compiling(A2, B2)'
<1> DEFINE f == Call
           b == B[Len(work)]
           K == Kind(f.s)
           at == f.at
           n == Op.anchor
           k == f.anchor[n]
<1>1. CompileOK(A, B, code, block, begin, level, max, work)
  BY DEF Compiling
<1>2. /\ Current(work, B, f, b, K, at) /\ <<K, at, n>> \in PatchesOf
      /\ PutAt(work, Len(work), Moved(f), Advanced)
  BY DoingIs DEF Backpatch, CallOf
<1>3. /\ Patched(code, k, code') /\ work' = Advanced /\ block' = block /\ begin' = begin
      /\ level' = level /\ max' = max
  BY DEF Backpatch, Patched, Here
<1>4. PutAt(work, Len(work), Moved(f), work')
  BY <1>2, <1>3
<1>5. k = f.anchor[n]
  OBVIOUS
<1> HIDE DEF f, b, K, at, n, k
<1>6. \E A2, B2 : CompileOK(A2, B2, code', block, begin, level, max, work')
  <2>1. Patched(code, k, code')
    BY <1>3
  <2> QED BY <1>1, <1>2, <1>4, <1>5, <2>1, PatchStep
<1> QED BY <1>3, <1>6 DEF Compiling

LEMMA ChangeLevelStep ==
  ASSUME NEW A, NEW B, Compiling(A, B), ChangeLevel
  PROVE  \E A2, B2 : Compiling(A2, B2)'
<1> DEFINE f == Call
           b == B[Len(work)]
           K == Kind(f.s)
           at == f.at
           n == Op.n
<1>1. CompileOK(A, B, code, block, begin, level, max, work)
  BY DEF Compiling
<1>2. /\ Current(work, B, f, b, K, at) /\ <<K, at, n>> \in LevelsOf
      /\ PutAt(work, Len(work), Moved(f), Advanced)
  BY DoingIs DEF ChangeLevel, CallOf
<1>3. /\ code' = code /\ work' = Advanced /\ block' = block /\ begin' = begin
      /\ level' = IF level + n < 0 THEN 0 ELSE level + n
      /\ max' = IF level' > max THEN level' ELSE max
  BY DEF ChangeLevel, SetLevel, Shifted
<1> HIDE DEF f, b, K, at, n
<1>4. /\ b \in Bases /\ FrameOK(A, code, max, f, b) /\ NowAt(A, code, block, begin, level, f, b)
      /\ K = Kind(f.s) /\ at = f.at /\ block \in Seq(BlockTypes) /\ Len(block) <= MaxBlocks
      /\ begin \in Nat /\ level \in Nat /\ max \in Nat /\ level <= max
  BY <1>1, <1>2, CurrentIs
<1>5. /\ n \in Int /\ SamePlace(K, at, Own(f), b) /\ SameBlock(K, at, b) /\ SameLoop(K, at)
      /\ SameOpen(K, at) /\ SameOwed(K, at) /\ Climbs(K, at, n)
  BY <1>2, LevelRows
<1>6. Rises(b, K, at, level', max, max')
  BY <1>3, <1>4, <1>5, RisesBy
<1>7. Stays(code, f, b, b, K, at)
  <2>1. K # "def"
    BY <1>2 DEF LevelsOf
  <2> QED BY <1>4, <1>5, <2>1 DEF Stays, SameBase, SameLoop
<1>8. block = BlockAt(K, at + 1, b) /\ begin = BeginAt(K, at + 1, b)
  BY <1>4, <1>5 DEF NowAt, SameBlock, SameLoop, BeginAt
<1>9. PutAt(work, Len(work), Moved(f), work')
  BY <1>2, <1>3
<1>10. \E A2, B2 : CompileOK(A2, B2, code, block, begin, level', max', work')
  BY <1>1, <1>2, <1>4, <1>6, <1>7, <1>8, <1>9, StillStep
<1> QED BY <1>3, <1>10 DEF Compiling

LEMMA BlockPushStep ==
  ASSUME NEW A, NEW B, Compiling(A, B), BlockPush, ~error'
  PROVE  \E A2, B2 : Compiling(A2, B2)'
<1> DEFINE f == Call
           b == B[Len(work)]
           K == Kind(f.s)
           at == f.at
           t == Op.type
           more == Append(block, t)
<1>1. CompileOK(A, B, code, block, begin, level, max, work)
  BY DEF Compiling
<1>2. /\ Current(work, B, f, b, K, at) /\ <<K, at, t>> \in PushesOf
      /\ PutAt(work, Len(work), Moved(f), Advanced)
  BY DoingIs DEF BlockPush, CallOf
<1>3. /\ code' = code /\ work' = Advanced /\ begin' = begin /\ level' = level /\ max' = max
      /\ block' = more /\ ~(Len(block) >= MaxBlocks)
  BY DEF BlockPush
<1>0. more = Append(block, t)
  OBVIOUS
<1> HIDE DEF f, b, K, at, t, more
<1>4. /\ b \in Bases /\ FrameOK(A, code, max, f, b) /\ NowAt(A, code, block, begin, level, f, b)
      /\ K = Kind(f.s) /\ at = f.at /\ block \in Seq(BlockTypes) /\ Len(block) <= MaxBlocks
      /\ begin \in Nat /\ level \in Nat /\ max \in Nat /\ level <= max
  BY <1>1, <1>2, CurrentIs
<1>5. /\ t \in BlockTypes /\ SamePlace(K, at, Own(f), b) /\ SameLoop(K, at)
      /\ SameLevel(K, at) /\ SameOpen(K, at) /\ SameOwed(K, at)
      /\ BlockAt(K, at + 1, b) = Append(BlockAt(K, at, b), t)
  BY <1>2, PushRows
<1>6. Rises(b, K, at, level, max, max)
  BY <1>4, <1>5 DEF Rises, NowAt, FrameOK, SameLevel
<1>7. Stays(code, f, b, b, K, at)
  <2>1. K # "def"
    BY <1>2 DEF PushesOf
  <2> QED BY <1>4, <1>5, <2>1 DEF Stays, SameBase, SameLoop
<1>8. more = BlockAt(K, at + 1, b) /\ begin = BeginAt(K, at + 1, b)
  BY <1>0, <1>4, <1>5 DEF NowAt, SameLoop, BeginAt
<1>9. more \in Seq(BlockTypes) /\ Len(more) <= MaxBlocks
  BY <1>0, <1>3, <1>4, <1>5, BlocksAssumption
<1>10. PutAt(work, Len(work), Moved(f), work')
  BY <1>2, <1>3
<1>11. \E A2, B2 : CompileOK(A2, B2, code, more, begin, level, max, work')
  BY <1>1, <1>2, <1>4, <1>6, <1>7, <1>8, <1>9, <1>10, StillStep
<1> QED BY <1>3, <1>11 DEF Compiling

LEMMA BlockPopStep ==
  ASSUME NEW A, NEW B, Compiling(A, B), BlockPop
  PROVE  \E A2, B2 : Compiling(A2, B2)'
<1> DEFINE f == Call
           b == B[Len(work)]
           K == Kind(f.s)
           at == f.at
           t == Op.type
           less == SubSeq(block, 1, Len(block) - 1)
<1>1. CompileOK(A, B, code, block, begin, level, max, work)
  BY DEF Compiling
<1>2. /\ Current(work, B, f, b, K, at) /\ <<K, at, t>> \in PopsOf
      /\ PutAt(work, Len(work), Moved(f), Advanced)
  BY DoingIs DEF BlockPop, CallOf
<1>3. /\ code' = code /\ work' = Advanced /\ begin' = begin /\ level' = level /\ max' = max
      /\ block' = less
  BY DEF BlockPop
<1>0. less = SubSeq(block, 1, Len(block) - 1)
  OBVIOUS
<1> HIDE DEF f, b, K, at, t, less
<1>4. /\ b \in Bases /\ FrameOK(A, code, max, f, b) /\ NowAt(A, code, block, begin, level, f, b)
      /\ K = Kind(f.s) /\ at = f.at /\ block \in Seq(BlockTypes) /\ Len(block) <= MaxBlocks
      /\ begin \in Nat /\ level \in Nat /\ max \in Nat /\ level <= max
  BY <1>1, <1>2, CurrentIs
<1>5. /\ t \in BlockTypes /\ SamePlace(K, at, Own(f), b) /\ SameLoop(K, at)
      /\ SameLevel(K, at) /\ SameOpen(K, at) /\ SameOwed(K, at)
      /\ BlockAt(K, at, b) = Append(BlockAt(K, at + 1, b), t)
  BY <1>2, PopRows
<1>6. Rises(b, K, at, level, max, max)
  BY <1>4, <1>5 DEF Rises, NowAt, FrameOK, SameLevel
<1>7. Stays(code, f, b, b, K, at)
  <2>1. K # "def"
    BY <1>2 DEF PopsOf
  <2> QED BY <1>4, <1>5, <2>1 DEF Stays, SameBase, SameLoop
<1>8. /\ less = BlockAt(K, at + 1, b) /\ begin = BeginAt(K, at + 1, b)
      /\ less \in Seq(BlockTypes) /\ Len(less) <= MaxBlocks
  <2>1. b.block \in Seq(BlockTypes)
    BY <1>4 DEF Bases
  <2>2. BlockAt(K, at + 1, b) \in Seq(BlockTypes)
    BY <2>1 DEF BlockAt, BlockTypes, Setups
  <2>3. block = Append(BlockAt(K, at + 1, b), t)
    BY <1>4, <1>5 DEF NowAt
  <2>4. less = BlockAt(K, at + 1, b) /\ Len(less) <= Len(block)
    BY <1>0, <1>5, <2>2, <2>3
  <2>5. begin = BeginAt(K, at + 1, b)
    BY <1>4, <1>5 DEF NowAt, SameLoop, BeginAt
  <2>6. Len(less) <= MaxBlocks
    BY <1>4, <2>2, <2>4, BlocksAssumption
  <2> QED BY <2>2, <2>4, <2>5, <2>6
<1>9. PutAt(work, Len(work), Moved(f), work')
  BY <1>2, <1>3
<1>10. \E A2, B2 : CompileOK(A2, B2, code, less, begin, level, max, work')
  BY <1>1, <1>2, <1>4, <1>6, <1>7, <1>8, <1>9, StillStep
<1> QED BY <1>3, <1>10 DEF Compiling

LEMMA BeginLoopStep ==
  ASSUME NEW A, NEW B, Compiling(A, B), BeginLoop
  PROVE  \E A2, B2 : Compiling(A2, B2)'
<1> DEFINE f == Call
           b == B[Len(work)]
           K == Kind(f.s)
           at == f.at
           here == Len(code) + 1
           b2 == [b EXCEPT !.loop = here]
<1>1. CompileOK(A, B, code, block, begin, level, max, work)
  BY DEF Compiling
<1>2. /\ Current(work, B, f, b, K, at) /\ <<K, at>> \in BeginsOf
      /\ PutAt(work, Len(work), Moved(f), Advanced)
  BY DoingIs DEF BeginLoop, CallOf
<1>3. /\ code' = code /\ work' = Advanced /\ begin' = here /\ level' = level /\ max' = max
      /\ block' = block
  BY DEF BeginLoop, Here
<1>0. here = Len(code) + 1 /\ b2 = [b EXCEPT !.loop = here]
  OBVIOUS
<1> HIDE DEF f, b, K, at, here, b2
<1>4. /\ b \in Bases /\ FrameOK(A, code, max, f, b) /\ NowAt(A, code, block, begin, level, f, b)
      /\ K = Kind(f.s) /\ at = f.at /\ block \in Seq(BlockTypes) /\ Len(block) <= MaxBlocks
      /\ begin \in Nat /\ level \in Nat /\ max \in Nat /\ level <= max /\ Len(code) \in Nat
  BY <1>1, <1>2, CurrentIs
<1>5. /\ SamePlace(K, at, Own(f), b) /\ SameBlock(K, at, b) /\ SameLevel(K, at)
      /\ SameOpen(K, at) /\ SameOwed(K, at) /\ ~Looping(K, at) /\ Looping(K, at + 1)
      /\ LoopPlace(K, Own(f), b) = PlaceAt(K, at, Own(f), b)
  BY <1>2, BeginRows
<1>6. Rises(b, K, at, level, max, max)
  BY <1>4, <1>5 DEF Rises, NowAt, FrameOK, SameLevel
<1>7. b2 \in Bases /\ SameBase(b, b2) /\ b2.loop = here /\ here \in Nat
  <2>1. here \in Nat
    BY <1>0, <1>4
  <2>2. PICK x \in Seq(Cells), y \in Seq(Nat), z \in Seq(BlockTypes), u \in Nat, v \in Nat :
          b = [shape |-> x, blks |-> y, block |-> z, begin |-> u, loop |-> v]
    BY <1>4 DEF Bases
  <2>3. b2 = [shape |-> x, blks |-> y, block |-> z, begin |-> u, loop |-> here]
    BY <1>0, <2>2
  <2>4. b2 \in Bases
    BY <2>1, <2>3 DEF Bases
  <2> QED BY <2>1, <2>2, <2>3, <2>4 DEF SameBase
<1>8. Stays(code, f, b, b2, K, at)
  <2>1. K # "def"
    BY <1>2 DEF BeginsOf
  <2>2. b2.loop = Len(code) + 1 /\ LoopPlace(K, Own(f), b) = PlaceOf(f, b)
    BY <1>0, <1>4, <1>5, <1>7 DEF PlaceOf
  <2> QED BY <1>5, <1>7, <2>1, <2>2 DEF Stays
<1>9. block = BlockAt(K, at + 1, b) /\ here = BeginAt(K, at + 1, b2)
  BY <1>4, <1>5, <1>7 DEF NowAt, SameBlock, BeginAt
<1>10. PutAt(work, Len(work), Moved(f), work')
  BY <1>2, <1>3
<1>11. \E A2, B2 : CompileOK(A2, B2, code, block, here, level, max, work')
  BY <1>1, <1>2, <1>4, <1>6, <1>7, <1>8, <1>9, <1>10, StillStep
<1> QED BY <1>3, <1>11 DEF Compiling

LEMMA EnterLoopStep ==
  ASSUME NEW A, NEW B, Compiling(A, B), EnterLoop
  PROVE  \E A2, B2 : Compiling(A2, B2)'
<1> DEFINE f == Call
           b == B[Len(work)]
           K == Kind(f.s)
           at == f.at
<1>1. CompileOK(A, B, code, block, begin, level, max, work)
  BY DEF Compiling
<1>2. /\ Current(work, B, f, b, K, at) /\ <<K, at>> \in LoopsOf
      /\ PutAt(work, Len(work), Moved(f), Advanced)
  BY DoingIs DEF EnterLoop, CallOf
<1>3. /\ code' = code /\ work' = Advanced /\ begin' = begin /\ level' = level /\ max' = max
      /\ block' = block
  BY DEF EnterLoop
<1> HIDE DEF f, b, K, at
<1>4. /\ b \in Bases /\ FrameOK(A, code, max, f, b) /\ NowAt(A, code, block, begin, level, f, b)
      /\ K = Kind(f.s) /\ at = f.at /\ block \in Seq(BlockTypes) /\ Len(block) <= MaxBlocks
      /\ begin \in Nat /\ level \in Nat /\ max \in Nat /\ level <= max
  BY <1>1, <1>2, CurrentIs
<1>5. /\ SamePlace(K, at, Own(f), b) /\ SameBlock(K, at, b) /\ SameLoop(K, at)
      /\ SameLevel(K, at) /\ SameOpen(K, at) /\ SameOwed(K, at)
      /\ K = "def" => at = 1
  BY <1>2, StillRows
<1>6. Rises(b, K, at, level, max, max)
  BY <1>4, <1>5 DEF Rises, NowAt, FrameOK, SameLevel
<1>7. Stays(code, f, b, b, K, at)
  BY <1>4, <1>5 DEF Stays, SameBase, SameLoop
<1>8. block = BlockAt(K, at + 1, b) /\ begin = BeginAt(K, at + 1, b)
  BY <1>4, <1>5 DEF NowAt, SameBlock, SameLoop, BeginAt
<1>9. PutAt(work, Len(work), Moved(f), work')
  BY <1>2, <1>3
<1>10. \E A2, B2 : CompileOK(A2, B2, code, block, begin, level, max, work')
  BY <1>1, <1>2, <1>4, <1>6, <1>7, <1>8, <1>9, StillStep
<1> QED BY <1>3, <1>10 DEF Compiling

LEMMA NodeCallStep ==
  ASSUME NEW A, NEW B, Compiling(A, B), NodeCall
  PROVE  \E A2, B2 : Compiling(A2, B2)'
<1> DEFINE f == Call
           b == B[Len(work)]
           K == Kind(f.s)
           at == f.at
           s2 == Op.s
<1>1. CompileOK(A, B, code, block, begin, level, max, work)
  BY DEF Compiling
<1>2. Current(work, B, f, b, K, at) /\ <<K, at>> \in PartsOf
  BY DoingIs DEF NodeCall, CallOf
<1>3. AtPart(f)
  BY DEF NodeCall, Doing, AtPart
<1>4. /\ AddedTo(work, Called(s2, begin), work') /\ code' = code /\ begin' = begin
      /\ level' = level /\ max' = max /\ block' = block
  BY DEF NodeCall, AddedTo, Called, Node, compiling
<1> HIDE DEF f, b, K, at, s2
<1>5. \E A2, B2 : CompileOK(A2, B2, code, block, begin, level, max, work')
  <2>1. AddedTo(work, Called(s2, begin), work')
    BY <1>4
  <2> QED BY <1>1, <1>2, <1>3, <2>1, CallStep
<1> QED BY <1>4, <1>5 DEF Compiling

\* After the last return the code is complete.
LEMMA NodeReturnStep ==
  ASSUME NEW A, NEW B, Compiling(A, B), NodeReturn
  PROVE  /\ work' # <<>> => \E A2, B2 : Compiling(A2, B2)'
         /\ work' = <<>> => Complete(A, code', max')
<1> DEFINE rest == SubSeq(work, 1, Len(work) - 1)
<1>1. CompileOK(A, B, code, block, begin, level, max, work)
  BY DEF Compiling
<1>2. IsSeq(work) /\ work # <<>> /\ Len(work) \in 1 .. Len(work)
  BY <1>1, Innermost
<1>3. /\ work[Len(work)].at = Len(Calls(work[Len(work)].s)) + 1
      /\ code' = code /\ begin' = begin /\ level' = level /\ max' = max /\ block' = block
      /\ work' = IF rest = <<>> THEN <<>> ELSE [rest EXCEPT ![Len(rest)].at = @ + 1]
  BY DEF NodeReturn, Call, compiling
<1>4. FrontOf(work, rest)
  BY <1>2 DEF FrontOf
<1> HIDE DEF rest
<1>5. IsSeq(rest) /\ Len(rest) = Len(work) - 1
  BY <1>2, <1>4, SeqFront
<1>6. CASE Len(work) = 1
  <2>1. Complete(A, code, max)
    BY <1>1, <1>3, <1>6, LastReturn
  <2>2. rest = <<>>
    BY <1>5, <1>6 DEF IsSeq
  <2> QED BY <1>3, <2>1, <2>2
<1>7. CASE Len(work) # 1
  <2>1. rest # <<>> /\ Len(rest) \in 1 .. Len(rest)
    BY <1>2, <1>5, <1>7
  <2>2. work' = [rest EXCEPT ![Len(rest)] = Moved(rest[Len(rest)])]
    BY <1>3, <2>1 DEF Moved
  <2>3. PutAt(rest, Len(rest), Moved(rest[Len(rest)]), work')
    BY <2>1, <2>2 DEF PutAt
  <2>4. \E A2, B2 : CompileOK(A2, B2, code, block, begin, level, max, work')
    <3>1. work[Len(work)].at = Len(Calls(work[Len(work)].s)) + 1
      BY <1>3
    <3> QED BY <1>1, <1>4, <1>7, <2>3, <3>1, ReturnStep
  <2>5. work' # <<>>
    BY <2>1, <2>2, <2>3, <1>5, SeqPut
  <2> QED BY <1>3, <2>4, <2>5 DEF Compiling
<1> QED BY <1>6, <1>7

-----------------------------------------------------------------------------
(* The invariant of a running frame: the value stack has the cells of the     *)
(* place of the next instruction, and the blocks have their instructions.     *)

\* A cell of values number lo + 1 to hi of the stack.
Holds(kind, st, lo, hi) ==
  CASE kind = "value" -> hi = lo + 1
    [] kind = "exc" -> hi = lo + 1 /\ st[hi].is = "exception"
    [] kind = "why" -> \/ hi = lo + 1 /\ st[hi].is \in {"None", "break"}
                       \/ hi = lo + 2 /\ st[hi].is = "return"
                       \/ hi = lo + 3 /\ st[hi].is = "exception"

\* p gives the height of the value stack at the top of each cell.
Fits(st, sh, p) ==
  /\ IsSeq(st) /\ p \in [0 .. Len(sh) -> Nat] /\ p[0] = 0 /\ p[Len(sh)] = Len(st)
  /\ \A i \in 1 .. Len(sh) : p[i] <= sh[i].top /\ Holds(sh[i].kind, st, p[i - 1], p[i])
  /\ \A i, j \in 0 .. Len(sh) : i <= j => p[i] <= p[j]

Block(A, c, p, k) ==
  [type |-> c[k].op, level |-> p[Len(A[k].shape)], handler |-> c[k].arg]

BlocksAt(A, c, p, bl, blks) ==
  IsSeq(bl) /\ Len(bl) = Len(blks) /\ \A i \in 1 .. Len(bl) : bl[i] = Block(A, c, p, blks[i])
Placed(A, c, p, st, bl, a) == Fits(st, a.shape, p) /\ BlocksAt(A, c, p, bl, a.blks)

\* The cells of a shape of n cells stay where they are.
Same(p, q, n) == \A i \in 0 .. n : q[i] = p[i]

\* With these, the frame is at a place of the code.
Sits(A, c, st, bl, a) ==
  a \in Places /\ Nested(A, c, a) /\ \E p : Placed(A, c, p, st, bl, a)

-----------------------------------------------------------------------------
(* Stacks cut and joined. *)

CutAt(w, n, v) == n \in 0 .. Len(w) /\ v = SubSeq(w, 1, n)
JoinOf(w, v, u) == u = w \o v

LEMMA SeqCut ==
  ASSUME NEW w, IsSeq(w), NEW n, NEW v, CutAt(w, n, v)
  PROVE  IsSeq(v) /\ Len(v) = n /\ \A i \in 1 .. n : v[i] = w[i]
<1> DEFINE S == {w[i] : i \in 1 .. Len(w)}
<1>1. w \in Seq(S)
  <2>1. \A i \in 1 .. Len(w) : w[i] \in S OBVIOUS
  <2> QED BY <2>1, SeqIs
<1> HIDE DEF S
<1>2. n \in Nat /\ n <= Len(w) /\ 1 \in Int
  BY <1>1 DEF CutAt
<1>3. v = [i \in 1 .. n |-> w[i]]
  BY <1>1, <1>2 DEF CutAt
<1>4. v \in [1 .. n -> S]
  <2>1. \A i \in 1 .. n : w[i] \in S
    BY <1>1, <1>2
  <2> QED BY <1>3, <2>1
<1>5. v \in Seq(S)
  BY <1>2, <1>4
<1>6. Len(v) \in Nat /\ DOMAIN v = 1 .. Len(v) /\ DOMAIN v = 1 .. n
  BY <1>4, <1>5
<1>7. Len(v) = n
  <2>1. n \in Nat
    BY <1>2
  <2>2. \A i \in Nat : 1 .. i = 1 .. n => i = n
    BY <2>1
  <2> QED BY <1>6, <2>2
<1>8. IsSeq(v)
  BY <1>5, IsSeqOf
<1> QED BY <1>3, <1>7, <1>8

LEMMA SeqJoin ==
  ASSUME NEW w, IsSeq(w), NEW v, IsSeq(v), NEW u, JoinOf(w, v, u)
  PROVE  /\ IsSeq(u) /\ Len(u) = Len(w) + Len(v)
         /\ \A i \in 1 .. Len(w) : u[i] = w[i]
         /\ \A i \in 1 .. Len(v) : u[Len(w) + i] = v[i]
<1> DEFINE S == {w[i] : i \in 1 .. Len(w)} \cup {v[i] : i \in 1 .. Len(v)}
<1>1. w \in Seq(S) /\ v \in Seq(S)
  <2>1. \A i \in 1 .. Len(w) : w[i] \in S OBVIOUS
  <2>2. \A i \in 1 .. Len(v) : v[i] \in S OBVIOUS
  <2> QED BY <2>1, <2>2, SeqIs
<1> HIDE DEF S
<1>2. u \in Seq(S) /\ Len(u) = Len(w) + Len(v)
  BY <1>1 DEF JoinOf
<1>3. \A i \in 1 .. Len(w) : u[i] = w[i]
  BY <1>1 DEF JoinOf
<1>4. \A i \in 1 .. Len(v) : u[Len(w) + i] = v[i]
  BY <1>1 DEF JoinOf
<1>5. IsSeq(u)
  BY <1>2, IsSeqOf
<1> QED BY <1>2, <1>3, <1>4, <1>5

\* A set of indices that is not empty has its maximum.
LEMMA GreatestIndex ==
  ASSUME NEW n \in Nat, NEW S, S \subseteq 1 .. n, S # {}
  PROVE  Max(S) \in S
<1> DEFINE T == {n - i : i \in S}
<1>1. T \subseteq Nat /\ T # {}
  <2>1. ASSUME NEW i \in S PROVE n - i \in Nat
    <3>1. i \in 1 .. n
      OBVIOUS
    <3> QED BY <3>1
  <2> QED BY <2>1
<1>2. PICK t \in T : \A x \in T : ~ (<<x, t>> \in OpToRel(<, Nat))
  <2> HIDE DEF T
  <2> QED BY <1>1, NatLessThanWellFounded, WFMin
<1>3. \A x \in T : t <= x
  <2> TAKE x \in T
  <2>1. ~ (x < t) /\ x \in Nat /\ t \in Nat
    BY <1>1, <1>2 DEF OpToRel
  <2> QED BY <2>1
<1>4. PICK i \in S : t = n - i
  OBVIOUS
<1>5. \A j \in S : i >= j
  <2> TAKE j \in S
  <2>1. n - i <= n - j
    BY <1>3, <1>4
  <2>2. i \in Int /\ j \in Int
    OBVIOUS
  <2> QED BY <2>1, <2>2
<1> QED BY <1>4, <1>5 DEF Max

-----------------------------------------------------------------------------
(* The cells of a stack that grows or is cut. *)

\* Each cell has a value at least.
LEMMA CellsAre ==
  ASSUME NEW st, NEW sh \in Seq(Cells), NEW p, Fits(st, sh, p), NEW i \in 1 .. Len(sh)
  PROVE  /\ i - 1 \in 0 .. Len(sh) /\ i \in 0 .. Len(sh)
         /\ p[i] \in 1 .. Len(st) /\ p[i - 1] \in Nat /\ p[i - 1] < p[i]
         /\ Len(st) \in Nat
<1>1. i - 1 \in 0 .. Len(sh) /\ i \in 0 .. Len(sh) /\ Len(sh) \in 0 .. Len(sh) /\ i <= Len(sh)
  OBVIOUS
<1>2. p[i] \in Nat /\ p[i - 1] \in Nat /\ Len(st) \in Nat
  BY <1>1 DEF Fits
<1>3. Holds(sh[i].kind, st, p[i - 1], p[i]) /\ sh[i].kind \in Kinds
  <2>1. sh[i] \in Cells
    OBVIOUS
  <2> QED BY <2>1 DEF Fits, Cells
<1>4. p[i - 1] < p[i]
  <2>1. CASE sh[i].kind = "value"
    BY <1>2, <1>3, <2>1 DEF Holds
  <2>2. CASE sh[i].kind = "exc"
    BY <1>2, <1>3, <2>2 DEF Holds
  <2>3. CASE sh[i].kind = "why"
    BY <1>2, <1>3, <2>3 DEF Holds
  <2> QED BY <1>3, <2>1, <2>2, <2>3 DEF Kinds
<1>5. p[i] <= Len(st)
  BY <1>1 DEF Fits
<1> QED BY <1>1, <1>2, <1>4, <1>5

\* The values of st, and one more cell of them.
Grown(st, kind, st2) ==
  /\ IsSeq(st2) /\ Len(st) < Len(st2) /\ Len(st2) <= Len(st) + Weight(kind)
  /\ \A i \in 1 .. Len(st) : st2[i] = st[i]
  /\ Holds(kind, st2, Len(st), Len(st2))

LEMMA FitsMore ==
  ASSUME NEW st, NEW sh \in Seq(Cells), NEW p, Fits(st, sh, p), NEW kind \in Kinds,
         NEW st2, Grown(st, kind, st2)
  PROVE  \E q : Fits(st2, Pushed(sh, kind), q) /\ Same(p, q, Len(sh))
<1> DEFINE n == Len(sh)
           up == Pushed(sh, kind)
           q == [i \in 0 .. n + 1 |-> IF i <= n THEN p[i] ELSE Len(st2)]
<1>1. /\ up \in Seq(Cells) /\ Len(up) = n + 1 /\ \A i \in 1 .. n : up[i] = sh[i]
      /\ up[n + 1] = [kind |-> kind, top |-> Height(sh) + Weight(kind)]
  BY PushedIs
<1>2. n \in Nat /\ Len(st) \in Nat /\ Len(st2) \in Nat /\ Len(st) < Len(st2)
      /\ Len(st2) <= Len(st) + Weight(kind) /\ Weight(kind) \in Nat
  BY DEF Fits, Grown, IsSeq, Weight
<1>3. p \in [0 .. n -> Nat] /\ p[0] = 0 /\ p[n] = Len(st)
  BY DEF Fits
<1>4. q[n + 1] = Len(st2) /\ \A i \in 0 .. n : q[i] = p[i]
  BY <1>2
<1>5. q \in [0 .. n + 1 -> Nat]
  BY <1>2, <1>3
<1> HIDE DEF up, q, n
<1>6. Len(st) <= Height(sh) /\ Height(sh) \in Nat
  <2>1. CASE n = 0
    <3>1. Len(st) = 0 /\ Height(sh) \in Nat
      BY <1>3, <2>1, HeightIsNat
    <3> QED BY <3>1
  <2>2. CASE n # 0
    <3>1. n \in 1 .. n /\ sh # <<>>
      BY <1>2, <2>2 DEF n
    <3>2. p[n] <= sh[n].top
      BY <3>1 DEF Fits, n
    <3> QED BY <1>3, <3>1, <3>2, HeightIsNat DEF Height, n
  <2> QED BY <2>1, <2>2
<1>7. ASSUME NEW i \in 1 .. n + 1
      PROVE  q[i] <= up[i].top /\ Holds(up[i].kind, st2, q[i - 1], q[i])
  <2>1. CASE i = n + 1
    <3>1. q[i] = Len(st2) /\ q[i - 1] = Len(st) /\ up[i].kind = kind
          /\ up[i].top = Height(sh) + Weight(kind)
      BY <1>1, <1>2, <1>3, <1>4, <2>1
    <3> QED BY <1>2, <1>6, <3>1 DEF Grown
  <2>2. CASE i \in 1 .. n
    <3>1. /\ i - 1 \in 0 .. n /\ i \in 0 .. n /\ p[i] \in 1 .. Len(st) /\ p[i - 1] \in Nat
          /\ p[i - 1] < p[i]
      BY <2>2, CellsAre DEF n
    <3>2. q[i] = p[i] /\ q[i - 1] = p[i - 1] /\ up[i] = sh[i]
      BY <1>1, <1>4, <2>2, <3>1
    <3>3. p[i] <= sh[i].top /\ Holds(sh[i].kind, st, p[i - 1], p[i])
      BY <2>2 DEF Fits, n
    <3>4. st2[p[i]] = st[p[i]]
      BY <3>1 DEF Grown
    <3> QED BY <3>2, <3>3, <3>4 DEF Holds
  <2>3. i = n + 1 \/ i \in 1 .. n
    BY <1>2
  <2> QED BY <2>1, <2>2, <2>3
<1>8. ASSUME NEW i \in 0 .. n + 1, NEW j \in 0 .. n + 1, i <= j
      PROVE  q[i] <= q[j]
  <2>0. n \in 0 .. n
    BY <1>2
  <2>1. CASE j = n + 1 /\ i = n + 1
    BY <1>2, <1>4, <2>1
  <2>2. CASE j = n + 1 /\ i \in 0 .. n
    <3>1. p[i] <= p[n] /\ p[i] \in Nat
      BY <1>2, <1>3, <2>0, <2>2 DEF Fits, n
    <3> QED BY <1>2, <1>3, <1>4, <2>2, <3>1
  <2>3. CASE j \in 0 .. n
    <3>1. i \in 0 .. n
      BY <1>2, <1>8, <2>3
    <3>2. p[i] <= p[j]
      BY <1>8, <2>3, <3>1 DEF Fits, n
    <3> QED BY <1>4, <2>3, <3>1, <3>2
  <2> QED BY <1>2, <2>1, <2>2, <2>3
<1>9. Fits(st2, up, q)
  <2>1. IsSeq(st2)
    BY DEF Grown
  <2>2. q[0] = 0
    BY <1>2, <1>3, <1>4
  <2> QED BY <1>1, <1>4, <1>5, <1>7, <1>8, <2>1, <2>2 DEF Fits
<1> QED BY <1>4, <1>9 DEF Same, up, n

LEMMA FitsCut ==
  ASSUME NEW st, NEW sh \in Seq(Cells), NEW p, Fits(st, sh, p),
         NEW low \in Seq(Cells), Under(low, sh), NEW st2, CutAt(st, p[Len(low)], st2)
  PROVE  \E q : Fits(st2, low, q) /\ Same(p, q, Len(low))
<1> DEFINE n == Len(low)
           q == [i \in 0 .. n |-> p[i]]
<1>1. n \in Nat /\ n <= Len(sh) /\ Len(sh) \in Nat /\ \A i \in 1 .. n : low[i] = sh[i]
  BY DEF Under
<1>2. p \in [0 .. Len(sh) -> Nat] /\ p[0] = 0
  BY DEF Fits
<1>3. q \in [0 .. n -> Nat] /\ \A i \in 0 .. n : q[i] = p[i]
  BY <1>1, <1>2
<1>4. IsSeq(st2) /\ Len(st2) = p[n] /\ \A i \in 1 .. p[n] : st2[i] = st[i]
  BY SeqCut DEF Fits
<1> HIDE DEF n, q
<1>5. ASSUME NEW i \in 1 .. n
      PROVE  q[i] <= low[i].top /\ Holds(low[i].kind, st2, q[i - 1], q[i])
  <2>1. /\ i \in 1 .. Len(sh) /\ i - 1 \in 0 .. n /\ i \in 0 .. n /\ n \in 0 .. n
        /\ i \in 0 .. Len(sh) /\ n \in 0 .. Len(sh) /\ i <= n
    BY <1>1
  <2>2. p[i] \in 1 .. Len(st) /\ p[i - 1] \in Nat
    BY <2>1, CellsAre
  <2>3. p[i] <= p[n]
    BY <2>1 DEF Fits
  <2>4. st2[p[i]] = st[p[i]]
    <3>1. p[i] \in 1 .. p[n]
      BY <1>2, <2>1, <2>2, <2>3
    <3> QED BY <1>4, <3>1
  <2>5. p[i] <= sh[i].top /\ Holds(sh[i].kind, st, p[i - 1], p[i])
    BY <2>1 DEF Fits
  <2> QED BY <1>1, <1>3, <2>1, <2>4, <2>5 DEF Holds
<1>6. \A i, j \in 0 .. n : i <= j => q[i] <= q[j]
  BY <1>1, <1>3 DEF Fits
<1>7. Fits(st2, low, q)
  <2>1. 0 \in 0 .. n /\ n \in 0 .. n
    BY <1>1
  <2> QED BY <1>2, <1>3, <1>4, <1>5, <1>6, <2>1 DEF Fits, n
<1> QED BY <1>3, <1>7 DEF Same, n

-----------------------------------------------------------------------------
(* The places of a complete code. *)

LEMMA CodeAt ==
  ASSUME NEW A, NEW c, NEW m, Complete(A, c, m), NEW k \in 1 .. Len(c)
  PROVE  /\ A[k] \in Places /\ Nested(A, c, A[k]) /\ c[k].op \in Ops /\ Len(c) \in Nat
         /\ Height(A[k].shape) <= m /\ Len(A[k].blks) <= MaxBlocks
         /\ Flows(A, c[k].op, k, A[k], A[k + 1])
         /\ A[k + 1] \in Places /\ Nested(A, c, A[k + 1])
         /\ c[k].op \in Aiming =>
              /\ c[k].arg \in 1 .. Len(c) /\ A[c[k].arg] \in Places
              /\ Nested(A, c, A[c[k].arg]) /\ Aims(c[k].op, A[k], A[c[k].arg])
         /\ c[k].op # "RETURN_VALUE" => k + 1 \in 1 .. Len(c)
<1>1. /\ c \in Codes /\ A \in Seq(Places) /\ Len(A) = Len(c) + 1 /\ Len(c) \in Nat
      /\ \A j \in 1 .. Len(A) : Nested(A, c, A[j])
      /\ Good(A, c, k) /\ Height(A[k].shape) <= m /\ Len(A[k].blks) <= MaxBlocks
  BY DEF Complete, Annotated, Codes
<1>2. /\ \A j \in 1 .. Len(c) : A[j] \in Places /\ Nested(A, c, A[j])
      /\ A[k + 1] \in Places /\ Nested(A, c, A[k + 1])
  <2>1. k + 1 \in 1 .. Len(A) /\ \A j \in 1 .. Len(c) : j \in 1 .. Len(A)
    BY <1>1
  <2> QED BY <1>1, <2>1
<1>3. c[k].op \in Ops
  <2>1. c[k] \in Instrs
    BY <1>1 DEF Codes
  <2> QED BY <2>1 DEF Instrs
<1>4. ASSUME c[k].op \in Aiming
      PROVE  c[k].arg \in 1 .. Len(c) /\ Aims(c[k].op, A[k], A[c[k].arg])
  <2>1. c[k].arg \in 1 .. Len(c)
    BY <1>4 DEF Complete
  <2>2. c[k].arg # 0
    BY <2>1
  <2> QED BY <1>1, <2>1, <2>2 DEF Good
<1>5. ASSUME c[k].op # "RETURN_VALUE"
      PROVE  k + 1 \in 1 .. Len(c)
  <2>1. k # Len(c)
    BY <1>5 DEF Complete
  <2> QED BY <1>1, <2>1
<1>6. Flows(A, c[k].op, k, A[k], A[k + 1])
  BY <1>1 DEF Good
<1> QED BY <1>1, <1>2, <1>3, <1>4, <1>5, <1>6

\* Block number i of a place has its instruction in the code.
LEMMA BlockIs ==
  ASSUME NEW A, NEW c, NEW m, Complete(A, c, m), NEW a \in Places, Nested(A, c, a),
         NEW i \in 1 .. Len(a.blks), NEW k, k = a.blks[i]
  PROVE  /\ k \in 1 .. Len(c) /\ c[k].op \in Setups /\ c[k].op \in Aiming
         /\ Len(A[k].blks) = i - 1 /\ Under(A[k].blks, a.blks)
         /\ Under(A[k].shape, a.shape) /\ Len(A[k].shape) \in 0 .. Len(a.shape)
         /\ Len(a.shape) \in Nat
<1>1. /\ k \in 1 .. Len(c) /\ c[k].op \in Setups /\ Len(A[k].blks) = i - 1
      /\ Under(A[k].blks, a.blks) /\ Under(A[k].shape, a.shape)
  BY DEF Nested
<1>2. A[k] \in Places
  BY <1>1, CodeAt
<1>3. A[k].shape \in Seq(Cells) /\ a.shape \in Seq(Cells)
  BY <1>2 DEF Places
<1>4. Len(A[k].shape) <= Len(a.shape)
  BY <1>1 DEF Under
<1>5. c[k].op \in Aiming
  BY <1>1 DEF Aiming
<1> QED BY <1>1, <1>3, <1>4, <1>5

\* The levels of the blocks stay when the stack changes above them.
LEMMA BlocksStay ==
  ASSUME NEW A, NEW c, NEW m, Complete(A, c, m), NEW a \in Places, Nested(A, c, a),
         NEW p, NEW bl, NEW bs, BlocksAt(A, c, p, bl, bs), bs = a.blks,
         NEW q, Same(p, q, Len(a.shape))
  PROVE  BlocksAt(A, c, q, bl, bs)
<1> SUFFICES ASSUME NEW i \in 1 .. Len(bl)
             PROVE  bl[i] = Block(A, c, q, a.blks[i])
  BY DEF BlocksAt
<1> DEFINE k == a.blks[i]
<1>1. i \in 1 .. Len(a.blks) /\ bl[i] = Block(A, c, p, k)
  BY DEF BlocksAt
<1> HIDE DEF k
<1>2. Len(A[k].shape) \in 0 .. Len(a.shape)
  BY <1>1, BlockIs DEF k
<1>3. q[Len(A[k].shape)] = p[Len(A[k].shape)]
  BY <1>2 DEF Same
<1>4. bl[i] = Block(A, c, q, k)
  BY <1>1, <1>3 DEF Block
<1> QED BY <1>4 DEF k

-----------------------------------------------------------------------------
(* What the steps of the loop do to the place the frame is at. *)

\* A cell is put on the stack.
LEMMA SitsMore ==
  ASSUME NEW A, NEW c, NEW m, Complete(A, c, m), NEW st, NEW bl, NEW a, Sits(A, c, st, bl, a),
         NEW kind \in Kinds, NEW st2, Grown(st, kind, st2)
  PROVE  Sits(A, c, st2, bl, At(Pushed(a.shape, kind), a.blks))
<1>1. a \in Places /\ Nested(A, c, a) /\ a.shape \in Seq(Cells) /\ a.blks \in Seq(Nat)
      /\ a = At(a.shape, a.blks)
  BY DEF Sits, Places, At
<1>2. PICK p : Placed(A, c, p, st, bl, a)
  BY DEF Sits
<1>3. Fits(st, a.shape, p) /\ BlocksAt(A, c, p, bl, a.blks)
  BY <1>2 DEF Placed
<1>4. PICK q : Fits(st2, Pushed(a.shape, kind), q) /\ Same(p, q, Len(a.shape))
  BY <1>1, <1>3, FitsMore
<1>5. BlocksAt(A, c, q, bl, a.blks)
  BY <1>1, <1>3, <1>4, BlocksStay
<1> DEFINE a2 == At(Pushed(a.shape, kind), a.blks)
<1>6. a2.shape = Pushed(a.shape, kind) /\ a2.blks = a.blks
  BY DEF At
<1>7. a2 \in Places
  <2>1. Pushed(a.shape, kind) \in Seq(Cells)
    BY <1>1, PushedIs
  <2> QED BY <1>1, <2>1 DEF Places, At
<1>8. Nested(A, c, a2)
  <2>1. \A k \in 1 .. Len(c) : A[k].shape \in Seq(Cells)
    BY CodeAt DEF Places
  <2>2. Nested(A, c, At(a.shape, a.blks))
    BY <1>1
  <2> QED BY <1>1, <2>1, <2>2, NestedPush
<1> HIDE DEF a2
<1>9. Placed(A, c, q, st2, bl, a2)
  BY <1>3, <1>4, <1>5, <1>6 DEF Placed
<1>10. Sits(A, c, st2, bl, a2)
  BY <1>7, <1>8, <1>9 DEF Sits
<1> QED BY <1>10 DEF a2

\* The topmost cell is taken off.
LEMMA SitsLess ==
  ASSUME NEW A, NEW c, NEW m, Complete(A, c, m), NEW st, NEW bl, NEW a, Sits(A, c, st, bl, a),
         NEW kind \in Kinds, NEW a2 \in Places, Nested(A, c, a2), a2.blks = a.blks,
         a.shape = Pushed(a2.shape, kind)
  PROVE  \E n \in 0 .. Len(st) :
           /\ Holds(kind, st, n, Len(st)) /\ n < Len(st) /\ Len(st) \in Nat
           /\ \A v : CutAt(st, n, v) => Sits(A, c, v, bl, a2)
<1>1. a \in Places /\ Nested(A, c, a) /\ a.shape \in Seq(Cells) /\ a2.shape \in Seq(Cells)
  BY DEF Sits, Places
<1>2. PICK p : Placed(A, c, p, st, bl, a)
  BY DEF Sits
<1>3. Fits(st, a.shape, p) /\ BlocksAt(A, c, p, bl, a.blks)
  BY <1>2 DEF Placed
<1> DEFINE h == Len(a2.shape)
           n == p[h]
<1>4. /\ Len(a.shape) = h + 1 /\ \A i \in 1 .. h : a.shape[i] = a2.shape[i]
      /\ a.shape[h + 1].kind = kind /\ h \in Nat
  <2>1. /\ Len(a.shape) = h + 1 /\ \A i \in 1 .. h : a.shape[i] = a2.shape[i]
        /\ a.shape[h + 1] = [kind |-> kind, top |-> Height(a2.shape) + Weight(kind)]
    BY <1>1, PushedIs
  <2> QED BY <1>1, <2>1
<1>5. Under(a2.shape, a.shape)
  BY <1>4 DEF Under
<1>6. h + 1 \in 1 .. Len(a.shape) /\ (h + 1) - 1 = h
  BY <1>4
<1>7. n < p[h + 1] /\ p[h + 1] \in 1 .. Len(st) /\ n \in Nat /\ Len(st) \in Nat
  BY <1>1, <1>3, <1>6, CellsAre
<1>8. p[h + 1] = Len(st) /\ Holds(kind, st, p[h], p[h + 1])
  <2>1. p[Len(a.shape)] = Len(st)
    BY <1>3 DEF Fits
  <2>2. Holds(a.shape[h + 1].kind, st, p[(h + 1) - 1], p[h + 1])
    BY <1>3, <1>6 DEF Fits
  <2> QED BY <1>4, <1>6, <2>1, <2>2
<1>9. ASSUME NEW v, CutAt(st, n, v)
      PROVE  Sits(A, c, v, bl, a2)
  <2>1. CutAt(st, p[Len(a2.shape)], v)
    BY <1>9
  <2>2. PICK q : Fits(v, a2.shape, q) /\ Same(p, q, Len(a2.shape))
    BY <1>1, <1>3, <1>5, <2>1, FitsCut
  <2>3. BlocksAt(A, c, p, bl, a2.blks)
    BY <1>3
  <2>4. BlocksAt(A, c, q, bl, a2.blks)
    BY <2>2, <2>3, BlocksStay
  <2>5. Placed(A, c, q, v, bl, a2)
    BY <2>2, <2>4 DEF Placed
  <2> QED BY <2>5 DEF Sits
<1> HIDE DEF h, n
<1>10. n \in 0 .. Len(st) /\ Holds(kind, st, n, Len(st)) /\ n < Len(st) /\ Len(st) \in Nat
  <2>1. Holds(kind, st, n, Len(st))
    BY <1>8 DEF n
  <2> QED BY <1>7, <1>8, <2>1
<1>11. \A v : CutAt(st, n, v) => Sits(A, c, v, bl, a2)
  BY <1>9
<1> QED BY <1>10, <1>11

\* A block is set up by the instruction at place a.
LEMMA SitsOpen ==
  ASSUME NEW A, NEW c, NEW m, Complete(A, c, m), NEW st, NEW bl, NEW k \in 1 .. Len(c),
         Sits(A, c, st, bl, A[k]), c[k].op \in Setups,
         NEW bl2, AddedTo(bl, [type |-> c[k].op, level |-> Len(st), handler |-> c[k].arg], bl2)
  PROVE  Sits(A, c, st, bl2, At(A[k].shape, Append(A[k].blks, k)))
<1> DEFINE a == A[k]
           bs == Append(a.blks, k)
<1>0. Sits(A, c, st, bl, a) /\ A[k] = a
  OBVIOUS
<1> HIDE DEF a
<1>1. a \in Places /\ Nested(A, c, a) /\ a.shape \in Seq(Cells) /\ a.blks \in Seq(Nat)
      /\ a = At(a.shape, a.blks) /\ k \in Nat
  BY <1>0 DEF Sits, Places, At
<1>2. PICK p : Placed(A, c, p, st, bl, a)
  BY <1>0 DEF Sits
<1>3. Fits(st, a.shape, p) /\ BlocksAt(A, c, p, bl, a.blks)
  BY <1>2 DEF Placed
<1>4. /\ bs \in Seq(Nat) /\ Len(bs) = Len(a.blks) + 1 /\ bs[Len(a.blks) + 1] = k
      /\ \A i \in 1 .. Len(a.blks) : bs[i] = a.blks[i]
  BY <1>1
<1> HIDE DEF bs
<1>5. IsSeq(bl) /\ Len(bl) = Len(a.blks) /\ Len(bl) \in Nat
  BY <1>3 DEF BlocksAt, IsSeq
<1>6. /\ IsSeq(bl2) /\ Len(bl2) = Len(bl) + 1
      /\ bl2[Len(bl) + 1] = [type |-> c[k].op, level |-> Len(st), handler |-> c[k].arg]
      /\ \A i \in 1 .. Len(bl) : bl2[i] = bl[i]
  BY <1>5, SeqAppend
<1>7. ASSUME NEW i \in 1 .. Len(bl2)
      PROVE  bl2[i] = Block(A, c, p, bs[i])
  <2>1. CASE i = Len(bl) + 1
    <3>1. bs[i] = k /\ p[Len(A[k].shape)] = Len(st)
      BY <1>0, <1>3, <1>4, <1>5, <2>1 DEF Fits
    <3> QED BY <1>6, <2>1, <3>1 DEF Block
  <2>2. CASE i \in 1 .. Len(bl)
    <3>1. bl[i] = Block(A, c, p, a.blks[i])
      BY <1>3, <2>2 DEF BlocksAt
    <3>2. bl2[i] = bl[i] /\ bs[i] = a.blks[i]
      BY <1>4, <1>5, <1>6, <2>2
    <3> QED BY <3>1, <3>2
  <2>3. i = Len(bl) + 1 \/ i \in 1 .. Len(bl)
    BY <1>5, <1>6
  <2> QED BY <2>1, <2>2, <2>3
<1>8. BlocksAt(A, c, p, bl2, bs)
  BY <1>4, <1>5, <1>6, <1>7 DEF BlocksAt
<1> DEFINE a2 == At(a.shape, bs)
<1>9. a2 \in Places /\ a2.shape = a.shape /\ a2.blks = bs
  BY <1>1, <1>4 DEF Places, At
<1>10. Nested(A, c, a2)
  <2>1. Nested(A, c, At(a.shape, a.blks)) /\ A[k] = At(a.shape, a.blks)
    BY <1>0, <1>1
  <2> QED BY <1>1, <2>1, NestedOpen DEF bs
<1> HIDE DEF a2
<1>11. Placed(A, c, p, st, bl2, a2)
  BY <1>3, <1>8, <1>9 DEF Placed
<1>12. Sits(A, c, st, bl2, a2)
  BY <1>9, <1>10, <1>11 DEF Sits
<1> QED BY <1>12 DEF a2, bs, a

\* The stack cut to the level of block number i, and the blocks below it.
Lowered(st, bl, i, v, bl2) ==
  i \in 1 .. Len(bl) /\ CutAt(st, bl[i].level, v) /\ CutAt(bl, i - 1, bl2)

\* The frame at the place of the instruction of a block, with the stack cut to
\* the level of the block.
LEMMA SitsBelow ==
  ASSUME NEW A, NEW c, NEW m, Complete(A, c, m), NEW st, NEW bl, NEW a, Sits(A, c, st, bl, a),
         NEW i, NEW v, NEW bl2, Lowered(st, bl, i, v, bl2)
  PROVE  \E k \in 1 .. Len(c) :
           /\ k = a.blks[i] /\ c[k].op \in Setups /\ bl[i].type = c[k].op
           /\ bl[i].handler = c[k].arg /\ Sits(A, c, v, bl2, A[k])
<1>1. a \in Places /\ Nested(A, c, a) /\ a.shape \in Seq(Cells) /\ a.blks \in Seq(Nat)
  BY DEF Sits, Places, At
<1>2. PICK p : Placed(A, c, p, st, bl, a)
  BY DEF Sits
<1>3. Fits(st, a.shape, p) /\ BlocksAt(A, c, p, bl, a.blks)
  BY <1>2 DEF Placed
<1>4. i \in 1 .. Len(a.blks) /\ IsSeq(bl) /\ Len(bl) = Len(a.blks) /\ Len(bl) \in Nat
      /\ i \in 1 .. Len(bl) /\ CutAt(st, bl[i].level, v) /\ CutAt(bl, i - 1, bl2)
  BY <1>3 DEF BlocksAt, IsSeq, Lowered
<1> DEFINE k == a.blks[i]
           low == A[k].shape
<1>5. bl[i] = Block(A, c, p, k)
  BY <1>3, <1>4 DEF BlocksAt
<1>0. k = a.blks[i] /\ A[k].shape = low
  OBVIOUS
<1> HIDE DEF k, low
<1>6. /\ k \in 1 .. Len(c) /\ c[k].op \in Setups /\ Len(A[k].blks) = i - 1
      /\ Under(A[k].blks, a.blks) /\ Under(A[k].shape, a.shape)
  BY <1>0, <1>1, <1>4, BlockIs
<1>7. bl[i].type = c[k].op /\ bl[i].handler = c[k].arg /\ bl[i].level = p[Len(low)]
  BY <1>0, <1>5 DEF Block
<1>8. A[k] \in Places /\ Nested(A, c, A[k]) /\ low \in Seq(Cells)
  <2>1. A[k] \in Places /\ Nested(A, c, A[k])
    BY <1>6, CodeAt
  <2> QED BY <1>0, <2>1 DEF Places
<1>9. PICK q : Fits(v, low, q) /\ Same(p, q, Len(low))
  <2>1. CutAt(st, p[Len(low)], v) /\ Under(low, a.shape)
    BY <1>0, <1>4, <1>6, <1>7
  <2> QED BY <1>1, <1>3, <1>8, <2>1, FitsCut
<1>10. IsSeq(bl2) /\ Len(bl2) = i - 1 /\ \A j \in 1 .. i - 1 : bl2[j] = bl[j]
  BY <1>4, SeqCut
<1>11. BlocksAt(A, c, p, bl2, A[k].blks)
  <2>1. ASSUME NEW j \in 1 .. i - 1
        PROVE  bl2[j] = Block(A, c, p, A[k].blks[j])
    <3>1. A[k].blks[j] = a.blks[j] /\ j \in 1 .. Len(bl)
      BY <1>4, <1>6 DEF Under
    <3>2. bl[j] = Block(A, c, p, a.blks[j])
      BY <1>3, <3>1 DEF BlocksAt
    <3> QED BY <1>10, <3>1, <3>2
  <2> QED BY <1>6, <1>10, <2>1 DEF BlocksAt
<1>12. BlocksAt(A, c, q, bl2, A[k].blks)
  BY <1>0, <1>8, <1>9, <1>11, BlocksStay
<1>13. Placed(A, c, q, v, bl2, A[k])
  BY <1>0, <1>9, <1>12 DEF Placed
<1>14. Sits(A, c, v, bl2, A[k])
  BY <1>8, <1>13 DEF Sits
<1> QED BY <1>0, <1>6, <1>7, <1>14

\* The stack and the blocks are as high as the compiler has counted, and the
\* levels of the blocks are in the stack.
LEMMA SitsBounds ==
  ASSUME NEW A, NEW c, NEW m, Complete(A, c, m), NEW st, NEW bl, NEW a, Sits(A, c, st, bl, a)
  PROVE  /\ Len(st) \in Nat /\ Len(st) <= Height(a.shape) /\ IsSeq(st) /\ IsSeq(bl)
         /\ Len(bl) = Len(a.blks)
         /\ a.shape # <<>> => Len(st) > 0
         /\ \A i \in 1 .. Len(bl) : bl[i].level \in 0 .. Len(st)
<1>1. a \in Places /\ Nested(A, c, a) /\ a.shape \in Seq(Cells) /\ a.blks \in Seq(Nat)
  BY DEF Sits, Places, At
<1>2. PICK p : Placed(A, c, p, st, bl, a)
  BY DEF Sits
<1>3. Fits(st, a.shape, p) /\ BlocksAt(A, c, p, bl, a.blks)
  BY <1>2 DEF Placed
<1> DEFINE n == Len(a.shape)
<1>4. n \in Nat /\ p \in [0 .. n -> Nat] /\ p[0] = 0 /\ p[n] = Len(st) /\ n \in 0 .. n
  BY <1>1, <1>3 DEF Fits
<1>5. Len(st) <= Height(a.shape) /\ (a.shape # <<>> => Len(st) > 0)
  <2>1. CASE n = 0
    <3>1. Len(st) = 0 /\ a.shape = <<>> /\ Height(a.shape) = 0
      BY <1>1, <1>4, <2>1 DEF Height
    <3> QED BY <3>1
  <2>2. CASE n # 0
    <3>1. n \in 1 .. n /\ a.shape # <<>>
      BY <1>1, <1>4, <2>2
    <3>2. p[n] <= a.shape[n].top
      BY <1>3, <3>1 DEF Fits
    <3>3. p[n] \in 1 .. Len(st)
      BY <1>1, <1>3, <3>1, CellsAre
    <3> QED BY <1>4, <3>1, <3>2, <3>3 DEF Height
  <2> QED BY <2>1, <2>2
<1>6. ASSUME NEW i \in 1 .. Len(bl)
      PROVE  bl[i].level \in 0 .. Len(st)
  <2>1. bl[i] = Block(A, c, p, a.blks[i]) /\ i \in 1 .. Len(a.blks)
    BY <1>3 DEF BlocksAt
  <2> DEFINE h == Len(A[a.blks[i]].shape)
  <2>2. h \in 0 .. n
    BY <1>1, <2>1, BlockIs
  <2> HIDE DEF h
  <2>3. p[h] \in Nat /\ p[h] <= p[n]
    BY <1>3, <1>4, <2>2 DEF Fits
  <2> QED BY <1>4, <2>1, <2>3 DEF Block, h
<1>7. IsSeq(st) /\ IsSeq(bl) /\ Len(bl) = Len(a.blks)
  BY <1>3 DEF Fits, BlocksAt
<1> QED BY <1>4, <1>5, <1>6, <1>7

-----------------------------------------------------------------------------
(* Unwinding. *)

\* One value more.
LEMMA GrownBy ==
  ASSUME NEW st, IsSeq(st), NEW x, NEW st2, AddedTo(st, x, st2)
  PROVE  /\ Grown(st, "value", st2) /\ IsSeq(st2) /\ st2[Len(st) + 1] = x
         /\ Len(st2) = Len(st) + 1
         /\ x.is = "exception" => Grown(st, "exc", st2)
         /\ x.is \in {"None", "break"} => Grown(st, "why", st2)
<1>1. /\ IsSeq(st2) /\ Len(st2) = Len(st) + 1 /\ st2[Len(st) + 1] = x
      /\ \A i \in 1 .. Len(st) : st2[i] = st[i]
  BY SeqAppend
<1>2. Len(st) \in Nat
  BY DEF IsSeq
<1>3. Grown(st, "value", st2)
  BY <1>1, <1>2 DEF Grown, Holds, Weight
<1>4. x.is = "exception" => Grown(st, "exc", st2)
  BY <1>1, <1>2 DEF Grown, Holds, Weight
<1>5. x.is \in {"None", "break"} => Grown(st, "why", st2)
  BY <1>1, <1>2 DEF Grown, Holds, Weight
<1> QED BY <1>1, <1>3, <1>4, <1>5

Reasons == {"exception", "return", "break"}

LEMMA HandedIs ==
  ASSUME NEW b, NEW why, NEW n
  PROVE  /\ why = "exception" => Handed(b, why, n) = <<Other, Other, Exc(n)>>
         /\ b.type = "SETUP_LOOP" /\ why = "break" => Handed(b, why, n) = <<>>
<1>1. ASSUME why = "exception"
      PROVE  Handed(b, why, n) = <<Other, Other, Exc(n)>>
  BY <1>1 DEF Handed
<1>2. ASSUME b.type = "SETUP_LOOP", why = "break"
      PROVE  Handed(b, why, n) = <<>>
  BY <1>2 DEF Handed
<1> QED BY <1>1, <1>2

\* What a finally is entered with.
LEMMA GrownTo ==
  ASSUME NEW v, IsSeq(v), NEW h, IsSeq(h), NEW u, JoinOf(v, h, u),
         \/ Len(h) = 1 /\ h[1].is = "break"
         \/ Len(h) = 2 /\ h[2].is = "return"
         \/ Len(h) = 3 /\ h[3].is = "exception"
  PROVE  Grown(v, "why", u)
<1>1. /\ IsSeq(u) /\ Len(u) = Len(v) + Len(h) /\ \A i \in 1 .. Len(v) : u[i] = v[i]
      /\ \A i \in 1 .. Len(h) : u[Len(v) + i] = h[i]
  BY SeqJoin
<1>2. Len(v) \in Nat
  BY DEF IsSeq
<1>3. CASE Len(h) = 1 /\ h[1].is = "break"
  <2>1. u[Len(v) + 1].is = "break"
    BY <1>1, <1>3
  <2> QED BY <1>1, <1>2, <1>3, <2>1 DEF Grown, Holds, Weight
<1>4. CASE Len(h) = 2 /\ h[2].is = "return"
  <2>1. u[Len(v) + 2].is = "return"
    BY <1>1, <1>4
  <2> QED BY <1>1, <1>2, <1>4, <2>1 DEF Grown, Holds, Weight
<1>5. CASE Len(h) = 3 /\ h[3].is = "exception"
  <2>1. u[Len(v) + 3].is = "exception"
    BY <1>1, <1>5
  <2> QED BY <1>1, <1>2, <1>5, <2>1 DEF Grown, Holds, Weight
<1> QED BY <1>3, <1>4, <1>5

LEMMA GrownWhy ==
  ASSUME NEW v, IsSeq(v), NEW b, b.type = "SETUP_FINALLY", NEW why \in Reasons, NEW n,
         NEW u, JoinOf(v, Handed(b, why, n), u)
  PROVE  Grown(v, "why", u)
<1>1. CASE why = "exception"
  <2>1. Handed(b, why, n) = <<Other, Other, Exc(n)>>
    BY <1>1 DEF Handed
  <2>2. JoinOf(v, <<Other, Other, Exc(n)>>, u) /\ IsSeq(<<Other, Other, Exc(n)>>)
    BY <2>1 DEF IsSeq
  <2> QED BY <2>2, GrownTo DEF Exc
<1>2. CASE why = "return"
  <2>1. Handed(b, why, n) = <<Result(n, TRUE), Reason(why)>>
    BY <1>2 DEF Handed
  <2>2. JoinOf(v, <<Result(n, TRUE), Reason(why)>>, u) /\ IsSeq(<<Result(n, TRUE), Reason(why)>>)
    BY <2>1 DEF IsSeq
  <2> QED BY <1>2, <2>2, GrownTo DEF Reason
<1>3. CASE why = "break"
  <2>1. Handed(b, why, n) = <<Reason(why)>>
    BY <1>3 DEF Handed
  <2>2. JoinOf(v, <<Reason(why)>>, u) /\ IsSeq(<<Reason(why)>>)
    BY <2>1 DEF IsSeq
  <2> QED BY <1>3, <2>2, GrownTo DEF Reason
<1> QED BY <1>1, <1>2, <1>3 DEF Reasons

\* The block that catches why: the frame is at the place of its handler.
LEMMA SitsCaught ==
  ASSUME NEW A, NEW c, NEW m, Complete(A, c, m), NEW st, NEW bl, NEW a, Sits(A, c, st, bl, a),
         NEW i, NEW v, NEW bl2, Lowered(st, bl, i, v, bl2),
         NEW why \in Reasons, Catches(bl[i], why), NEW n,
         NEW u, JoinOf(v, Handed(bl[i], why, n), u)
  PROVE  bl[i].handler \in 1 .. Len(c) /\ Sits(A, c, u, bl2, A[bl[i].handler])
<1>1. PICK k \in 1 .. Len(c) :
           /\ k = a.blks[i] /\ c[k].op \in Setups /\ bl[i].type = c[k].op
           /\ bl[i].handler = c[k].arg /\ Sits(A, c, v, bl2, A[k])
  BY SitsBelow
<1> DEFINE t == c[k].arg
           b == A[k]
<1>2. c[k].op \in Aiming
  BY <1>1 DEF Aiming
<1>3. t \in 1 .. Len(c) /\ A[t] \in Places /\ Aims(c[k].op, A[k], A[t])
  BY <1>2, CodeAt
<1>0. bl[i].handler = t /\ Sits(A, c, v, bl2, b) /\ Aims(c[k].op, b, A[t])
  BY <1>1, <1>3
<1> HIDE DEF t, b
<1>4. IsSeq(v) /\ b \in Places /\ b.shape \in Seq(Cells)
  BY <1>0, SitsBounds DEF Sits, Places
<1>5. CASE c[k].op = "SETUP_LOOP"
  <2>1. why = "break" /\ bl[i].type = "SETUP_LOOP"
    BY <1>1, <1>5 DEF Catches
  <2>2. Handed(bl[i], why, n) = <<>>
    BY <2>1, HandedIs
  <2>3. u = v \o <<>>
    BY <2>2 DEF JoinOf
  <2>4. u = v
    <3> DEFINE S == {v[j] : j \in 1 .. Len(v)}
    <3>1. v \in Seq(S)
      <4>1. \A j \in 1 .. Len(v) : v[j] \in S OBVIOUS
      <4> QED BY <1>4, <4>1, SeqIs
    <3> HIDE DEF S
    <3> QED BY <2>3, <3>1
  <2>5. A[t] = b
    BY <1>0, <1>5 DEF Aims
  <2> QED BY <1>0, <1>3, <2>4, <2>5
<1>6. CASE c[k].op = "SETUP_EXCEPT"
  <2>1. why = "exception"
    BY <1>1, <1>6 DEF Catches
  <2>2. Handed(bl[i], why, n) = <<Other, Other, Exc(n)>>
    BY <2>1, HandedIs
  <2> DEFINE v1 == Append(v, Other)
             v2 == Append(v1, Other)
             v3 == Append(v2, Exc(n))
  <2>3. u = v3
    <3> DEFINE S == {v[j] : j \in 1 .. Len(v)} \cup {Other, Exc(n)}
    <3>1. v \in Seq(S) /\ Other \in S /\ Exc(n) \in S
      <4>1. \A j \in 1 .. Len(v) : v[j] \in S OBVIOUS
      <4> QED BY <1>4, <4>1, SeqIs
    <3>2. u = v \o <<Other, Other, Exc(n)>>
      BY <2>2 DEF JoinOf
    <3> HIDE DEF S
    <3> QED BY <3>1, <3>2
  <2>4. AddedTo(v, Other, v1) /\ AddedTo(v1, Other, v2) /\ AddedTo(v2, Exc(n), v3)
    BY DEF AddedTo
  <2> HIDE DEF v1, v2, v3
  <2>5. Grown(v, "value", v1) /\ IsSeq(v1)
    BY <1>4, <2>4, GrownBy
  <2>6. Grown(v1, "value", v2) /\ IsSeq(v2)
    BY <2>4, <2>5, GrownBy
  <2>7. Grown(v2, "exc", v3)
    BY <2>4, <2>6, GrownBy DEF Exc
  <2> DEFINE b1 == At(Pushed(b.shape, "value"), b.blks)
             b2 == At(Pushed(b1.shape, "value"), b1.blks)
             b3 == At(Pushed(b2.shape, "exc"), b2.blks)
  <2>8. b3 = At(H(b.shape), b.blks)
    BY DEF H, V, At
  <2>9. Sits(A, c, v1, bl2, b1)
    BY <1>0, <2>5, SitsMore DEF Kinds
  <2> HIDE DEF b1
  <2>10. Sits(A, c, v2, bl2, b2)
    BY <2>6, <2>9, SitsMore DEF Kinds
  <2> HIDE DEF b2
  <2>11. Sits(A, c, v3, bl2, b3)
    BY <2>7, <2>10, SitsMore DEF Kinds
  <2>12. A[t] = At(H(b.shape), b.blks)
    BY <1>0, <1>6 DEF Aims
  <2> QED BY <1>0, <1>3, <2>3, <2>8, <2>11, <2>12
<1>7. CASE c[k].op = "SETUP_FINALLY"
  <2>1. bl[i].type = "SETUP_FINALLY"
    BY <1>1, <1>7
  <2>2. Grown(v, "why", u)
    BY <1>4, <2>1, GrownWhy
  <2>3. Sits(A, c, u, bl2, At(Pushed(b.shape, "why"), b.blks))
    BY <1>0, <2>2, SitsMore DEF Kinds
  <2>4. A[t] = At(W(b.shape), b.blks)
    BY <1>0, <1>7 DEF Aims
  <2> QED BY <1>0, <1>3, <2>3, <2>4 DEF W
<1> QED BY <1>1, <1>5, <1>6, <1>7 DEF Setups

-----------------------------------------------------------------------------
(* Values taken off the stack. *)

LEMMA CutTwice ==
  ASSUME NEW w, IsSeq(w), NEW n, NEW v, CutAt(w, n, v), NEW k, NEW u, CutAt(w, k, u), k <= n
  PROVE  CutAt(v, k, u)
<1>1. IsSeq(v) /\ Len(v) = n /\ \A i \in 1 .. n : v[i] = w[i]
  BY SeqCut
<1>2. IsSeq(u) /\ Len(u) = k /\ \A i \in 1 .. k : u[i] = w[i]
  BY SeqCut
<1>3. k \in Nat /\ n \in Nat /\ k \in 0 .. n
  BY DEF CutAt
<1> DEFINE x == SubSeq(v, 1, k)
<1>4. CutAt(v, k, x)
  BY <1>1, <1>3 DEF CutAt
<1> HIDE DEF x
<1>5. IsSeq(x) /\ Len(x) = k /\ \A i \in 1 .. k : x[i] = v[i]
  BY <1>1, <1>4, SeqCut
<1>6. \A i \in 1 .. k : x[i] = u[i]
  BY <1>1, <1>2, <1>3, <1>5
<1>7. x = u
  <2>1. x = [i \in 1 .. k |-> x[i]] /\ u = [i \in 1 .. k |-> u[i]]
    BY <1>2, <1>5 DEF IsSeq
  <2> QED BY <1>6, <2>1
<1> QED BY <1>4, <1>7

\* One value off the stack.
LEMMA SitsPop ==
  ASSUME NEW A, NEW c, NEW m, Complete(A, c, m), NEW st, NEW bl, NEW a, Sits(A, c, st, bl, a),
         NEW a2 \in Places, Nested(A, c, a2), a2.blks = a.blks,
         a.shape \in {V(a2.shape), Pushed(a2.shape, "exc")}
  PROVE  /\ Len(st) \in Nat /\ Len(st) >= 1
         /\ \A v : CutAt(st, Len(st) - 1, v) => Sits(A, c, v, bl, a2)
         /\ a.shape = Pushed(a2.shape, "exc") => st[Len(st)].is = "exception"
<1>1. CASE a.shape = V(a2.shape)
  <2>1. a.shape = Pushed(a2.shape, "value") /\ "value" \in Kinds
    BY <1>1 DEF V, Kinds
  <2>2. PICK n \in 0 .. Len(st) :
           /\ Holds("value", st, n, Len(st)) /\ n < Len(st) /\ Len(st) \in Nat
           /\ \A v : CutAt(st, n, v) => Sits(A, c, v, bl, a2)
    BY <2>1, SitsLess
  <2>3. n = Len(st) - 1
    BY <2>2 DEF Holds
  <2>4. a2.shape \in Seq(Cells)
    BY DEF Places
  <2>5. Pushed(a2.shape, "exc") # Pushed(a2.shape, "value")
    <3> DEFINE x == Pushed(a2.shape, "exc")
               y == Pushed(a2.shape, "value")
               h == Len(a2.shape) + 1
    <3>4. "exc" \in Kinds /\ "value" \in Kinds
      BY DEF Kinds
    <3>1. x[h].kind = "exc"
      <4>1. x[h] = [kind |-> "exc", top |-> Height(a2.shape) + Weight("exc")]
        BY <2>4, <3>4, PushedIs
      <4> QED BY <4>1
    <3>2. y[h].kind = "value"
      <4>1. y[h] = [kind |-> "value", top |-> Height(a2.shape) + Weight("value")]
        BY <2>4, <3>4, PushedIs
      <4> QED BY <4>1
    <3> HIDE DEF x, y, h
    <3>3. x # y
      BY <3>1, <3>2
    <3> QED BY <3>3 DEF x, y
  <2> QED BY <2>1, <2>2, <2>3, <2>5
<1>2. CASE a.shape = Pushed(a2.shape, "exc")
  <2>1. "exc" \in Kinds
    BY DEF Kinds
  <2>2. PICK n \in 0 .. Len(st) :
           /\ Holds("exc", st, n, Len(st)) /\ n < Len(st) /\ Len(st) \in Nat
           /\ \A v : CutAt(st, n, v) => Sits(A, c, v, bl, a2)
    BY <1>2, <2>1, SitsLess
  <2>3. n = Len(st) - 1 /\ st[Len(st)].is = "exception"
    BY <2>2 DEF Holds
  <2> QED BY <2>2, <2>3
<1> QED BY <1>1, <1>2

\* The place of one value more.
LEMMA OneMore ==
  ASSUME NEW A, NEW c, NEW m, Complete(A, c, m), NEW a \in Places, Nested(A, c, a)
  PROVE  /\ At(V(a.shape), a.blks) \in Places /\ Nested(A, c, At(V(a.shape), a.blks))
         /\ At(V(a.shape), a.blks).shape = V(a.shape) /\ At(V(a.shape), a.blks).blks = a.blks
<1>1. a.shape \in Seq(Cells) /\ a.blks \in Seq(Nat) /\ a = At(a.shape, a.blks)
  BY DEF Places, At
<1>2. V(a.shape) \in Seq(Cells)
  BY <1>1, ShapesAre
<1>3. Nested(A, c, At(V(a.shape), a.blks))
  <2>1. \A k \in 1 .. Len(c) : A[k].shape \in Seq(Cells)
    BY CodeAt DEF Places
  <2>2. Nested(A, c, At(a.shape, a.blks))
    BY <1>1
  <2>3. Nested(A, c, At(Pushed(a.shape, "value"), a.blks))
    BY <1>1, <2>1, <2>2, NestedPush DEF Kinds
  <2> QED BY <2>3 DEF V
<1> QED BY <1>1, <1>2, <1>3 DEF Places, At

\* Two values off the stack.
LEMMA SitsPopTwo ==
  ASSUME NEW A, NEW c, NEW m, Complete(A, c, m), NEW st, NEW bl, NEW a, Sits(A, c, st, bl, a),
         NEW a2 \in Places, Nested(A, c, a2), a2.blks = a.blks, a.shape = V(V(a2.shape))
  PROVE  /\ Len(st) \in Nat /\ Len(st) >= 2
         /\ \A v : CutAt(st, Len(st) - 2, v) => Sits(A, c, v, bl, a2)
<1> DEFINE a1 == At(V(a2.shape), a2.blks)
           st1 == SubSeq(st, 1, Len(st) - 1)
<1>1. a1 \in Places /\ Nested(A, c, a1) /\ a1.shape = V(a2.shape) /\ a1.blks = a2.blks
  BY OneMore
<1> HIDE DEF a1
<1>2. /\ Len(st) \in Nat /\ Len(st) >= 1
      /\ \A v : CutAt(st, Len(st) - 1, v) => Sits(A, c, v, bl, a1)
  BY <1>1, SitsPop
<1>3. CutAt(st, Len(st) - 1, st1)
  BY <1>2 DEF CutAt
<1> HIDE DEF st1
<1>4. Sits(A, c, st1, bl, a1) /\ IsSeq(st)
  BY <1>2, <1>3, SitsBounds
<1>5. Len(st1) = Len(st) - 1
  BY <1>3, <1>4, SeqCut
<1>6. /\ Len(st1) >= 1 /\ \A v : CutAt(st1, Len(st1) - 1, v) => Sits(A, c, v, bl, a2)
  BY <1>1, <1>4, SitsPop
<1>7. Len(st) >= 2 /\ Len(st1) - 1 = Len(st) - 2
  BY <1>2, <1>5, <1>6
<1>8. ASSUME NEW v, CutAt(st, Len(st) - 2, v)
      PROVE  Sits(A, c, v, bl, a2)
  <2>1. Len(st) - 2 <= Len(st) - 1
    BY <1>2
  <2>2. CutAt(st1, Len(st) - 2, v)
    BY <1>3, <1>4, <1>8, <2>1, CutTwice
  <2> QED BY <1>6, <1>7, <2>2
<1> QED BY <1>2, <1>7, <1>8

\* An END_FINALLY takes off a reason, or the three values of an exception.
LEMMA SitsEnds ==
  ASSUME NEW A, NEW c, NEW m, Complete(A, c, m), NEW st, NEW bl, NEW a, Sits(A, c, st, bl, a),
         NEW a2 \in Places, Nested(A, c, a2), a2.blks = a.blks,
         a.shape \in {W(a2.shape), H(a2.shape)}
  PROVE  \E j \in {1, 2, 3} :
           /\ Len(st) \in Nat /\ Len(st) >= j
           /\ \A v : CutAt(st, Len(st) - j, v) => Sits(A, c, v, bl, a2)
           /\ \/ j = 1 /\ st[Len(st)].is \in {"None", "break"}
              \/ j = 2 /\ st[Len(st)].is = "return"
              \/ j = 3 /\ st[Len(st)].is = "exception"
<1>1. CASE a.shape = W(a2.shape)
  <2>1. a.shape = Pushed(a2.shape, "why") /\ "why" \in Kinds
    BY <1>1 DEF W, Kinds
  <2>2. PICK n \in 0 .. Len(st) :
           /\ Holds("why", st, n, Len(st)) /\ n < Len(st) /\ Len(st) \in Nat
           /\ \A v : CutAt(st, n, v) => Sits(A, c, v, bl, a2)
    BY <2>1, SitsLess
  <2>3. CASE Len(st) = n + 1 /\ st[Len(st)].is \in {"None", "break"}
    <3>1. n = Len(st) - 1 /\ Len(st) >= 1
      BY <2>2, <2>3
    <3> QED BY <2>2, <2>3, <3>1
  <2>4. CASE Len(st) = n + 2 /\ st[Len(st)].is = "return"
    <3>1. n = Len(st) - 2 /\ Len(st) >= 2
      BY <2>2, <2>4
    <3> QED BY <2>2, <2>4, <3>1
  <2>5. CASE Len(st) = n + 3 /\ st[Len(st)].is = "exception"
    <3>1. n = Len(st) - 3 /\ Len(st) >= 3
      BY <2>2, <2>5
    <3> QED BY <2>2, <2>5, <3>1
  <2> QED BY <2>2, <2>3, <2>4, <2>5 DEF Holds
<1>2. CASE a.shape = H(a2.shape)
  <2> DEFINE a3 == At(V(a2.shape), a2.blks)
             a4 == At(V(a3.shape), a3.blks)
             st1 == SubSeq(st, 1, Len(st) - 1)
  <2>1. a3 \in Places /\ Nested(A, c, a3) /\ a3.shape = V(a2.shape) /\ a3.blks = a2.blks
    BY OneMore
  <2> HIDE DEF a3
  <2>2. a4 \in Places /\ Nested(A, c, a4) /\ a4.shape = V(a3.shape) /\ a4.blks = a3.blks
    BY <2>1, OneMore
  <2> HIDE DEF a4
  <2>3. a.shape = Pushed(a4.shape, "exc") /\ a4.blks = a.blks
    BY <1>2, <2>1, <2>2 DEF H
  <2>4. /\ Len(st) \in Nat /\ Len(st) >= 1 /\ st[Len(st)].is = "exception"
        /\ \A v : CutAt(st, Len(st) - 1, v) => Sits(A, c, v, bl, a4)
    BY <2>2, <2>3, SitsPop
  <2>5. CutAt(st, Len(st) - 1, st1)
    BY <2>4 DEF CutAt
  <2> HIDE DEF st1
  <2>6. Sits(A, c, st1, bl, a4) /\ IsSeq(st)
    BY <2>4, <2>5, SitsBounds
  <2>7. Len(st1) = Len(st) - 1
    BY <2>5, <2>6, SeqCut
  <2>8. Len(st1) >= 2 /\ \A v : CutAt(st1, Len(st1) - 2, v) => Sits(A, c, v, bl, a2)
    <3>1. a4.shape = V(V(a2.shape)) /\ a2.blks = a4.blks
      BY <2>1, <2>2
    <3> QED BY <2>6, <3>1, SitsPopTwo
  <2>9. Len(st) >= 3 /\ Len(st1) - 2 = Len(st) - 3
    BY <2>4, <2>7, <2>8
  <2>10. ASSUME NEW v, CutAt(st, Len(st) - 3, v)
         PROVE  Sits(A, c, v, bl, a2)
    <3>1. Len(st) - 3 <= Len(st) - 1
      BY <2>4
    <3>2. CutAt(st1, Len(st) - 3, v)
      BY <2>5, <2>6, <2>10, <3>1, CutTwice
    <3> QED BY <2>8, <2>9, <3>2
  <2> QED BY <2>4, <2>9, <2>10
<1> QED BY <1>1, <1>2

\* Another value for the topmost.
LEMMA SitsOther ==
  ASSUME NEW A, NEW c, NEW st, NEW bl, NEW a, Sits(A, c, st, bl, a), NEW sh \in Seq(Cells),
         a.shape = V(sh), NEW st2, IsSeq(st2), Len(st2) = Len(st),
         \A i \in 1 .. Len(st) - 1 : st2[i] = st[i]
  PROVE  Sits(A, c, st2, bl, a)
<1> DEFINE n == Len(sh) + 1
<1>1. a.shape \in Seq(Cells)
  BY DEF Sits, Places
<1>2. PICK p : Placed(A, c, p, st, bl, a)
  BY DEF Sits
<1>3. Fits(st, a.shape, p) /\ BlocksAt(A, c, p, bl, a.blks)
  BY <1>2 DEF Placed
<1>4. Len(a.shape) = n /\ a.shape[n].kind = "value" /\ n \in Nat /\ n \in 1 .. n
  <2>1. /\ Len(Pushed(sh, "value")) = Len(sh) + 1
        /\ Pushed(sh, "value")[Len(sh) + 1] = [kind |-> "value", top |-> Height(sh) + Weight("value")]
    BY PushedIs DEF Kinds
  <2> QED BY <2>1 DEF V
<1> HIDE DEF n
<1>5. ASSUME NEW i \in 1 .. n
      PROVE  Holds(a.shape[i].kind, st2, p[i - 1], p[i])
  <2>1. Holds(a.shape[i].kind, st, p[i - 1], p[i])
    BY <1>3, <1>4 DEF Fits
  <2>2. CASE i = n
    BY <1>4, <2>1, <2>2 DEF Holds
  <2>3. CASE i # n
    <3>1. i \in 0 .. n /\ n - 1 \in 0 .. n /\ i <= n - 1
      BY <1>4, <2>3
    <3>2. p[i] <= p[n - 1]
      BY <1>3, <1>4, <3>1 DEF Fits
    <3>3. p[n - 1] < p[n] /\ p[n] = Len(st) /\ p[n - 1] \in Nat /\ Len(st) \in Nat
      <4>1. p[n] = Len(st)
        BY <1>3, <1>4 DEF Fits
      <4> QED BY <1>1, <1>3, <1>4, <4>1, CellsAre
    <3>4. p[i] \in 1 .. Len(st)
      BY <1>1, <1>3, <1>4, CellsAre
    <3>5. p[i] \in 1 .. Len(st) - 1
      BY <3>2, <3>3, <3>4
    <3>6. st2[p[i]] = st[p[i]]
      BY <3>5
    <3> QED BY <2>1, <3>6 DEF Holds
  <2> QED BY <2>2, <2>3
<1>6. Fits(st2, a.shape, p)
  BY <1>3, <1>4, <1>5 DEF Fits
<1>7. Placed(A, c, p, st2, bl, a)
  BY <1>3, <1>6 DEF Placed
<1> QED BY <1>7 DEF Sits

-----------------------------------------------------------------------------
(* The instructions. *)

\* A frame that runs is at the place of its next instruction.
Runs(A, c, m, next, st, bl) ==
  Complete(A, c, m) /\ next \in 0 .. Len(c) /\ (next > 0 => Sits(A, c, st, bl, A[next]))
Interpreting(A) == Runs(A, code, max, pc, stack, blocks)

\* The compiler's variables stay.
Kept == code' = code /\ max' = max /\ work' = work /\ error' = error

LEMMA AtPc ==
  ASSUME NEW A, Interpreting(A), Running
  PROVE  /\ Complete(A, code, max) /\ pc \in 1 .. Len(code) /\ Sits(A, code, stack, blocks, A[pc])
         /\ IsSeq(stack) /\ Len(stack) \in Nat /\ IsSeq(blocks) /\ Len(blocks) \in Nat
         /\ work = <<>> /\ ~error
<1>1. Complete(A, code, max) /\ pc \in 1 .. Len(code) /\ Sits(A, code, stack, blocks, A[pc])
  BY DEF Interpreting, Runs, Running
<1>2. IsSeq(stack) /\ Len(stack) \in Nat /\ IsSeq(blocks)
  BY <1>1, SitsBounds
<1> QED BY <1>1, <1>2 DEF Running, Compiled, IsSeq

\* The frame goes on at place number next.
LEMMA GoesOn ==
  ASSUME NEW A, Complete(A, code, max), NEW st, NEW bl, NEW next \in 1 .. Len(code),
         Sits(A, code, st, bl, A[next]), Frame(st, bl, next)
  PROVE  Interpreting(A)' /\ Kept
<1>1. stack' = st /\ blocks' = bl /\ pc' = next /\ Kept
  BY DEF Frame, compiling, Kept
<1>2. Runs(A, code, max, next, st, bl)
  <2>1. next \in 0 .. Len(code)
    OBVIOUS
  <2> QED BY <2>1 DEF Runs
<1> QED BY <1>1, <1>2 DEF Interpreting, Kept

\* A reason to leave: a block catches it, or the frame is left.
LEMMA Unwinds ==
  ASSUME NEW A, Complete(A, code, max), NEW a, NEW st, Sits(A, code, st, blocks, a),
         NEW why \in Reasons, NEW n, Unwind(why, n, st)
  PROVE  Interpreting(A)' /\ Kept
<1> DEFINE S == {i \in DOMAIN blocks : Catches(blocks[i], why)}
           i == Max(S)
<1>1. IsSeq(blocks) /\ IsSeq(st) /\ Len(blocks) \in Nat
  BY SitsBounds DEF IsSeq
<1>2. S \subseteq 1 .. Len(blocks)
  <2>1. DOMAIN blocks = 1 .. Len(blocks)
    BY <1>1 DEF IsSeq
  <2> QED BY <2>1
<1>3. IF S = {}
      THEN pc' = 0 /\ stack' = <<>> /\ blocks' = <<>> /\ UNCHANGED <<prog, work, compiling>>
      ELSE Frame(SubSeq(st, 1, blocks[i].level) \o Handed(blocks[i], why, n),
                 SubSeq(blocks, 1, i - 1), blocks[i].handler)
  BY DEF Unwind
<1>4. \A j \in S : Catches(blocks[j], why)
  OBVIOUS
<1> HIDE DEF S
<1>5. CASE S = {}
  <2>1. pc' = 0 /\ Kept
    BY <1>3, <1>5 DEF compiling, Kept
  <2>2. Len(code) \in Nat
    BY DEF Complete, Codes
  <2>3. Runs(A, code', max', pc', stack', blocks')
    BY <2>1, <2>2 DEF Runs, Kept
  <2> QED BY <2>1, <2>3 DEF Interpreting
<1>6. CASE S # {}
  <2>1. i \in S
    BY <1>1, <1>2, <1>6, GreatestIndex
  <2>2. i \in 1 .. Len(blocks) /\ Catches(blocks[i], why)
    BY <1>2, <1>4, <2>1
  <2> HIDE DEF i
  <2> DEFINE v == SubSeq(st, 1, blocks[i].level)
             bl2 == SubSeq(blocks, 1, i - 1)
             u == v \o Handed(blocks[i], why, n)
  <2>3. Frame(u, bl2, blocks[i].handler)
    BY <1>3, <1>6
  <2>4. JoinOf(v, Handed(blocks[i], why, n), u)
    BY DEF JoinOf
  <2>5. Lowered(st, blocks, i, v, bl2)
    <3>1. blocks[i].level \in 0 .. Len(st)
      BY <2>2, SitsBounds
    <3>2. i - 1 \in 0 .. Len(blocks)
      BY <1>1, <2>2
    <3> QED BY <2>2, <3>1, <3>2 DEF Lowered, CutAt
  <2> HIDE DEF v, bl2, u
  <2>6. /\ blocks[i].handler \in 1 .. Len(code)
        /\ Sits(A, code, u, bl2, A[blocks[i].handler])
    BY <2>2, <2>4, <2>5, SitsCaught
  <2> QED BY <2>3, <2>6, GoesOn
<1> QED BY <1>5, <1>6

\* Values off the stack: what Cut leaves.
LEMMA CutIs ==
  ASSUME NEW n \in {1, 2, 3}, Len(stack) \in Nat, Len(stack) >= n
  PROVE  CutAt(stack, Len(stack) - n, Cut(n))
BY DEF CutAt, Cut

LEMMA TopIs ==
  ASSUME Len(stack) \in Nat
  PROVE  Top(0) = stack[Len(stack)]
BY DEF Top

\* A value more on the stack.
LEMMA Pushes ==
  ASSUME NEW A, Complete(A, code, max), NEW a, Sits(A, code, stack, blocks, a),
         NEW next \in 1 .. Len(code), A[next] = At(V(a.shape), a.blks),
         NEW x, Frame(Append(stack, x), blocks, next)
  PROVE  Interpreting(A)' /\ Kept
<1> DEFINE st == Append(stack, x)
<1>1. AddedTo(stack, x, st) /\ Frame(st, blocks, next)
  BY DEF AddedTo
<1> HIDE DEF st
<1>2. Grown(stack, "value", st)
  <2>1. IsSeq(stack)
    BY SitsBounds
  <2> QED BY <1>1, <2>1, GrownBy
<1>3. Sits(A, code, st, blocks, A[next])
  BY <1>2, SitsMore DEF Kinds, V
<1> QED BY <1>1, <1>3, GoesOn

LEMMA EvalStep ==
  ASSUME NEW A, Interpreting(A), Eval
  PROVE  Interpreting(A)' /\ Kept
<1> DEFINE a == A[pc]
<1>0. Running /\ code[pc].op = "EVAL"
  BY DEF Eval, Is
<1>1. /\ Complete(A, code, max) /\ pc \in 1 .. Len(code) /\ Sits(A, code, stack, blocks, a)
      /\ IsSeq(stack)
  BY <1>0, AtPc
<1>2. pc + 1 \in 1 .. Len(code) /\ Flows(A, "EVAL", pc, a, A[pc + 1])
  BY <1>0, <1>1, CodeAt
<1>3. A[pc + 1] = At(V(a.shape), a.blks)
  BY <1>2 DEF Flows
<1> HIDE DEF a
<1>4. PICK x, k : \/ Unwind("exception", k, stack)
                  \/ Frame(Append(stack, x), blocks, pc + 1)
  BY DEF Eval
<1>5. CASE Unwind("exception", k, stack)
  BY <1>1, <1>5, Unwinds DEF Reasons
<1>6. CASE Frame(Append(stack, x), blocks, pc + 1)
  BY <1>1, <1>2, <1>3, <1>6, Pushes
<1> QED BY <1>4, <1>5, <1>6

LEMMA ForLoopStep ==
  ASSUME NEW A, Interpreting(A), ForLoop
  PROVE  Interpreting(A)' /\ Kept
<1> DEFINE a == A[pc]
           arg == code[pc].arg
           t == A[arg]
<1>0. Running /\ code[pc].op = "FOR_LOOP" /\ "FOR_LOOP" \in Aiming
  BY DEF ForLoop, Is, Aiming
<1>1. /\ Complete(A, code, max) /\ pc \in 1 .. Len(code) /\ Sits(A, code, stack, blocks, a)
      /\ IsSeq(stack)
  BY <1>0, AtPc
<1>2. /\ pc + 1 \in 1 .. Len(code) /\ Flows(A, "FOR_LOOP", pc, a, A[pc + 1])
      /\ arg \in 1 .. Len(code) /\ t \in Places /\ Nested(A, code, t) /\ Aims("FOR_LOOP", a, t)
  BY <1>0, <1>1, CodeAt
<1>3. A[pc + 1] = At(V(a.shape), a.blks)
  BY <1>2 DEF Flows
<1>4. a.shape = V(V(t.shape)) /\ a.blks = t.blks
  BY <1>2 DEF Aims, At
<1>5. PICK k : \/ Unwind("exception", k, Cut(2))
               \/ Frame(Append(stack, Other), blocks, pc + 1)
               \/ Frame(Cut(2), blocks, arg)
  BY DEF ForLoop
<1>6. A[arg] = t
  OBVIOUS
<1> HIDE DEF a, t, arg
<1>7. Sits(A, code, Cut(2), blocks, t)
  <2>1. /\ Len(stack) \in Nat /\ Len(stack) >= 2
        /\ \A v : CutAt(stack, Len(stack) - 2, v) => Sits(A, code, v, blocks, t)
    BY <1>1, <1>2, <1>4, SitsPopTwo
  <2> QED BY <2>1, CutIs
<1>8. CASE Unwind("exception", k, Cut(2))
  BY <1>1, <1>7, <1>8, Unwinds DEF Reasons
<1>9. CASE Frame(Append(stack, Other), blocks, pc + 1)
  BY <1>1, <1>2, <1>3, <1>9, Pushes
<1>10. CASE Frame(Cut(2), blocks, arg)
  BY <1>1, <1>2, <1>6, <1>7, <1>10, GoesOn
<1> QED BY <1>5, <1>8, <1>9, <1>10

\* One value is taken off, by instructions that end here or go on.
LEMMA TakesOne ==
  ASSUME NEW A, Interpreting(A), Running, code[pc].op \in Taking
  PROVE  /\ Sits(A, code, Cut(1), blocks, A[pc + 1]) /\ Complete(A, code, max)
         /\ code[pc].op # "RETURN_VALUE" => pc + 1 \in 1 .. Len(code)
<1> DEFINE a == A[pc]
           n == A[pc + 1]
<1>1. /\ Complete(A, code, max) /\ pc \in 1 .. Len(code) /\ Sits(A, code, stack, blocks, a)
  BY AtPc
<1>2. /\ Flows(A, code[pc].op, pc, a, n) /\ n \in Places /\ Nested(A, code, n)
      /\ code[pc].op # "RETURN_VALUE" => pc + 1 \in 1 .. Len(code)
  BY <1>1, CodeAt
<1>3. n.blks = a.blks /\ a.shape \in {V(n.shape), Pushed(n.shape, "exc")}
  BY <1>2 DEF Flows
<1> HIDE DEF a, n
<1>4. Sits(A, code, Cut(1), blocks, n)
  <2>1. /\ Len(stack) \in Nat /\ Len(stack) >= 1
        /\ \A v : CutAt(stack, Len(stack) - 1, v) => Sits(A, code, v, blocks, n)
    BY <1>1, <1>2, <1>3, SitsPop
  <2> QED BY <2>1, CutIs
<1> QED BY <1>1, <1>2, <1>4 DEF n

LEMMA PopTopStep ==
  ASSUME NEW A, Interpreting(A), PopTop
  PROVE  Interpreting(A)' /\ Kept
<1>1. /\ Running /\ code[pc].op \in {"POP_TOP", "STORE_NAME"} /\ Frame(Cut(1), blocks, pc + 1)
  BY DEF PopTop, Is, Step
<1>2. code[pc].op \in Taking /\ code[pc].op # "RETURN_VALUE"
  BY <1>1 DEF Taking
<1>3. /\ Sits(A, code, Cut(1), blocks, A[pc + 1]) /\ Complete(A, code, max)
      /\ pc + 1 \in 1 .. Len(code)
  BY <1>1, <1>2, TakesOne
<1> QED BY <1>1, <1>3, GoesOn

LEMMA ReturnValueStep ==
  ASSUME NEW A, Interpreting(A), ReturnValue
  PROVE  Interpreting(A)' /\ Kept
<1>1. PICK k : /\ Running /\ code[pc].op = "RETURN_VALUE" /\ Unwind("return", k, Cut(1))
  BY DEF ReturnValue, Is, Leave
<1>2. Sits(A, code, Cut(1), blocks, A[pc + 1]) /\ Complete(A, code, max)
  BY <1>1, TakesOne DEF Taking
<1> QED BY <1>1, <1>2, Unwinds DEF Reasons

LEMMA RaiseVarargsStep ==
  ASSUME NEW A, Interpreting(A), RaiseVarargs
  PROVE  Interpreting(A)' /\ Kept
<1>1. PICK k : /\ Running /\ code[pc].op = "RAISE_VARARGS" /\ Unwind("exception", k, Cut(1))
  BY DEF RaiseVarargs, Is, Leave
<1>2. Sits(A, code, Cut(1), blocks, A[pc + 1]) /\ Complete(A, code, max)
  BY <1>1, TakesOne DEF Taking
<1> QED BY <1>1, <1>2, Unwinds DEF Reasons

LEMMA BreakLoopStep ==
  ASSUME NEW A, Interpreting(A), BreakLoop
  PROVE  Interpreting(A)' /\ Kept
<1>1. Running /\ Unwind("break", 0, stack)
  BY DEF BreakLoop, Is, Leave
<1>2. Complete(A, code, max) /\ Sits(A, code, stack, blocks, A[pc])
  BY <1>1, AtPc
<1> QED BY <1>1, <1>2, Unwinds DEF Reasons

LEMMA LoadStep ==
  ASSUME NEW A, Interpreting(A), DupTop \/ LoadZero
  PROVE  Interpreting(A)' /\ Kept
<1>1. PICK x : /\ Running /\ code[pc].op \in {"DUP_TOP", "LOAD_ZERO"}
               /\ Frame(Append(stack, x), blocks, pc + 1)
  BY DEF DupTop, LoadZero, Is, Step
<1>2. Complete(A, code, max) /\ pc \in 1 .. Len(code) /\ Sits(A, code, stack, blocks, A[pc])
  BY <1>1, AtPc
<1>3. pc + 1 \in 1 .. Len(code) /\ Flows(A, code[pc].op, pc, A[pc], A[pc + 1])
  BY <1>1, <1>2, CodeAt
<1>4. A[pc + 1] = At(V(A[pc].shape), A[pc].blks)
  BY <1>1, <1>3 DEF Flows
<1> QED BY <1>1, <1>2, <1>3, <1>4, Pushes

LEMMA LoadNoneStep ==
  ASSUME NEW A, Interpreting(A), LoadNone
  PROVE  Interpreting(A)' /\ Kept
<1> DEFINE a == A[pc]
           n == A[pc + 1]
           st == Append(stack, None)
<1>1. Running /\ code[pc].op = "LOAD_NONE" /\ Frame(st, blocks, pc + 1)
  BY DEF LoadNone, Is, Step
<1>2. /\ Complete(A, code, max) /\ pc \in 1 .. Len(code) /\ Sits(A, code, stack, blocks, a)
      /\ IsSeq(stack)
  BY <1>1, AtPc
<1>3. pc + 1 \in 1 .. Len(code) /\ Flows(A, "LOAD_NONE", pc, a, n) /\ n \in Places
  BY <1>1, <1>2, CodeAt
<1>4. n.blks = a.blks /\ n.shape \in {V(a.shape), W(a.shape)} /\ n = At(n.shape, n.blks)
  BY <1>3 DEF Flows, Places, At
<1>5. AddedTo(stack, None, st)
  BY DEF AddedTo
<1>6. n = A[pc + 1]
  OBVIOUS
<1> HIDE DEF st, a, n
<1>7. Grown(stack, "value", st) /\ Grown(stack, "why", st)
  BY <1>2, <1>5, GrownBy DEF None
<1>8. Sits(A, code, st, blocks, n)
  <2>1. Sits(A, code, st, blocks, At(Pushed(a.shape, "value"), a.blks))
    BY <1>2, <1>7, SitsMore DEF Kinds
  <2>2. Sits(A, code, st, blocks, At(Pushed(a.shape, "why"), a.blks))
    BY <1>2, <1>7, SitsMore DEF Kinds
  <2> QED BY <1>4, <2>1, <2>2 DEF V, W
<1> QED BY <1>1, <1>2, <1>3, <1>6, <1>8, GoesOn

LEMMA ExcMatchStep ==
  ASSUME NEW A, Interpreting(A), ExcMatch
  PROVE  Interpreting(A)' /\ Kept
<1> DEFINE a == A[pc]
           n == A[pc + 1]
           st == Append(Cut(2), Top(0))
<1>1. Running /\ code[pc].op = "EXC_MATCH" /\ Frame(st, blocks, pc + 1)
  BY DEF ExcMatch, Is, Step
<1>2. /\ Complete(A, code, max) /\ pc \in 1 .. Len(code) /\ Sits(A, code, stack, blocks, a)
      /\ IsSeq(stack)
  BY <1>1, AtPc
<1>3. /\ pc + 1 \in 1 .. Len(code) /\ Flows(A, "EXC_MATCH", pc, a, n) /\ n \in Places
      /\ Nested(A, code, n)
  BY <1>1, <1>2, CodeAt
<1>4. PICK sh \in Seq(Cells) : n = At(V(sh), a.blks) /\ a.shape = V(V(sh))
  BY <1>3 DEF Flows
<1>5. n.shape = V(sh) /\ n.blks = a.blks /\ a.shape = V(n.shape)
  BY <1>4 DEF At
<1>6. n = A[pc + 1] /\ AddedTo(Cut(2), Top(0), st)
  BY DEF AddedTo
<1> HIDE DEF a, n, st
<1>7. /\ Len(stack) \in Nat /\ Len(stack) >= 1
      /\ \A v : CutAt(stack, Len(stack) - 1, v) => Sits(A, code, v, blocks, n)
  BY <1>2, <1>3, <1>5, SitsPop
<1>8. CutAt(stack, Len(stack) - 1, Cut(1)) /\ Sits(A, code, Cut(1), blocks, n)
  BY <1>7, CutIs
<1>9. Len(Cut(1)) = Len(stack) - 1 /\ \A i \in 1 .. Len(stack) - 1 : Cut(1)[i] = stack[i]
  BY <1>2, <1>8, SeqCut
<1>10. Len(Cut(1)) >= 1
  <2>1. V(sh) # <<>>
    BY <1>4, ShapesAre
  <2>2. n.shape # <<>>
    BY <1>5, <2>1
  <2> QED BY <1>2, <1>7, <1>8, <1>9, <2>2, SitsBounds
<1>11. CutAt(stack, Len(stack) - 2, Cut(2))
  BY <1>7, <1>9, <1>10, CutIs
<1>12. /\ IsSeq(Cut(2)) /\ Len(Cut(2)) = Len(stack) - 2
       /\ \A i \in 1 .. Len(stack) - 2 : Cut(2)[i] = stack[i]
  BY <1>2, <1>11, SeqCut
<1>13. /\ IsSeq(st) /\ Len(st) = Len(Cut(2)) + 1
       /\ \A i \in 1 .. Len(Cut(2)) : st[i] = Cut(2)[i]
  BY <1>6, <1>12, SeqAppend
<1>14. Len(st) = Len(Cut(1)) /\ \A i \in 1 .. Len(Cut(1)) - 1 : st[i] = Cut(1)[i]
  BY <1>7, <1>9, <1>12, <1>13
<1>15. Sits(A, code, st, blocks, n)
  BY <1>4, <1>5, <1>8, <1>13, <1>14, SitsOther
<1> QED BY <1>1, <1>2, <1>3, <1>6, <1>15, GoesOn

LEMMA JumpIfFalseStep ==
  ASSUME NEW A, Interpreting(A), JumpIfFalse
  PROVE  Interpreting(A)' /\ Kept
<1>1. PICK next \in {pc + 1, code[pc].arg} :
        Running /\ code[pc].op = "JUMP_IF_FALSE" /\ Frame(stack, blocks, next)
  BY DEF JumpIfFalse, Is, Step
<1>2. Complete(A, code, max) /\ pc \in 1 .. Len(code) /\ Sits(A, code, stack, blocks, A[pc])
  BY <1>1, AtPc
<1>3. code[pc].op \in Aiming
  BY <1>1 DEF Aiming
<1>4. /\ pc + 1 \in 1 .. Len(code) /\ Flows(A, code[pc].op, pc, A[pc], A[pc + 1])
      /\ code[pc].arg \in 1 .. Len(code) /\ Aims(code[pc].op, A[pc], A[code[pc].arg])
  BY <1>1, <1>2, <1>3, CodeAt
<1>5. A[pc + 1] = A[pc] /\ A[code[pc].arg] = A[pc]
  BY <1>1, <1>4 DEF Flows, Aims
<1>6. next \in 1 .. Len(code) /\ A[next] = A[pc]
  BY <1>4, <1>5
<1> QED BY <1>1, <1>2, <1>6, GoesOn

LEMMA JumpStep ==
  ASSUME NEW A, Interpreting(A), Jump
  PROVE  Interpreting(A)' /\ Kept
<1>1. Running /\ code[pc].op \in Jumps /\ Frame(stack, blocks, code[pc].arg)
  BY DEF Jump, Is, Step, Jumps
<1>2. Complete(A, code, max) /\ pc \in 1 .. Len(code) /\ Sits(A, code, stack, blocks, A[pc])
  BY <1>1, AtPc
<1>3. code[pc].op \in Aiming
  BY <1>1 DEF Aiming
<1>4. code[pc].arg \in 1 .. Len(code) /\ Aims(code[pc].op, A[pc], A[code[pc].arg])
  BY <1>2, <1>3, CodeAt
<1>5. A[code[pc].arg] = A[pc]
  BY <1>1, <1>4 DEF Aims
<1> QED BY <1>1, <1>2, <1>4, <1>5, GoesOn

LEMMA SetupStep ==
  ASSUME NEW A, Interpreting(A), Setup
  PROVE  Interpreting(A)' /\ Kept
<1> DEFINE b == [type |-> code[pc].op, level |-> Len(stack), handler |-> code[pc].arg]
           bl == Append(blocks, b)
<1>1. Running /\ code[pc].op \in Setups /\ Frame(stack, bl, pc + 1)
  BY DEF Setup, Is, Setups
<1>2. Complete(A, code, max) /\ pc \in 1 .. Len(code) /\ Sits(A, code, stack, blocks, A[pc])
  BY <1>1, AtPc
<1>3. code[pc].op # "RETURN_VALUE"
  BY <1>1 DEF Setups
<1>4. pc + 1 \in 1 .. Len(code) /\ Flows(A, code[pc].op, pc, A[pc], A[pc + 1])
  BY <1>2, <1>3, CodeAt
<1>5. A[pc + 1] = At(A[pc].shape, Append(A[pc].blks, pc))
  BY <1>1, <1>4 DEF Flows
<1>6. AddedTo(blocks, [type |-> code[pc].op, level |-> Len(stack), handler |-> code[pc].arg], bl)
  BY DEF AddedTo
<1> HIDE DEF b, bl
<1>7. Sits(A, code, stack, bl, A[pc + 1])
  BY <1>1, <1>2, <1>5, <1>6, SitsOpen
<1> QED BY <1>1, <1>2, <1>4, <1>7, GoesOn

LEMMA PopBlockStep ==
  ASSUME NEW A, Interpreting(A), PopBlock
  PROVE  Interpreting(A)' /\ Kept
<1> DEFINE a == A[pc]
           n == A[pc + 1]
           i == Len(blocks)
           b == blocks[i]
           st == IF Len(stack) > b.level THEN SubSeq(stack, 1, b.level) ELSE stack
           bl == SubSeq(blocks, 1, Len(blocks) - 1)
<1>1. Running /\ code[pc].op = "POP_BLOCK" /\ Frame(st, bl, pc + 1)
  BY DEF PopBlock, Is
<1>2. /\ Complete(A, code, max) /\ pc \in 1 .. Len(code) /\ Sits(A, code, stack, blocks, a)
      /\ IsSeq(stack) /\ IsSeq(blocks) /\ Len(stack) \in Nat /\ i \in Nat
  BY <1>1, AtPc
<1>3. pc + 1 \in 1 .. Len(code) /\ Flows(A, "POP_BLOCK", pc, a, n) /\ n \in Places
  BY <1>1, <1>2, CodeAt
<1>4. PICK j \in 1 .. pc : a = At(n.shape, Append(n.blks, j)) /\ A[j] = n
  BY <1>3 DEF Flows
<1>5. n = A[pc + 1] /\ i = Len(blocks) /\ a.blks = Append(n.blks, j) /\ n.blks \in Seq(Nat)
      /\ j \in Nat
  BY <1>2, <1>3, <1>4 DEF Places, At
<1>6. Len(blocks) = Len(a.blks)
  BY <1>2, SitsBounds
<1>7. i \in 1 .. Len(blocks) /\ a.blks[i] = j
  BY <1>2, <1>5, <1>6
<1>8. b.level \in 0 .. Len(stack)
  BY <1>2, <1>7, SitsBounds
<1>9. CutAt(stack, b.level, st)
  <2>1. CASE Len(stack) > b.level
    BY <1>8, <2>1 DEF CutAt
  <2>2. CASE ~(Len(stack) > b.level)
    <3>1. b.level = Len(stack) /\ st = stack
      BY <1>2, <1>8, <2>2
    <3>2. stack = SubSeq(stack, 1, Len(stack))
      <4> DEFINE S == {stack[k] : k \in 1 .. Len(stack)}
      <4>1. stack \in Seq(S)
        <5>1. \A k \in 1 .. Len(stack) : stack[k] \in S OBVIOUS
        <5> QED BY <1>2, <5>1, SeqIs
      <4> HIDE DEF S
      <4>2. SubSeq(stack, 1, Len(stack)) = [k \in 1 .. Len(stack) |-> stack[k]]
        BY <4>1
      <4>3. stack = [k \in 1 .. Len(stack) |-> stack[k]]
        BY <1>2 DEF IsSeq
      <4> QED BY <4>2, <4>3
    <3> QED BY <1>8, <3>1, <3>2 DEF CutAt
  <2> QED BY <2>1, <2>2
<1>10. Lowered(stack, blocks, i, st, bl)
  <2>1. i - 1 \in 0 .. Len(blocks)
    BY <1>2, <1>7
  <2>2. CutAt(blocks, i - 1, bl)
    BY <2>1 DEF CutAt
  <2>3. CutAt(stack, blocks[i].level, st)
    BY <1>9
  <2> HIDE DEF st, bl, i
  <2> QED BY <1>7, <2>2, <2>3 DEF Lowered
<1> HIDE DEF a, n, b, st, bl, i
<1>11. PICK k \in 1 .. Len(code) : k = a.blks[i] /\ Sits(A, code, st, bl, A[k])
  BY <1>2, <1>10, SitsBelow
<1>12. Sits(A, code, st, bl, n)
  BY <1>4, <1>7, <1>11
<1> QED BY <1>1, <1>2, <1>3, <1>5, <1>12, GoesOn

LEMMA EndFinallyStep ==
  ASSUME NEW A, Interpreting(A), EndFinally
  PROVE  Interpreting(A)' /\ Kept
<1> DEFINE a == A[pc]
           n == A[pc + 1]
<1>1. /\ Running /\ code[pc].op = "END_FINALLY"
      /\ CASE Top(0).is = "None" -> Step(Cut(1), pc + 1)
           [] Top(0).is = "break" -> Leave("break", 0, Cut(1))
           [] Top(0).is = "return" -> Leave("return", Top(1).n, Cut(2))
           [] Top(0).is = "exception" -> Leave("exception", Top(0).n, Cut(3))
           [] OTHER -> Leave("exception", 0, Cut(1))
  BY DEF EndFinally, Is
<1>2. /\ Complete(A, code, max) /\ pc \in 1 .. Len(code) /\ Sits(A, code, stack, blocks, a)
  BY <1>1, AtPc
<1>3. /\ pc + 1 \in 1 .. Len(code) /\ Flows(A, "END_FINALLY", pc, a, n) /\ n \in Places
      /\ Nested(A, code, n)
  BY <1>1, <1>2, CodeAt
<1>4. n.blks = a.blks /\ a.shape \in {W(n.shape), H(n.shape)}
  BY <1>3 DEF Flows
<1>5. n = A[pc + 1]
  OBVIOUS
<1> HIDE DEF a, n
<1>6. PICK j \in {1, 2, 3} :
           /\ Len(stack) \in Nat /\ Len(stack) >= j
           /\ \A v : CutAt(stack, Len(stack) - j, v) => Sits(A, code, v, blocks, n)
           /\ \/ j = 1 /\ stack[Len(stack)].is \in {"None", "break"}
              \/ j = 2 /\ stack[Len(stack)].is = "return"
              \/ j = 3 /\ stack[Len(stack)].is = "exception"
  BY <1>2, <1>3, <1>4, SitsEnds
<1>7. Sits(A, code, Cut(j), blocks, n) /\ Top(0) = stack[Len(stack)]
  BY <1>6, CutIs, TopIs
<1>8. CASE j = 1 /\ Top(0).is = "None"
  <2>1. Frame(Cut(1), blocks, pc + 1)
    BY <1>1, <1>8 DEF Step
  <2> QED BY <1>2, <1>3, <1>5, <1>7, <1>8, <2>1, GoesOn
<1>9. CASE j = 1 /\ Top(0).is = "break"
  <2>1. Unwind("break", 0, Cut(1))
    BY <1>1, <1>9 DEF Leave
  <2> QED BY <1>2, <1>7, <1>9, <2>1, Unwinds DEF Reasons
<1>10. CASE j = 2 /\ Top(0).is = "return"
  <2>1. Unwind("return", Top(1).n, Cut(2))
    BY <1>1, <1>10 DEF Leave
  <2> QED BY <1>2, <1>7, <1>10, <2>1, Unwinds DEF Reasons
<1>11. CASE j = 3 /\ Top(0).is = "exception"
  <2>1. Unwind("exception", Top(0).n, Cut(3))
    BY <1>1, <1>11 DEF Leave
  <2> QED BY <1>2, <1>7, <1>11, <2>1, Unwinds DEF Reasons
<1> QED BY <1>6, <1>7, <1>8, <1>9, <1>10, <1>11

-----------------------------------------------------------------------------
(* The invariant: while statements are translated there are places for the    *)
(* code so far, and afterwards the frame is at the place of its instruction.  *)

Waiting == pc = 1 /\ stack = <<>> /\ blocks = <<>>

Inv ==
  ~error => /\ work # <<>> => Waiting /\ \E A, B : Compiling(A, B)
            /\ work = <<>> => \E A : Interpreting(A)

\* The call for the function has begun, with no code.
LEMMA InitHolds ==
  ASSUME Init
  PROVE  Inv
<1> DEFINE def == [kind |-> "def", body |-> prog]
           f == [s |-> def, at |-> 1, anchor |-> [n \in Anchors |-> 0], begin |-> 0]
           base == [shape |-> <<>>, blks |-> <<>>, block |-> <<>>, begin |-> 0, loop |-> 0]
           A == <<At(<<>>, <<>>)>>
           B == <<base>>
           w == <<f>>
<1>1. /\ code = <<>> /\ block = <<>> /\ begin = 0 /\ level = 0 /\ max = 0
      /\ work = w /\ Waiting
  BY DEF Init, Start, Node, Waiting
<1>2. def.kind = "def" /\ Kind(def) = "def"
  BY DEF Kind
<1> HIDE DEF def
<1>3. f.s = def /\ f.at = 1 /\ f.begin = 0
  OBVIOUS
<1>4. base \in Bases /\ At(<<>>, <<>>) \in Places
  BY DEF Bases, Places, At
<1>5. /\ base.shape = <<>> /\ base.blks = <<>> /\ base.block = <<>> /\ base.begin = 0
      /\ BasePlace(base) = At(<<>>, <<>>)
  BY DEF BasePlace
<1>6. f = [s |-> def, at |-> 1, anchor |-> [n \in Anchors |-> 0], begin |-> base.begin]
  BY <1>5
<1> HIDE DEF base, f
<1>7. /\ A \in Seq(Places) /\ Len(A) = 1 /\ A[1] = At(<<>>, <<>>)
      /\ B \in Seq(Bases) /\ Len(B) = 1 /\ B[1] = base
      /\ IsSeq(w) /\ Len(w) = 1 /\ w[1] = f /\ w # <<>>
  BY <1>4 DEF IsSeq
<1> HIDE DEF A, B, w
<1>8. Nested(A, <<>>, At(<<>>, <<>>))
  BY DEF Nested, At
<1>9. Annotated(A, <<>>, 0)
  <2>1. \A k \in 1 .. Len(A) : Nested(A, <<>>, A[k])
    BY <1>7, <1>8
  <2> QED BY <1>7, <2>1 DEF Annotated
<1>10. FrameOK(A, <<>>, 0, f, base)
  <2>1. BaseOK(A, <<>>, base)
    BY <1>5, <1>8 DEF BaseOK
  <2>2. Height(base.shape) <= 0
    BY <1>5 DEF Height
  <2> QED BY <1>4, <1>6, <2>1, <2>2, FrameBegins
<1>11. FramesOK(A, <<>>, 0, w, B) /\ Linked(w, B)
  BY <1>7, <1>10 DEF FramesOK, Linked
<1>12. NowAt(A, <<>>, <<>>, 0, 0, f, base)
  <2>1. /\ PlaceOf(f, base) = At(<<>>, <<>>) /\ BlockAt(Kind(f.s), f.at, base) = <<>>
        /\ BeginAt(Kind(f.s), f.at, base) = 0 /\ LevelAt(Kind(f.s), f.at) = 0
    BY <1>3, <1>5, StartOfCall DEF PlaceOf
  <2>2. Height(base.shape) = 0 /\ A[Len(<<>>) + 1] = At(<<>>, <<>>)
    BY <1>5, <1>7 DEF Height
  <2> QED BY <2>1, <2>2 DEF NowAt
<1>13. Covered(<<>>, w)
  BY DEF Covered
<1>14. Ending(<<>>, w)
  BY <1>2, <1>3, <1>7 DEF Ending
<1>15. CompileOK(A, B, <<>>, <<>>, 0, 0, 0, w)
  <2>1. /\ <<>> \in Codes /\ <<>> \in Seq(BlockTypes) /\ 0 \in Nat /\ 0 <= 0
        /\ Len(<<>>) <= MaxBlocks
    BY BlocksAssumption DEF Codes
  <2> QED BY <1>7, <1>9, <1>11, <1>12, <1>13, <1>14, <2>1 DEF CompileOK
<1>16. Compiling(A, B)
  BY <1>1, <1>15 DEF Compiling
<1> QED BY <1>1, <1>7, <1>16 DEF Inv

\* An error of the compiler stays.
LEMMA ErrorStays ==
  ASSUME Compile, ~error'
  PROVE  ~error
<1>1. CASE AddByte \/ AddFwref \/ Backpatch \/ ChangeLevel \/ BeginLoop \/ EnterLoop \/ EndLoop
  BY <1>1 DEF AddByte, AddFwref, Backpatch, ChangeLevel, BeginLoop, EnterLoop, EndLoop
<1>2. CASE BlockPush \/ BlockPop
  BY <1>2 DEF BlockPush, BlockPop
<1>3. CASE BreakStmt \/ ContinueStmt
  BY <1>3 DEF BreakStmt, ContinueStmt
<1>4. CASE NodeCall \/ NodeReturn
  BY <1>4 DEF NodeCall, NodeReturn, compiling
<1> QED BY <1>1, <1>2, <1>3, <1>4 DEF Compile

LEMMA CompileStep ==
  ASSUME NEW A, NEW B, Compiling(A, B), Compile, ~error'
  PROVE  /\ work' # <<>> => \E A2, B2 : Compiling(A2, B2)'
         /\ work' = <<>> => \E A2 : Complete(A2, code', max')
<1>1. ~error
  BY ErrorStays
<1>2. CASE NodeReturn
  BY <1>2, NodeReturnStep
<1>3. CASE ~NodeReturn
  <2>1. \E A2, B2 : Compiling(A2, B2)'
    <3>1. CASE AddByte \/ AddFwref \/ Backpatch \/ ChangeLevel
      BY <3>1, AddByteStep, AddFwrefStep, BackpatchStep, ChangeLevelStep
    <3>2. CASE BlockPush \/ BlockPop \/ NodeCall
      BY <1>1, <3>2, BlockPushStep, BlockPopStep, NodeCallStep
    <3>3. CASE BeginLoop \/ EnterLoop \/ EndLoop
      BY <3>3, BeginLoopStep, EnterLoopStep, EndLoopStep
    <3>4. CASE BreakStmt \/ ContinueStmt
      BY <1>1, <3>4, BreakStep, ContinueStep
    <3> QED BY <1>3, <3>1, <3>2, <3>3, <3>4 DEF Compile
  <2>2. work' # <<>>
    BY <2>1 DEF Compiling, CompileOK, Ending
  <2> QED BY <2>1, <2>2
<1> QED BY <1>2, <1>3

\* The function is called with an empty stack, at the first place.
LEMMA Enters ==
  ASSUME NEW A, NEW c, NEW m, Complete(A, c, m)
  PROVE  Runs(A, c, m, 1, <<>>, <<>>)
<1>1. 1 \in 1 .. Len(c) /\ Len(c) \in Nat
  BY DEF Complete, Codes
<1>2. A[1] \in Places /\ Nested(A, c, A[1]) /\ A[1] = At(<<>>, <<>>)
  BY <1>1, CodeAt DEF Complete, Annotated
<1>3. A[1].shape = <<>> /\ A[1].blks = <<>>
  BY <1>2 DEF At
<1> DEFINE p == [i \in {0} |-> 0]
<1>4. Fits(<<>>, <<>>, p)
  <2>1. p[0] = 0 /\ 0 .. Len(<<>>) = {0} /\ p \in [{0} -> Nat] /\ IsSeq(<<>>)
    BY DEF IsSeq
  <2> HIDE DEF p
  <2> QED BY <2>1 DEF Fits
<1>5. BlocksAt(A, c, p, <<>>, <<>>)
  BY DEF BlocksAt, IsSeq
<1> HIDE DEF p
<1>6. Placed(A, c, p, <<>>, <<>>, A[1])
  BY <1>3, <1>4, <1>5 DEF Placed
<1>7. Sits(A, c, <<>>, <<>>, A[1])
  BY <1>2, <1>6 DEF Sits
<1>8. 1 \in 0 .. Len(c)
  BY <1>1
<1> QED BY <1>7, <1>8 DEF Runs

LEMMA RunStep ==
  ASSUME NEW A, Interpreting(A), work = <<>>, ~error, Next
  PROVE  Interpreting(A)' /\ Kept
<1>1. CASE Translate
  <2>1. FALSE
    BY <1>1 DEF Translate, Compile, AddByte, AddFwref, Backpatch, ChangeLevel, BlockPush, BlockPop,
       BeginLoop, EnterLoop, EndLoop, BreakStmt, ContinueStmt, NodeCall, NodeReturn, Doing
  <2> QED BY <2>1
<1>2. CASE Done
  BY <1>2 DEF Done, vars, compiling, Interpreting, Kept
<1>3. CASE Eval \/ ForLoop \/ PopTop \/ DupTop \/ LoadZero \/ LoadNone
  BY <1>3, EvalStep, ForLoopStep, PopTopStep, LoadStep, LoadNoneStep
<1>4. CASE ExcMatch \/ JumpIfFalse \/ Jump \/ Setup \/ PopBlock
  BY <1>4, ExcMatchStep, JumpIfFalseStep, JumpStep, SetupStep, PopBlockStep
<1>5. CASE BreakLoop \/ ReturnValue \/ RaiseVarargs \/ EndFinally
  BY <1>5, BreakLoopStep, ReturnValueStep, RaiseVarargsStep, EndFinallyStep
<1> QED BY <1>1, <1>2, <1>3, <1>4, <1>5 DEF Next

LEMMA NextHolds ==
  ASSUME Inv, Next
  PROVE  Inv'
<1> SUFFICES ASSUME ~error'
             PROVE  /\ work' # <<>> => Waiting' /\ \E A, B : Compiling(A, B)'
                    /\ work' = <<>> => \E A : Interpreting(A)'
  BY DEF Inv
<1>1. CASE work = <<>> /\ ~error
  <2>1. PICK A : Interpreting(A)
    BY <1>1 DEF Inv
  <2>2. Interpreting(A)' /\ Kept
    BY <1>1, <2>1, RunStep
  <2> QED BY <1>1, <2>2 DEF Kept
<1>2. CASE Translate
  <2>1. Compile /\ pc' = pc /\ stack' = stack /\ blocks' = blocks
    BY <1>2 DEF Translate
  <2>2. ~error /\ work # <<>>
    <3>1. work # <<>>
      BY <2>1 DEF Compile, AddByte, AddFwref, Backpatch, ChangeLevel, BlockPush, BlockPop,
         BeginLoop, EnterLoop, EndLoop, BreakStmt, ContinueStmt, NodeCall, NodeReturn, Doing
    <3> QED BY <2>1, <3>1, ErrorStays
  <2>3. PICK A, B : Compiling(A, B)
    BY <2>2 DEF Inv
  <2>4. Waiting
    BY <2>2 DEF Inv
  <2>5. /\ work' # <<>> => \E A2, B2 : Compiling(A2, B2)'
        /\ work' = <<>> => \E A2 : Complete(A2, code', max')
    BY <2>1, <2>3, CompileStep
  <2>6. Waiting'
    BY <2>1, <2>4 DEF Waiting
  <2>7. ASSUME NEW A2, Complete(A2, code', max')
        PROVE  Interpreting(A2)'
    <3>1. Runs(A2, code', max', 1, <<>>, <<>>)
      BY <2>7, Enters
    <3> QED BY <2>6, <3>1 DEF Interpreting, Waiting
  <2> QED BY <2>5, <2>6, <2>7
<1>3. CASE ~Translate /\ ~(work = <<>> /\ ~error)
  <2>1. CASE Done
    <3>1. UNCHANGED vars
      BY <2>1 DEF Done
    <3>2. work' = work /\ error' = error
      BY <3>1 DEF vars, compiling
    <3>3. work # <<>> /\ work = <<>>
      BY <1>3, <2>1, <3>2 DEF Done, Finished
    <3> QED BY <3>3
  <2>2. CASE ~Done
    <3>1. Running
      BY <1>3, <2>2 DEF Next, Eval, ForLoop, PopTop, DupTop, LoadZero, LoadNone, ExcMatch,
         JumpIfFalse, Jump, Setup, PopBlock, BreakLoop, ReturnValue, RaiseVarargs, EndFinally, Is
    <3> QED BY <1>3, <3>1 DEF Running, Compiled
  <2> QED BY <2>1, <2>2
<1> QED BY <1>1, <1>2, <1>3

\* The invariant holds for every program, every number of blocks a frame may
\* have and every number of choices.
THEOREM FrameInvariant == Spec => []Inv
<1>1. Init => Inv
  BY InitHolds
<1>2. Inv /\ [Next]_vars => Inv'
  <2> SUFFICES ASSUME Inv, [Next]_vars
               PROVE  Inv'
    OBVIOUS
  <2>1. CASE Next
    BY <2>1, NextHolds
  <2>2. CASE UNCHANGED vars
    BY <2>2 DEF vars, compiling, Inv, Waiting, Compiling, Interpreting
  <2> QED BY <2>1, <2>2
<1> QED BY <1>1, <1>2, PTL DEF Spec

-----------------------------------------------------------------------------
(* What the invariant says of a frame that runs. *)

\* What an instruction takes is on the stack.
LEMMA TakenIsThere ==
  ASSUME NEW A, Interpreting(A), Running
  PROVE  Len(stack) >= Taken(code[pc].op)
<1> DEFINE a == A[pc]
           n == A[pc + 1]
           op == code[pc].op
<1>1. /\ Complete(A, code, max) /\ pc \in 1 .. Len(code) /\ Sits(A, code, stack, blocks, a)
      /\ IsSeq(stack) /\ Len(stack) \in Nat
  BY AtPc
<1>2. /\ Flows(A, op, pc, a, n) /\ op \in Ops /\ n \in Places /\ Nested(A, code, n)
      /\ a \in Places
      /\ op \in Aiming => Aims(op, a, A[code[pc].arg]) /\ A[code[pc].arg] \in Places
                            /\ Nested(A, code, A[code[pc].arg])
  BY <1>1, CodeAt
<1> HIDE DEF a, n, op
<1>3. CASE op \in {"DUP_TOP", "JUMP_IF_FALSE"}
  <2>1. a.shape # <<>>
    BY <1>2, <1>3 DEF Flows
  <2>2. Len(stack) > 0
    BY <1>1, <2>1, SitsBounds
  <2>3. Taken(op) = 1
    BY <1>3 DEF Taken
  <2> QED BY <1>1, <2>2, <2>3 DEF op
<1>4. CASE op \in Taking
  <2>1. n.blks = a.blks /\ a.shape \in {V(n.shape), Pushed(n.shape, "exc")}
    BY <1>2, <1>4 DEF Flows
  <2>2. Len(stack) >= 1
    BY <1>1, <1>2, <2>1, SitsPop
  <2>3. Taken(op) = 1
    BY <1>4 DEF Taken, Taking
  <2> QED BY <2>2, <2>3 DEF op
<1>5. CASE op = "EXC_MATCH"
  <2>1. PICK sh \in Seq(Cells) : n = At(V(sh), a.blks) /\ a.shape = V(V(sh))
    BY <1>2, <1>5 DEF Flows
  <2> DEFINE st == SubSeq(stack, 1, Len(stack) - 1)
  <2>2. n.shape = V(sh) /\ n.blks = a.blks /\ a.shape = V(n.shape)
    BY <2>1 DEF At
  <2>3. Len(stack) >= 1 /\ \A v : CutAt(stack, Len(stack) - 1, v) => Sits(A, code, v, blocks, n)
    BY <1>1, <1>2, <2>2, SitsPop
  <2>4. CutAt(stack, Len(stack) - 1, st)
    BY <1>1, <2>3 DEF CutAt
  <2> HIDE DEF st
  <2>5. Sits(A, code, st, blocks, n) /\ Len(st) = Len(stack) - 1
    BY <1>1, <2>3, <2>4, SeqCut
  <2>6. n.shape # <<>>
    BY <2>2, ShapesAre
  <2>7. Len(st) > 0
    BY <1>1, <2>5, <2>6, SitsBounds
  <2>8. Taken(op) = 2
    BY <1>5 DEF Taken
  <2> QED BY <1>1, <2>5, <2>7, <2>8 DEF op
<1>6. CASE op = "FOR_LOOP"
  <2> DEFINE t == A[code[pc].arg]
  <2>1. Aims(op, a, t) /\ t \in Places /\ Nested(A, code, t)
    BY <1>2, <1>6 DEF Aiming
  <2> HIDE DEF t
  <2>2. a.shape = V(V(t.shape)) /\ t.blks = a.blks
    BY <1>6, <2>1 DEF Aims, At
  <2>3. Len(stack) >= 2
    BY <1>1, <2>1, <2>2, SitsPopTwo
  <2>4. Taken(op) = 2
    BY <1>6 DEF Taken
  <2> QED BY <2>3, <2>4 DEF op
<1>7. CASE op = "END_FINALLY"
  <2>1. n.blks = a.blks /\ a.shape \in {W(n.shape), H(n.shape)}
    BY <1>2, <1>7 DEF Flows
  <2>2. PICK j \in {1, 2, 3} :
           /\ Len(stack) >= j
           /\ \/ j = 1 /\ stack[Len(stack)].is \in {"None", "break"}
              \/ j = 2 /\ stack[Len(stack)].is = "return"
              \/ j = 3 /\ stack[Len(stack)].is = "exception"
    BY <1>1, <1>2, <2>1, SitsEnds
  <2>3. stack # <<>>
    BY <1>1, <2>2
  <2>4. Top(0) = stack[Len(stack)]
    BY <1>1, TopIs
  <2>5. Taken(op) = CASE Top(0).is = "return" -> 2
                      [] Top(0).is = "exception" -> 3
                      [] OTHER -> 1
    BY <1>7, <2>3 DEF Taken
  <2>6. Taken(op) = j
    BY <2>2, <2>4, <2>5
  <2> QED BY <2>2, <2>6 DEF op
<1>8. CASE op \notin {"DUP_TOP", "JUMP_IF_FALSE", "EXC_MATCH", "FOR_LOOP", "END_FINALLY"} \cup Taking
  <2>1. Taken(op) = 0
    BY <1>8 DEF Taken, Taking
  <2> QED BY <1>1, <2>1 DEF op
<1> QED BY <1>3, <1>4, <1>5, <1>6, <1>7, <1>8

LEMMA BlockIsThere ==
  ASSUME NEW A, Interpreting(A), Running, code[pc].op = "POP_BLOCK"
  PROVE  blocks # <<>>
<1>1. /\ Complete(A, code, max) /\ pc \in 1 .. Len(code) /\ Sits(A, code, stack, blocks, A[pc])
  BY AtPc
<1>2. Flows(A, "POP_BLOCK", pc, A[pc], A[pc + 1]) /\ A[pc + 1] \in Places
  BY <1>1, CodeAt
<1>3. PICK j \in 1 .. pc : A[pc] = At(A[pc + 1].shape, Append(A[pc + 1].blks, j))
  BY <1>2 DEF Flows
<1>4. A[pc].blks = Append(A[pc + 1].blks, j) /\ A[pc + 1].blks \in Seq(Nat) /\ j \in Nat
  BY <1>1, <1>2, <1>3 DEF At, Places
<1>5. Len(A[pc].blks) = Len(A[pc + 1].blks) + 1 /\ Len(A[pc + 1].blks) \in Nat
  BY <1>4
<1>6. Len(blocks) = Len(A[pc].blks)
  BY <1>1, SitsBounds
<1>7. Len(<<>>) = 0
  OBVIOUS
<1> QED BY <1>5, <1>6, <1>7

\* No frame needs more of its stacks than the compiler has counted for it, and
\* every instruction finds what it takes: for every program.
THEOREM FrameFitsAlways == Spec => []FrameFits
<1>1. Inv => FrameFits
  <2> SUFFICES ASSUME Inv, Running
               PROVE  /\ Len(stack) <= max /\ Len(blocks) <= MaxBlocks
                      /\ pc \in DOMAIN code /\ Len(stack) >= Taken(code[pc].op)
                      /\ code[pc].op = "POP_BLOCK" => blocks # <<>>
                      /\ \A i \in DOMAIN blocks : blocks[i].level \in 0 .. Len(stack)
    BY DEF FrameFits
  <2>1. PICK A : Interpreting(A)
    BY DEF Inv, Running, Compiled
  <2>2. /\ Complete(A, code, max) /\ pc \in 1 .. Len(code)
        /\ Sits(A, code, stack, blocks, A[pc]) /\ IsSeq(blocks)
    BY <2>1, AtPc
  <2>3. /\ Len(stack) \in Nat /\ Len(stack) <= Height(A[pc].shape) /\ Len(blocks) = Len(A[pc].blks)
        /\ \A i \in 1 .. Len(blocks) : blocks[i].level \in 0 .. Len(stack)
    BY <2>2, SitsBounds
  <2>4. /\ Height(A[pc].shape) <= max /\ Len(A[pc].blks) <= MaxBlocks /\ A[pc] \in Places
    BY <2>2, CodeAt
  <2>5. Len(stack) <= max /\ Len(blocks) <= MaxBlocks
    <3>1. max \in Nat /\ Height(A[pc].shape) \in Nat
      BY <2>2, <2>4, HeightIsNat DEF Complete, Places
    <3> QED BY <2>3, <2>4, <3>1
  <2>6. DOMAIN blocks = 1 .. Len(blocks) /\ DOMAIN code = 1 .. Len(code)
    BY <2>2 DEF IsSeq, Complete, Codes
  <2>7. Len(stack) >= Taken(code[pc].op)
    BY <2>1, TakenIsThere
  <2>8. code[pc].op = "POP_BLOCK" => blocks # <<>>
    BY <2>1, BlockIsThere
  <2> QED BY <2>2, <2>3, <2>5, <2>6, <2>7, <2>8
<1> QED BY <1>1, FrameInvariant, PTL

-----------------------------------------------------------------------------
(* RefusesMisplaced.  While statements are translated the program is allowed  *)
(* if and only if nothing forbidden is left to do for any call of com_node.   *)

\* The block stack and c_loops when a call began.
Stands == [block : Seq(BlockTypes), loops : Nat]

LoopsAt(K, at, b) ==
  IF (K = "while" /\ at \in 8 .. 9) \/ (K = "for" /\ at \in 10 .. 11) THEN b.loops + 1
  ELSE b.loops

Around(bl) == [i \in 1 .. Len(bl) |-> IF bl[i] = "SETUP_LOOP" THEN "loop" ELSE "try"]

\* c_loops counts loops around, if not how many.
Counted(b) == b.loops > 0 <=> \E i \in 1 .. Len(b.block) : b.block[i] = "SETUP_LOOP"
StandOK(b) == b \in Stands /\ Len(b.block) <= MaxBlocks /\ Counted(b)

\* The block stack and c_loops of a call now.
Standing(K, at, b, bl, lp) == bl = BlockAt(K, at, b) /\ lp = LoopsAt(K, at, b)

\* What the rest of the calls for s, from the one at at, may find forbidden.
Demands(s, at, ar) ==
  LET K == Kind(s)
      Room(m) == at <= m => Len(ar) < MaxBlocks
      Fine(x, m) == at <= m => Allowed(x, ar)
      Within(x, m, type) == at <= m => Allowed(x, Append(ar, type))
  IN CASE K = "def" -> Fine(s.body, 1)
       [] K = "break" -> at <= 1 => \E i \in DOMAIN ar : ar[i] = "loop"
       [] K = "continue" -> at <= 1 => ar # <<>> /\ ar[Len(ar)] = "loop"
       [] K = "seq" -> Fine(s.body, 1) /\ Fine(s.els, 2)
       [] K = "skip" -> Fine(s.els, 1)
       [] K = "if" -> Fine(s.body, 4) /\ Fine(s.els, 8)
       [] K = "while" -> Room(2) /\ Within(s.body, 8, "loop") /\ Fine(s.els, 14)
       [] K = "for" -> Room(2) /\ Within(s.body, 10, "loop") /\ Fine(s.els, 16)
       [] K = "bare" ->
            Room(2) /\ Within(s.body, 3, "try") /\ Fine(s.handler, 12) /\ Fine(s.els, 16)
       [] K = "typed" ->
            Room(2) /\ Within(s.body, 3, "try") /\ Fine(s.handler, 17) /\ Fine(s.els, 23)
       [] K = "finally" -> Room(6) /\ Within(s.body, 3, "try") /\ Within(s.els, 9, "try")
       [] OTHER -> TRUE

\* Where something may be forbidden.
Marks ==
  {<<"def", 1>>, <<"break", 1>>, <<"continue", 1>>, <<"seq", 1>>, <<"seq", 2>>, <<"skip", 1>>,
   <<"if", 4>>, <<"if", 8>>, <<"while", 2>>, <<"while", 8>>, <<"while", 14>>, <<"for", 2>>, <<"for", 10>>,
   <<"for", 16>>, <<"bare", 2>>, <<"bare", 3>>, <<"bare", 12>>, <<"bare", 16>>, <<"typed", 2>>,
   <<"typed", 3>>, <<"typed", 17>>, <<"typed", 23>>, <<"finally", 3>>, <<"finally", 6>>,
   <<"finally", 9>>}

\* A program, or the function made of one.
Stated(s) == s \in Programs \/ (s.kind = "def" /\ s.body \in Programs)
PlainCall(f) ==
  /\ f = [s |-> f.s, at |-> f.at, anchor |-> f.anchor, begin |-> f.begin]
  /\ f.at \in 1 .. Len(Calls(f.s)) + 1 /\ Stated(f.s)

\* N: how the calls in w began.
NestOK(w, N, bl, lp) ==
  /\ IsSeq(w) /\ w # <<>> /\ IsSeq(N) /\ Len(N) = Len(w)
  /\ bl \in Seq(BlockTypes) /\ Len(bl) <= MaxBlocks
  /\ \A j \in 1 .. Len(w) : PlainCall(w[j]) /\ StandOK(N[j])
  /\ \A j \in 1 .. Len(w) - 1 :
       /\ AtPart(w[j])
       /\ Standing(Kind(w[j].s), w[j].at, N[j], N[j + 1].block, N[j + 1].loops)
  /\ Standing(Kind(w[Len(w)].s), w[Len(w)].at, N[Len(w)], bl, lp)

\* A call that waits for one of its parts has the rest to do.
Before(w, N, n) == \A j \in 1 .. n : Demands(w[j].s, w[j].at + 1, Around(N[j].block))
Remains(w, N) ==
  Before(w, N, Len(w) - 1) /\ Demands(w[Len(w)].s, w[Len(w)].at, Around(N[Len(w)].block))

Judging(N) ==
  NestOK(work, N, block, loops) /\ (Allowed(prog, <<>>) <=> Remains(work, N))

Refusal ==
  /\ error => ~Allowed(prog, <<>>)
  /\ ~error /\ work # <<>> => \E N : Judging(N)
  /\ ~error /\ work = <<>> => Allowed(prog, <<>>)

-----------------------------------------------------------------------------

LEMMA AroundIs ==
  ASSUME NEW bl \in Seq(BlockTypes), Len(bl) <= MaxBlocks
  PROVE  /\ Around(bl) \in Nests /\ Len(Around(bl)) = Len(bl) /\ DOMAIN Around(bl) = 1 .. Len(bl)
         /\ \A i \in 1 .. Len(bl) : Around(bl)[i] = "loop" <=> bl[i] = "SETUP_LOOP"
<1>1. Len(bl) \in 0 .. MaxBlocks
  BY BlocksAssumption
<1>2. Around(bl) \in [1 .. Len(bl) -> {"loop", "try"}]
  BY DEF Around
<1>3. Around(bl) \in Nests
  BY <1>1, <1>2 DEF Nests
<1>4. Around(bl) \in Seq({"loop", "try"}) /\ Len(Around(bl)) = Len(bl)
  BY <1>1, <1>2
<1>5. \A i \in 1 .. Len(bl) : Around(bl)[i] = "loop" <=> bl[i] = "SETUP_LOOP"
  BY DEF Around
<1> QED BY <1>2, <1>3, <1>4, <1>5

LEMMA AroundMore ==
  ASSUME NEW bl \in Seq(BlockTypes), NEW t \in BlockTypes
  PROVE  Around(Append(bl, t)) = Append(Around(bl), IF t = "SETUP_LOOP" THEN "loop" ELSE "try")
<1> DEFINE x == IF t = "SETUP_LOOP" THEN "loop" ELSE "try"
           more == Append(bl, t)
           next == Append(Around(bl), x)
<1>1. /\ more \in Seq(BlockTypes) /\ Len(more) = Len(bl) + 1 /\ more[Len(bl) + 1] = t
      /\ \A i \in 1 .. Len(bl) : more[i] = bl[i]
  OBVIOUS
<1>2. Around(bl) \in [1 .. Len(bl) -> {"loop", "try"}] /\ x \in {"loop", "try"} /\ Len(bl) \in Nat
  BY DEF Around
<1>3. Around(bl) \in Seq({"loop", "try"}) /\ Len(Around(bl)) = Len(bl)
  BY <1>2
<1>4. /\ next \in Seq({"loop", "try"}) /\ Len(next) = Len(bl) + 1 /\ next[Len(bl) + 1] = x
      /\ \A i \in 1 .. Len(bl) : next[i] = Around(bl)[i]
  BY <1>2, <1>3
<1>5. next = [i \in 1 .. Len(bl) + 1 |-> next[i]]
  BY <1>4
<1>6. Around(more) = [i \in 1 .. Len(bl) + 1 |-> IF more[i] = "SETUP_LOOP" THEN "loop" ELSE "try"]
  BY <1>1 DEF Around
<1>7. \A i \in 1 .. Len(bl) : Around(bl)[i] = IF bl[i] = "SETUP_LOOP" THEN "loop" ELSE "try"
  BY DEF Around
<1> HIDE DEF more, next
<1>8. \A i \in 1 .. Len(bl) + 1 : next[i] = IF more[i] = "SETUP_LOOP" THEN "loop" ELSE "try"
  <2> SUFFICES ASSUME NEW i \in 1 .. Len(bl) + 1
               PROVE  next[i] = IF more[i] = "SETUP_LOOP" THEN "loop" ELSE "try"
    OBVIOUS
  <2>1. CASE i \in 1 .. Len(bl)
    BY <1>1, <1>4, <1>7, <2>1
  <2>2. CASE i = Len(bl) + 1
    BY <1>1, <1>4, <2>2
  <2> QED BY <1>2, <2>1, <2>2
<1>9. Around(more) = next
  BY <1>5, <1>6, <1>8
<1> QED BY <1>9 DEF more, next

\* At the start everything is asked, at the end nothing.
LEMMA DemandsStart ==
  ASSUME NEW s \in Programs, NEW ar \in Nests
  PROVE  Allowed(s, ar) <=> Demands(s, 1, ar)
<1>1. Allowed(s, ar) <=> Admits(s, ar, Allowed)
  BY NestingAssumption
<1>2. s.kind # "def"
  BY NestingAssumption
<1> DEFINE K == Kind(s)
<1> USE DEF Admits, Demands, Skips
<1>3. CASE s.kind \in {"break", "continue"}
  BY <1>1, <1>3 DEF Kind
<1>4. CASE s.kind = "seq"
  BY <1>1, <1>4 DEF Kind
<1>5. CASE s.kind = "if" /\ ~s.never
  BY <1>1, <1>5 DEF Kind
<1>6. CASE s.kind = "if" /\ s.never
  BY <1>1, <1>6 DEF Kind
<1>7. CASE s.kind \in {"while", "for"}
  BY <1>1, <1>7 DEF Kind
<1>8. CASE s.kind = "except"
  BY <1>1, <1>8 DEF Kind
<1>9. CASE s.kind = "finally"
  BY <1>1, <1>9 DEF Kind
<1>10. CASE s.kind \notin {"break", "continue", "seq", "if", "while", "for", "except", "finally"}
  <2>1. Admits(s, ar, Allowed)
    BY <1>10
  <2>2. K \notin {"def", "break", "continue", "seq", "skip", "if", "while", "for", "bare", "typed", "finally"}
    BY <1>2, <1>10 DEF Kind
  <2> QED BY <1>1, <2>1, <2>2
<1> QED BY <1>3, <1>4, <1>5, <1>6, <1>7, <1>8, <1>9, <1>10

LEMMA DemandsEnd ==
  ASSUME NEW s, NEW at, at = Len(Calls(s)) + 1, NEW ar
  PROVE  Demands(s, at, ar)
<1> DEFINE K == Kind(s)
<1>1. at = LastOf(K)
  BY CallsLast
<1>2. CASE K \in {"def", "break", "continue", "seq", "skip", "if"}
  BY <1>1, <1>2 DEF LastOf, Demands
<1>3. CASE K \in {"while", "for", "finally"}
  BY <1>1, <1>3 DEF LastOf, Demands
<1>4. CASE K \in {"bare", "typed"}
  BY <1>1, <1>4 DEF LastOf, Demands
<1>5. CASE K \notin {"def", "break", "continue", "seq", "skip", "if", "while", "for", "bare", "typed",
                     "finally"}
  BY <1>5 DEF Demands
<1> QED BY <1>2, <1>3, <1>4, <1>5

LEMMA DemandsStay ==
  ASSUME NEW s, NEW at \in Nat, <<Kind(s), at>> \notin Marks, NEW ar
  PROVE  Demands(s, at, ar) <=> Demands(s, at + 1, ar)
<1> DEFINE K == Kind(s)
<1>1. CASE K \in {"def", "break", "continue", "skip"}
  <2>1. at # 1
    BY <1>1 DEF Marks
  <2>2. at <= 1 <=> at + 1 <= 1
    BY <2>1
  <2> QED BY <1>1, <2>2 DEF Demands
<1>2. CASE K = "seq"
  <2>1. at # 1 /\ at # 2
    BY <1>2 DEF Marks
  <2>2. (at <= 1 <=> at + 1 <= 1) /\ (at <= 2 <=> at + 1 <= 2)
    BY <2>1
  <2> QED BY <1>2, <2>2 DEF Demands
<1>3. CASE K = "if"
  <2>1. at # 4 /\ at # 8
    BY <1>3 DEF Marks
  <2>2. (at <= 4 <=> at + 1 <= 4) /\ (at <= 8 <=> at + 1 <= 8)
    BY <2>1
  <2> QED BY <1>3, <2>2 DEF Demands
<1>4. CASE K = "while"
  <2>1. at # 2 /\ at # 8 /\ at # 14
    BY <1>4 DEF Marks
  <2>2. (at <= 2 <=> at + 1 <= 2) /\ (at <= 8 <=> at + 1 <= 8) /\ (at <= 14 <=> at + 1 <= 14)
    BY <2>1
  <2> QED BY <1>4, <2>2 DEF Demands
<1>5. CASE K = "for"
  <2>1. at # 2 /\ at # 10 /\ at # 16
    BY <1>5 DEF Marks
  <2>2. (at <= 2 <=> at + 1 <= 2) /\ (at <= 10 <=> at + 1 <= 10) /\ (at <= 16 <=> at + 1 <= 16)
    BY <2>1
  <2> QED BY <1>5, <2>2 DEF Demands
<1>6. CASE K = "bare"
  <2>1. at # 2 /\ at # 3 /\ at # 12 /\ at # 16
    BY <1>6 DEF Marks
  <2>2. /\ (at <= 2 <=> at + 1 <= 2) /\ (at <= 3 <=> at + 1 <= 3)
        /\ (at <= 12 <=> at + 1 <= 12) /\ (at <= 16 <=> at + 1 <= 16)
    BY <2>1
  <2> QED BY <1>6, <2>2 DEF Demands
<1>7. CASE K = "typed"
  <2>1. at # 2 /\ at # 3 /\ at # 17 /\ at # 23
    BY <1>7 DEF Marks
  <2>2. /\ (at <= 2 <=> at + 1 <= 2) /\ (at <= 3 <=> at + 1 <= 3)
        /\ (at <= 17 <=> at + 1 <= 17) /\ (at <= 23 <=> at + 1 <= 23)
    BY <2>1
  <2> QED BY <1>7, <2>2 DEF Demands
<1>8. CASE K = "finally"
  <2>1. at # 3 /\ at # 6 /\ at # 9
    BY <1>8 DEF Marks
  <2>2. (at <= 3 <=> at + 1 <= 3) /\ (at <= 6 <=> at + 1 <= 6) /\ (at <= 9 <=> at + 1 <= 9)
    BY <2>1
  <2> QED BY <1>8, <2>2 DEF Demands
<1>9. CASE K \notin {"def", "break", "continue", "seq", "skip", "if", "while", "for", "bare", "typed",
                     "finally"}
  BY <1>9 DEF Demands
<1> QED BY <1>1, <1>2, <1>3, <1>4, <1>5, <1>6, <1>7, <1>8, <1>9

\* A block is opened.
LEMMA DemandsPush ==
  ASSUME NEW s, NEW at, NEW t, <<Kind(s), at, t>> \in PushesOf, NEW ar
  PROVE  Demands(s, at, ar) <=> Len(ar) < MaxBlocks /\ Demands(s, at + 1, ar)
<1>1. CASE Kind(s) \in {"while", "for"}
  BY <1>1 DEF PushesOf, Demands
<1>2. CASE Kind(s) = "bare"
  BY <1>2 DEF PushesOf, Demands
<1>3. CASE Kind(s) = "typed"
  BY <1>3 DEF PushesOf, Demands
<1>4. CASE Kind(s) = "finally"
  BY <1>4 DEF PushesOf, Demands
<1> QED BY <1>1, <1>2, <1>3, <1>4 DEF PushesOf

LEMMA PartIs ==
  ASSUME NEW s, NEW at, <<Kind(s), at>> \in PartsOf
  PROVE  Calls(s)[at].s =
           IF <<Kind(s), at>> \in {<<"bare", 12>>, <<"typed", 17>>} THEN s.handler
           ELSE IF <<Kind(s), at>> \in {<<"seq", 2>>, <<"skip", 1>>, <<"if", 8>>, <<"while", 14>>, <<"for", 16>>,
                                        <<"bare", 16>>, <<"typed", 23>>, <<"finally", 9>>}
                THEN s.els ELSE s.body
<1> DEFINE K == Kind(s)
<1> USE DEF Part
<1>1. CASE K = "def"
  <2>1. Calls(s) = FuncDef(s) BY <1>1 DEF Calls, Kind
  <2> QED BY <1>1, <2>1 DEF FuncDef, PartsOf
<1>2. CASE K = "seq"
  <2>1. Calls(s) = <<Part(s.body), Part(s.els)>> BY <1>2 DEF Calls, Kind
  <2> QED BY <1>2, <2>1 DEF PartsOf
<1>3. CASE K = "if"
  <2>1. Calls(s) = IfStmt(s) /\ ~s.never BY <1>3 DEF Calls, Kind
  <2> QED BY <1>3, <2>1 DEF IfStmt, PartsOf
<1>4. CASE K = "while"
  <2>1. Calls(s) = WhileStmt(s) BY <1>4 DEF Calls, Kind
  <2> QED BY <1>4, <2>1 DEF WhileStmt, PartsOf
<1>5. CASE K = "for"
  <2>1. Calls(s) = ForStmt(s) BY <1>5 DEF Calls, Kind
  <2> QED BY <1>5, <2>1 DEF ForStmt, PartsOf
<1>6. CASE K = "bare"
  <2>1. Calls(s) = TryExcept(s) BY <1>6 DEF Calls, Kind
  <2> QED BY <1>6, <2>1 DEF TryExcept, PartsOf
<1>7. CASE K = "typed"
  <2>1. Calls(s) = TryExceptTyped(s) BY <1>7 DEF Calls, Kind
  <2> QED BY <1>7, <2>1 DEF TryExceptTyped, PartsOf
<1>8. CASE K = "finally"
  <2>1. Calls(s) = TryFinally(s) BY <1>8 DEF Calls, Kind
  <2> QED BY <1>8, <2>1 DEF TryFinally, PartsOf
<1>9. CASE K = "skip"
  <2>1. Calls(s) = IfStmt(s) /\ s.never BY <1>9 DEF Calls, Kind
  <2> QED BY <1>9, <2>1 DEF IfStmt, PartsOf
<1> QED BY <1>1, <1>2, <1>3, <1>4, <1>5, <1>6, <1>7, <1>8, <1>9 DEF PartsOf

LEMMA PartsAreStated ==
  ASSUME NEW s, Stated(s), NEW at, <<Kind(s), at>> \in PartsOf
  PROVE  Calls(s)[at].s \in Programs
<1> DEFINE x == Calls(s)[at].s
<1>1. CASE s.kind = "def"
  <2>1. s.body \in Programs
    BY <1>1, NestingAssumption DEF Stated
  <2>2. Kind(s) = "def"
    BY <1>1 DEF Kind
  <2>3. x = s.body
    BY <2>2, PartIs
  <2> QED BY <2>1, <2>3
<1>2. CASE s.kind # "def"
  <2>1. Parts(s) \subseteq Programs
    BY <1>2, NestingAssumption DEF Stated
  <2>2. /\ s.kind \in {"seq", "if", "while", "for", "finally"} => x \in {s.body, s.els}
        /\ s.kind = "if" /\ s.never => x = s.els
        /\ s.kind = "except" => x \in {s.body, s.handler, s.els}
    BY PartIs DEF Kind, PartsOf
  <2>3. s.kind \in {"seq", "if", "while", "for", "finally"} \/ s.kind = "except"
    BY <1>2 DEF Kind, PartsOf
  <2>4. x \in Parts(s)
    BY <2>2, <2>3 DEF Parts, Skips
  <2> QED BY <2>1, <2>4
<1> QED BY <1>1, <1>2

\* A part is compiled.
LEMMA DemandsPart ==
  ASSUME NEW s, NEW at, <<Kind(s), at>> \in PartsOf, NEW b \in Stands
  PROVE  Demands(s, at, Around(b.block)) <=>
           /\ Allowed(Calls(s)[at].s, Around(BlockAt(Kind(s), at, b)))
           /\ Demands(s, at + 1, Around(b.block))
<1> DEFINE K == Kind(s)
           ar == Around(b.block)
           x == Calls(s)[at].s
<1>1. b.block \in Seq(BlockTypes)
  BY DEF Stands
<1>2. CASE <<K, at>> \in {<<"while", 8>>, <<"for", 10>>}
  <2>1. BlockAt(K, at, b) = Append(b.block, "SETUP_LOOP") /\ x = s.body
    BY <1>2, PartIs DEF BlockAt
  <2>2. Around(BlockAt(K, at, b)) = Append(ar, "loop")
    BY <1>1, <2>1, AroundMore DEF BlockTypes, Setups
  <2> HIDE DEF ar, x
  <2>3. Demands(s, at, ar) <=> Allowed(s.body, Append(ar, "loop")) /\ Demands(s, at + 1, ar)
    BY <1>2 DEF Demands
  <2> QED BY <2>1, <2>2, <2>3 DEF ar, x
<1>3. CASE <<K, at>> \in {<<"bare", 3>>, <<"typed", 3>>, <<"finally", 3>>, <<"finally", 9>>}
  <2>1. PICK t \in {"SETUP_EXCEPT", "SETUP_FINALLY", "END_FINALLY"} :
          BlockAt(K, at, b) = Append(b.block, t)
    <3>1. K \in {"bare", "typed"} => BlockAt(K, at, b) = Append(b.block, "SETUP_EXCEPT")
      BY <1>3 DEF BlockAt
    <3>2. K = "finally" /\ at = 3 => BlockAt(K, at, b) = Append(b.block, "SETUP_FINALLY")
      BY <1>3 DEF BlockAt
    <3>3. K = "finally" /\ at = 9 => BlockAt(K, at, b) = Append(b.block, "END_FINALLY")
      BY <1>3 DEF BlockAt
    <3>4. K \in {"bare", "typed"} \/ (K = "finally" /\ at = 3) \/ (K = "finally" /\ at = 9)
      BY <1>3
    <3> QED BY <3>1, <3>2, <3>3, <3>4
  <2>2. t \in BlockTypes /\ t # "SETUP_LOOP"
    BY DEF BlockTypes, Setups
  <2>3. Around(BlockAt(K, at, b)) = Append(ar, "try")
    BY <1>1, <2>1, <2>2, AroundMore
  <2>4. x = IF at = 9 THEN s.els ELSE s.body
    BY <1>3, PartIs
  <2> HIDE DEF ar, x
  <2>5. Demands(s, at, ar) <=>
          Allowed(IF at = 9 THEN s.els ELSE s.body, Append(ar, "try")) /\ Demands(s, at + 1, ar)
    BY <1>3 DEF Demands
  <2> QED BY <2>3, <2>4, <2>5 DEF ar, x
<1>4. CASE <<K, at>> \in {<<"def", 1>>, <<"seq", 1>>, <<"seq", 2>>, <<"skip", 1>>, <<"if", 4>>,
                          <<"if", 8>>, <<"while", 14>>, <<"for", 16>>, <<"bare", 12>>, <<"bare", 16>>,
                          <<"typed", 17>>, <<"typed", 23>>}
  <2>1. BlockAt(K, at, b) = b.block
    BY <1>4 DEF BlockAt
  <2>2. x = IF <<K, at>> \in {<<"bare", 12>>, <<"typed", 17>>} THEN s.handler
            ELSE IF <<K, at>> \in {<<"seq", 2>>, <<"skip", 1>>, <<"if", 8>>, <<"while", 14>>,
                                   <<"for", 16>>, <<"bare", 16>>, <<"typed", 23>>} THEN s.els ELSE s.body
    BY <1>4, PartIs
  <2> HIDE DEF ar, x
  <2>3. CASE K \in {"def", "seq", "skip", "if", "while", "for"}
    <3>1. Demands(s, at, ar) <=> Allowed(x, ar) /\ Demands(s, at + 1, ar)
      BY <1>4, <2>2, <2>3 DEF Demands
    <3> QED BY <2>1, <3>1 DEF ar, x
  <2>4. CASE K \in {"bare", "typed"}
    <3>1. Demands(s, at, ar) <=> Allowed(x, ar) /\ Demands(s, at + 1, ar)
      BY <1>4, <2>2, <2>4 DEF Demands
    <3> QED BY <2>1, <3>1 DEF ar, x
  <2>5. K \in {"def", "seq", "skip", "if", "while", "for"} \/ K \in {"bare", "typed"}
    BY <1>4
  <2> QED BY <2>3, <2>4, <2>5
<1> QED BY <1>2, <1>3, <1>4 DEF PartsOf

\* The rows of the tables that leave the block stack and c_loops alone.
Quiet(K, at, b) ==
  /\ at \in Nat /\ <<K, at>> \notin Marks
  /\ BlockAt(K, at + 1, b) = BlockAt(K, at, b) /\ LoopsAt(K, at + 1, b) = LoopsAt(K, at, b)

LEMMA QuietRows ==
  ASSUME NEW K, NEW at, NEW b
  PROVE  /\ \A op, n : <<K, at, op, n>> \in BytesOf => Quiet(K, at, b)
         /\ \A op, n : <<K, at, op, n>> \in FwrefsOf => Quiet(K, at, b)
         /\ \A n : <<K, at, n>> \in PatchesOf => Quiet(K, at, b)
         /\ \A n : <<K, at, n>> \in LevelsOf => Quiet(K, at, b)
         /\ <<K, at>> \in BeginsOf => Quiet(K, at, b)
<1>1. ASSUME NEW op, NEW n, <<K, at, op, n>> \in BytesOf
      PROVE  Quiet(K, at, b)
  <2>1. at \in Nat /\ SameBlock(K, at, b)
    BY <1>1, ByteRows
  <2>2. <<K, at>> \notin Marks
    BY <1>1 DEF BytesOf, Marks
  <2>3. LoopsAt(K, at + 1, b) = LoopsAt(K, at, b)
    BY <1>1 DEF BytesOf, LoopsAt
  <2> QED BY <2>1, <2>2, <2>3 DEF Quiet, SameBlock
<1>2. ASSUME NEW op, NEW n, <<K, at, op, n>> \in FwrefsOf
      PROVE  Quiet(K, at, b)
  <2>1. at \in Nat /\ BlockAt(K, at + 1, b) = BlockAt(K, at, b)
    BY <1>2 DEF FwrefsOf, BlockAt
  <2>2. <<K, at>> \notin Marks
    BY <1>2 DEF FwrefsOf, Marks
  <2>3. LoopsAt(K, at + 1, b) = LoopsAt(K, at, b)
    BY <1>2 DEF FwrefsOf, LoopsAt
  <2> QED BY <2>1, <2>2, <2>3 DEF Quiet
<1>3. ASSUME NEW n, <<K, at, n>> \in PatchesOf
      PROVE  Quiet(K, at, b)
  <2>1. at \in Nat /\ SameBlock(K, at, b)
    BY <1>3, PatchRows
  <2>2. <<K, at>> \notin Marks
    BY <1>3 DEF PatchesOf, Marks
  <2>3. LoopsAt(K, at + 1, b) = LoopsAt(K, at, b)
    BY <1>3 DEF PatchesOf, LoopsAt
  <2> QED BY <2>1, <2>2, <2>3 DEF Quiet, SameBlock
<1>4. ASSUME NEW n, <<K, at, n>> \in LevelsOf
      PROVE  Quiet(K, at, b)
  <2>1. at \in Nat /\ SameBlock(K, at, b)
    BY <1>4, LevelRows
  <2>2. <<K, at>> \notin Marks
    BY <1>4 DEF LevelsOf, Marks
  <2>3. LoopsAt(K, at + 1, b) = LoopsAt(K, at, b)
    BY <1>4 DEF LevelsOf, LoopsAt
  <2> QED BY <2>1, <2>2, <2>3 DEF Quiet, SameBlock
<1>5. ASSUME <<K, at>> \in BeginsOf
      PROVE  Quiet(K, at, b)
  <2>1. at \in Nat /\ SameBlock(K, at, b)
    BY <1>5, BeginRows
  <2>2. <<K, at>> \notin Marks /\ LoopsAt(K, at + 1, b) = LoopsAt(K, at, b)
    BY <1>5 DEF BeginsOf, Marks, LoopsAt
  <2> QED BY <2>1, <2>2 DEF Quiet, SameBlock
<1> QED BY <1>1, <1>2, <1>3, <1>4, <1>5

LEMMA CountRows ==
  ASSUME NEW K, NEW at, NEW b, b.loops \in Nat
  PROVE  /\ <<K, at>> \in LoopsOf =>
              /\ at \in Nat /\ <<K, at>> \notin Marks /\ BlockAt(K, at + 1, b) = BlockAt(K, at, b)
              /\ LoopsAt(K, at + 1, b) = LoopsAt(K, at, b) + 1
         /\ <<K, at>> \in AgainsOf =>
              /\ at \in Nat /\ <<K, at>> \notin Marks /\ BlockAt(K, at + 1, b) = BlockAt(K, at, b)
              /\ LoopsAt(K, at + 1, b) = LoopsAt(K, at, b) - 1
         /\ \A t : <<K, at, t>> \in PopsOf =>
              <<K, at>> \notin Marks /\ LoopsAt(K, at + 1, b) = LoopsAt(K, at, b)
         /\ <<K, at>> \in PartsOf =>
              /\ at \in Nat /\ BlockAt(K, at + 1, b) = BlockAt(K, at, b)
              /\ LoopsAt(K, at + 1, b) = LoopsAt(K, at, b)
         /\ K \in {"break", "continue"} =>
              /\ BlockAt(K, 1, b) = b.block /\ LoopsAt(K, 1, b) = b.loops
              /\ BlockAt(K, 2, b) = b.block /\ LoopsAt(K, 2, b) = b.loops
<1>1. ASSUME <<K, at>> \in LoopsOf
      PROVE  /\ at \in Nat /\ <<K, at>> \notin Marks /\ BlockAt(K, at + 1, b) = BlockAt(K, at, b)
             /\ LoopsAt(K, at + 1, b) = LoopsAt(K, at, b) + 1
  BY <1>1 DEF LoopsOf, Marks, BlockAt, LoopsAt
<1>2. ASSUME <<K, at>> \in AgainsOf
      PROVE  /\ at \in Nat /\ <<K, at>> \notin Marks /\ BlockAt(K, at + 1, b) = BlockAt(K, at, b)
             /\ LoopsAt(K, at + 1, b) = LoopsAt(K, at, b) - 1
  BY <1>2 DEF AgainsOf, Marks, BlockAt, LoopsAt
<1>3. ASSUME NEW t, <<K, at, t>> \in PopsOf
      PROVE  <<K, at>> \notin Marks /\ LoopsAt(K, at + 1, b) = LoopsAt(K, at, b)
  BY <1>3 DEF PopsOf, Marks, LoopsAt
<1>4. ASSUME <<K, at>> \in PartsOf
      PROVE  /\ at \in Nat /\ BlockAt(K, at + 1, b) = BlockAt(K, at, b)
             /\ LoopsAt(K, at + 1, b) = LoopsAt(K, at, b)
  <2>1. at \in Nat /\ SameBlock(K, at, b)
    BY <1>4, StillRows
  <2>2. LoopsAt(K, at + 1, b) = LoopsAt(K, at, b)
    BY <1>4 DEF PartsOf, LoopsAt
  <2> QED BY <2>1, <2>2 DEF SameBlock
<1>5. ASSUME K \in {"break", "continue"}
      PROVE  /\ BlockAt(K, 1, b) = b.block /\ LoopsAt(K, 1, b) = b.loops
             /\ BlockAt(K, 2, b) = b.block /\ LoopsAt(K, 2, b) = b.loops
  BY <1>5 DEF BlockAt, LoopsAt
<1> QED BY <1>1, <1>2, <1>3, <1>4, <1>5

LEMMA MoreIs ==
  ASSUME NEW S, NEW q \in Seq(S), NEW x \in S, NEW r, r = Append(q, x)
  PROVE  /\ r \in Seq(S) /\ Len(r) = Len(q) + 1 /\ Len(r) \in 1 .. Len(r) /\ r[Len(r)] = x
         /\ \A i \in 1 .. Len(q) : r[i] = q[i] /\ i \in 1 .. Len(r)
         /\ \A i \in 1 .. Len(r) : i \in 1 .. Len(q) \/ i = Len(r)
<1>1. Len(q) \in Nat /\ r \in Seq(S) /\ Len(r) = Len(q) + 1
  OBVIOUS
<1>2. r[Len(q) + 1] = x /\ \A i \in 1 .. Len(q) : r[i] = q[i]
  BY <1>1
<1> QED BY <1>1, <1>2

\* Where a part begins, c_loops is positive if and only if a loop is around.
LEMMA PartStands ==
  ASSUME NEW K, NEW at, <<K, at>> \in PartsOf, NEW b, StandOK(b),
         NEW b2, b2 = [block |-> BlockAt(K, at, b), loops |-> LoopsAt(K, at, b)],
         Len(b2.block) <= MaxBlocks
  PROVE  StandOK(b2)
<1>1. b.block \in Seq(BlockTypes) /\ b.loops \in Nat /\ Counted(b)
  BY DEF StandOK, Stands
<1>2. b2.block = BlockAt(K, at, b) /\ b2.loops = LoopsAt(K, at, b)
  OBVIOUS
<1>3. CASE <<K, at>> \in {<<"while", 8>>, <<"for", 10>>}
  <2>1. b2.block = Append(b.block, "SETUP_LOOP")
    BY <1>2, <1>3 DEF BlockAt
  <2>2. b2.loops = b.loops + 1
    BY <1>2, <1>3 DEF LoopsAt
  <2>3. "SETUP_LOOP" \in BlockTypes
    BY DEF BlockTypes, Setups
  <2>4. b2.block \in Seq(BlockTypes) /\ Len(b2.block) \in 1 .. Len(b2.block)
    BY <1>1, <2>1, <2>3, MoreIs
  <2>5. b2.block[Len(b2.block)] = "SETUP_LOOP"
    BY <1>1, <2>1, <2>3, MoreIs
  <2>6. Counted(b2)
    BY <1>1, <2>2, <2>4, <2>5 DEF Counted
  <2>7. b2 \in Stands
    BY <1>1, <2>2, <2>4 DEF Stands
  <2> QED BY <2>6, <2>7 DEF StandOK
<1>4. CASE <<K, at>> \notin {<<"while", 8>>, <<"for", 10>>}
  <2>1. b2.loops = b.loops
    BY <1>2, <1>4 DEF LoopsAt, PartsOf
  <2>2. CASE b2.block = b.block
    <3>1. Counted(b2)
      BY <1>1, <2>1, <2>2 DEF Counted
    <3>2. b2 \in Stands
      BY <1>1, <2>1, <2>2 DEF Stands
    <3> QED BY <3>1, <3>2 DEF StandOK
  <2>3. CASE \E t \in BlockTypes \ {"SETUP_LOOP"} : b2.block = Append(b.block, t)
    <3>1. PICK t \in BlockTypes : t # "SETUP_LOOP" /\ b2.block = Append(b.block, t)
      BY <2>3
    <3>2. /\ b2.block \in Seq(BlockTypes) /\ b2.block[Len(b2.block)] = t
          /\ \A i \in 1 .. Len(b.block) : b2.block[i] = b.block[i] /\ i \in 1 .. Len(b2.block)
          /\ \A i \in 1 .. Len(b2.block) : i \in 1 .. Len(b.block) \/ i = Len(b2.block)
      BY <1>1, <3>1, MoreIs
    <3>3. (\E i \in 1 .. Len(b2.block) : b2.block[i] = "SETUP_LOOP") <=>
            \E i \in 1 .. Len(b.block) : b.block[i] = "SETUP_LOOP"
      BY <3>1, <3>2
    <3>4. Counted(b2)
      BY <1>1, <2>1, <3>3 DEF Counted
    <3>5. b2 \in Stands
      BY <1>1, <2>1, <3>2 DEF Stands
    <3> QED BY <3>4, <3>5 DEF StandOK
  <2>4. \/ b2.block = b.block
        \/ \E t \in BlockTypes \ {"SETUP_LOOP"} : b2.block = Append(b.block, t)
    <3>1. CASE <<K, at>> \in {<<"bare", 3>>, <<"typed", 3>>, <<"finally", 3>>, <<"finally", 9>>}
      <4>1. K \in {"bare", "typed"} => b2.block = Append(b.block, "SETUP_EXCEPT")
        BY <1>2, <3>1 DEF BlockAt
      <4>2. K = "finally" /\ at = 3 => b2.block = Append(b.block, "SETUP_FINALLY")
        BY <1>2, <3>1 DEF BlockAt
      <4>3. K = "finally" /\ at = 9 => b2.block = Append(b.block, "END_FINALLY")
        BY <1>2, <3>1 DEF BlockAt
      <4>4. {"SETUP_EXCEPT", "SETUP_FINALLY", "END_FINALLY"} \subseteq BlockTypes \ {"SETUP_LOOP"}
        BY DEF BlockTypes, Setups
      <4>5. K \in {"bare", "typed"} \/ (K = "finally" /\ at = 3) \/ (K = "finally" /\ at = 9)
        BY <3>1
      <4> QED BY <4>1, <4>2, <4>3, <4>4, <4>5
    <3>2. CASE <<K, at>> \notin {<<"bare", 3>>, <<"typed", 3>>, <<"finally", 3>>, <<"finally", 9>>}
      <4>1. BlockAt(K, at, b) = b.block
        BY <1>4, <3>2 DEF BlockAt, PartsOf
      <4> QED BY <1>2, <4>1
    <3> QED BY <3>1, <3>2
  <2> QED BY <2>2, <2>3, <2>4
<1> QED BY <1>3, <1>4

-----------------------------------------------------------------------------

LEMMA PlainMoves ==
  ASSUME NEW f, PlainCall(f), f.at <= Len(Calls(f.s)), NEW n, NEW k
  PROVE  /\ PlainCall(Moved(f)) /\ Moved(f).s = f.s /\ Moved(f).at = f.at + 1
         /\ PlainCall(Anchored(f, n, k)) /\ Anchored(f, n, k).s = f.s
         /\ Anchored(f, n, k).at = f.at + 1
<1> PICK s, at, anchor, begin0 :
      f = [s |-> s, at |-> at, anchor |-> anchor, begin |-> begin0]
  BY DEF PlainCall
<1>1. Moved(f) = [s |-> s, at |-> at + 1, anchor |-> anchor, begin |-> begin0]
  BY DEF Moved
<1>2. Anchored(f, n, k) =
        [s |-> s, at |-> at + 1, anchor |-> [anchor EXCEPT ![n] = k], begin |-> begin0]
  <2>1. Anchored(f, n, k) = [f EXCEPT !.at = f.at + 1, !.anchor = [f.anchor EXCEPT ![n] = k]]
    BY DEF Anchored
  <2> QED BY <2>1
<1>3. at \in 1 .. Len(Calls(s)) + 1 /\ at <= Len(Calls(s)) /\ Stated(s)
  BY DEF PlainCall
<1>4. at + 1 \in 1 .. Len(Calls(s)) + 1
  BY <1>3
<1>5. PlainCall(Moved(f)) /\ Moved(f).s = f.s /\ Moved(f).at = f.at + 1
  BY <1>1, <1>3, <1>4 DEF PlainCall
<1>6. /\ PlainCall(Anchored(f, n, k)) /\ Anchored(f, n, k).s = f.s
      /\ Anchored(f, n, k).at = f.at + 1
  BY <1>2, <1>3, <1>4 DEF PlainCall
<1> QED BY <1>5, <1>6

\* The innermost call.
LEMMA NestIs ==
  ASSUME NEW w, NEW N, NEW bl, NEW lp, NestOK(w, N, bl, lp)
  PROVE  /\ Len(w) \in 1 .. Len(w) /\ Len(N) = Len(w) /\ IsSeq(w) /\ IsSeq(N)
         /\ PlainCall(w[Len(w)]) /\ StandOK(N[Len(w)])
         /\ N[Len(w)].block \in Seq(BlockTypes) /\ N[Len(w)].loops \in Nat
         /\ Len(N[Len(w)].block) <= MaxBlocks
         /\ bl \in Seq(BlockTypes) /\ Len(bl) <= MaxBlocks
         /\ Standing(Kind(w[Len(w)].s), w[Len(w)].at, N[Len(w)], bl, lp)
<1>1. IsSeq(w) /\ w # <<>> /\ Len(N) = Len(w) /\ IsSeq(N)
  BY DEF NestOK
<1>2. Len(w) \in Nat /\ w = [i \in 1 .. Len(w) |-> w[i]]
  BY <1>1 DEF IsSeq
<1>3. Len(w) # 0
  <2> SUFFICES ASSUME Len(w) = 0 PROVE FALSE
    OBVIOUS
  <2>1. 1 .. Len(w) = {}
    OBVIOUS
  <2>2. w = [i \in {} |-> w[i]]
    BY <1>2, <2>1
  <2>3. [i \in {} |-> w[i]] = <<>>
    OBVIOUS
  <2> QED BY <1>1, <2>2, <2>3
<1>4. Len(w) \in 1 .. Len(w)
  BY <1>2, <1>3
<1>5. PlainCall(w[Len(w)]) /\ StandOK(N[Len(w)])
  BY <1>4 DEF NestOK
<1>6. N[Len(w)] \in Stands /\ Len(N[Len(w)].block) <= MaxBlocks
  BY <1>5 DEF StandOK
<1>7. N[Len(w)].block \in Seq(BlockTypes) /\ N[Len(w)].loops \in Nat
  BY <1>6 DEF Stands
<1> QED BY <1>1, <1>4, <1>5, <1>6, <1>7 DEF NestOK

LEMMA NestMoves ==
  ASSUME NEW w, NEW N, NEW bl, NEW lp, NestOK(w, N, bl, lp),
         NEW g, PlainCall(g), NEW w2, PutAt(w, Len(w), g, w2),
         NEW bl2 \in Seq(BlockTypes), Len(bl2) <= MaxBlocks, NEW lp2,
         Standing(Kind(g.s), g.at, N[Len(w)], bl2, lp2)
  PROVE  /\ NestOK(w2, N, bl2, lp2)
         /\ Remains(w2, N) <=>
              Before(w, N, Len(w) - 1) /\ Demands(g.s, g.at, Around(N[Len(w)].block))
<1>1. Len(w) \in 1 .. Len(w) /\ Len(N) = Len(w) /\ IsSeq(w) /\ IsSeq(N)
  BY NestIs
<1>2. /\ IsSeq(w2) /\ Len(w2) = Len(w) /\ w2[Len(w)] = g
      /\ \A i \in 1 .. Len(w) : i # Len(w) => w2[i] = w[i]
  BY <1>1, SeqPut
<1>3. \A j \in 1 .. Len(w) - 1 : j \in 1 .. Len(w) /\ w2[j] = w[j]
  BY <1>1, <1>2
<1>4. w2 # <<>>
  BY <1>1, <1>2
<1>5. \A j \in 1 .. Len(w2) : PlainCall(w2[j]) /\ StandOK(N[j])
  BY <1>1, <1>2 DEF NestOK
<1>6. \A j \in 1 .. Len(w2) - 1 :
        /\ AtPart(w2[j])
        /\ Standing(Kind(w2[j].s), w2[j].at, N[j], N[j + 1].block, N[j + 1].loops)
  BY <1>2, <1>3 DEF NestOK
<1>7. NestOK(w2, N, bl2, lp2)
  BY <1>1, <1>2, <1>4, <1>5, <1>6 DEF NestOK
<1>8. Before(w2, N, Len(w2) - 1) <=> Before(w, N, Len(w) - 1)
  BY <1>2, <1>3 DEF Before
<1>9. Remains(w2, N) <=>
        Before(w, N, Len(w) - 1) /\ Demands(g.s, g.at, Around(N[Len(w)].block))
  BY <1>2, <1>8 DEF Remains
<1> QED BY <1>7, <1>9

LEMMA NestCalls ==
  ASSUME NEW w, NEW N, NEW bl, NEW lp, NestOK(w, N, bl, lp),
         NEW f, f = w[Len(w)], AtPart(f), NEW K, NEW at, K = Kind(f.s), at = f.at,
         <<K, at>> \in PartsOf, NEW g, NEW be, g = Called(Calls(f.s)[at].s, be),
         NEW w2, AddedTo(w, g, w2)
  PROVE  \E N2 : NestOK(w2, N2, bl, lp) /\ (Remains(w2, N2) <=> Remains(w, N))
<1> DEFINE n == Len(w)
           b == N[n]
           b2 == [block |-> BlockAt(K, at, b), loops |-> LoopsAt(K, at, b)]
           N2 == Append(N, b2)
           s2 == Calls(f.s)[at].s
<1>1. /\ n \in 1 .. n /\ Len(N) = n /\ IsSeq(w) /\ IsSeq(N) /\ PlainCall(f) /\ StandOK(b)
      /\ bl \in Seq(BlockTypes) /\ Len(bl) <= MaxBlocks /\ Standing(K, at, b, bl, lp)
  BY NestIs
<1>2. bl = BlockAt(K, at, b) /\ lp = LoopsAt(K, at, b)
  BY <1>1 DEF Standing
<1>3. b2 = [block |-> bl, loops |-> lp] /\ b2.block = bl /\ b2.loops = lp
  BY <1>2
<1>4. StandOK(b2)
  <2>1. Len(b2.block) <= MaxBlocks
    BY <1>1, <1>3
  <2> QED BY <1>1, <2>1, PartStands
<1>5. AddedTo(N, b2, N2)
  BY DEF AddedTo
<1>6. s2 \in Programs
  BY <1>1, PartsAreStated DEF PlainCall
<1>7. /\ g = [s |-> s2, at |-> 1, anchor |-> [i \in Anchors |-> 0], begin |-> be]
      /\ g.s = s2 /\ g.at = 1
  BY DEF Called
<1>8. PlainCall(g)
  <2>1. 1 \in 1 .. Len(Calls(s2)) + 1
    <3>1. Len(Calls(s2)) + 1 = LastOf(Kind(s2))
      BY CallsLast
    <3>2. LastOf(Kind(s2)) \in 1 .. 25
      BY DEF LastOf
    <3> QED BY <3>1, <3>2
  <2> HIDE DEF s2
  <2>2. Stated(g.s)
    BY <1>6, <1>7 DEF Stated
  <2>3. g = [s |-> g.s, at |-> g.at, anchor |-> g.anchor, begin |-> g.begin]
    BY <1>7
  <2> QED BY <1>7, <2>1, <2>2, <2>3 DEF PlainCall
<1> HIDE DEF b2, N2, s2, n
<1>9. /\ IsSeq(w2) /\ Len(w2) = n + 1 /\ w2[n + 1] = g
      /\ \A i \in 1 .. n : w2[i] = w[i]
  <2>1. IsSeq(w) /\ n = Len(w)
    BY <1>1 DEF n
  <2> QED BY <2>1, SeqAppend
<1>10. /\ IsSeq(N2) /\ Len(N2) = n + 1 /\ N2[n + 1] = b2
       /\ \A i \in 1 .. n : N2[i] = N[i]
  BY <1>1, <1>5, SeqAppend
<1>11. n \in Nat /\ n >= 1 /\ (\A j \in 1 .. n - 1 : j \in 1 .. n /\ j + 1 \in 1 .. n)
  BY <1>1
<1>12. /\ \A j \in 1 .. n : PlainCall(w[j]) /\ StandOK(N[j])
       /\ \A j \in 1 .. n - 1 :
            AtPart(w[j]) /\ Standing(Kind(w[j].s), w[j].at, N[j], N[j + 1].block, N[j + 1].loops)
  BY DEF NestOK, n
<1>13. \A j \in 1 .. n + 1 : PlainCall(w2[j]) /\ StandOK(N2[j])
  <2>1. \A j \in 1 .. n + 1 : j \in 1 .. n \/ j = n + 1
    BY <1>11
  <2> QED BY <1>4, <1>8, <1>9, <1>10, <1>12, <2>1
<1>14. \A j \in 1 .. n :
         /\ AtPart(w2[j])
         /\ Standing(Kind(w2[j].s), w2[j].at, N2[j], N2[j + 1].block, N2[j + 1].loops)
  <2> SUFFICES ASSUME NEW j \in 1 .. n
               PROVE  /\ AtPart(w2[j])
                      /\ Standing(Kind(w2[j].s), w2[j].at, N2[j], N2[j + 1].block, N2[j + 1].loops)
    OBVIOUS
  <2>1. CASE j \in 1 .. n - 1
    BY <1>9, <1>10, <1>11, <1>12, <2>1
  <2>2. CASE j = n
    <3>1. w2[j] = f /\ N2[j] = b /\ N2[j + 1] = b2
      BY <1>1, <1>9, <1>10, <2>2 DEF n
    <3>2. Standing(K, at, b, b2.block, b2.loops)
      BY <1>1, <1>3
    <3> QED BY <3>1, <3>2
  <2> QED BY <1>11, <2>1, <2>2
<1>15. Standing(Kind(g.s), g.at, b2, bl, lp)
  <2>1. BlockAt(Kind(g.s), 1, b2) = b2.block
    BY StartOfCall
  <2>2. LoopsAt(Kind(g.s), 1, b2) = b2.loops
    BY DEF LoopsAt
  <2> QED BY <1>3, <1>7, <2>1, <2>2 DEF Standing
<1>16. NestOK(w2, N2, bl, lp)
  <2>1. w2 # <<>> /\ Len(w2) - 1 = n /\ Len(N2) = Len(w2)
    BY <1>9, <1>10, <1>11
  <2>2. \A j \in 1 .. Len(w2) : PlainCall(w2[j]) /\ StandOK(N2[j])
    BY <1>9, <1>13
  <2>3. \A j \in 1 .. Len(w2) - 1 :
          /\ AtPart(w2[j])
          /\ Standing(Kind(w2[j].s), w2[j].at, N2[j], N2[j + 1].block, N2[j + 1].loops)
    BY <1>14, <2>1
  <2>4. Standing(Kind(w2[Len(w2)].s), w2[Len(w2)].at, N2[Len(w2)], bl, lp)
    BY <1>9, <1>10, <1>15
  <2> QED BY <1>1, <1>9, <1>10, <2>1, <2>2, <2>3, <2>4 DEF NestOK
<1>17. Before(w2, N2, n) <=>
         Before(w, N, n - 1) /\ Demands(f.s, at + 1, Around(b.block))
  <2>1. \A j \in 1 .. n : j \in 1 .. n - 1 \/ j = n
    BY <1>11
  <2>2. n \in 1 .. n /\ \A j \in 1 .. n - 1 : j \in 1 .. n
    BY <1>11
  <2>3. w2[n].s = f.s /\ w2[n].at = at /\ N2[n] = b
    BY <1>1, <1>9, <1>10 DEF n
  <2>4. \A j \in 1 .. n - 1 : w2[j] = w[j] /\ N2[j] = N[j]
    BY <1>9, <1>10, <1>11
  <2> HIDE DEF b
  <2>5. ASSUME Before(w2, N2, n)
        PROVE  Before(w, N, n - 1) /\ Demands(f.s, at + 1, Around(b.block))
    <3>1. \A j \in 1 .. n : Demands(w2[j].s, w2[j].at + 1, Around(N2[j].block))
      BY <2>5 DEF Before
    <3>2. Demands(f.s, at + 1, Around(b.block))
      BY <2>2, <2>3, <3>1
    <3>3. Before(w, N, n - 1)
      BY <2>2, <2>4, <3>1 DEF Before
    <3> QED BY <3>2, <3>3
  <2>6. ASSUME Before(w, N, n - 1), Demands(f.s, at + 1, Around(b.block))
        PROVE  Before(w2, N2, n)
    <3>1. \A j \in 1 .. n - 1 : Demands(w[j].s, w[j].at + 1, Around(N[j].block))
      BY <2>6 DEF Before
    <3> QED BY <2>1, <2>3, <2>4, <2>6, <3>1 DEF Before
  <2> QED BY <2>5, <2>6
<1>18. Demands(f.s, at, Around(b.block)) <=>
         Allowed(s2, Around(bl)) /\ Demands(f.s, at + 1, Around(b.block))
  <2>1. b \in Stands
    BY <1>1 DEF StandOK
  <2>2. <<Kind(f.s), at>> \in PartsOf
    OBVIOUS
  <2> QED BY <1>2, <2>1, <2>2, DemandsPart DEF s2
<1>19. Allowed(s2, Around(bl)) <=> Demands(s2, 1, Around(bl))
  <2>1. Around(bl) \in Nests
    BY <1>1, AroundIs
  <2> QED BY <1>6, <2>1, DemandsStart
<1>20. Remains(w2, N2) <=> Before(w2, N2, n) /\ Demands(s2, 1, Around(bl))
  <2>1. Len(w2) - 1 = n /\ w2[Len(w2)] = g /\ N2[Len(w2)] = b2
    BY <1>9, <1>10, <1>11
  <2> QED BY <1>3, <1>7, <2>1 DEF Remains
<1>21. Remains(w, N) <=> Before(w, N, n - 1) /\ Demands(f.s, at, Around(b.block))
  BY DEF Remains, n
<1> QED BY <1>16, <1>17, <1>18, <1>19, <1>20, <1>21

LEMMA NestReturns ==
  ASSUME NEW w, NEW N, NEW bl, NEW lp, NestOK(w, N, bl, lp),
         w[Len(w)].at = Len(Calls(w[Len(w)].s)) + 1, Len(w) # 1, NEW v, FrontOf(w, v),
         NEW w2, PutAt(v, Len(v), Moved(v[Len(v)]), w2)
  PROVE  \E N2 : NestOK(w2, N2, bl, lp) /\ (Remains(w2, N2) <=> Remains(w, N))
<1> DEFINE n == Len(w)
           k == n - 1
           f == w[k]
           b == N[k]
           N2 == SubSeq(N, 1, Len(N) - 1)
           ar == Around(b.block)
<1>1. /\ n \in 1 .. n /\ Len(N) = n /\ IsSeq(w) /\ IsSeq(N)
      /\ bl \in Seq(BlockTypes) /\ Len(bl) <= MaxBlocks
      /\ Standing(Kind(w[n].s), w[n].at, N[n], bl, lp)
  BY NestIs
<1>2. k \in 1 .. k /\ k \in 1 .. n /\ k + 1 = n /\ n \in Nat /\ k \in Nat
  BY <1>1
<1>3. /\ \A j \in 1 .. n : PlainCall(w[j]) /\ StandOK(N[j])
      /\ \A j \in 1 .. k :
           AtPart(w[j]) /\ Standing(Kind(w[j].s), w[j].at, N[j], N[j + 1].block, N[j + 1].loops)
  BY DEF NestOK
<1>4. PlainCall(f) /\ StandOK(b) /\ AtPart(f) /\ b.loops \in Nat /\ b \in Stands
  BY <1>2, <1>3 DEF StandOK, Stands
<1>5. Standing(Kind(f.s), f.at, b, N[n].block, N[n].loops)
  BY <1>2, <1>3
<1>6. bl = N[n].block /\ lp = N[n].loops
  <2>1. BlockAt(Kind(w[n].s), w[n].at, N[n]) = N[n].block
    BY CallsEnd
  <2>2. w[n].at = LastOf(Kind(w[n].s))
    BY CallsLast
  <2>3. LoopsAt(Kind(w[n].s), w[n].at, N[n]) = N[n].loops
    BY <2>2 DEF LoopsAt, LastOf
  <2> QED BY <1>1, <2>1, <2>3 DEF Standing
<1>7. Demands(w[n].s, w[n].at, Around(N[n].block))
  BY DemandsEnd
<1>8. FrontOf(N, N2)
  <2>1. N # <<>>
    BY <1>1
  <2> QED BY <2>1 DEF FrontOf
<1>9. <<Kind(f.s), f.at>> \in PartsOf /\ f.at <= Len(Calls(f.s))
  <2>1. f.at \in 1 .. Len(Calls(f.s)) /\ Calls(f.s)[f.at].do = "part"
    BY <1>4 DEF AtPart, PlainCall, Calling
  <2>2. CallOf(Kind(f.s), f.at, Calls(f.s)[f.at])
    BY <2>1, CallsAre
  <2> QED BY <2>1, <2>2 DEF CallOf
<1>10. Standing(Kind(f.s), f.at + 1, b, bl, lp)
  <2>1. /\ BlockAt(Kind(f.s), f.at + 1, b) = BlockAt(Kind(f.s), f.at, b)
        /\ LoopsAt(Kind(f.s), f.at + 1, b) = LoopsAt(Kind(f.s), f.at, b)
    BY <1>4, <1>9, CountRows
  <2> QED BY <1>5, <1>6, <2>1 DEF Standing
<1>11. PlainCall(Moved(f)) /\ Moved(f).s = f.s /\ Moved(f).at = f.at + 1
  BY <1>4, <1>9, PlainMoves
<1> HIDE DEF N2, n
<1>12. IsSeq(v) /\ Len(v) = k /\ \A j \in 1 .. k : v[j] = w[j]
  BY <1>1, SeqFront DEF n
<1>13. IsSeq(N2) /\ Len(N2) = k /\ \A j \in 1 .. k : N2[j] = N[j]
  BY <1>1, <1>8, SeqFront
<1>14. /\ IsSeq(w2) /\ Len(w2) = k /\ w2[k] = Moved(f)
       /\ \A j \in 1 .. k : j # k => w2[j] = w[j]
  <2>1. /\ IsSeq(w2) /\ Len(w2) = Len(v) /\ w2[Len(v)] = Moved(v[Len(v)])
        /\ \A j \in 1 .. Len(v) : j # Len(v) => w2[j] = v[j]
    BY <1>12, SeqPut
  <2> QED BY <1>2, <1>12, <2>1
<1>15. \A j \in 1 .. k - 1 : j \in 1 .. k /\ j \in 1 .. n /\ j # k /\ j + 1 \in 1 .. k
  BY <1>2
<1>16. NestOK(w2, N2, bl, lp)
  <2>1. w2 # <<>>
    BY <1>2, <1>14
  <2>2. \A j \in 1 .. k : PlainCall(w2[j]) /\ StandOK(N2[j])
    <3> SUFFICES ASSUME NEW j \in 1 .. k
                 PROVE  PlainCall(w2[j]) /\ StandOK(N2[j])
      OBVIOUS
    <3>1. j \in 1 .. n
      BY <1>2
    <3> QED BY <1>3, <1>11, <1>13, <1>14, <3>1
  <2>3. \A j \in 1 .. k - 1 :
          /\ AtPart(w2[j])
          /\ Standing(Kind(w2[j].s), w2[j].at, N2[j], N2[j + 1].block, N2[j + 1].loops)
    BY <1>3, <1>13, <1>14, <1>15
  <2>4. Standing(Kind(w2[k].s), w2[k].at, N2[k], bl, lp)
    BY <1>2, <1>10, <1>11, <1>13, <1>14
  <2> QED BY <1>1, <1>13, <1>14, <2>1, <2>2, <2>3, <2>4 DEF NestOK
<1>17. Before(w2, N2, k - 1) <=> Before(w, N, k - 1)
  BY <1>13, <1>14, <1>15 DEF Before
<1>18. Before(w, N, k) <=> Before(w, N, k - 1) /\ Demands(f.s, f.at + 1, ar)
  <2>1. \A j \in 1 .. k : j \in 1 .. k - 1 \/ j = k
    BY <1>2
  <2> QED BY <1>2, <1>15, <2>1 DEF Before
<1>19. Remains(w2, N2) <=> Before(w2, N2, k - 1) /\ Demands(f.s, f.at + 1, ar)
  BY <1>2, <1>11, <1>13, <1>14 DEF Remains
<1>20. Remains(w, N) <=> Before(w, N, k)
  BY <1>7 DEF Remains, n
<1> QED BY <1>16, <1>17, <1>18, <1>19, <1>20

-----------------------------------------------------------------------------
(* What each action does. *)

LEMMA WhatActs ==
  ASSUME NEW N, Judging(N), NEW what, Doing(what)
  PROVE  /\ CallOf(Kind(Call.s), Call.at, Op) /\ Op.do = what
         /\ Call.at \in 1 .. Len(Calls(Call.s)) /\ PlainCall(Call)
         /\ Len(work) \in 1 .. Len(work) /\ NestOK(work, N, block, loops)
         /\ Standing(Kind(Call.s), Call.at, N[Len(work)], block, loops)
         /\ StandOK(N[Len(work)])
         /\ PutAt(work, Len(work), Moved(Call), Advanced)
         /\ PlainCall(Moved(Call)) /\ Moved(Call).s = Call.s /\ Moved(Call).at = Call.at + 1
<1>1. NestOK(work, N, block, loops)
  BY DEF Judging
<1>2. /\ PlainCall(Call) /\ Len(work) \in 1 .. Len(work) /\ StandOK(N[Len(work)])
      /\ Standing(Kind(Call.s), Call.at, N[Len(work)], block, loops)
  BY <1>1, NestIs DEF Call
<1>3. Call.at <= Len(Calls(Call.s)) /\ Op.do = what
  BY DEF Doing, Op
<1>4. Call.at \in 1 .. Len(Calls(Call.s))
  BY <1>2, <1>3 DEF PlainCall
<1>5. CallOf(Kind(Call.s), Call.at, Op)
  BY <1>4, CallsAre DEF Op, Calling
<1>6. PutAt(work, Len(work), Moved(Call), Advanced)
  BY <1>2 DEF PutAt, Moved, Advanced, Call
<1>7. PlainCall(Moved(Call)) /\ Moved(Call).s = Call.s /\ Moved(Call).at = Call.at + 1
  BY <1>2, <1>3, PlainMoves
<1> QED BY <1>1, <1>2, <1>3, <1>4, <1>5, <1>6, <1>7

\* The innermost call goes on, and what was forbidden still is.
LEMMA Judges ==
  ASSUME NEW N, Judging(N), NEW g, PlainCall(g), g.s = Call.s, g.at = Call.at + 1,
         PutAt(work, Len(work), g, work'), prog' = prog,
         block' \in Seq(BlockTypes), Len(block') <= MaxBlocks,
         Standing(Kind(Call.s), Call.at + 1, N[Len(work)], block', loops'),
         Demands(Call.s, Call.at, Around(N[Len(work)].block)) <=>
           Demands(Call.s, Call.at + 1, Around(N[Len(work)].block))
  PROVE  Judging(N)'
<1>1. /\ NestOK(work', N, block', loops')
      /\ Remains(work', N) <=>
           Before(work, N, Len(work) - 1) /\ Demands(g.s, g.at, Around(N[Len(work)].block))
  <2>1. NestOK(work, N, block, loops) /\ Standing(Kind(g.s), g.at, N[Len(work)], block', loops')
    BY DEF Judging
  <2> QED BY <2>1, NestMoves
<1>2. Remains(work', N) <=> Remains(work, N)
  BY <1>1 DEF Remains, Call
<1> QED BY <1>1, <1>2 DEF Judging

\* Something forbidden: the program is.
LEMMA Refuses ==
  ASSUME NEW N, Judging(N), ~Demands(Call.s, Call.at, Around(N[Len(work)].block))
  PROVE  ~Allowed(prog, <<>>)
BY DEF Judging, Remains, Call

LEMMA QuietStep ==
  ASSUME NEW N, Judging(N), AddByte \/ AddFwref \/ Backpatch \/ ChangeLevel \/ BeginLoop
  PROVE  Judging(N)' /\ error' = error /\ prog' = prog
<1> DEFINE b == N[Len(work)]
           K == Kind(Call.s)
           at == Call.at
<1>1. /\ error' = error /\ prog' = prog /\ block' = block /\ loops' = loops
  BY DEF AddByte, AddFwref, Backpatch, ChangeLevel, BeginLoop
<1>2. PICK what \in {"byte", "fwref", "patch", "level", "begin"} : Doing(what)
  BY DEF AddByte, AddFwref, Backpatch, ChangeLevel, BeginLoop
<1>3. /\ CallOf(K, at, Op) /\ Op.do = what /\ at \in 1 .. Len(Calls(Call.s)) /\ PlainCall(Call)
      /\ Len(work) \in 1 .. Len(work) /\ NestOK(work, N, block, loops)
      /\ Standing(K, at, b, block, loops)
      /\ PutAt(work, Len(work), Moved(Call), Advanced)
      /\ PlainCall(Moved(Call)) /\ Moved(Call).s = Call.s /\ Moved(Call).at = at + 1
  BY <1>2, WhatActs
<1>4. Quiet(K, at, b)
  BY <1>2, <1>3, QuietRows DEF CallOf
<1>5. Standing(K, at + 1, b, block', loops')
  BY <1>1, <1>3, <1>4 DEF Quiet, Standing
<1>6. Demands(Call.s, at, Around(b.block)) <=> Demands(Call.s, at + 1, Around(b.block))
  BY <1>4, DemandsStay DEF Quiet
<1>7. block' \in Seq(BlockTypes) /\ Len(block') <= MaxBlocks
  BY <1>1, <1>3, NestIs
<1>8. PICK g : PlainCall(g) /\ g.s = Call.s /\ g.at = at + 1 /\ PutAt(work, Len(work), g, work')
  <2>1. CASE AddFwref
    <3>1. work' = [work EXCEPT ![Len(work)] = Anchored(Call, Op.anchor, Here)]
      BY <2>1 DEF AddFwref, Anchored, Call
    <3>2. PutAt(work, Len(work), Anchored(Call, Op.anchor, Here), work')
      BY <1>3, <3>1 DEF PutAt
    <3>3. at <= Len(Calls(Call.s))
      BY <1>3
    <3>4. /\ PlainCall(Anchored(Call, Op.anchor, Here)) /\ Anchored(Call, Op.anchor, Here).s = Call.s
          /\ Anchored(Call, Op.anchor, Here).at = at + 1
      BY <1>3, <3>3, PlainMoves
    <3> QED BY <3>2, <3>4
  <2>2. CASE AddByte \/ Backpatch \/ ChangeLevel \/ BeginLoop
    <3>1. work' = Advanced
      BY <2>2 DEF AddByte, Backpatch, ChangeLevel, BeginLoop
    <3> QED BY <1>3, <3>1
  <2> QED BY <2>1, <2>2
<1> HIDE DEF b, K, at
<1>9. Judging(N)'
  <2>1. g.at = Call.at + 1
    BY <1>8 DEF at
  <2>2. Standing(Kind(Call.s), Call.at + 1, N[Len(work)], block', loops')
    BY <1>5 DEF K, at, b
  <2>3. Demands(Call.s, Call.at, Around(N[Len(work)].block)) <=>
          Demands(Call.s, Call.at + 1, Around(N[Len(work)].block))
    BY <1>6 DEF at, b
  <2> QED BY <1>1, <1>7, <1>8, <2>1, <2>2, <2>3, Judges
<1> QED BY <1>1, <1>9

LEMMA CountStep ==
  ASSUME NEW N, Judging(N), EnterLoop \/ EndLoop
  PROVE  Judging(N)' /\ error' = error /\ prog' = prog
<1> DEFINE b == N[Len(work)]
           K == Kind(Call.s)
           at == Call.at
<1>1. /\ error' = error /\ prog' = prog /\ block' = block /\ work' = Advanced
      /\ EnterLoop => loops' = loops + 1
      /\ EndLoop => loops' = loops - 1
  BY DEF EnterLoop, EndLoop
<1>2. (EnterLoop => Doing("loop")) /\ (EndLoop => Doing("again"))
  BY DEF EnterLoop, EndLoop
<1>3. /\ CallOf(K, at, Op) /\ PlainCall(Call)
      /\ NestOK(work, N, block, loops) /\ Standing(K, at, b, block, loops) /\ StandOK(b)
      /\ PutAt(work, Len(work), Moved(Call), Advanced)
      /\ PlainCall(Moved(Call)) /\ Moved(Call).s = Call.s /\ Moved(Call).at = at + 1
      /\ EnterLoop => Op.do = "loop"
      /\ EndLoop => Op.do = "again"
  <2>1. PICK what : Doing(what)
    BY <1>2
  <2> QED BY <1>2, <2>1, WhatActs
<1>4. b.loops \in Nat
  BY <1>3, NestIs
<1>5. (EnterLoop => <<K, at>> \in LoopsOf) /\ (EndLoop => <<K, at>> \in AgainsOf)
  BY <1>3 DEF CallOf
<1>6. /\ at \in Nat /\ <<K, at>> \notin Marks
      /\ BlockAt(K, at + 1, b) = BlockAt(K, at, b)
      /\ EnterLoop => LoopsAt(K, at + 1, b) = LoopsAt(K, at, b) + 1
      /\ EndLoop => LoopsAt(K, at + 1, b) = LoopsAt(K, at, b) - 1
  BY <1>4, <1>5, CountRows
<1>7. Standing(K, at + 1, b, block', loops')
  BY <1>1, <1>3, <1>6 DEF Standing
<1>8. Demands(Call.s, at, Around(b.block)) <=> Demands(Call.s, at + 1, Around(b.block))
  BY <1>6, DemandsStay
<1>9. block' \in Seq(BlockTypes) /\ Len(block') <= MaxBlocks
  BY <1>1, <1>3, NestIs
<1>10. PutAt(work, Len(work), Moved(Call), work')
  BY <1>1, <1>3
<1>11. Judging(N)'
  BY <1>1, <1>3, <1>7, <1>8, <1>9, <1>10, Judges
<1> QED BY <1>1, <1>11

\* The blocks a frame has room for.
LEMMA PushStep ==
  ASSUME NEW N, Judging(N), ~error, BlockPush
  PROVE  /\ prog' = prog
         /\ error' => ~Allowed(prog, <<>>)
         /\ ~error' => Judging(N)'
<1> DEFINE b == N[Len(work)]
           K == Kind(Call.s)
           at == Call.at
           t == Op.type
           ar == Around(b.block)
<1>1. /\ CallOf(K, at, Op) /\ Op.do = "push" /\ PlainCall(Call)
      /\ NestOK(work, N, block, loops) /\ Standing(K, at, b, block, loops) /\ StandOK(b)
      /\ PutAt(work, Len(work), Moved(Call), Advanced)
      /\ PlainCall(Moved(Call)) /\ Moved(Call).s = Call.s /\ Moved(Call).at = at + 1
  BY WhatActs DEF BlockPush
<1>2. <<K, at, t>> \in PushesOf
  BY <1>1 DEF CallOf
<1>3. /\ b.block \in Seq(BlockTypes) /\ b.loops \in Nat /\ Len(b.block) <= MaxBlocks
      /\ block \in Seq(BlockTypes)
  BY <1>1, NestIs
<1>4. block = b.block /\ Len(block) \in Nat
  <2>1. BlockAt(K, at, b) = b.block
    BY <1>2 DEF PushesOf, BlockAt
  <2> QED BY <1>1, <1>3, <2>1 DEF Standing
<1>5. Len(ar) = Len(block)
  BY <1>3, <1>4, AroundIs
<1>6. Demands(Call.s, at, ar) <=> Len(ar) < MaxBlocks /\ Demands(Call.s, at + 1, ar)
  BY <1>2, DemandsPush
<1>7. prog' = prog /\ loops' = loops /\ work' = Advanced
  BY DEF BlockPush
<1>8. CASE Len(block) >= MaxBlocks
  <2>1. error' = TRUE
    BY <1>8 DEF BlockPush
  <2>2. ~Demands(Call.s, at, ar)
    BY <1>4, <1>5, <1>6, <1>8, BlocksAssumption
  <2>3. ~Allowed(prog, <<>>)
    BY <2>2, Refuses
  <2> QED BY <1>7, <2>1, <2>3
<1>9. CASE ~(Len(block) >= MaxBlocks)
  <2>1. error' = error /\ block' = Append(block, t)
    BY <1>9 DEF BlockPush
  <2>2. Demands(Call.s, at, ar) <=> Demands(Call.s, at + 1, ar)
    BY <1>4, <1>5, <1>6, <1>9, BlocksAssumption
  <2> HIDE DEF b, K, at, t
  <2>3. t \in BlockTypes /\ BlockAt(K, at + 1, b) = Append(BlockAt(K, at, b), t)
    BY <1>2, PushRows
  <2>4. LoopsAt(K, at + 1, b) = LoopsAt(K, at, b)
    BY <1>2 DEF PushesOf, LoopsAt
  <2> USE DEF b, K, at, t
  <2>5. Standing(K, at + 1, b, block', loops')
    BY <1>1, <1>7, <2>1, <2>3, <2>4 DEF Standing
  <2>6. block' \in Seq(BlockTypes) /\ Len(block') <= MaxBlocks
    <3>1. block' \in Seq(BlockTypes) /\ Len(block') = Len(block) + 1
      BY <1>3, <2>1, <2>3
    <3> QED BY <1>4, <1>9, <3>1, BlocksAssumption
  <2>7. PutAt(work, Len(work), Moved(Call), work')
    BY <1>1, <1>7
  <2>8. Judging(N)'
    BY <1>1, <1>7, <2>2, <2>5, <2>6, <2>7, Judges
  <2> QED BY <1>7, <2>1, <2>8
<1> QED BY <1>8, <1>9

\* The block that is popped is the one that was pushed.
LEMMA PopsWell ==
  ASSUME NEW N, Judging(N), ~error, BlockPop
  PROVE  Judging(N)' /\ ~error' /\ prog' = prog
<1> DEFINE b == N[Len(work)]
           K == Kind(Call.s)
           at == Call.at
           t == Op.type
<1>1. /\ CallOf(K, at, Op) /\ Op.do = "pop" /\ PlainCall(Call)
      /\ NestOK(work, N, block, loops) /\ Standing(K, at, b, block, loops) /\ StandOK(b)
      /\ PutAt(work, Len(work), Moved(Call), Advanced)
      /\ PlainCall(Moved(Call)) /\ Moved(Call).s = Call.s /\ Moved(Call).at = at + 1
  BY WhatActs DEF BlockPop
<1>2. <<K, at, t>> \in PopsOf
  BY <1>1 DEF CallOf
<1>3. /\ b.block \in Seq(BlockTypes) /\ b.loops \in Nat /\ Len(b.block) <= MaxBlocks
      /\ Len(b.block) \in Nat
  BY <1>1, NestIs
<1> HIDE DEF b, K, at, t
<1>4. t \in BlockTypes /\ at \in Nat /\ BlockAt(K, at, b) = Append(BlockAt(K, at + 1, b), t)
  BY <1>2, PopRows
<1> USE DEF b, K, at, t
<1>5. BlockAt(K, at + 1, b) = b.block
  BY <1>2 DEF PopsOf, BlockAt
<1>6. block = Append(b.block, t)
  BY <1>1, <1>4, <1>5 DEF Standing
<1>7. block # <<>> /\ block[Len(block)] = t /\ SubSeq(block, 1, Len(block) - 1) = b.block
  <2> DEFINE q == b.block
  <2> HIDE DEF q
  <2>1. q \in Seq(BlockTypes) /\ block = Append(q, t)
    BY <1>3, <1>6 DEF q
  <2>2. block # <<>> /\ block[Len(block)] = t /\ SubSeq(block, 1, Len(block) - 1) = q
    BY <1>4, <2>1
  <2> QED BY <2>2 DEF q
<1>8. /\ prog' = prog /\ loops' = loops /\ work' = Advanced /\ block' = b.block
      /\ error' = (error \/ block = <<>> \/ block[Len(block)] # t)
  BY <1>7 DEF BlockPop
<1>9. ~error'
  BY <1>7, <1>8
<1>10. <<K, at>> \notin Marks /\ LoopsAt(K, at + 1, b) = LoopsAt(K, at, b)
  BY <1>2, <1>3, CountRows
<1>11. Standing(K, at + 1, b, block', loops')
  BY <1>1, <1>5, <1>8, <1>10 DEF Standing
<1>12. Demands(Call.s, at, Around(b.block)) <=> Demands(Call.s, at + 1, Around(b.block))
  BY <1>4, <1>10, DemandsStay
<1>13. block' \in Seq(BlockTypes) /\ Len(block') <= MaxBlocks
  BY <1>3, <1>8
<1>14. PutAt(work, Len(work), Moved(Call), work')
  BY <1>1, <1>8
<1>15. Judging(N)'
  BY <1>1, <1>8, <1>11, <1>12, <1>13, <1>14, Judges
<1> QED BY <1>8, <1>9, <1>15

\* A break without a loop, or a continue that is not straight in one.
LEMMA SteerStep ==
  ASSUME NEW N, Judging(N), ~error, BreakStmt \/ ContinueStmt
  PROVE  /\ prog' = prog
         /\ error' => ~Allowed(prog, <<>>)
         /\ ~error' => Judging(N)'
<1> DEFINE b == N[Len(work)]
           K == Kind(Call.s)
           at == Call.at
           ar == Around(b.block)
<1>1. PICK what \in {"break", "continue"} :
        /\ Doing(what)
        /\ (what = "break" => BreakStmt) /\ (what = "continue" => ContinueStmt)
  BY DEF BreakStmt, ContinueStmt
<1>2. /\ CallOf(K, at, Op) /\ Op.do = what /\ PlainCall(Call)
      /\ NestOK(work, N, block, loops) /\ Standing(K, at, b, block, loops) /\ StandOK(b)
      /\ PutAt(work, Len(work), Moved(Call), Advanced)
      /\ PlainCall(Moved(Call)) /\ Moved(Call).s = Call.s /\ Moved(Call).at = at + 1
  BY <1>1, WhatActs
<1>3. K = what /\ at = 1
  BY <1>2 DEF CallOf
<1>4. /\ b.block \in Seq(BlockTypes) /\ b.loops \in Nat /\ Len(b.block) <= MaxBlocks
      /\ Len(b.block) \in Nat
  BY <1>2, NestIs
<1>5. /\ BlockAt(K, 1, b) = b.block /\ LoopsAt(K, 1, b) = b.loops
      /\ BlockAt(K, 2, b) = b.block /\ LoopsAt(K, 2, b) = b.loops
  BY <1>3, <1>4, CountRows
<1>6. block = b.block /\ loops = b.loops
  BY <1>2, <1>3, <1>5 DEF Standing
<1>7. prog' = prog /\ block' = block /\ loops' = loops /\ work' = Advanced
  BY <1>1 DEF BreakStmt, ContinueStmt
<1>8. /\ Len(ar) = Len(block) /\ DOMAIN ar = 1 .. Len(block)
      /\ \A i \in 1 .. Len(block) : ar[i] = "loop" <=> block[i] = "SETUP_LOOP"
  BY <1>4, <1>6, AroundIs
<1>9. Demands(Call.s, at + 1, ar)
  BY <1>3 DEF Demands
<1>10. error' <=> ~Demands(Call.s, at, ar)
  <2>1. CASE what = "break"
    <3>1. error' = (error \/ loops = 0)
      BY <1>1, <2>1 DEF BreakStmt
    <3>2. Demands(Call.s, at, ar) <=> \E i \in DOMAIN ar : ar[i] = "loop"
      BY <1>3, <2>1 DEF Demands
    <3>3. loops > 0 <=> \E i \in 1 .. Len(block) : block[i] = "SETUP_LOOP"
      BY <1>2, <1>6 DEF StandOK, Counted
    <3>4. loops = 0 <=> ~(loops > 0)
      BY <1>4, <1>6
    <3>5. Demands(Call.s, at, ar) <=> loops > 0
      BY <1>8, <3>2, <3>3
    <3> QED BY <3>1, <3>4, <3>5
  <2>2. CASE what = "continue"
    <3>1. Demands(Call.s, at, ar) <=> ar # <<>> /\ ar[Len(ar)] = "loop"
      BY <1>3, <2>2 DEF Demands
    <3>2. IF Continues THEN error' = error ELSE error' = TRUE
      BY <1>1, <2>2 DEF ContinueStmt
    <3>3. CASE block = <<>>
      <4>1. ar = <<>>
        BY <1>6, <3>3 DEF Around
      <4>2. ~Continues
        BY <3>3 DEF Continues
      <4> QED BY <3>1, <3>2, <4>1, <4>2
    <3>4. CASE block # <<>>
      <4>1. Len(block) \in 1 .. Len(block)
        BY <1>4, <1>6, <3>4
      <4>2. ar # <<>>
        BY <1>8, <4>1
      <4>3. ar[Len(ar)] = "loop" <=> block[Len(block)] = "SETUP_LOOP"
        BY <1>8, <4>1
      <4>4. Continues <=> Demands(Call.s, at, ar)
        BY <3>1, <3>4, <4>2, <4>3 DEF Continues
      <4> QED BY <3>2, <4>4
    <3> QED BY <3>3, <3>4
  <2> QED BY <2>1, <2>2
<1>11. error' => ~Allowed(prog, <<>>)
  BY <1>10, Refuses
<1>12. ASSUME ~error'
       PROVE  Judging(N)'
  <2>1. Demands(Call.s, at, ar) <=> Demands(Call.s, at + 1, ar)
    BY <1>9, <1>10, <1>12
  <2>2. Standing(K, at + 1, b, block', loops')
    BY <1>3, <1>5, <1>6, <1>7 DEF Standing
  <2>3. block' \in Seq(BlockTypes) /\ Len(block') <= MaxBlocks
    BY <1>4, <1>6, <1>7
  <2>4. PutAt(work, Len(work), Moved(Call), work')
    BY <1>2, <1>7
  <2> QED BY <1>2, <1>7, <2>1, <2>2, <2>3, <2>4, Judges
<1> QED BY <1>7, <1>10, <1>11, <1>12

LEMMA CallsAPart ==
  ASSUME NEW N, Judging(N), NodeCall
  PROVE  (\E N2 : Judging(N2)') /\ error' = error /\ prog' = prog
<1>1. /\ CallOf(Kind(Call.s), Call.at, Op) /\ Op.do = "part" /\ NestOK(work, N, block, loops)
      /\ Call.at \in 1 .. Len(Calls(Call.s))
  BY WhatActs DEF NodeCall
<1>2. <<Kind(Call.s), Call.at>> \in PartsOf
  BY <1>1 DEF CallOf
<1>3. Call = work[Len(work)] /\ AtPart(Call)
  BY DEF NodeCall, Doing, AtPart, Call
<1>4. /\ AddedTo(work, Called(Calls(Call.s)[Call.at].s, begin), work')
      /\ block' = block /\ loops' = loops /\ error' = error /\ prog' = prog
  BY DEF NodeCall, AddedTo, Called, Node, compiling, Op, Calling
<1>5. PICK N2 : NestOK(work', N2, block, loops) /\ (Remains(work', N2) <=> Remains(work, N))
  BY <1>1, <1>2, <1>3, <1>4, NestCalls
<1>6. Judging(N2)'
  BY <1>4, <1>5 DEF Judging
<1> QED BY <1>4, <1>6

LEMMA Returns ==
  ASSUME NEW N, Judging(N), NodeReturn
  PROVE  /\ error' = error /\ prog' = prog
         /\ work' # <<>> => \E N2 : Judging(N2)'
         /\ work' = <<>> => Allowed(prog, <<>>)
<1> DEFINE rest == SubSeq(work, 1, Len(work) - 1)
<1>1. NestOK(work, N, block, loops) /\ (Allowed(prog, <<>>) <=> Remains(work, N))
  BY DEF Judging
<1>2. Len(work) \in 1 .. Len(work) /\ IsSeq(work) /\ work # <<>>
  BY <1>1, NestIs DEF NestOK
<1>3. /\ work[Len(work)].at = Len(Calls(work[Len(work)].s)) + 1
      /\ block' = block /\ loops' = loops /\ error' = error /\ prog' = prog
      /\ work' = IF rest = <<>> THEN <<>> ELSE [rest EXCEPT ![Len(rest)].at = @ + 1]
  BY DEF NodeReturn, Call, compiling
<1>4. FrontOf(work, rest)
  BY <1>2 DEF FrontOf
<1> HIDE DEF rest
<1>5. IsSeq(rest) /\ Len(rest) = Len(work) - 1
  BY <1>2, <1>4, SeqFront
<1>6. CASE Len(work) = 1
  <2>1. rest = <<>>
    BY <1>5, <1>6 DEF IsSeq
  <2>2. Demands(work[Len(work)].s, work[Len(work)].at, Around(N[Len(work)].block))
    BY <1>3, DemandsEnd
  <2>3. Before(work, N, Len(work) - 1)
    BY <1>6 DEF Before
  <2>4. Allowed(prog, <<>>)
    BY <1>1, <2>2, <2>3 DEF Remains
  <2> QED BY <1>3, <2>1, <2>4
<1>7. CASE Len(work) # 1
  <2>1. rest # <<>> /\ Len(rest) \in 1 .. Len(rest)
    BY <1>2, <1>5, <1>7
  <2>2. work' = [rest EXCEPT ![Len(rest)] = Moved(rest[Len(rest)])]
    BY <1>3, <2>1 DEF Moved
  <2>3. PutAt(rest, Len(rest), Moved(rest[Len(rest)]), work')
    BY <2>1, <2>2 DEF PutAt
  <2>4. work[Len(work)].at = Len(Calls(work[Len(work)].s)) + 1
    BY <1>3
  <2>5. PICK N2 : NestOK(work', N2, block, loops) /\ (Remains(work', N2) <=> Remains(work, N))
    BY <1>1, <1>4, <1>7, <2>3, <2>4, NestReturns
  <2>6. Judging(N2)'
    BY <1>1, <1>3, <2>5 DEF Judging
  <2>7. work' # <<>>
    BY <2>5 DEF NestOK
  <2> QED BY <1>3, <2>6, <2>7
<1> QED BY <1>6, <1>7

LEMMA RefusalInit ==
  ASSUME Init
  PROVE  Refusal
<1> DEFINE def == [kind |-> "def", body |-> prog]
           f == [s |-> def, at |-> 1, anchor |-> [n \in Anchors |-> 0], begin |-> 0]
           b == [block |-> <<>>, loops |-> 0]
           w == <<f>>
           N == <<b>>
<1>1. prog \in Programs /\ block = <<>> /\ loops = 0 /\ error = FALSE /\ work = w
  BY DEF Init, Start, Node
<1>2. def.kind = "def" /\ def.body = prog /\ Kind(def) = "def" /\ Calls(def) = FuncDef(def)
  BY DEF Kind, Calls
<1>3. Len(Calls(def)) = 3
  BY <1>2 DEF FuncDef
<1>4. Stated(def)
  BY <1>1, <1>2 DEF Stated
<1> HIDE DEF def
<1>5. f.s = def /\ f.at = 1 /\ PlainCall(f)
  BY <1>3, <1>4 DEF PlainCall
<1>6. b.block = <<>> /\ b.loops = 0 /\ StandOK(b)
  <2>1. b \in Stands
    BY DEF Stands
  <2>2. Counted(b)
    BY DEF Counted
  <2> QED BY <2>1, <2>2, BlocksAssumption DEF StandOK
<1> HIDE DEF f, b
<1>7. /\ IsSeq(w) /\ Len(w) = 1 /\ w[1] = f /\ w # <<>>
      /\ IsSeq(N) /\ Len(N) = 1 /\ N[1] = b
  BY DEF IsSeq
<1> HIDE DEF w, N
<1>8. Standing(Kind(f.s), f.at, b, <<>>, 0)
  <2>1. BlockAt(Kind(f.s), 1, b) = <<>>
    BY <1>6, StartOfCall
  <2>2. LoopsAt(Kind(f.s), 1, b) = 0
    BY <1>6 DEF LoopsAt
  <2> QED BY <1>5, <2>1, <2>2 DEF Standing
<1>9. NestOK(w, N, <<>>, 0)
  <2>1. <<>> \in Seq(BlockTypes) /\ Len(<<>>) <= MaxBlocks
    BY BlocksAssumption
  <2> QED BY <1>5, <1>6, <1>7, <1>8, <2>1 DEF NestOK
<1>10. Remains(w, N) <=> Allowed(prog, <<>>)
  <2>1. Around(<<>>) = <<>>
    BY DEF Around
  <2>2. Demands(def, 1, <<>>) <=> Allowed(prog, <<>>)
    BY <1>2 DEF Demands
  <2>3. Before(w, N, Len(w) - 1)
    BY <1>7 DEF Before
  <2> QED BY <1>5, <1>6, <1>7, <2>1, <2>2, <2>3 DEF Remains
<1>11. Judging(N)
  BY <1>1, <1>9, <1>10 DEF Judging
<1> QED BY <1>1, <1>7, <1>11 DEF Refusal

LEMMA RefusalNext ==
  ASSUME Refusal, Next
  PROVE  Refusal'
<1>1. CASE Translate /\ ~error
  <2>1. Compile
    BY <1>1 DEF Translate
  <2>2. work # <<>>
    BY <2>1 DEF Compile, AddByte, AddFwref, Backpatch, ChangeLevel, BlockPush, BlockPop,
       BeginLoop, EnterLoop, EndLoop, BreakStmt, ContinueStmt, NodeCall, NodeReturn, Doing
  <2>3. PICK N : Judging(N)
    BY <1>1, <2>2 DEF Refusal
  <2>4. CASE NodeReturn
    BY <1>1, <2>3, <2>4, Returns DEF Refusal
  <2>5. CASE ~NodeReturn
    <3>1. /\ prog' = prog
          /\ error' => ~Allowed(prog, <<>>)
          /\ ~error' => \E N2 : Judging(N2)'
      <4>1. CASE AddByte \/ AddFwref \/ Backpatch \/ ChangeLevel \/ BeginLoop
        BY <1>1, <2>3, <4>1, QuietStep
      <4>2. CASE EnterLoop \/ EndLoop
        BY <1>1, <2>3, <4>2, CountStep
      <4>3. CASE BlockPush
        BY <1>1, <2>3, <4>3, PushStep
      <4>4. CASE BlockPop
        BY <1>1, <2>3, <4>4, PopsWell
      <4>5. CASE BreakStmt \/ ContinueStmt
        BY <1>1, <2>3, <4>5, SteerStep
      <4>6. CASE NodeCall
        BY <1>1, <2>3, <4>6, CallsAPart
      <4> QED BY <2>1, <2>5, <4>1, <4>2, <4>3, <4>4, <4>5, <4>6 DEF Compile
    <3>2. ~error' => work' # <<>>
      BY <3>1 DEF Judging, NestOK
    <3> QED BY <3>1, <3>2 DEF Refusal
  <2> QED BY <2>4, <2>5
<1>2. CASE Translate /\ error
  <2>1. ~Allowed(prog, <<>>) /\ Compile
    BY <1>2 DEF Refusal, Translate
  <2>2. prog' = prog
    BY <2>1 DEF Compile, AddByte, AddFwref, Backpatch, ChangeLevel, BlockPush, BlockPop,
       BeginLoop, EnterLoop, EndLoop, BreakStmt, ContinueStmt, NodeCall, NodeReturn
  <2>3. error'
    BY <1>2, <2>1, ErrorStays
  <2> QED BY <2>1, <2>2, <2>3 DEF Refusal
<1>3. CASE ~Translate
  <2>1. UNCHANGED <<prog, work, compiling>>
    BY <1>3 DEF Next, Eval, ForLoop, PopTop, DupTop, LoadZero, LoadNone, ExcMatch,
       JumpIfFalse, Jump, Setup, PopBlock, BreakLoop, ReturnValue, RaiseVarargs, EndFinally,
       Done, vars, Step, Leave, Unwind, Frame
  <2> QED BY <2>1 DEF compiling, Refusal, Judging
<1> QED BY <1>1, <1>2, <1>3

\* The compiler refuses a program if and only if it is not allowed, for any
\* programs and any limit of the blocks (compile.c, block_push, com_node and
\* com_continue_stmt).
THEOREM RefusesMisplacedAlways == Spec => []RefusesMisplaced
<1>1. Init => Refusal
  BY RefusalInit
<1>2. Refusal /\ [Next]_vars => Refusal'
  <2> SUFFICES ASSUME Refusal, [Next]_vars
               PROVE  Refusal'
    OBVIOUS
  <2>1. CASE Next
    BY <2>1, RefusalNext
  <2>2. CASE UNCHANGED vars
    BY <2>2 DEF vars, compiling, Refusal, Judging
  <2> QED BY <2>1, <2>2
<1>3. Refusal => RefusesMisplaced
  BY DEF Refusal, RefusesMisplaced
<1> QED BY <1>1, <1>2, <1>3, PTL DEF Spec
=============================================================================
