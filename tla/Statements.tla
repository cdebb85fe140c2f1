----------------------------- MODULE Statements -----------------------------
(***************************************************************************)
(* Statements that steer: what they are and what they mean, by their          *)
(* structure alone.  Blocks compiles them to code for two stacks and is       *)
(* compared with this.                                                       *)
(*                                                                         *)
(* Expressions are left open.  Each evaluation has a choice for its result,  *)
(* "true", "false" or "raise", and its value or exception is known by the    *)
(* number of the choice.                                                     *)
(***************************************************************************)
EXTENDS Integers, Sequences

Pass == [kind |-> "pass"]
Expr == [kind |-> "expr"]
Break == [kind |-> "break"]
Continue == [kind |-> "continue"]
Return == [kind |-> "return"]
Raise == [kind |-> "raise"]
Seq2(a, b) == [kind |-> "seq", body |-> a, els |-> b]
If(a, b) == [kind |-> "if", never |-> FALSE, body |-> a, els |-> b]
IfZero(a, b) == [kind |-> "if", never |-> TRUE, body |-> a, els |-> b]   \* if 0: a; else: b
While(a, b) == [kind |-> "while", body |-> a, els |-> b]
For(a, b) == [kind |-> "for", body |-> a, els |-> b]
Finally(a, b) == [kind |-> "finally", body |-> a, els |-> b]
\* try: a; except E (if typed): h; else: b
Except(a, typed, h, b) ==
  [kind |-> "except", body |-> a, typed |-> typed, handler |-> h, els |-> b]

-----------------------------------------------------------------------------
(* An outcome is how a statement ends, with the number of the value returned *)
(* or the exception raised, and how many choices were used.                  *)

Ends(why, val, at) == [why |-> why, val |-> val, at |-> at]

\* Evaluate after n choices of ch: Then is what follows a result.
Evaluated(ch, n, Then(_, _)) ==
  IF n < Len(ch) /\ ch[n + 1] = "raise" THEN Ends("exception", n + 1, n + 1)
  ELSE Then(n < Len(ch) /\ ch[n + 1] = "true", n + 1)

RECURSIVE Meaning(_, _, _), Repeat(_, _, _)
\* while and for: test, or take the next item, then the body.
Repeat(s, ch, n) ==
  LET Then(true, m) ==
        IF ~true THEN Meaning(s.els, ch, m)
        ELSE LET o == Meaning(s.body, ch, m)
             IN CASE o.why \in {"normal", "continue"} -> Repeat(s, ch, o.at)
                  [] o.why = "break" -> Ends("normal", 0, o.at)
                  [] OTHER -> o
  IN Evaluated(ch, n, Then)

Meaning(s, ch, n) ==
  LET Normally(o, next) ==   \* next if the part before it ended normally
        IF o.why = "normal" THEN Meaning(next, ch, o.at) ELSE o
      Ignored(true, m) == Ends("normal", 0, m)
      Returned(true, m) == Ends("return", m, m)
      Raised(true, m) == Ends("exception", m, m)
      Chosen(true, m) == Meaning(IF true THEN s.body ELSE s.els, ch, m)
      Items(true, m) == Repeat(s, ch, m)
  IN CASE s.kind = "pass" -> Ends("normal", 0, n)
       [] s.kind = "expr" -> Evaluated(ch, n, Ignored)
       [] s.kind \in {"break", "continue"} -> Ends(s.kind, 0, n)
       [] s.kind = "return" -> Evaluated(ch, n, Returned)
       [] s.kind = "raise" -> Evaluated(ch, n, Raised)
       [] s.kind = "seq" -> Normally(Meaning(s.body, ch, n), s.els)
       [] s.kind = "if" -> IF s.never THEN Meaning(s.els, ch, n) ELSE Evaluated(ch, n, Chosen)
       [] s.kind = "while" -> Repeat(s, ch, n)
       [] s.kind = "for" -> Evaluated(ch, n, Items)
       [] s.kind = "except" ->
            LET o == Meaning(s.body, ch, n)
                Match(true, m) == IF true THEN Meaning(s.handler, ch, m)
                                  ELSE Ends("exception", o.val, m)
            IN CASE o.why = "exception" /\ s.typed -> Evaluated(ch, o.at, Match)
                 [] o.why = "exception" /\ ~s.typed -> Meaning(s.handler, ch, o.at)
                 [] OTHER -> Normally(o, s.els)
       [] s.kind = "finally" ->
            LET o == Meaning(s.body, ch, n)
                f == Meaning(s.els, ch, o.at)
            IN IF f.why = "normal" THEN [o EXCEPT !.at = f.at] ELSE f
=============================================================================
