------------------------------ MODULE MC_Eval ------------------------------
(* Statements up to four deep: a loop or a try around every combination of    *)
(* a few statements that steer, and a loop around those; some are nested too   *)
(* deep, and some of those are in the body of "if 0".                          *)
EXTENDS Steering, Nesting

Leaves == {Pass, Expr, Break, Continue, Return}

TooDeep == While(For(While(While(Expr, Pass), Pass), Expr), Pass)

Two ==
  {Finally(a, b) : a, b \in Leaves}
    \cup {While(a, b) : a \in Leaves, b \in {Pass, Break}}
    \cup {For(a, b) : a \in Leaves, b \in {Pass, Return}}
    \cup {Except(a, typed, b, Expr) : a \in {Expr, Break, Return, Raise},
                                      b \in Leaves, typed \in BOOLEAN}
    \cup {If(Break, Continue), Seq2(Expr, Break),
          Seq2(While(Expr, Pass), Continue)}
    \cup {IfZero(a, b) : a \in {Break, Continue, TooDeep}, b \in {Pass, Break}}

Three ==
  UNION {{While(s, Pass), For(s, Continue), Finally(s, Expr), Finally(s, Break),
          Finally(Expr, s), Finally(Return, s),
          Except(s, TRUE, Pass, Pass), Except(Expr, FALSE, s, Pass)} : s \in Two}

AFew ==
  Leaves \cup {Raise} \cup Two \cup Three \cup {For(s, Expr) : s \in Three}
    \cup {While(For(While(s, Pass), Expr), Pass) : s \in Two}

RECURSIVE AllowedIn(_, _)
AllowedIn(s, around) == Admits(s, around, AllowedIn)
=============================================================================
