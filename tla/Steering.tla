------------------------------ MODULE Steering ------------------------------
(***************************************************************************)
(* What Blocks compiles and Eval runs, against the statements' structure.     *)
(***************************************************************************)
EXTENDS Eval, Statements

\* A run ends as the structure of the statements says: the same reason, the
\* same value or exception, after the same evaluations, through any nesting of
\* loops, try-except and try-finally.
MeansTheSame ==
  Compiled /\ pc = 0 =>
    LET o == Meaning(prog, choices, 0)
    IN outcome = IF o.why = "normal" THEN Ends("return", 0, o.at) ELSE o
=============================================================================
