------------------------------ MODULE Nesting ------------------------------
(***************************************************************************)
(* Where a statement may stand: which programs the compiler of Blocks has to  *)
(* refuse, by the structure of their statements alone.                        *)
(***************************************************************************)
EXTENDS Blocks

CONSTANT Allowed(_, _)

\* The blocks around a statement, the outermost first: a loop's body is in a
\* "loop", that of a try and what a finally runs in a "try".
Nests == UNION {[1 .. n -> {"loop", "try"}] : n \in 0 .. MaxBlocks}

\* Nobody looks at what stands behind a test for a constant false.
Skips(s) == s.kind = "if" /\ s.never

\* The statements of s, but for that.
Parts(s) ==
  CASE Skips(s) -> {s.els}
    [] ~Skips(s) /\ s.kind \in {"seq", "if", "while", "for", "finally"} -> {s.body, s.els}
    [] s.kind = "except" -> {s.body, s.handler, s.els}
    [] OTHER -> {}

\* What is asked of s, with Fine for its parts.
Admits(s, around, Fine(_, _)) ==
  LET Within(x, type) == Len(around) < MaxBlocks /\ Fine(x, Append(around, type))
  IN CASE s.kind = "break" -> \E i \in DOMAIN around : around[i] = "loop"
       [] s.kind = "continue" -> around # <<>> /\ around[Len(around)] = "loop"
       [] Skips(s) -> Fine(s.els, around)
       [] ~Skips(s) /\ s.kind \in {"seq", "if"} -> Fine(s.body, around) /\ Fine(s.els, around)
       [] s.kind \in {"while", "for"} -> Within(s.body, "loop") /\ Fine(s.els, around)
       [] s.kind = "except" ->
            Within(s.body, "try") /\ Fine(s.handler, around) /\ Fine(s.els, around)
       [] s.kind = "finally" -> Within(s.body, "try") /\ Within(s.els, "try")
       [] OTHER -> TRUE

\* Allowed is defined along the structure of the programs, of which every part
\* is one: a recursive definition, given here by its equation.
ASSUME NestingAssumption ==
  /\ \A s \in Programs : s.kind # "def" /\ Parts(s) \subseteq Programs
  /\ \A s \in Programs, around \in Nests : Allowed(s, around) <=> Admits(s, around, Allowed)

\* The compiler refuses a break outside a loop, a continue that would have to
\* leave a try or a finally, and blocks nested too deep, and nothing else: not
\* even these where a constant false keeps them from running.
RefusesMisplaced == work = <<>> => (error <=> ~Allowed(prog, <<>>))
=============================================================================
