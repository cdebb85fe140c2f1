--------------------------- MODULE MC_ARexxHost ---------------------------
(* Commands of every kind, and those that raise no exception of their own. *)
EXTENDS ARexxHost

AllCommands == CommandKinds
CalmCommands == CommandKinds \ {"raises class", "raises string"}
=============================================================================
