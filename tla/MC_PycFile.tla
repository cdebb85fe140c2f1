---------------------------- MODULE MC_PycFile ----------------------------
(* Programs that import one source are alike. *)
EXTENDS PycFile, TLC

ProcSymmetry == Permutations(Procs)
=============================================================================
