---------------------------- MODULE ImportedCode ----------------------------
(***************************************************************************)
(* What an import promises of the code it runs, whether or not a compiled    *)
(* file took part: a process opens a version of the source, gets the code of *)
(* a version with the same modification time, once, and is done with it.     *)
(***************************************************************************)
EXTENDS Integers

CONSTANTS Procs, Times, None

VARIABLES src, open, got

vars == <<src, open, got>>

Version == [id : Nat, time : Times]

Init ==
  /\ src \in Version
  /\ open = [p \in Procs |-> None]
  /\ got = [p \in Procs |-> None]

OpenSource(p) ==
  /\ open[p] = None
  /\ open' = [open EXCEPT ![p] = src]
  /\ UNCHANGED <<src, got>>

GetCode(p) ==
  /\ open[p] # None /\ got[p] = None
  /\ got'[p] \in Version /\ got'[p].time = open[p].time
  /\ got' = [got EXCEPT ![p] = got'[p]]
  /\ UNCHANGED <<src, open>>

\* The module has run, or the import has failed.
Finish(p) ==
  /\ open[p] # None
  /\ open' = [open EXCEPT ![p] = None]
  /\ got' = [got EXCEPT ![p] = None]
  /\ UNCHANGED src

Edit ==
  /\ src' \in Version /\ src'.id = src.id + 1
  /\ UNCHANGED <<open, got>>

Reboot ==
  /\ open' = [p \in Procs |-> None]
  /\ got' = [p \in Procs |-> None]
  /\ UNCHANGED src

Next == (\E p \in Procs : OpenSource(p) \/ GetCode(p) \/ Finish(p)) \/ Edit \/ Reboot

Spec == Init /\ [][Next]_vars
=============================================================================
