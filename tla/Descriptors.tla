---------------------------- MODULE Descriptors ----------------------------
(***************************************************************************)
(* What a program expects of its descriptors: a number names one object or  *)
(* none, a new object or a copy takes a number that named none, and a call  *)
(* changes the one number it is about.  FileTable implements this for as    *)
(* long as its two tables know of each other (coherent).                    *)
(***************************************************************************)
CONSTANTS Fds, Objects

VARIABLES held, coherent

vars == <<held, coherent>>

Init ==
  /\ held \in [Fds -> SUBSET Objects]
  /\ \A fd \in Fds : held[fd] = {} \/ \E o \in Objects : held[fd] = {o}
  /\ coherent \in BOOLEAN

Fresh(o) == \A fd \in Fds : o \notin held[fd]

\* open, socket, accept
New(fd, o) ==
  /\ held[fd] = {} /\ Fresh(o)
  /\ held' = [held EXCEPT ![fd] = {o}]

\* dup
Share(old, new) ==
  /\ held[old] # {} /\ held[new] = {}
  /\ held' = [held EXCEPT ![new] = held[old]]

\* dup2: the number is given up by what it named, and taken
Replace(old, new) ==
  /\ held[old] # {}
  /\ held' = [held EXCEPT ![new] = held[old]]

\* close, and a dup2 that fails once the new number is closed
Release(fd) == held' = [held EXCEPT ![fd] = {}]

Next ==
  \/ coherent' = FALSE
  \/ /\ UNCHANGED coherent
     /\ \E fd \in Fds :
          \/ \E o \in Objects : New(fd, o)
          \/ \E old \in Fds : Share(old, fd) \/ Replace(old, fd)
          \/ Release(fd)

Spec == Init /\ [][Next]_vars
=============================================================================
