----------------------------- MODULE FileTable -----------------------------
(***************************************************************************)
(* The descriptors of the Amiga port (src/Source/Amiga).  The C library's   *)
(* list of UFBs holds files and sockets; bsdsocket.library of AmiTCP holds  *)
(* a table of its own, by the same numbers, of sockets alone.  Two things   *)
(* keep them together: __close tells the library of every number it frees,  *)
(* and the library asks fdCallback before it takes a number (FDCB_CHECK)    *)
(* and when it takes it (FDCB_ALLOC).  The callback is installed once, when *)
(* Python starts; a library that comes up later is opened without it.       *)
(*                                                                         *)
(* One task runs all of this, so a call is one step.  MaxFd bounds the      *)
(* numbers.  A step that needs a larger number is left out.                 *)
(***************************************************************************)
EXTENDS Integers

CONSTANTS
  Files, Sockets,    \* DOS file handles and sockets
  Console,           \* the handle of the standard descriptors
  None,
  MaxFd, NStd,
  MemoryMayFail,     \* malloc may return NULL
  LateTCP            \* AmiTCP may be started after Python

Fds == 0 .. MaxFd

ASSUME ConstantsAssumption ==
  /\ MaxFd \in Nat /\ NStd \in 0 .. MaxFd
  /\ MemoryMayFail \in BOOLEAN /\ LateTCP \in BOOLEAN
  /\ Files \cap Sockets = {}
  /\ Console \notin Files \cup Sockets
  /\ None \notin Files \cup Sockets \cup {Console}

VARIABLES
  ufb,       \* the list __ufbs, by number
  nufbs,     \* __nufbs, how many of them exist
  dos,       \* the file handles DOS holds open for this program
  dtab,      \* the library's table
  running,   \* AmiTCP runs
  lib,       \* SocketBase is set
  callback   \* fdCallback is installed

vars == <<ufb, nufbs, dos, dtab, running, lib, callback>>
tables == <<ufb, nufbs, dos, dtab>>

\* ufbflg = 0 is "free".  ufbfn is NULL ("none"), the block of a name
\* ("mem"), or the address of a block already freed ("dangling").
UFB == [use : {"free", "file", "sock"}, fh : Files \cup {Console, None},
        name : {"none", "mem", "dangling"}]
FreeUFB == [use |-> "free", fh |-> None, name |-> "none"]
SockUFB == [use |-> "sock", fh |-> None, name |-> "none"]
StdUFB == [use |-> "file", fh |-> Console, name |-> "none"]
FileUFB(f, n) == [use |-> "file", fh |-> f, name |-> n]

Init ==
  /\ ufb = [fd \in Fds |-> IF fd < NStd THEN StdUFB ELSE FreeUFB]
  /\ nufbs = NStd
  /\ dos = {}
  /\ dtab = [fd \in Fds |-> None]
  /\ running \in BOOLEAN
  /\ lib = running
  /\ callback = running

Free(u, fd) == u[fd].use = "free"

\* __chkufb finds the UFB and its flags are set.
InUse(fd) == fd < nufbs /\ ~Free(ufb, fd)

\* __allocufb: the first free UFB of the list, or a new one at its end.
IsFirstFree(fd) == Free(ufb, fd) /\ \A x \in 0 .. (fd - 1) : ~Free(ufb, x)
\* __nufbs once fd has a UFB.
UpTo(n, fd) == IF fd < n THEN n ELSE fd + 1

-----------------------------------------------------------------------------
(* Files *)

Install(f, n) ==
  /\ f \notin dos
  /\ \E fd \in Fds :
       /\ IsFirstFree(fd)
       /\ ufb' = [ufb EXCEPT ![fd] = FileUFB(f, n)]
       /\ nufbs' = UpTo(nufbs, fd)
  /\ dos' = dos \cup {f}
  /\ UNCHANGED <<dtab, running, lib, callback>>

Open(f) == Install(f, "mem")
FhOpen(f) == Install(f, "none")   \* the caller has just opened f

\* __open and fhopen that fail after they took a UFB, which remains free: no
\* memory for the name, a mode that is refused (the name of __open stays), or
\* the file exists or DOS fails (the name is freed and its address stays).
OpenFails ==
  /\ \E fd \in Fds :
       /\ IsFirstFree(fd)
       /\ \E n \in {"mem", "dangling", ufb[fd].name}
                  \cup IF MemoryMayFail THEN {"none"} ELSE {} :
            ufb' = [ufb EXCEPT ![fd].name = n]
       /\ nufbs' = UpTo(nufbs, fd)
  /\ UNCHANGED <<dos, dtab, running, lib, callback>>

\* What __close leaves of the three tables.
Closed(fd) == [ufb EXCEPT ![fd] = FreeUFB]
ClosedDos(fd) == IF ufb[fd].use = "file" THEN dos \ {ufb[fd].fh} ELSE dos
ClosedNet(fd) == IF lib THEN [dtab EXCEPT ![fd] = None] ELSE dtab

Close(fd) ==
  /\ InUse(fd)
  /\ ufb' = Closed(fd)
  /\ dos' = ClosedDos(fd)
  /\ dtab' = ClosedNet(fd)
  /\ UNCHANGED <<nufbs, running, lib, callback>>

-----------------------------------------------------------------------------
(* Sockets *)

\* The faults of not looking for a free UFB, of keeping the name of the one
\* found, and of taking one UFB only.
AllocAll(u, fd) == [x \in Fds |-> IF x <= fd THEN SockUFB ELSE u[x]]
AllocNamed(u, fd) ==
  [x \in Fds |-> IF x <= fd /\ Free(u, x) THEN [u[x] EXCEPT !.use = "sock"] ELSE u[x]]
AllocOne(u, fd) ==
  [x \in Fds |-> IF Free(u, x) /\ \A y \in 0 .. (x - 1) : ~Free(u, y)
                 THEN SockUFB ELSE u[x]]
\* FDCB_ALLOC takes free UFBs until it has one that is not below fd.
Alloc(u, fd) == [x \in Fds |-> IF x <= fd /\ Free(u, x) THEN SockUFB ELSE u[x]]

\* The fault of a callback that lets the library have any number.
CheckNothing(u, fd) == TRUE
\* FDCB_CHECK
Check(u, fd) == Free(u, fd)

\* The number the library chooses: the lowest that is free in its table and
\* that the callback, if there is one, does not refuse.
Available(fd) == dtab[fd] = None /\ (callback => Check(ufb, fd))
Chosen(fd) == Available(fd) /\ \A x \in 0 .. (fd - 1) : ~Available(x)

\* The library takes fd for s, with the UFBs as u and its table as t.
Take(u, t, fd, s) ==
  /\ dtab' = [t EXCEPT ![fd] = s]
  /\ ufb' = IF callback THEN Alloc(u, fd) ELSE u
  /\ nufbs' = IF callback THEN UpTo(nufbs, fd) ELSE nufbs

\* FDCB_ALLOC runs out of memory: the UFBs it has taken stay taken.
AllocFails(u, fd) ==
  /\ MemoryMayFail /\ callback
  /\ \E n \in nufbs .. fd :
       /\ ufb' = IF n = 0 THEN u ELSE Alloc(u, n - 1)
       /\ nufbs' = n

\* checksocketlib
OpenLib ==
  /\ running /\ ~lib
  /\ lib' = TRUE
  /\ UNCHANGED <<tables, running, callback>>

\* socket() and accept()
Socket(s) ==
  /\ lib
  /\ \A fd \in Fds : dtab[fd] # s
  /\ \E fd \in Fds :
       /\ Chosen(fd)
       /\ \/ Take(ufb, dtab, fd, s)
          \/ AllocFails(ufb, fd) /\ UNCHANGED dtab
  /\ UNCHANGED <<dos, running, lib, callback>>

\* Only sockets can be duplicated.
CanDup(old) == lib /\ InUse(old) /\ ufb[old].use = "sock" /\ dtab[old] # None

Dup(old) ==
  /\ CanDup(old)
  /\ \E fd \in Fds :
       /\ Chosen(fd)
       /\ \/ Take(ufb, dtab, fd, dtab[old])
          \/ AllocFails(ufb, fd) /\ UNCHANGED dtab
  /\ UNCHANGED <<dos, running, lib, callback>>

\* __dup2 closes the new number before it looks at the old one.
Dup2(old, new) ==
  /\ old # new
  /\ LET u == IF InUse(new) THEN Closed(new) ELSE ufb
         t == IF InUse(new) THEN ClosedNet(new) ELSE dtab
     IN  IF CanDup(old)
         THEN \/ Take(u, t, new, dtab[old])
              \/ AllocFails(u, new) /\ dtab' = t
         ELSE ufb' = u /\ dtab' = t /\ UNCHANGED nufbs
  /\ dos' = IF InUse(new) THEN ClosedDos(new) ELSE dos
  /\ UNCHANGED <<running, lib, callback>>

\* The user starts AmiTCP.
StartTCP ==
  /\ LateTCP /\ ~running
  /\ running' = TRUE
  /\ UNCHANGED <<tables, lib, callback>>

Next ==
  \/ \E f \in Files : Open(f) \/ FhOpen(f)
  \/ OpenFails
  \/ \E fd \in Fds : Close(fd) \/ Dup(fd)
  \/ \E s \in Sockets : Socket(s)
  \/ \E old, new \in Fds : Dup2(old, new)
  \/ OpenLib
  \/ StartTCP

Spec == Init /\ [][Next]_vars
-----------------------------------------------------------------------------
(* Properties *)

\* Every variable has its type (struct UFB, __nufbs and what the library keeps).
TypeOK ==
  /\ ufb \in [Fds -> UFB]
  /\ nufbs \in 0 .. MaxFd + 1
  /\ dos \subseteq Files
  /\ dtab \in [Fds -> Sockets \cup {None}]
  /\ running \in BOOLEAN /\ lib \in BOOLEAN /\ callback \in BOOLEAN

\* Every file handle that DOS holds open is that of one descriptor, so that it
\* can be closed and is closed once, whatever open, close, dup2, socket and
\* their failures did before; __chkufb reaches every UFB in use.
HandlesOwned ==
  /\ \A f \in dos : \E fd \in Fds : ufb[fd].fh = f
  /\ \A fd \in Fds : ufb[fd].fh \in dos \cup {Console, None}
  /\ \A x, y \in Fds : ufb[x].fh \in dos /\ ufb[x].fh = ufb[y].fh => x = y
  /\ \A fd \in Fds : ~Free(ufb, fd) => fd < nufbs

\* The failure paths of __open free the name and keep its address; __close
\* frees the name of any descriptor in use.  No block is freed twice, as every
\* way to put a UFB to use sets its name.
NamesOwned == \A fd \in Fds : ufb[fd].name = "dangling" => Free(ufb, fd)

\* The two tables know of each other.
Coherent == lib => callback

\* As long as they do, a socket of the library is the descriptor of a UFB
\* marked as a socket, so that close reaches it and read and write know what
\* it is; and without the library no UFB is one.
SocketsHaveUFBs ==
  /\ Coherent => \A fd \in Fds : dtab[fd] # None => ufb[fd].use = "sock"
  /\ (\E fd \in Fds : ufb[fd].use = "sock") => callback
  /\ callback => lib
  /\ lib => running

\* What a number names, in the two tables together.
Names(fd) == {ufb[fd].fh, dtab[fd]} \ {None}

D == INSTANCE Descriptors WITH
       Objects <- Files \cup Sockets \cup {Console},
       held <- [fd \in Fds |-> Names(fd)],
       coherent <- Coherent

\* The tables implement what a program expects of its descriptors: no call
\* gives a number that names something else, and none closes a number it is
\* not about.
DescriptorsKept == D!Spec

=============================================================================
