-------------------------- MODULE FileTable_proofs --------------------------
(***************************************************************************)
(* Proofs about FileTable, for any number of files, sockets and             *)
(* descriptors, with or without memory and with AmiTCP started at any time. *)
(***************************************************************************)
EXTENDS FileTable, TLAPS

\* The inductive invariant.  Owned says of a list of UFBs, its length and
\* the open handles what HandlesOwned and NamesOwned say of the variables,
\* and that only a file has a handle.
Typed(u) == u \in [Fds -> UFB]

Owned(u, n, d) ==
  /\ \A f \in d : \E fd \in Fds : u[fd].fh = f
  /\ \A fd \in Fds : u[fd].fh \in d \cup {Console, None}
  /\ \A x, y \in Fds : u[x].fh \in d /\ u[x].fh = u[y].fh => x = y
  /\ \A fd \in Fds : ~Free(u, fd) => fd < n
  /\ \A fd \in Fds : u[fd].name = "dangling" => Free(u, fd)
  /\ \A fd \in Fds : u[fd].use = "file" <=> u[fd].fh # None

Inv == TypeOK /\ Owned(ufb, nufbs, dos) /\ SocketsHaveUFBs

-----------------------------------------------------------------------------
(* Lists of UFBs *)

LEMMA UFBTypes ==
  /\ FreeUFB \in UFB /\ SockUFB \in UFB /\ StdUFB \in UFB
  /\ \A f \in Files, n \in {"mem", "none"} : FileUFB(f, n) \in UFB
BY DEF FreeUFB, SockUFB, StdUFB, FileUFB, UFB

LEMMA OpenOwned ==
  ASSUME NEW u, Typed(u), NEW n \in Nat, NEW d \in SUBSET Files, Owned(u, n, d),
         NEW fd \in Fds, Free(u, fd), NEW f \in Files \ d,
         NEW k \in {"mem", "none"}
  PROVE  LET v == [u EXCEPT ![fd] = FileUFB(f, k)]
         IN  Typed(v) /\ Owned(v, UpTo(n, fd), d \cup {f})
<1> DEFINE v == [u EXCEPT ![fd] = FileUFB(f, k)]
<1>1. Typed(v)
  BY UFBTypes DEF Typed
<1>2. /\ v[fd] = FileUFB(f, k)
      /\ \A x \in Fds : x # fd => v[x] = u[x]
  BY DEF Typed
<1>3. f # None /\ f # Console
  BY ConstantsAssumption
<1>4. /\ v[fd].use = "file" /\ v[fd].fh = f /\ v[fd].name # "dangling"
  BY <1>2 DEF FileUFB
<1>5. u[fd].fh = None
  BY DEF Owned, Free, Typed, UFB
<1> HIDE DEF v
<1>6. \A g \in d \cup {f} : \E x \in Fds : v[x].fh = g
  <2> SUFFICES ASSUME NEW g \in d \cup {f} PROVE \E x \in Fds : v[x].fh = g
    OBVIOUS
  <2>1. CASE g = f
    BY <1>4, <2>1
  <2>2. CASE g \in d
    <3>1. PICK x \in Fds : u[x].fh = g
      BY <2>2 DEF Owned
    <3>2. x # fd
      BY <1>5, <3>1, <2>2, ConstantsAssumption
    <3> QED BY <1>2, <3>1, <3>2
  <2> QED BY <2>1, <2>2
<1>7. \A x \in Fds : v[x].fh \in d \cup {f} \cup {Console, None}
  BY <1>2, <1>4 DEF Owned
<1>8. \A x, y \in Fds : v[x].fh \in d \cup {f} /\ v[x].fh = v[y].fh => x = y
  <2>1. \A x \in Fds : u[x].fh # f
    BY <1>3 DEF Owned
  <2> QED BY <1>2, <1>3, <1>4, <2>1 DEF Owned
<1>9. \A x \in Fds : ~Free(v, x) => x < UpTo(n, fd)
  <2>1. fd < UpTo(n, fd) /\ n <= UpTo(n, fd) /\ UpTo(n, fd) \in Nat
    BY ConstantsAssumption DEF UpTo, Fds
  <2>2. \A x \in Fds : x # fd /\ ~Free(v, x) => x < n
    BY <1>2 DEF Owned, Free
  <2> QED BY <2>1, <2>2, ConstantsAssumption DEF Fds
<1>10. \A x \in Fds : v[x].name = "dangling" => Free(v, x)
  BY <1>2, <1>4 DEF Owned, Free
<1>11. \A x \in Fds : v[x].use = "file" <=> v[x].fh # None
  BY <1>2, <1>3, <1>4 DEF Owned
<1> QED BY <1>1, <1>6, <1>7, <1>8, <1>9, <1>10, <1>11 DEF Owned, v

LEMMA FailOwned ==
  ASSUME NEW u, Typed(u), NEW n \in Nat, NEW d \in SUBSET Files, Owned(u, n, d),
         NEW fd \in Fds, Free(u, fd), NEW k \in {"none", "mem", "dangling"}
  PROVE  LET v == [u EXCEPT ![fd].name = k]
         IN  Typed(v) /\ Owned(v, UpTo(n, fd), d)
<1> DEFINE v == [u EXCEPT ![fd].name = k]
<1>1. Typed(v)
  BY DEF Typed, UFB
<1>2. \A x \in Fds : v[x].use = u[x].use /\ v[x].fh = u[x].fh
  BY DEF Typed, UFB
<1>3. \A x \in Fds : x # fd => v[x].name = u[x].name
  BY DEF Typed, UFB
<1> HIDE DEF v
<1>4. n <= UpTo(n, fd) /\ UpTo(n, fd) \in Nat
  BY ConstantsAssumption DEF UpTo, Fds
<1>5. \A x \in Fds : ~Free(v, x) => x < UpTo(n, fd)
  <2>1. \A x \in Fds : ~Free(v, x) => x < n
    BY <1>2 DEF Owned, Free
  <2> QED BY <2>1, <1>4, ConstantsAssumption DEF Fds
<1>6. \A x \in Fds : v[x].name = "dangling" => Free(v, x)
  BY <1>2, <1>3 DEF Owned, Free
<1>7. Owned(v, UpTo(n, fd), d)
  BY <1>2, <1>5, <1>6 DEF Owned
<1> QED BY <1>1, <1>7 DEF v

LEMMA CloseOwned ==
  ASSUME NEW u, Typed(u), NEW n \in Nat, NEW d \in SUBSET Files, Owned(u, n, d),
         NEW fd \in Fds
  PROVE  LET v == [u EXCEPT ![fd] = FreeUFB]
             e == IF u[fd].use = "file" THEN d \ {u[fd].fh} ELSE d
         IN  Typed(v) /\ e \in SUBSET Files /\ Owned(v, n, e)
<1> DEFINE v == [u EXCEPT ![fd] = FreeUFB]
           e == IF u[fd].use = "file" THEN d \ {u[fd].fh} ELSE d
<1>1. Typed(v) /\ e \in SUBSET Files
  BY UFBTypes DEF Typed
<1>2. /\ v[fd].use = "free" /\ v[fd].fh = None /\ v[fd].name = "none"
      /\ \A x \in Fds : x # fd => v[x] = u[x]
  BY DEF Typed, FreeUFB
<1>3. /\ e = d \ {u[fd].fh}
      /\ None \notin d /\ Console \notin d
  BY ConstantsAssumption DEF Owned
<1> HIDE DEF v, e
<1>4. \A g \in e : \E x \in Fds : v[x].fh = g
  <2> SUFFICES ASSUME NEW g \in e PROVE \E x \in Fds : v[x].fh = g
    OBVIOUS
  <2>1. PICK x \in Fds : u[x].fh = g
    BY <1>3 DEF Owned
  <2>2. x # fd
    BY <1>3, <2>1
  <2> QED BY <1>2, <2>1, <2>2
<1>5. \A x \in Fds : v[x].fh \in e \cup {Console, None}
  <2> SUFFICES ASSUME NEW x \in Fds PROVE v[x].fh \in e \cup {Console, None}
    OBVIOUS
  <2>1. CASE x = fd
    BY <1>2, <2>1
  <2>2. CASE x # fd /\ u[x].fh \in d
    <3>1. u[x].fh # u[fd].fh
      BY <2>2 DEF Owned
    <3> QED BY <1>2, <1>3, <2>2, <3>1
  <2>3. CASE x # fd /\ u[x].fh \in {Console, None}
    BY <1>2, <2>3
  <2> QED BY <2>1, <2>2, <2>3 DEF Owned
<1>6. \A x, y \in Fds : v[x].fh \in e /\ v[x].fh = v[y].fh => x = y
  BY <1>2, <1>3 DEF Owned
<1>7. \A x \in Fds : ~Free(v, x) => x < n
  BY <1>2 DEF Owned, Free
<1>8. \A x \in Fds : v[x].name = "dangling" => Free(v, x)
  BY <1>2 DEF Owned, Free
<1>9. \A x \in Fds : v[x].use = "file" <=> v[x].fh # None
  BY <1>2 DEF Owned
<1> QED BY <1>1, <1>4, <1>5, <1>6, <1>7, <1>8, <1>9 DEF Owned, v, e

\* What FDCB_ALLOC does to one UFB, which is all that is used of it below.
LEMMA AllocAt ==
  ASSUME NEW u, Typed(u), NEW k \in Int
  PROVE  /\ Typed(Alloc(u, k))
         /\ \A x \in Fds : x <= k /\ Free(u, x) => Alloc(u, k)[x] = SockUFB
         /\ \A x \in Fds : ~(x <= k /\ Free(u, x)) => Alloc(u, k)[x] = u[x]
BY UFBTypes DEF Alloc, Typed

LEMMA AllocOwned ==
  ASSUME NEW u, Typed(u), NEW n \in Nat, NEW d \in SUBSET Files, Owned(u, n, d),
         NEW k \in Int, NEW m \in Nat, n <= m, k < m
  PROVE  Owned(Alloc(u, k), m, d)
<1>1. PICK v : v = Alloc(u, k)
  OBVIOUS
<1>2. \A x \in Fds :
        \/ x <= k /\ Free(u, x) /\ v[x] = SockUFB
        \/ v[x] = u[x]
  BY <1>1, AllocAt
<1>3. SockUFB.fh = None /\ SockUFB.use = "sock" /\ SockUFB.name = "none"
  BY DEF SockUFB
<1>4. \A x \in Fds : v[x].fh = u[x].fh
  <2>1. \A x \in Fds : Free(u, x) => u[x].fh = None
    BY DEF Owned, Free
  <2> QED BY <1>2, <1>3, <2>1
<1>5. \A x \in Fds : ~Free(v, x) => x < m
  <2> SUFFICES ASSUME NEW x \in Fds, ~Free(v, x) PROVE x < m
    OBVIOUS
  <2>1. x \in Int
    BY ConstantsAssumption DEF Fds
  <2>2. CASE x <= k
    BY <2>1, <2>2
  <2>3. CASE v[x] = u[x]
    <3>1. x < n
      BY <2>3 DEF Owned, Free
    <3> QED BY <2>1, <3>1
  <2> QED BY <1>2, <2>2, <2>3
<1>6. \A x \in Fds : v[x].name = "dangling" => Free(v, x)
  BY <1>2, <1>3 DEF Owned, Free
<1>7. \A x \in Fds : v[x].use = "file" <=> v[x].fh # None
  BY <1>2, <1>3, <1>4 DEF Owned, Free
<1>8. Owned(v, m, d)
  BY <1>4, <1>5, <1>6, <1>7 DEF Owned
<1> QED BY <1>1, <1>8

-----------------------------------------------------------------------------
(* The invariant *)

\* SocketsHaveUFBs for UFBs u and a table t of the library.
Paired(u, t) ==
  /\ Coherent => \A fd \in Fds : t[fd] # None => u[fd].use = "sock"
  /\ (\E fd \in Fds : u[fd].use = "sock") => callback

LEMMA InitInv == Init => Inv
<1> SUFFICES ASSUME Init PROVE Inv
  OBVIOUS
<1>1. TypeOK
  BY UFBTypes, ConstantsAssumption DEF Init, TypeOK, Fds
<1>2. Owned(ufb, nufbs, dos)
  <2>1. \A fd \in Fds : \/ ufb[fd] = StdUFB /\ fd < nufbs
                        \/ ufb[fd] = FreeUFB
    BY DEF Init
  <2>2. dos = {}
    BY DEF Init
  <2> QED BY <2>1, <2>2, ConstantsAssumption DEF Owned, Free, StdUFB, FreeUFB
<1>3. SocketsHaveUFBs
  BY DEF Init, SocketsHaveUFBs, Coherent, StdUFB, FreeUFB
<1> QED BY <1>1, <1>2, <1>3 DEF Inv

\* The library takes a number: on top of a list and a table that agree, both
\* with and without the callback.
LEMMA TakeKeeps ==
  ASSUME TypeOK, NEW u, Typed(u), NEW d \in SUBSET Files, Owned(u, nufbs, d),
         NEW t \in [Fds -> Sockets \cup {None}], Paired(u, t),
         lib, NEW fd \in Fds, callback => Free(u, fd),
         NEW s \in Sockets, Take(u, t, fd, s)
  PROVE  /\ Typed(ufb') /\ Owned(ufb', nufbs', d) /\ nufbs' \in 0 .. MaxFd + 1
         /\ dtab' \in [Fds -> Sockets \cup {None}]
         /\ Paired(ufb', dtab')
<1>1. dtab' \in [Fds -> Sockets \cup {None}]
  BY DEF Take
<1>2. \A x \in Fds : x # fd => dtab'[x] = t[x]
  BY DEF Take
<1>3. CASE ~callback
  <2>1. ufb' = u /\ nufbs' = nufbs
    BY <1>3 DEF Take
  <2>2. Paired(ufb', dtab')
    BY <1>3, <2>1 DEF Paired, Coherent
  <2> QED BY <1>1, <2>1, <2>2 DEF TypeOK
<1>4. CASE callback
  <2>1. ufb' = Alloc(u, fd) /\ nufbs' = UpTo(nufbs, fd)
    BY <1>4 DEF Take
  <2>2. fd \in Int
    BY ConstantsAssumption DEF Fds
  <2>3. nufbs' \in 0 .. MaxFd + 1 /\ nufbs <= nufbs' /\ fd < nufbs'
    BY <2>1, ConstantsAssumption DEF UpTo, Fds, TypeOK
  <2>4a. nufbs \in Nat /\ nufbs' \in Nat
    BY <2>3, ConstantsAssumption DEF TypeOK
  <2>4b. Typed(ufb')
    BY <2>1, <2>2, AllocAt
  <2>4c. Owned(Alloc(u, fd), nufbs', d)
    BY <2>2, <2>3, <2>4a, AllocOwned
  <2>4. Typed(ufb') /\ Owned(ufb', nufbs', d)
    BY <2>1, <2>4b, <2>4c
  <2>5. ufb'[fd].use = "sock"
    BY <1>4, <2>1, <2>2, AllocAt DEF SockUFB
  <2>6. \A x \in Fds : u[x].use = "sock" => ufb'[x].use = "sock"
    BY <2>1, <2>2, AllocAt DEF SockUFB
  <2>7. Paired(ufb', dtab')
    BY <1>2, <1>4, <2>5, <2>6 DEF Paired
  <2> QED BY <1>1, <2>3, <2>4, <2>7
<1> QED BY <1>3, <1>4

LEMMA AllocFailsKeeps ==
  ASSUME TypeOK, NEW u, Typed(u), NEW d \in SUBSET Files, Owned(u, nufbs, d),
         NEW t \in [Fds -> Sockets \cup {None}], Paired(u, t),
         NEW fd \in Fds, AllocFails(u, fd)
  PROVE  /\ Typed(ufb') /\ Owned(ufb', nufbs', d) /\ nufbs' \in 0 .. MaxFd + 1
         /\ Paired(ufb', t)
<1>1. callback
  BY DEF AllocFails
<1>2. PICK n \in nufbs .. fd :
        ufb' = (IF n = 0 THEN u ELSE Alloc(u, n - 1)) /\ nufbs' = n
  BY DEF AllocFails
<1>3. n \in 0 .. MaxFd + 1 /\ nufbs <= n /\ n - 1 \in Int /\ n - 1 < n
  BY <1>2, ConstantsAssumption DEF Fds, TypeOK
<1>4. CASE n = 0
  <2>1. nufbs = n
    BY <1>3, <1>4 DEF TypeOK
  <2> QED BY <1>2, <1>3, <1>4, <2>1
<1>5. CASE n # 0
  <2>1. ufb' = Alloc(u, n - 1) /\ nufbs' = n
    BY <1>2, <1>5
  <2>2. Typed(ufb') /\ Owned(ufb', nufbs', d)
    <3>1. Typed(Alloc(u, n - 1))
      BY <1>3, AllocAt
    <3>2. n \in Nat /\ nufbs \in Nat
      BY <1>3, ConstantsAssumption DEF TypeOK
    <3>3. Owned(Alloc(u, n - 1), n, d)
      BY <1>3, <3>2, AllocOwned
    <3> QED BY <2>1, <3>1, <3>3
  <2>3. \A x \in Fds : u[x].use = "sock" => ufb'[x].use = "sock"
    BY <1>3, <2>1, AllocAt DEF SockUFB
  <2>4. Paired(ufb', t)
    BY <1>1, <2>3 DEF Paired
  <2> QED BY <1>2, <1>3, <2>2, <2>4
<1> QED BY <1>4, <1>5

\* __close of a number that is in use.
LEMMA CloseKeeps ==
  ASSUME Inv, NEW fd \in Fds
  PROVE  /\ Typed(Closed(fd)) /\ ClosedDos(fd) \in SUBSET Files
         /\ Owned(Closed(fd), nufbs, ClosedDos(fd))
         /\ ClosedNet(fd) \in [Fds -> Sockets \cup {None}]
         /\ Paired(Closed(fd), ClosedNet(fd))
<1> USE DEF Inv
<1>1. Typed(ufb) /\ nufbs \in Nat /\ dos \in SUBSET Files
  BY ConstantsAssumption DEF TypeOK, Typed
<1>2. /\ Typed(Closed(fd)) /\ ClosedDos(fd) \in SUBSET Files
      /\ Owned(Closed(fd), nufbs, ClosedDos(fd))
  BY <1>1, CloseOwned DEF Closed, ClosedDos
<1>3. ClosedNet(fd) \in [Fds -> Sockets \cup {None}]
  BY DEF ClosedNet, TypeOK
<1>4. /\ Closed(fd)[fd].use = "free"
      /\ \A x \in Fds : x # fd => Closed(fd)[x] = ufb[x]
  BY <1>1 DEF Closed, Typed, FreeUFB
<1>5. /\ lib => ClosedNet(fd)[fd] = None
      /\ \A x \in Fds : x # fd => ClosedNet(fd)[x] = dtab[x]
      /\ ~lib => ClosedNet(fd) = dtab
  BY DEF ClosedNet, TypeOK
<1>6. ~lib => \A x \in Fds : dtab[x] = None
  BY DEF SocketsHaveUFBs, Coherent
<1>7. Paired(Closed(fd), ClosedNet(fd))
  BY <1>4, <1>5, <1>6 DEF Paired, SocketsHaveUFBs
<1> QED BY <1>2, <1>3, <1>7

LEMMA StepInv == Inv /\ [Next]_vars => Inv'
<1> SUFFICES ASSUME Inv, [Next]_vars PROVE Inv'
  OBVIOUS
<1> DEFINE Kept == /\ Typed(ufb') /\ Owned(ufb', nufbs', dos')
                   /\ nufbs' \in 0 .. MaxFd + 1
                   /\ dos' \in SUBSET Files
                   /\ dtab' \in [Fds -> Sockets \cup {None}]
                   /\ Paired(ufb', dtab')
<1>1. /\ Typed(ufb) /\ Owned(ufb, nufbs, dos) /\ Paired(ufb, dtab)
      /\ nufbs \in 0 .. MaxFd + 1 /\ nufbs \in Nat
      /\ dos \in SUBSET Files
      /\ dtab \in [Fds -> Sockets \cup {None}]
  BY ConstantsAssumption DEF Inv, TypeOK, Typed, Paired, SocketsHaveUFBs
<1>2. TypeOK
  BY DEF Inv
<1>3. ASSUME Kept, UNCHANGED <<running, lib, callback>> PROVE Inv'
  <2>1. TypeOK'
    BY <1>2, <1>3 DEF TypeOK, Typed
  <2>2. SocketsHaveUFBs'
    BY <1>3 DEF Inv, SocketsHaveUFBs, Paired, Coherent
  <2> QED BY <1>3, <2>1, <2>2 DEF Inv
<1>4. ASSUME NEW f \in Files, NEW k \in {"mem", "none"}, Install(f, k) PROVE Inv'
  <2>1. PICK fd \in Fds : /\ IsFirstFree(fd)
                         /\ ufb' = [ufb EXCEPT ![fd] = FileUFB(f, k)]
                         /\ nufbs' = UpTo(nufbs, fd)
    BY <1>4 DEF Install
  <2>2. f \notin dos /\ dos' = dos \cup {f} /\ dtab' = dtab
    BY <1>4 DEF Install
  <2>3. Typed(ufb') /\ Owned(ufb', nufbs', dos')
    BY <1>1, <2>1, <2>2, OpenOwned DEF IsFirstFree
  <2>4. nufbs' \in 0 .. MaxFd + 1
    BY <1>1, <2>1, ConstantsAssumption DEF UpTo, Fds
  <2>5. \A x \in Fds : ufb'[x].use = "sock" <=> ufb[x].use = "sock"
    BY <1>1, <2>1 DEF IsFirstFree, Free, Typed, FileUFB
  <2>6. Paired(ufb', dtab')
    BY <1>1, <2>2, <2>5 DEF Paired
  <2>7. Kept
    BY <1>1, <2>2, <2>3, <2>4, <2>6
  <2> QED BY <1>3, <1>4, <2>7 DEF Install
<1>5. CASE OpenFails
  <2>1. PICK fd \in Fds, n \in {"mem", "dangling", "none"} :
          /\ IsFirstFree(fd)
          /\ ufb' = [ufb EXCEPT ![fd].name = n]
          /\ nufbs' = UpTo(nufbs, fd)
    <3>1. PICK fd \in Fds : /\ IsFirstFree(fd)
                           /\ \E n \in {"mem", "dangling", ufb[fd].name}
                                       \cup IF MemoryMayFail THEN {"none"} ELSE {} :
                                ufb' = [ufb EXCEPT ![fd].name = n]
                           /\ nufbs' = UpTo(nufbs, fd)
      BY <1>5 DEF OpenFails
    <3>2. ufb[fd].name \in {"mem", "dangling", "none"}
      BY <1>1 DEF Typed, UFB
    <3> QED BY <3>1, <3>2
  <2>2. dos' = dos /\ dtab' = dtab
    BY <1>5 DEF OpenFails
  <2>3. Typed(ufb') /\ Owned(ufb', nufbs', dos')
    BY <1>1, <2>1, <2>2, FailOwned DEF IsFirstFree
  <2>4. nufbs' \in 0 .. MaxFd + 1
    BY <1>1, <2>1, ConstantsAssumption DEF UpTo, Fds
  <2>5. \A x \in Fds : ufb'[x].use = ufb[x].use
    BY <1>1, <2>1 DEF Typed, UFB
  <2>6. Paired(ufb', dtab')
    BY <1>1, <2>2, <2>5 DEF Paired
  <2>7. Kept
    BY <1>1, <2>2, <2>3, <2>4, <2>6
  <2> QED BY <1>3, <1>5, <2>7 DEF OpenFails
<1>6. ASSUME NEW fd \in Fds, Close(fd) PROVE Inv'
  <2>1. /\ ufb' = Closed(fd) /\ dos' = ClosedDos(fd) /\ dtab' = ClosedNet(fd)
        /\ nufbs' = nufbs
    BY <1>6 DEF Close
  <2>2. Kept
    BY <1>1, <2>1, CloseKeeps
  <2> QED BY <1>3, <1>6, <2>2 DEF Close
<1>7. ASSUME NEW fd \in Fds, NEW s \in Sockets, lib, Chosen(fd),
             \/ Take(ufb, dtab, fd, s)
             \/ AllocFails(ufb, fd) /\ UNCHANGED dtab,
             UNCHANGED <<dos, running, lib, callback>>
      PROVE  Inv'
  <2>1. callback => Free(ufb, fd)
    BY <1>7 DEF Chosen, Available, Check
  <2>2. dos' = dos
    BY <1>7
  <2>3. CASE Take(ufb, dtab, fd, s)
    <3>1. Kept
      BY <1>1, <1>2, <1>7, <2>1, <2>2, <2>3, TakeKeeps
    <3> QED BY <1>3, <1>7, <3>1
  <2>4. CASE AllocFails(ufb, fd) /\ UNCHANGED dtab
    <3>1. Kept
      BY <1>1, <1>2, <2>2, <2>4, AllocFailsKeeps
    <3> QED BY <1>3, <1>7, <3>1
  <2> QED BY <1>7, <2>3, <2>4
<1>8. ASSUME NEW s \in Sockets, Socket(s) PROVE Inv'
  BY <1>7, <1>8 DEF Socket
<1>9. ASSUME NEW old \in Fds, Dup(old) PROVE Inv'
  <2>1. lib /\ dtab[old] \in Sockets
    BY <1>1, <1>9 DEF Dup, CanDup
  <2> QED BY <1>7, <1>9, <2>1 DEF Dup
<1>10. ASSUME NEW old \in Fds, NEW new \in Fds, Dup2(old, new) PROVE Inv'
  <2>1. PICK u : u = IF InUse(new) THEN Closed(new) ELSE ufb
    OBVIOUS
  <2>2. PICK t : t = IF InUse(new) THEN ClosedNet(new) ELSE dtab
    OBVIOUS
  <2>3. dos' = IF InUse(new) THEN ClosedDos(new) ELSE dos
    BY <1>10 DEF Dup2
  <2>4. /\ Typed(u) /\ Owned(u, nufbs, dos') /\ Paired(u, t)
        /\ dos' \in SUBSET Files
        /\ t \in [Fds -> Sockets \cup {None}]
    <3>1. CASE InUse(new)
      BY <2>1, <2>2, <2>3, <3>1, CloseKeeps
    <3>2. CASE ~InUse(new)
      BY <1>1, <2>1, <2>2, <2>3, <3>2
    <3> QED BY <3>1, <3>2
  <2>5. Free(u, new)
    <3>1. CASE InUse(new)
      BY <1>1, <2>1, <3>1 DEF Closed, Free, Typed, FreeUFB
    <3>2. CASE ~InUse(new)
      BY <1>1, <2>1, <3>2 DEF InUse, Owned
    <3> QED BY <3>1, <3>2
  <2>6. UNCHANGED <<running, lib, callback>>
    BY <1>10 DEF Dup2
  <2>7. \/ CanDup(old) /\ Take(u, t, new, dtab[old])
        \/ CanDup(old) /\ AllocFails(u, new) /\ dtab' = t
        \/ ufb' = u /\ dtab' = t /\ nufbs' = nufbs
    BY <1>10, <2>1, <2>2 DEF Dup2
  <2>8. CASE CanDup(old) /\ Take(u, t, new, dtab[old])
    <3>1. lib /\ dtab[old] \in Sockets
      BY <1>1, <2>8 DEF CanDup
    <3>2. Kept
      BY <1>2, <2>4, <2>5, <2>8, <3>1, TakeKeeps
    <3> QED BY <1>3, <2>6, <3>2
  <2>9. CASE CanDup(old) /\ AllocFails(u, new) /\ dtab' = t
    <3>1. Kept
      BY <1>2, <2>4, <2>9, AllocFailsKeeps
    <3> QED BY <1>3, <2>6, <3>1
  <2>10. CASE ufb' = u /\ dtab' = t /\ nufbs' = nufbs
    <3>1. Kept
      BY <1>1, <2>4, <2>10
    <3> QED BY <1>3, <2>6, <3>1
  <2> QED BY <2>7, <2>8, <2>9, <2>10
<1>11. CASE OpenLib
  BY <1>11 DEF OpenLib, tables, Inv, TypeOK, SocketsHaveUFBs, Coherent, Owned, Free
<1>12. CASE StartTCP
  BY <1>12 DEF StartTCP, tables, Inv, TypeOK, SocketsHaveUFBs, Coherent, Owned, Free
<1>13. CASE UNCHANGED vars
  BY <1>13 DEF vars, Inv, TypeOK, SocketsHaveUFBs, Coherent, Owned, Free
<1> QED BY <1>4, <1>5, <1>6, <1>8, <1>9, <1>10, <1>11, <1>12, <1>13
     DEF Next, Open, FhOpen

LEMMA InvCorrect == Spec => []Inv
<1> QED BY InitInv, StepInv, PTL DEF Spec

\* Every variable keeps its type: the numbers of UFBs stay within the list.
THEOREM TypeCorrect == Spec => []TypeOK
<1>1. Inv => TypeOK
  BY DEF Inv
<1> QED BY <1>1, InvCorrect, PTL

\* Every file handle DOS holds open belongs to one descriptor that __close can
\* reach, whatever the order of open, close, dup2, socket and their failures.
THEOREM HandlesCorrect == Spec => []HandlesOwned
<1>1. Inv => HandlesOwned
  BY DEF Inv, Owned, HandlesOwned
<1> QED BY <1>1, InvCorrect, PTL

\* No name of a descriptor is freed twice: the addresses __open leaves behind
\* when it fails are those of free UFBs only.
THEOREM NamesCorrect == Spec => []NamesOwned
<1>1. Inv => NamesOwned
  BY DEF Inv, Owned, NamesOwned
<1> QED BY <1>1, InvCorrect, PTL

\* While the callback is there, every socket of AmiTCP's table has a UFB that
\* is marked as a socket.
THEOREM SocketsCorrect == Spec => []SocketsHaveUFBs
<1>1. Inv => SocketsHaveUFBs
  BY DEF Inv
<1> QED BY <1>1, InvCorrect, PTL

-----------------------------------------------------------------------------
(* The refinement *)

Named(u, t, fd) == {u[fd].fh, t[fd]} \ {None}

LEMMA AllocNames ==
  ASSUME NEW u, Typed(u), NEW n, NEW d, Owned(u, n, d), NEW k \in Int
  PROVE  \A x \in Fds : Alloc(u, k)[x].fh = u[x].fh
BY AllocAt DEF Owned, Free, SockUFB

LEMMA TakeNames ==
  ASSUME NEW u, Typed(u), NEW n, NEW d, Owned(u, n, d),
         NEW t \in [Fds -> Sockets \cup {None}],
         callback, NEW fd \in Fds, Free(u, fd), NEW s \in Sockets,
         Take(u, t, fd, s)
  PROVE  /\ Named(ufb', dtab', fd) = {s}
         /\ \A x \in Fds : x # fd => Named(ufb', dtab', x) = Named(u, t, x)
<1>1. ufb' = Alloc(u, fd) /\ fd \in Int
  BY ConstantsAssumption DEF Take, Fds
<1>2. \A x \in Fds : ufb'[x].fh = u[x].fh
  BY <1>1, AllocNames
<1>3. u[fd].fh = None /\ s # None
  BY ConstantsAssumption DEF Owned, Free
<1>4. dtab'[fd] = s /\ \A x \in Fds : x # fd => dtab'[x] = t[x]
  BY DEF Take
<1> QED BY <1>2, <1>3, <1>4 DEF Named

LEMMA AllocFailsNames ==
  ASSUME NEW u, Typed(u), nufbs \in Nat, NEW n, NEW d, Owned(u, n, d), NEW t,
         NEW fd \in Fds, AllocFails(u, fd)
  PROVE  \A x \in Fds : Named(ufb', t, x) = Named(u, t, x)
<1>1. PICK k \in nufbs .. fd : ufb' = IF k = 0 THEN u ELSE Alloc(u, k - 1)
  BY DEF AllocFails
<1>2. k - 1 \in Int
  BY ConstantsAssumption DEF Fds
<1>3. \A x \in Fds : ufb'[x].fh = u[x].fh
  <2>1. CASE k = 0
    BY <1>1, <2>1
  <2>2. CASE k # 0
    BY <1>1, <1>2, <2>2, AllocNames
  <2> QED BY <2>1, <2>2
<1> QED BY <1>3 DEF Named

LEMMA CloseNames ==
  ASSUME Inv, Coherent, NEW fd \in Fds
  PROVE  /\ Named(Closed(fd), ClosedNet(fd), fd) = {}
         /\ \A x \in Fds : x # fd =>
              Named(Closed(fd), ClosedNet(fd), x) = Named(ufb, dtab, x)
<1>1. /\ Closed(fd)[fd].fh = None
      /\ \A x \in Fds : x # fd => Closed(fd)[x] = ufb[x]
  BY DEF Inv, TypeOK, Closed, FreeUFB
<1>2. ~lib => \A x \in Fds : dtab[x] = None
  BY DEF Inv, SocketsHaveUFBs
<1>3. /\ ClosedNet(fd)[fd] = None
      /\ \A x \in Fds : x # fd => ClosedNet(fd)[x] = dtab[x]
  BY <1>2 DEF ClosedNet, Inv, TypeOK
<1> QED BY <1>1, <1>3 DEF Named

\* A number that is free in the list names nothing, and a handle or a socket
\* that no number names is fresh.
LEMMA FreeNames ==
  ASSUME Inv, Coherent, NEW fd \in Fds, Free(ufb, fd)
  PROVE  Named(ufb, dtab, fd) = {}
BY DEF Inv, Owned, SocketsHaveUFBs, Free, Named

\* The numbers as the abstract specification sees them.
Held == [fd \in Fds |-> Names(fd)]

LEMMA HeldAt == \A fd \in Fds : Held[fd] = Named(ufb, dtab, fd)
BY DEF Held, Names, Named

LEMMA HeldChange ==
  ASSUME NEW fd \in Fds, NEW v, Named(ufb', dtab', fd) = v,
         \A x \in Fds : x # fd => Named(ufb', dtab', x) = Named(ufb, dtab, x)
  PROVE  Held' = [Held EXCEPT ![fd] = v]
BY DEF Held, Names, Named

LEMMA HeldSame ==
  ASSUME \A x \in Fds : Named(ufb', dtab', x) = Named(ufb, dtab, x)
  PROVE  Held' = Held
BY DEF Held, Names, Named

\* The steps of the abstract specification in terms of Held.
LEMMA NewStep ==
  ASSUME NEW fd \in Fds, UNCHANGED Coherent,
         NEW o \in Files \cup Sockets \cup {Console},
         Named(ufb, dtab, fd) = {}, \A x \in Fds : o \notin Named(ufb, dtab, x),
         Held' = [Held EXCEPT ![fd] = {o}]
  PROVE  D!Next
<1> Held[fd] = {} /\ \A x \in Fds : o \notin Held[x]
  BY HeldAt
<1>1. D!New(fd, o)
  BY DEF D!New, D!Fresh, Held
<1> QED BY <1>1 DEF D!Next

LEMMA ReplaceStep ==
  ASSUME NEW fd \in Fds, UNCHANGED Coherent, NEW old \in Fds,
         NEW o, Named(ufb, dtab, old) = {o}, Held' = [Held EXCEPT ![fd] = {o}]
  PROVE  D!Next
<1> Held[old] = {o}
  BY HeldAt
<1>1. D!Replace(old, fd)
  BY DEF D!Replace, Held
<1> QED BY <1>1 DEF D!Next

LEMMA ReleaseStep ==
  ASSUME NEW fd \in Fds, UNCHANGED Coherent, Held' = [Held EXCEPT ![fd] = {}]
  PROVE  D!Next
<1>1. D!Release(fd)
  BY DEF D!Release, Held
<1> QED BY <1>1 DEF D!Next

LEMMA StepImplements == Inv /\ [Next]_vars => [D!Next]_(D!vars)
<1> SUFFICES ASSUME Inv, [Next]_vars PROVE [D!Next]_(D!vars)
  OBVIOUS
<1>1. /\ Typed(ufb) /\ Owned(ufb, nufbs, dos)
      /\ nufbs \in Nat /\ dos \in SUBSET Files
      /\ dtab \in [Fds -> Sockets \cup {None}]
  BY ConstantsAssumption DEF Inv, TypeOK, Typed
<1>2. ASSUME Coherent' = FALSE PROVE [D!Next]_(D!vars)
  BY <1>2 DEF D!Next
<1>3. CASE ~Coherent
  <2>1. callback' = callback /\ (lib => lib')
    BY DEF Next, Open, FhOpen, Install, OpenFails, Close, Socket, Dup, Dup2, OpenLib,
           StartTCP, tables, vars
  <2> QED BY <1>2, <1>3, <2>1 DEF Coherent
<1>4. ASSUME Held' = Held, Coherent' = Coherent PROVE [D!Next]_(D!vars)
  BY <1>4 DEF D!vars, Held
<1> SUFFICES ASSUME Coherent PROVE [D!Next]_(D!vars)
  BY <1>3
<1>5. ASSUME NEW f \in Files, NEW k \in {"mem", "none"}, Install(f, k)
      PROVE  [D!Next]_(D!vars)
  <2>1. PICK fd \in Fds : /\ IsFirstFree(fd)
                         /\ ufb' = [ufb EXCEPT ![fd] = FileUFB(f, k)]
    BY <1>5 DEF Install
  <2>2. f \notin dos /\ dtab' = dtab /\ Coherent' = Coherent
    BY <1>5 DEF Install, Coherent
  <2>3. Named(ufb, dtab, fd) = {}
    BY <2>1, FreeNames DEF IsFirstFree
  <2>4. dtab[fd] = None /\ f # None /\ f # Console
    BY <2>3, ConstantsAssumption DEF Named
  <2>5. /\ Named(ufb', dtab', fd) = {f}
        /\ \A x \in Fds : x # fd => Named(ufb', dtab', x) = Named(ufb, dtab, x)
    BY <1>1, <2>1, <2>2, <2>4 DEF Named, FileUFB, Typed
  <2>6. \A x \in Fds : f \notin Named(ufb, dtab, x)
    <3>1. \A x \in Fds : dtab[x] # f
      BY <1>1, <2>4, ConstantsAssumption
    <3>2. \A x \in Fds : ufb[x].fh # f
      BY <1>1, <2>2, <2>4 DEF Owned
    <3> QED BY <3>1, <3>2 DEF Named
  <2>7. Held' = [Held EXCEPT ![fd] = {f}]
    BY <2>5, HeldChange
  <2>8. D!Next
    BY <2>2, <2>3, <2>6, <2>7, NewStep
  <2> QED BY <2>8
<1>6. CASE OpenFails
  <2>1. PICK fd \in Fds : \E n : ufb' = [ufb EXCEPT ![fd].name = n]
    BY <1>6 DEF OpenFails
  <2>2. dtab' = dtab /\ Coherent' = Coherent
    BY <1>6 DEF OpenFails, Coherent
  <2>3. \A x \in Fds : ufb'[x].fh = ufb[x].fh
    BY <1>1, <2>1 DEF Typed, UFB
  <2>4. Held' = Held
    BY <2>2, <2>3, HeldSame DEF Named
  <2> QED BY <1>4, <2>2, <2>4
<1>7. ASSUME NEW fd \in Fds, Close(fd) PROVE [D!Next]_(D!vars)
  <2>1. ufb' = Closed(fd) /\ dtab' = ClosedNet(fd) /\ Coherent' = Coherent
    BY <1>7 DEF Close, Coherent
  <2>2. Held' = [Held EXCEPT ![fd] = {}]
    BY <2>1, CloseNames, HeldChange
  <2>3. D!Next
    BY <2>1, <2>2, ReleaseStep
  <2> QED BY <2>3
<1>8. ASSUME lib PROVE callback
  BY <1>8 DEF Coherent
<1>9. ASSUME NEW s \in Sockets, Socket(s) PROVE [D!Next]_(D!vars)
  <2>1. PICK fd \in Fds : /\ Chosen(fd)
                         /\ \/ Take(ufb, dtab, fd, s)
                            \/ AllocFails(ufb, fd) /\ dtab' = dtab
    BY <1>9 DEF Socket
  <2>2. /\ callback /\ Coherent' = Coherent
        /\ \A x \in Fds : dtab[x] # s
    BY <1>8, <1>9 DEF Socket, Coherent
  <2>3. Free(ufb, fd)
    BY <2>1, <2>2 DEF Chosen, Available, Check
  <2>4. CASE Take(ufb, dtab, fd, s)
    <3>1. Held' = [Held EXCEPT ![fd] = {s}]
      BY <1>1, <2>2, <2>3, <2>4, TakeNames, HeldChange
    <3>2. \A x \in Fds : s \notin Named(ufb, dtab, x)
      <4>1. \A x \in Fds : ufb[x].fh # s
        BY <1>1, ConstantsAssumption DEF Owned
      <4> QED BY <2>2, <4>1 DEF Named
    <3>3. Named(ufb, dtab, fd) = {}
      BY <2>3, FreeNames
    <3>4. D!Next
      BY <2>2, <3>1, <3>2, <3>3, NewStep
    <3> QED BY <3>4
  <2>5. CASE AllocFails(ufb, fd) /\ dtab' = dtab
    <3>1. \A x \in Fds : Named(ufb', dtab, x) = Named(ufb, dtab, x)
      BY <1>1, <2>5, AllocFailsNames
    <3>2. Held' = Held
      BY <2>5, <3>1, HeldSame
    <3> QED BY <1>4, <2>2, <3>2
  <2> QED BY <2>1, <2>4, <2>5
<1>10. ASSUME NEW old \in Fds, Dup(old) PROVE [D!Next]_(D!vars)
  <2>1. PICK fd \in Fds : /\ Chosen(fd)
                         /\ \/ Take(ufb, dtab, fd, dtab[old])
                            \/ AllocFails(ufb, fd) /\ dtab' = dtab
    BY <1>10 DEF Dup
  <2>2. /\ callback /\ Coherent' = Coherent
        /\ CanDup(old) /\ dtab[old] \in Sockets
    BY <1>1, <1>8, <1>10 DEF Dup, CanDup, Coherent
  <2>3. Free(ufb, fd)
    BY <2>1, <2>2 DEF Chosen, Available, Check
  <2>4. Named(ufb, dtab, old) = {dtab[old]}
    BY <1>1, <2>2, ConstantsAssumption DEF CanDup, Owned, Named
  <2>5. CASE Take(ufb, dtab, fd, dtab[old])
    <3>1. Held' = [Held EXCEPT ![fd] = {dtab[old]}]
      BY <1>1, <2>2, <2>3, <2>5, TakeNames, HeldChange
    <3>2. D!Next
      BY <2>2, <2>4, <3>1, ReplaceStep
    <3> QED BY <3>2
  <2>6. CASE AllocFails(ufb, fd) /\ dtab' = dtab
    <3>1. \A x \in Fds : Named(ufb', dtab, x) = Named(ufb, dtab, x)
      BY <1>1, <2>6, AllocFailsNames
    <3>2. Held' = Held
      BY <2>6, <3>1, HeldSame
    <3> QED BY <1>4, <2>2, <3>2
  <2> QED BY <2>1, <2>5, <2>6
<1>11. ASSUME NEW old \in Fds, NEW new \in Fds, Dup2(old, new)
       PROVE  [D!Next]_(D!vars)
  <2>1. PICK u : u = IF InUse(new) THEN Closed(new) ELSE ufb
    OBVIOUS
  <2>2. PICK t : t = IF InUse(new) THEN ClosedNet(new) ELSE dtab
    OBVIOUS
  <2>3. PICK d : d = IF InUse(new) THEN ClosedDos(new) ELSE dos
    OBVIOUS
  <2>4. /\ Typed(u) /\ Owned(u, nufbs, d)
        /\ t \in [Fds -> Sockets \cup {None}]
    BY <1>1, <2>1, <2>2, <2>3, CloseKeeps
  <2>5. Free(u, new)
    BY <1>1, <2>1 DEF InUse, Owned, Closed, Free, Typed, FreeUFB
  <2>6. /\ Named(u, t, new) = {}
        /\ \A x \in Fds : x # new => Named(u, t, x) = Named(ufb, dtab, x)
    <3>1. CASE InUse(new)
      BY <2>1, <2>2, <3>1, CloseNames
    <3>2. CASE ~InUse(new)
      BY <2>1, <2>2, <2>5, <3>2, FreeNames
    <3> QED BY <3>1, <3>2
  <2>7. Coherent' = Coherent
    BY <1>11 DEF Dup2, Coherent
  <2>8. \/ CanDup(old) /\ Take(u, t, new, dtab[old])
        \/ AllocFails(u, new) /\ dtab' = t
        \/ ufb' = u /\ dtab' = t
    BY <1>11, <2>1, <2>2 DEF Dup2
  <2>9. CASE CanDup(old) /\ Take(u, t, new, dtab[old])
    <3>1. callback /\ dtab[old] \in Sockets
      BY <1>1, <1>8, <2>9 DEF CanDup
    <3>2. Named(ufb, dtab, old) = {dtab[old]}
      BY <1>1, <2>9, <3>1, ConstantsAssumption DEF CanDup, Owned, Named
    <3>3. /\ Named(ufb', dtab', new) = {dtab[old]}
          /\ \A x \in Fds : x # new => Named(ufb', dtab', x) = Named(ufb, dtab, x)
      BY <2>4, <2>5, <2>6, <2>9, <3>1, TakeNames
    <3>4. Held' = [Held EXCEPT ![new] = {dtab[old]}]
      BY <3>3, HeldChange
    <3>5. D!Next
      BY <2>7, <3>2, <3>4, ReplaceStep
    <3> QED BY <3>5
  <2>10. ASSUME \A x \in Fds : Named(ufb', dtab', x) = Named(u, t, x)
         PROVE  [D!Next]_(D!vars)
    <3>1. Held' = [Held EXCEPT ![new] = {}]
      BY <2>6, <2>10, HeldChange
    <3>2. D!Next
      BY <2>7, <3>1, ReleaseStep
    <3> QED BY <3>2
  <2>11. CASE AllocFails(u, new) /\ dtab' = t
    BY <1>1, <2>4, <2>10, <2>11, AllocFailsNames
  <2>12. CASE ufb' = u /\ dtab' = t
    BY <2>10, <2>12
  <2> QED BY <2>8, <2>9, <2>11, <2>12
<1>12. CASE OpenLib
  <2>1. Coherent' = FALSE \/ Coherent' = Coherent
    BY DEF Coherent
  <2>2. Held' = Held
    BY <1>12, HeldSame DEF OpenLib, tables
  <2> QED BY <1>2, <1>4, <2>1, <2>2
<1>13. CASE StartTCP \/ UNCHANGED vars
  <2>1. Coherent' = Coherent /\ Held' = Held
    BY <1>13, HeldSame DEF StartTCP, vars, tables, Coherent
  <2> QED BY <1>4, <2>1
<1> QED BY <1>5, <1>6, <1>7, <1>9, <1>10, <1>11, <1>12, <1>13
     DEF Next, Open, FhOpen

LEMMA InitImplements == Init => D!Init
<1> SUFFICES ASSUME Init PROVE D!Init
  OBVIOUS
<1>1. \A fd \in Fds : Held[fd] = {Console} \/ Held[fd] = {}
  BY HeldAt, ConstantsAssumption DEF Init, Named, StdUFB, FreeUFB
<1>2. Held \in [Fds -> SUBSET (Files \cup Sockets \cup {Console})]
  <2>1. Held = [fd \in Fds |-> Held[fd]]
    BY DEF Held
  <2> QED BY <1>1, <2>1
<1>3. Coherent \in BOOLEAN
  BY DEF Coherent, Init
<1> QED BY <1>1, <1>2, <1>3 DEF D!Init, Held

\* The C library's list and AmiTCP's table together implement what a program
\* expects of its descriptors for as long as the callback joins them: no call
\* gives out a number that names something, and none touches another number.
THEOREM DescriptorsCorrect == Spec => DescriptorsKept
<1> QED BY InvCorrect, InitImplements, StepImplements, PTL
     DEF Spec, DescriptorsKept, D!Spec
=============================================================================
