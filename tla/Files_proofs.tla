----------------------------- MODULE Files_proofs -----------------------------
(***************************************************************************)
(* Theorems about files.  A compiled file that bears the time of a source is  *)
(* of that source (PycFile), for any number of programs, versions and blocks. *)
(* A text that is written with its line ends translated comes back (Lines),   *)
(* however long it is and wherever it is cut.                                 *)
(***************************************************************************)
EXTENDS PycFile, Lines, SequenceTheorems, WellFoundedInduction, TLAPS

(***************************************************************************)
(* Compiled files                                                           *)
(***************************************************************************)
\* What a process has, by where it is.
Phases ==
  \A p \in Procs :
    /\ pc[p] = "idle" <=> ver[p] = None
    /\ code[p] = None <=> pc[p] \in {"idle", "check", "read", "parse"}
    /\ code[p] # None => code[p].time = ver[p].time

\* One writer or any number of readers.
Exclusive ==
  \A p, q \in Procs : pc[p] \in Writing /\ pc[q] \in Reading \cup Writing => p = q

\* A reader's file bears the time of its source, and nobody changes it.
ReaderSees ==
  \A p \in Procs : pc[p] \in Reading => There /\ pyc.stamp = ver[p].time

\* A writer's file is of its source, bears no time until the last step, and has
\* the blocks that were written.
WriterSees ==
  \A p \in Procs : pc[p] \in Writing =>
    /\ There /\ pyc.of = ver[p]
    /\ pc[p] # "close" => pyc.stamp \in {0, -1}
    /\ pc[p] = "write" /\ ~err[p] => 1 .. (next[p] - 1) \subseteq pyc.body
    /\ pc[p] = "seek" => next[p] = Blocks /\ 1 .. (Blocks - 1) \subseteq pyc.body
    /\ pc[p] = "stamp" =>
         1 .. (Blocks - 1) \subseteq pyc.body /\ (~DiskMayFill => Blocks \in pyc.body)

\* A process that writes nothing has a fresh buffer.
Buffers == \A p \in Procs : pc[p] \notin Writing => next[p] = 1 /\ ~err[p]

Inv == TypeOK /\ Buffers /\ Phases /\ Exclusive /\ ReaderSees /\ WriterSees /\ StampTells

LEMMA InvInit == Init => Inv
BY PycAssumption, NoneAssumption
DEF Init, Inv, TypeOK, Buffers, Phases, Exclusive, ReaderSees, WriterSees, StampTells, There,
    Version, NoFile, Whole, Reading, Writing, Other

\* What a flush leaves of the file.
LEMMA FlushedFile ==
  ASSUME pyc \in File, NEW b \in Whole
  PROVE  /\ Flushed(b) \in File /\ Flushed(b) # None
         /\ Flushed(b).of = pyc.of /\ Flushed(b).body = pyc.body \cup {b}
         /\ Flushed(b).stamp \in {pyc.stamp, 0}
<1> DEFINE s == IF b = 1 THEN 0 ELSE pyc.stamp
<1>1. s \in {pyc.stamp, 0} /\ s \in Times \cup {0, -1} /\ pyc.body \cup {b} \in SUBSET Whole
  BY DEF File, Whole
<1>3. Flushed(b) = [stamp |-> s, body |-> pyc.body \cup {b}, of |-> pyc.of]
  BY DEF Flushed
<1>4. pyc.of \in Version
  BY DEF File
<1>5. Flushed(b) \in File
  BY <1>1, <1>3, <1>4 DEF File, Whole
<1> QED BY <1>1, <1>3, <1>5, NoneAssumption

LEMMA FailedFile ==
  ASSUME pyc \in File, NEW b \in Whole, NEW f \in FlushFails(b)
  PROVE  /\ f \in File /\ f # None
         /\ f.of = pyc.of /\ f.body = pyc.body
         /\ f.stamp \in {pyc.stamp, 0}
<1>1. CASE f = pyc
  BY <1>1, NoneAssumption DEF File
<1>2. CASE f = [pyc EXCEPT !.stamp = 0]
  BY <1>2, NoneAssumption DEF File
<1> QED BY <1>1, <1>2 DEF FlushFails

\* A writer has a file, a source and a block.
LEMMA WriterHas ==
  ASSUME Inv, NEW p \in Procs, pc[p] \in Writing
  PROVE  /\ pyc \in File /\ pyc.of = ver[p] /\ next[p] \in Whole
         /\ ver[p] \in Version /\ ver[p].time \in Times
BY NoneAssumption
DEF Inv, TypeOK, WriterSees, Phases, There, NoFile, Writing, Version, File

LEMMA OpenSourceInv == ASSUME NEW p \in Procs, Inv, OpenSource(p) PROVE Inv'
<1>1. TypeOK'
  BY PycAssumption, NoneAssumption DEF Inv, OpenSource, Go, Return, TypeOK, Whole, File, NoFile, Version, Reading, Writing, Other
<1>2. Phases'
  BY PycAssumption, NoneAssumption DEF Inv, OpenSource, Go, Return, TypeOK, Phases, Reading, Writing, Other, StampTells, ReaderSees, NoFile, There, File, Version
<1>3. Exclusive'
  BY PycAssumption, NoneAssumption DEF Inv, OpenSource, Go, Return, TypeOK, Exclusive, Reading, Writing, Other, WriteLocked, Locked
<1>4. ReaderSees'
  BY PycAssumption, NoneAssumption DEF Inv, OpenSource, Go, Return, TypeOK, Exclusive, ReaderSees, Reading, Writing, Other, There, WriteLocked, Locked, Phases
<1>5. WriterSees'
  BY PycAssumption, NoneAssumption DEF Inv, OpenSource, Go, Return, TypeOK, Exclusive, WriterSees, Reading, Writing, Other, There, NoFile, File, Version, Whole, WriteLocked, Locked, Phases
<1>6. StampTells'
  BY PycAssumption, NoneAssumption DEF Inv, OpenSource, Go, Return, TypeOK, WriterSees, StampTells, Reading, Writing, Other, There, NoFile, File, Version, Whole, WriteLocked, Locked, Phases
<1>7. Buffers'
  BY PycAssumption, NoneAssumption DEF Inv, OpenSource, Go, Return, TypeOK, Buffers, Reading, Writing, Other
<1> QED BY <1>1, <1>2, <1>3, <1>4, <1>5, <1>6, <1>7 DEF Inv

LEMMA CheckPycInv == ASSUME NEW p \in Procs, Inv, CheckPyc(p) PROVE Inv'
<1>1. TypeOK'
  BY PycAssumption, NoneAssumption DEF Inv, CheckPyc, Go, Return, Matches, TypeOK, Whole, File, NoFile, Version, Reading, Writing, Other
<1>2. Phases'
  BY PycAssumption, NoneAssumption DEF Inv, CheckPyc, Go, Return, Matches, TypeOK, Phases, Reading, Writing, Other, StampTells, ReaderSees, NoFile, There, File, Version
<1>3. Exclusive'
  BY PycAssumption, NoneAssumption DEF Inv, CheckPyc, Go, Return, Matches, TypeOK, Exclusive, Reading, Writing, Other, WriteLocked, Locked
<1>4. ReaderSees'
  BY PycAssumption, NoneAssumption DEF Inv, CheckPyc, Go, Return, Matches, TypeOK, Exclusive, ReaderSees, Reading, Writing, Other, There, WriteLocked, Locked, Phases
<1>5. WriterSees'
  BY PycAssumption, NoneAssumption DEF Inv, CheckPyc, Go, Return, Matches, TypeOK, Exclusive, WriterSees, Reading, Writing, Other, There, NoFile, File, Version, Whole, WriteLocked, Locked, Phases
<1>6. StampTells'
  BY PycAssumption, NoneAssumption DEF Inv, CheckPyc, Go, Return, Matches, TypeOK, WriterSees, StampTells, Reading, Writing, Other, There, NoFile, File, Version, Whole, WriteLocked, Locked, Phases
<1>7. Buffers'
  BY PycAssumption, NoneAssumption DEF Inv, CheckPyc, Go, Return, Matches, TypeOK, Buffers, Reading, Writing, Other
<1> QED BY <1>1, <1>2, <1>3, <1>4, <1>5, <1>6, <1>7 DEF Inv

LEMMA ReadPycInv == ASSUME NEW p \in Procs, Inv, ReadPyc(p) PROVE Inv'
<1>1. TypeOK'
  <2>1. pyc \in File
    BY DEF Inv, TypeOK, ReaderSees, There, Reading, ReadPyc, Go, Return, NoFile
  <2>2. pyc.of \in Version
    BY <2>1 DEF File
  <2> QED BY <2>2 DEF Inv, ReadPyc, Go, Return, TypeOK, Reading, Writing, Other
<1>2. Phases'
  BY PycAssumption, NoneAssumption DEF Inv, ReadPyc, Go, Return, TypeOK, Phases, Reading, Writing, Other, StampTells, ReaderSees, NoFile, There, File, Version
<1>3. Exclusive'
  BY PycAssumption, NoneAssumption DEF Inv, ReadPyc, Go, Return, TypeOK, Exclusive, Reading, Writing, Other, WriteLocked, Locked
<1>4. ReaderSees'
  BY PycAssumption, NoneAssumption DEF Inv, ReadPyc, Go, Return, TypeOK, Exclusive, ReaderSees, Reading, Writing, Other, There, WriteLocked, Locked, Phases
<1>5. WriterSees'
  BY PycAssumption, NoneAssumption DEF Inv, ReadPyc, Go, Return, TypeOK, Exclusive, WriterSees, Reading, Writing, Other, There, NoFile, File, Version, Whole, WriteLocked, Locked, Phases
<1>6. StampTells'
  BY PycAssumption, NoneAssumption DEF Inv, ReadPyc, Go, Return, TypeOK, WriterSees, StampTells, Reading, Writing, Other, There, NoFile, File, Version, Whole, WriteLocked, Locked, Phases
<1>7. Buffers'
  BY PycAssumption, NoneAssumption DEF Inv, ReadPyc, Go, Return, TypeOK, Buffers, Reading, Writing, Other
<1> QED BY <1>1, <1>2, <1>3, <1>4, <1>5, <1>6, <1>7 DEF Inv

LEMMA ParseInv == ASSUME NEW p \in Procs, Inv, Parse(p) PROVE Inv'
<1>1. TypeOK'
  BY PycAssumption, NoneAssumption DEF Inv, Parse, Go, Return, TypeOK, Whole, File, NoFile, Version, Reading, Writing, Other
<1>2. Phases'
  BY PycAssumption, NoneAssumption DEF Inv, Parse, Go, Return, TypeOK, Phases, Reading, Writing, Other, StampTells, ReaderSees, NoFile, There, File, Version
<1>3. Exclusive'
  BY PycAssumption, NoneAssumption DEF Inv, Parse, Go, Return, TypeOK, Exclusive, Reading, Writing, Other, WriteLocked, Locked
<1>4. ReaderSees'
  BY PycAssumption, NoneAssumption DEF Inv, Parse, Go, Return, TypeOK, Exclusive, ReaderSees, Reading, Writing, Other, There, WriteLocked, Locked, Phases
<1>5. WriterSees'
  BY PycAssumption, NoneAssumption DEF Inv, Parse, Go, Return, TypeOK, Exclusive, WriterSees, Reading, Writing, Other, There, NoFile, File, Version, Whole, WriteLocked, Locked, Phases
<1>6. StampTells'
  BY PycAssumption, NoneAssumption DEF Inv, Parse, Go, Return, TypeOK, WriterSees, StampTells, Reading, Writing, Other, There, NoFile, File, Version, Whole, WriteLocked, Locked, Phases
<1>7. Buffers'
  BY PycAssumption, NoneAssumption DEF Inv, Parse, Go, Return, TypeOK, Buffers, Reading, Writing, Other
<1> QED BY <1>1, <1>2, <1>3, <1>4, <1>5, <1>6, <1>7 DEF Inv

LEMMA RunInv == ASSUME NEW p \in Procs, Inv, Run(p) PROVE Inv'
<1>1. TypeOK'
  BY PycAssumption, NoneAssumption DEF Inv, Run, Go, Return, TypeOK, Whole, File, NoFile, Version, Reading, Writing, Other
<1>2. Phases'
  BY PycAssumption, NoneAssumption DEF Inv, Run, Go, Return, TypeOK, Phases, Reading, Writing, Other, StampTells, ReaderSees, NoFile, There, File, Version
<1>3. Exclusive'
  BY PycAssumption, NoneAssumption DEF Inv, Run, Go, Return, TypeOK, Exclusive, Reading, Writing, Other, WriteLocked, Locked
<1>4. ReaderSees'
  BY PycAssumption, NoneAssumption DEF Inv, Run, Go, Return, TypeOK, Exclusive, ReaderSees, Reading, Writing, Other, There, WriteLocked, Locked, Phases
<1>5. WriterSees'
  BY PycAssumption, NoneAssumption DEF Inv, Run, Go, Return, TypeOK, Exclusive, WriterSees, Reading, Writing, Other, There, NoFile, File, Version, Whole, WriteLocked, Locked, Phases
<1>6. StampTells'
  BY PycAssumption, NoneAssumption DEF Inv, Run, Go, Return, TypeOK, WriterSees, StampTells, Reading, Writing, Other, There, NoFile, File, Version, Whole, WriteLocked, Locked, Phases
<1>7. Buffers'
  BY PycAssumption, NoneAssumption DEF Inv, Run, Go, Return, TypeOK, Buffers, Reading, Writing, Other
<1> QED BY <1>1, <1>2, <1>3, <1>4, <1>5, <1>6, <1>7 DEF Inv

LEMMA UnlinkInv == ASSUME NEW p \in Procs, Inv, Unlink(p) PROVE Inv'
<1>1. TypeOK'
  BY PycAssumption, NoneAssumption DEF Inv, Unlink, Go, Return, Deleted, TypeOK, Whole, File, NoFile, Version, Reading, Writing, Other
<1>2. Phases'
  BY PycAssumption, NoneAssumption DEF Inv, Unlink, Go, Return, Deleted, TypeOK, Phases, Reading, Writing, Other, StampTells, ReaderSees, NoFile, There, File, Version
<1>3. Exclusive'
  BY PycAssumption, NoneAssumption DEF Inv, Unlink, Go, Return, Deleted, TypeOK, Exclusive, Reading, Writing, Other, WriteLocked, Locked
<1>4. ReaderSees'
  BY PycAssumption, NoneAssumption DEF Inv, Unlink, Go, Return, Deleted, TypeOK, Exclusive, ReaderSees, Reading, Writing, Other, There, WriteLocked, Locked, Phases
<1>5. WriterSees'
  BY PycAssumption, NoneAssumption DEF Inv, Unlink, Go, Return, Deleted, TypeOK, Exclusive, WriterSees, Reading, Writing, Other, There, NoFile, File, Version, Whole, WriteLocked, Locked, Phases
<1>6. StampTells'
  BY PycAssumption, NoneAssumption DEF Inv, Unlink, Go, Return, Deleted, TypeOK, WriterSees, StampTells, Reading, Writing, Other, There, NoFile, File, Version, Whole, WriteLocked, Locked, Phases
<1>7. Buffers'
  BY PycAssumption, NoneAssumption DEF Inv, Unlink, Go, Return, Deleted, TypeOK, Buffers, Reading, Writing, Other
<1> QED BY <1>1, <1>2, <1>3, <1>4, <1>5, <1>6, <1>7 DEF Inv

LEMMA LockTestInv == ASSUME NEW p \in Procs, Inv, LockTest(p) PROVE Inv'
<1>1. TypeOK'
  BY PycAssumption, NoneAssumption DEF Inv, LockTest, Go, Return, TypeOK, Whole, File, NoFile, Version, Reading, Writing, Other
<1>2. Phases'
  BY PycAssumption, NoneAssumption DEF Inv, LockTest, Go, Return, TypeOK, Phases, Reading, Writing, Other, StampTells, ReaderSees, NoFile, There, File, Version
<1>3. Exclusive'
  BY PycAssumption, NoneAssumption DEF Inv, LockTest, Go, Return, TypeOK, Exclusive, Reading, Writing, Other, WriteLocked, Locked
<1>4. ReaderSees'
  BY PycAssumption, NoneAssumption DEF Inv, LockTest, Go, Return, TypeOK, Exclusive, ReaderSees, Reading, Writing, Other, There, WriteLocked, Locked, Phases
<1>5. WriterSees'
  BY PycAssumption, NoneAssumption DEF Inv, LockTest, Go, Return, TypeOK, Exclusive, WriterSees, Reading, Writing, Other, There, NoFile, File, Version, Whole, WriteLocked, Locked, Phases
<1>6. StampTells'
  BY PycAssumption, NoneAssumption DEF Inv, LockTest, Go, Return, TypeOK, WriterSees, StampTells, Reading, Writing, Other, There, NoFile, File, Version, Whole, WriteLocked, Locked, Phases
<1>7. Buffers'
  BY PycAssumption, NoneAssumption DEF Inv, LockTest, Go, Return, TypeOK, Buffers, Reading, Writing, Other
<1> QED BY <1>1, <1>2, <1>3, <1>4, <1>5, <1>6, <1>7 DEF Inv

LEMMA CreateInv == ASSUME NEW p \in Procs, Inv, Create(p) PROVE Inv'
<1> DEFINE New == [stamp |-> -1, body |-> {}, of |-> ver[p]]
<1>a. ver[p] \in Version
  BY DEF Inv, TypeOK, Phases, Create
<1>b. New \in File /\ New # None
  BY <1>a, NoneAssumption DEF File
<1>c. New.of = ver[p] /\ New.body = {} /\ New.stamp = -1
  OBVIOUS
<1>d. /\ pc[p] = "create"
      /\ \/ pc' = [pc EXCEPT ![p] = "run"] /\ pyc' = pyc
         \/ pc' = [pc EXCEPT ![p] = "write"] /\ pyc' = New /\ ~Locked
      /\ UNCHANGED <<src, ver, code, next, err>>
  BY DEF Create, CreateTo
<1> HIDE DEF New
<1>1. TypeOK'
  BY <1>a, <1>b, <1>c, <1>d, PycAssumption, NoneAssumption DEF Inv, TypeOK, Whole, File, NoFile, Version, Reading, Writing, Other
<1>2. Phases'
  BY <1>a, <1>b, <1>c, <1>d, PycAssumption, NoneAssumption DEF Inv, TypeOK, Phases, Reading, Writing, Other, StampTells, ReaderSees, NoFile, There, File, Version
<1>3. Exclusive'
  BY <1>a, <1>b, <1>c, <1>d, PycAssumption, NoneAssumption DEF Inv, TypeOK, Exclusive, Reading, Writing, Other, WriteLocked, Locked
<1>4. ReaderSees'
  BY <1>a, <1>b, <1>c, <1>d, PycAssumption, NoneAssumption DEF Inv, TypeOK, Exclusive, ReaderSees, Reading, Writing, Other, There, WriteLocked, Locked, Phases
<1>5. WriterSees'
  <2>1. CASE pc' = [pc EXCEPT ![p] = "run"] /\ pyc' = pyc
    BY <2>1, <1>d DEF Inv, TypeOK, WriterSees, Writing, There
  <2>2. CASE pc' = [pc EXCEPT ![p] = "write"] /\ pyc' = New /\ ~Locked
    <3>1. \A q \in Procs : pc'[q] \in Writing => q = p /\ pc'[q] = "write"
      BY <2>2 DEF Inv, TypeOK, Locked
    <3>2. There' /\ pyc'.of = ver'[p] /\ pyc'.stamp = -1
      BY <1>b, <1>c, <1>d, <2>2 DEF There, NoFile
    <3>3. next[p] = 1
      BY <1>d DEF Inv, Buffers, Writing
    <3> QED BY <1>d, <3>1, <3>2, <3>3 DEF WriterSees
  <2> QED BY <1>d, <2>1, <2>2
<1>6. StampTells'
  BY <1>a, <1>b, <1>c, <1>d, PycAssumption, NoneAssumption DEF Inv, TypeOK, WriterSees, StampTells, Reading, Writing, Other, There, NoFile, File, Version, Whole, WriteLocked, Locked, Phases
<1>7. Buffers'
  BY <1>a, <1>b, <1>c, <1>d, PycAssumption, NoneAssumption DEF Inv, TypeOK, Buffers, Reading, Writing, Other
<1> QED BY <1>1, <1>2, <1>3, <1>4, <1>5, <1>6, <1>7 DEF Inv

LEMMA WriteBlockInv == ASSUME NEW p \in Procs, Inv, WriteBlock(p) PROVE Inv'
<1>a. pc[p] = "write" /\ pc[p] \in Writing /\ next[p] + 1 \in Whole
  BY WriterHas, PycAssumption DEF WriteBlock, Writing, Whole
<1>b. pyc \in File /\ next[p] \in Whole
  BY <1>a, WriterHas
<1>c. /\ pyc' \in File /\ pyc' # None
      /\ pyc'.of = pyc.of /\ pyc'.stamp \in {pyc.stamp, 0}
      /\ \/ pyc'.body = pyc.body \cup {next[p]} /\ UNCHANGED err
         \/ pyc'.body = pyc.body /\ err' = [err EXCEPT ![p] = TRUE]
  BY <1>b, FlushedFile, FailedFile DEF WriteBlock
<1>d. next' = [next EXCEPT ![p] = @ + 1] /\ UNCHANGED <<src, pc, ver, code>>
  BY DEF WriteBlock
<1>1. TypeOK'
  BY <1>a, <1>b, <1>c, <1>d, PycAssumption, NoneAssumption DEF Inv, TypeOK, Whole, NoFile, Version, Reading, Writing, Other
<1>2. Phases'
  BY <1>a, <1>b, <1>c, <1>d, PycAssumption, NoneAssumption DEF Inv, TypeOK, Phases, Reading, Writing, Other, StampTells, ReaderSees, NoFile, There, Version
<1>3. Exclusive'
  BY <1>a, <1>b, <1>c, <1>d, PycAssumption, NoneAssumption DEF Inv, TypeOK, Exclusive, Reading, Writing, Other, WriteLocked, Locked
<1>4. ReaderSees'
  BY <1>a, <1>b, <1>c, <1>d, PycAssumption, NoneAssumption DEF Inv, TypeOK, Exclusive, ReaderSees, Reading, Writing, Other, There, WriteLocked, Locked, Phases
<1>5. WriterSees'
  BY <1>a, <1>b, <1>c, <1>d, PycAssumption, NoneAssumption DEF Inv, TypeOK, Exclusive, WriterSees, Reading, Writing, Other, There, NoFile, Version, Whole, WriteLocked, Locked, Phases
<1>6. StampTells'
  BY <1>a, <1>b, <1>c, <1>d, PycAssumption, NoneAssumption DEF Inv, TypeOK, WriterSees, StampTells, Reading, Writing, Other, There, NoFile, Version, Whole, WriteLocked, Locked, Phases
<1>7. Buffers'
  BY <1>a, <1>b, <1>c, <1>d, PycAssumption, NoneAssumption DEF Inv, TypeOK, Buffers, Reading, Writing, Other
<1> QED BY <1>1, <1>2, <1>3, <1>4, <1>5, <1>6, <1>7 DEF Inv

LEMMA WrittenInv == ASSUME NEW p \in Procs, Inv, Written(p) PROVE Inv'
<1>1. TypeOK'
  BY PycAssumption, NoneAssumption DEF Inv, Written, Go, Return, AfterWriting, TypeOK, Whole, File, NoFile, Version, Reading, Writing, Other
<1>2. Phases'
  BY PycAssumption, NoneAssumption DEF Inv, Written, Go, Return, AfterWriting, TypeOK, Phases, Reading, Writing, Other, StampTells, ReaderSees, NoFile, There, File, Version
<1>3. Exclusive'
  BY PycAssumption, NoneAssumption DEF Inv, Written, Go, Return, AfterWriting, TypeOK, Exclusive, Reading, Writing, Other, WriteLocked, Locked
<1>4. ReaderSees'
  BY PycAssumption, NoneAssumption DEF Inv, Written, Go, Return, AfterWriting, TypeOK, Exclusive, ReaderSees, Reading, Writing, Other, There, WriteLocked, Locked, Phases
<1>5. WriterSees'
  BY PycAssumption, NoneAssumption DEF Inv, Written, Go, Return, AfterWriting, TypeOK, Exclusive, WriterSees, Reading, Writing, Other, There, NoFile, File, Version, Whole, WriteLocked, Locked, Phases
<1>6. StampTells'
  BY PycAssumption, NoneAssumption DEF Inv, Written, Go, Return, AfterWriting, TypeOK, WriterSees, StampTells, Reading, Writing, Other, There, NoFile, File, Version, Whole, WriteLocked, Locked, Phases
<1>7. Buffers'
  BY PycAssumption, NoneAssumption DEF Inv, Written, Go, Return, AfterWriting, TypeOK, Buffers, Reading, Writing, Other
<1> QED BY <1>1, <1>2, <1>3, <1>4, <1>5, <1>6, <1>7 DEF Inv

LEMMA SeekInv == ASSUME NEW p \in Procs, Inv, Seek(p) PROVE Inv'
<1>a. pc[p] = "seek" /\ pc[p] \in Writing
  BY DEF Seek, Go, Writing
<1>b. pyc \in File /\ next[p] \in Whole
  BY <1>a, WriterHas
<1>c. /\ pyc' \in File /\ pyc' # None
      /\ pyc'.of = pyc.of /\ pyc'.stamp \in {pyc.stamp, 0}
      /\ pyc.body \subseteq pyc'.body
      /\ ~DiskMayFill => next[p] \in pyc'.body
  BY <1>b, FlushedFile, FailedFile DEF Seek
<1>d. pc' = [pc EXCEPT ![p] = "stamp"] /\ UNCHANGED <<src, ver, code, next, err>>
  BY DEF Seek, Go
<1>1. TypeOK'
  BY <1>a, <1>b, <1>c, <1>d, PycAssumption, NoneAssumption DEF Inv, TypeOK, Whole, NoFile, Version, Reading, Writing, Other
<1>2. Phases'
  BY <1>a, <1>b, <1>c, <1>d, PycAssumption, NoneAssumption DEF Inv, TypeOK, Phases, Reading, Writing, Other, StampTells, ReaderSees, NoFile, There, Version
<1>3. Exclusive'
  BY <1>a, <1>b, <1>c, <1>d, PycAssumption, NoneAssumption DEF Inv, TypeOK, Exclusive, Reading, Writing, Other, WriteLocked, Locked
<1>4. ReaderSees'
  BY <1>a, <1>b, <1>c, <1>d, PycAssumption, NoneAssumption DEF Inv, TypeOK, Exclusive, ReaderSees, Reading, Writing, Other, There, WriteLocked, Locked, Phases
<1>5. WriterSees'
  BY <1>a, <1>b, <1>c, <1>d, PycAssumption, NoneAssumption DEF Inv, TypeOK, Exclusive, WriterSees, Reading, Writing, Other, There, NoFile, Version, Whole, WriteLocked, Locked, Phases
<1>6. StampTells'
  BY <1>a, <1>b, <1>c, <1>d, PycAssumption, NoneAssumption DEF Inv, TypeOK, WriterSees, StampTells, Reading, Writing, Other, There, NoFile, Version, Whole, WriteLocked, Locked, Phases
<1>7. Buffers'
  BY <1>a, <1>b, <1>c, <1>d, PycAssumption, NoneAssumption DEF Inv, TypeOK, Buffers, Reading, Writing, Other
<1> QED BY <1>1, <1>2, <1>3, <1>4, <1>5, <1>6, <1>7 DEF Inv

LEMMA StampInv == ASSUME NEW p \in Procs, Inv, Stamp(p) PROVE Inv'
<1>a. pc[p] = "stamp" /\ pc[p] \in Writing
  BY DEF Stamp, Go, Writing
<1>b. pyc \in File /\ ver[p].time \in Times /\ pyc.of = ver[p]
  BY <1>a, WriterHas
<1>c. /\ pyc' \in File /\ pyc' # None
      /\ pyc'.of = pyc.of /\ pyc'.body = pyc.body
      /\ pyc'.stamp \in {pyc.stamp, ver[p].time}
  BY <1>b, NoneAssumption DEF Stamp, StampOf, File
<1>d. pc' = [pc EXCEPT ![p] = "close"] /\ UNCHANGED <<src, ver, code, next, err>>
  BY DEF Stamp, Go
<1>1. TypeOK'
  BY <1>a, <1>b, <1>c, <1>d, PycAssumption, NoneAssumption DEF Inv, TypeOK, Whole, NoFile, Version, Reading, Writing, Other
<1>2. Phases'
  BY <1>a, <1>b, <1>c, <1>d, PycAssumption, NoneAssumption DEF Inv, TypeOK, Phases, Reading, Writing, Other, StampTells, ReaderSees, NoFile, There, Version
<1>3. Exclusive'
  BY <1>a, <1>b, <1>c, <1>d, PycAssumption, NoneAssumption DEF Inv, TypeOK, Exclusive, Reading, Writing, Other, WriteLocked, Locked
<1>4. ReaderSees'
  BY <1>a, <1>b, <1>c, <1>d, PycAssumption, NoneAssumption DEF Inv, TypeOK, Exclusive, ReaderSees, Reading, Writing, Other, There, WriteLocked, Locked, Phases
<1>5. WriterSees'
  BY <1>a, <1>b, <1>c, <1>d, PycAssumption, NoneAssumption DEF Inv, TypeOK, Exclusive, WriterSees, Reading, Writing, Other, There, NoFile, Version, Whole, WriteLocked, Locked, Phases
<1>6. StampTells'
  BY <1>a, <1>b, <1>c, <1>d, PycAssumption, NoneAssumption DEF Inv, TypeOK, WriterSees, StampTells, Reading, Writing, Other, There, NoFile, Version, Whole, WriteLocked, Locked, Phases
<1>7. Buffers'
  BY <1>a, <1>b, <1>c, <1>d, PycAssumption, NoneAssumption DEF Inv, TypeOK, Buffers, Reading, Writing, Other
<1> QED BY <1>1, <1>2, <1>3, <1>4, <1>5, <1>6, <1>7 DEF Inv

LEMMA CloseFileInv == ASSUME NEW p \in Procs, Inv, CloseFile(p) PROVE Inv'
<1>1. TypeOK'
  BY PycAssumption, NoneAssumption DEF Inv, CloseFile, Go, Return, Forget, TypeOK, Whole, File, NoFile, Version, Reading, Writing, Other
<1>2. Phases'
  BY PycAssumption, NoneAssumption DEF Inv, CloseFile, Go, Return, Forget, TypeOK, Phases, Reading, Writing, Other, StampTells, ReaderSees, NoFile, There, File, Version
<1>3. Exclusive'
  BY PycAssumption, NoneAssumption DEF Inv, CloseFile, Go, Return, Forget, TypeOK, Exclusive, Reading, Writing, Other, WriteLocked, Locked
<1>4. ReaderSees'
  BY PycAssumption, NoneAssumption DEF Inv, CloseFile, Go, Return, Forget, TypeOK, Exclusive, ReaderSees, Reading, Writing, Other, There, WriteLocked, Locked, Phases
<1>5. WriterSees'
  BY PycAssumption, NoneAssumption DEF Inv, CloseFile, Go, Return, Forget, TypeOK, Exclusive, WriterSees, Reading, Writing, Other, There, NoFile, File, Version, Whole, WriteLocked, Locked, Phases
<1>6. StampTells'
  BY PycAssumption, NoneAssumption DEF Inv, CloseFile, Go, Return, Forget, TypeOK, WriterSees, StampTells, Reading, Writing, Other, There, NoFile, File, Version, Whole, WriteLocked, Locked, Phases
<1>7. Buffers'
  BY PycAssumption, NoneAssumption DEF Inv, CloseFile, Go, Return, Forget, TypeOK, Buffers, Reading, Writing, Other
<1> QED BY <1>1, <1>2, <1>3, <1>4, <1>5, <1>6, <1>7 DEF Inv

LEMMA DiscardInv == ASSUME NEW p \in Procs, Inv, Discard(p) PROVE Inv'
<1>a. pc[p] = "discard" /\ pc[p] \in Writing
  BY DEF Discard, Go, Writing
<1>b. pyc \in File /\ next[p] \in Whole
  BY <1>a, WriterHas
<1>c. /\ pyc' \in File /\ pyc' # None
      /\ pyc'.of = pyc.of /\ pyc'.stamp \in {pyc.stamp, 0}
  BY <1>b, FlushedFile, NoneAssumption DEF Discard
<1>d. /\ pc' = [pc EXCEPT ![p] = "remove"]
      /\ next' = [next EXCEPT ![p] = 1] /\ err' = [err EXCEPT ![p] = FALSE]
      /\ UNCHANGED <<src, ver, code>>
  BY DEF Discard, Go, Forget
<1>1. TypeOK'
  BY <1>a, <1>b, <1>c, <1>d, PycAssumption, NoneAssumption DEF Inv, TypeOK, Whole, NoFile, Version, Reading, Writing, Other
<1>2. Phases'
  BY <1>a, <1>b, <1>c, <1>d, PycAssumption, NoneAssumption DEF Inv, TypeOK, Phases, Reading, Writing, Other, StampTells, ReaderSees, NoFile, There, Version
<1>3. Exclusive'
  BY <1>a, <1>b, <1>c, <1>d, PycAssumption, NoneAssumption DEF Inv, TypeOK, Exclusive, Reading, Writing, Other, WriteLocked, Locked
<1>4. ReaderSees'
  BY <1>a, <1>b, <1>c, <1>d, PycAssumption, NoneAssumption DEF Inv, TypeOK, Exclusive, ReaderSees, Reading, Writing, Other, There, WriteLocked, Locked, Phases
<1>5. WriterSees'
  BY <1>a, <1>b, <1>c, <1>d, PycAssumption, NoneAssumption DEF Inv, TypeOK, Exclusive, WriterSees, Reading, Writing, Other, There, NoFile, Version, Whole, WriteLocked, Locked, Phases
<1>6. StampTells'
  BY <1>a, <1>b, <1>c, <1>d, PycAssumption, NoneAssumption DEF Inv, TypeOK, WriterSees, StampTells, Reading, Writing, Other, There, NoFile, Version, Whole, WriteLocked, Locked, Phases
<1>7. Buffers'
  BY <1>a, <1>b, <1>c, <1>d, PycAssumption, NoneAssumption DEF Inv, TypeOK, Buffers, Reading, Writing, Other
<1> QED BY <1>1, <1>2, <1>3, <1>4, <1>5, <1>6, <1>7 DEF Inv

LEMMA RemoveInv == ASSUME NEW p \in Procs, Inv, Remove(p) PROVE Inv'
<1>1. TypeOK'
  BY PycAssumption, NoneAssumption DEF Inv, Remove, Go, Return, Deleted, TypeOK, Whole, File, NoFile, Version, Reading, Writing, Other
<1>2. Phases'
  BY PycAssumption, NoneAssumption DEF Inv, Remove, Go, Return, Deleted, TypeOK, Phases, Reading, Writing, Other, StampTells, ReaderSees, NoFile, There, File, Version
<1>3. Exclusive'
  BY PycAssumption, NoneAssumption DEF Inv, Remove, Go, Return, Deleted, TypeOK, Exclusive, Reading, Writing, Other, WriteLocked, Locked
<1>4. ReaderSees'
  BY PycAssumption, NoneAssumption DEF Inv, Remove, Go, Return, Deleted, TypeOK, Exclusive, ReaderSees, Reading, Writing, Other, There, WriteLocked, Locked, Phases
<1>5. WriterSees'
  BY PycAssumption, NoneAssumption DEF Inv, Remove, Go, Return, Deleted, TypeOK, Exclusive, WriterSees, Reading, Writing, Other, There, NoFile, File, Version, Whole, WriteLocked, Locked, Phases
<1>6. StampTells'
  BY PycAssumption, NoneAssumption DEF Inv, Remove, Go, Return, Deleted, TypeOK, WriterSees, StampTells, Reading, Writing, Other, There, NoFile, File, Version, Whole, WriteLocked, Locked, Phases
<1>7. Buffers'
  BY PycAssumption, NoneAssumption DEF Inv, Remove, Go, Return, Deleted, TypeOK, Buffers, Reading, Writing, Other
<1> QED BY <1>1, <1>2, <1>3, <1>4, <1>5, <1>6, <1>7 DEF Inv

LEMMA EditInv == ASSUME Inv, Edit PROVE Inv'
<1>1. src' \in Version
  BY DEF Edit, Inv, TypeOK, Version
<1> QED BY <1>1
DEF Inv, Edit, TypeOK, Buffers, Phases, Exclusive, ReaderSees, WriterSees, StampTells, There, NoFile, File, Version, Whole

LEMMA RebootInv == ASSUME Inv, Reboot PROVE Inv'
BY PycAssumption
DEF Inv, Reboot, TypeOK, Buffers, Phases, Exclusive, ReaderSees, WriterSees, StampTells, There,
    NoFile, File, Version, Whole, Reading, Writing, Other

LEMMA StutterInv == ASSUME Inv, UNCHANGED vars PROVE Inv'
BY DEF Inv, vars, TypeOK, Buffers, Phases, Exclusive, ReaderSees, WriterSees, StampTells, There, NoFile, File, Version, Whole

LEMMA InvNext == Inv /\ [Next]_vars => Inv'
<1> SUFFICES ASSUME Inv, [Next]_vars PROVE Inv'
  OBVIOUS
<1>1. ASSUME NEW p \in Procs, Step(p) PROVE Inv'
  BY <1>1, OpenSourceInv, CheckPycInv, ReadPycInv, ParseInv, RunInv, UnlinkInv, LockTestInv, CreateInv, WriteBlockInv, WrittenInv, SeekInv, StampInv, CloseFileInv, DiscardInv, RemoveInv DEF Step
<1> QED BY <1>1, EditInv, RebootInv, StutterInv DEF Next

LEMMA Invariance == Spec => []Inv
BY InvInit, InvNext, PTL DEF Spec

-----------------------------------------------------------------------------
(* The theorems *)

\* Every variable keeps its type.
THEOREM TypeCorrect == Spec => []TypeOK
BY Invariance, PTL DEF Inv

\* However many programs import, edit, crash and run out of disk, a compiled file
\* that bears the time of a source was compiled from one of that time and is
\* complete up to its last block (check_compiled_module relies on it).
THEOREM StampCorrect == Spec => []StampTells
BY Invariance, PTL DEF Inv

\* A step of one import is a step or a stutter of the import without compiled files.
LEMMA StepSimulates ==
  ASSUME Inv, NEW p \in Procs, Step(p)
  PROVE  [Abstract!Next]_(Abstract!vars)
<1>1. CASE OpenSource(p)
  BY <1>1 DEF OpenSource, Go, Inv, Phases, Abstract!OpenSource, Abstract!Next
<1>2. CASE ReadPyc(p)
  <2>a. pc[p] = "read" /\ code[p] = None /\ ver[p] # None
    BY <1>2 DEF ReadPyc, Go, Return, Inv, Phases
  <2>1. CASE Go(p, "read", "run") /\ code' = [code EXCEPT ![p] = pyc.of] /\ UNCHANGED ver
    <3>1. pyc \in File /\ pyc.of \in Version /\ pyc.stamp = ver[p].time
      BY <2>a DEF Inv, TypeOK, ReaderSees, There, Reading, NoFile, File
    <3>2. ver[p].time \in Times
      BY <2>a DEF Inv, TypeOK, Version
    <3>3. pyc.of.time = ver[p].time
      BY <2>a, <3>1, <3>2 DEF Inv, StampTells, ReaderSees, Reading
    <3>4. code'[p] = pyc.of
      BY <2>1 DEF Inv, TypeOK
    <3> QED BY <1>2, <2>a, <2>1, <3>1, <3>3, <3>4
      DEF ReadPyc, Abstract!GetCode, Abstract!Next, Version, Abstract!Version
  <2>2. CASE Return(p, "read")
    BY <1>2, <2>a, <2>2 DEF ReadPyc, Return, Abstract!Finish, Abstract!Next
  <2> QED BY <1>2, <2>1, <2>2 DEF ReadPyc
<1>3. CASE Parse(p)
  <2>a. pc[p] = "parse" /\ code[p] = None /\ ver[p] # None /\ ver[p] \in Version
    BY <1>3 DEF Parse, Go, Return, Inv, TypeOK, Phases
  <2>1. CASE Go(p, "parse", "unlink") /\ code' = [code EXCEPT ![p] = ver[p]] /\ UNCHANGED ver
    <3>1. code'[p] = ver[p]
      BY <2>1 DEF Inv, TypeOK
    <3> QED BY <1>3, <2>a, <2>1, <3>1
      DEF Parse, Abstract!GetCode, Abstract!Next, Version, Abstract!Version
  <2>2. CASE Return(p, "parse")
    BY <1>3, <2>a, <2>2 DEF Parse, Return, Abstract!Finish, Abstract!Next
  <2> QED BY <1>3, <2>1, <2>2 DEF Parse
<1>4. CASE Run(p)
  BY <1>4 DEF Run, Return, Go, Inv, Phases, Abstract!Finish, Abstract!Next
<1>5. CASE UNCHANGED <<src, ver, code>>
  BY <1>5 DEF Abstract!vars
<1> QED BY <1>1, <1>2, <1>3, <1>4, <1>5
  DEF Step, CheckPyc, Unlink, LockTest, Create, WriteBlock, Written, Seek, Stamp,
      CloseFile, Discard, Remove

LEMMA Simulates == Inv /\ [Next]_vars => [Abstract!Next]_(Abstract!vars)
<1> SUFFICES ASSUME Inv, [Next]_vars PROVE [Abstract!Next]_(Abstract!vars)
  OBVIOUS
<1>1. CASE Edit
  <2>1. src' \in Version /\ src'.id = src.id + 1
    BY <1>1 DEF Edit, Inv, TypeOK, Version
  <2> QED BY <1>1, <2>1
    DEF Edit, Abstract!Edit, Abstract!Next, Version, Abstract!Version
<1>2. CASE Reboot
  BY <1>2 DEF Reboot, Abstract!Reboot, Abstract!Next
<1>3. CASE UNCHANGED vars
  BY <1>3 DEF vars, Abstract!vars
<1> QED BY <1>1, <1>2, <1>3, StepSimulates DEF Next

\* Imports that share a compiled file refine imports that have none: each gets once
\* the code of a version with the time of the one it opened (load_source_module).
THEOREM ImportRefinement == Spec => ImportsWhatItOpened
<1>1. Init => Abstract!Init
  BY DEF Init, Abstract!Init, Version, Abstract!Version
<1> QED BY <1>1, Invariance, Simulates, PTL DEF Spec, ImportsWhatItOpened, Abstract!Spec

(***************************************************************************)
(* Line ends.  What is written and read later is told by what comes of the   *)
(* bytes of the file: the text without the CR.                              *)
(***************************************************************************)
FileBytes == Bytes \cup {CR}

\* The text t is what comes of the bytes f without CR: byte i of t is at place pos[i].
FromPlaces(t, f, pos) ==
  /\ pos \in [1 .. Len(t) -> 1 .. Len(f)]
  /\ \A i, j \in 1 .. Len(t) : i < j => pos[i] < pos[j]
  /\ \A i \in 1 .. Len(t) : f[pos[i]] = t[i]
  /\ \A k \in 1 .. Len(f) : f[k] # CR => \E i \in 1 .. Len(t) : pos[i] = k
Comes(t, f) == \E pos : FromPlaces(t, f, pos)

\* Three CR in a row would be a call of _read with nothing else.
Apart(f) == \A i \in 1 .. Len(f) - 2 : ~(f[i] = CR /\ f[i + 1] = CR /\ f[i + 2] = CR)
\* One more does no harm.
Open(f) == Len(f) >= 2 => ~(f[Len(f) - 1] = CR /\ f[Len(f)] = CR)

\* Of no bytes comes the empty text, and no other.
LEMMA NothingComes ==
  /\ Comes(<<>>, <<>>)
  /\ \A t \in Seq(Bytes) : Comes(t, <<>>) => t = <<>>
<1>1. Comes(<<>>, <<>>)
  <2> DEFINE p == [i \in {} |-> 0]
  <2>1. FromPlaces(<<>>, <<>>, p)
    BY DEF FromPlaces
  <2> QED
    BY <2>1 DEF Comes
<1>2. ASSUME NEW t \in Seq(Bytes), Comes(t, <<>>) PROVE t = <<>>
  <2> PICK p : FromPlaces(t, <<>>, p)
    BY <1>2 DEF Comes
  <2>1. Len(t) = 0
    <3> SUFFICES ASSUME Len(t) # 0 PROVE FALSE
      OBVIOUS
    <3>1. 1 \in 1 .. Len(t)
      OBVIOUS
    <3>2. p[1] \in 1 .. 0
      BY <3>1 DEF FromPlaces
    <3> QED
      BY <3>2
  <2> QED
    BY <2>1
<1> QED
  BY <1>1, <1>2

\* A CR behind a file changes nothing of what comes of it.
LEMMA AddCR ==
  ASSUME NEW t \in Seq(Bytes), NEW f \in Seq(FileBytes), Comes(t, f)
  PROVE  Comes(t, f \o <<CR>>)
<1> PICK p : FromPlaces(t, f, p)
  BY DEF Comes
<1> DEFINE g == f \o <<CR>>
<1>0. CR \in FileBytes /\ <<CR>> \in Seq(FileBytes) /\ Len(<<CR>>) = 1 /\ <<CR>>[1] = CR
  BY DEF FileBytes
<1>1. /\ Len(g) = Len(f) + 1 /\ g[Len(f) + 1] = CR
      /\ \A i \in 1 .. Len(f) : g[i] = f[i]
  BY <1>0, ConcatProperties
<1> HIDE DEF g
<1> PICK n \in Nat : n = Len(f)
  OBVIOUS
<1> PICK m \in Nat : m = Len(t)
  OBVIOUS
<1>2. FromPlaces(t, g, p)
  BY <1>1 DEF FromPlaces
<1> QED
  BY <1>2 DEF Comes, g

\* Bytes of the text behind a file come behind the text.
LEMMA AddBytes ==
  ASSUME NEW t \in Seq(Bytes), NEW f \in Seq(FileBytes), NEW u \in Seq(Bytes), Comes(t, f)
  PROVE  Comes(t \o u, f \o u)
<1> PICK p : FromPlaces(t, f, p)
  BY DEF Comes
<1> PICK m \in Nat : m = Len(t)
  OBVIOUS
<1> PICK n \in Nat : n = Len(f)
  OBVIOUS
<1> PICK k \in Nat : k = Len(u)
  OBVIOUS
<1>1. u \in Seq(FileBytes)
  BY DEF FileBytes
<1>2. /\ Len(t \o u) = m + k /\ Len(f \o u) = n + k
      /\ \A i \in 1 .. m + k : (t \o u)[i] = IF i <= m THEN t[i] ELSE u[i - m]
      /\ \A i \in 1 .. n + k : (f \o u)[i] = IF i <= n THEN f[i] ELSE u[i - n]
  BY <1>1, ConcatProperties
<1> DEFINE q == [i \in 1 .. m + k |-> IF i <= m THEN p[i] ELSE n + (i - m)]
           g == f \o u
           w == t \o u
<1> HIDE DEF g, w
<1>p. /\ p \in [1 .. m -> 1 .. n]
      /\ \A i, j \in 1 .. m : i < j => p[i] < p[j]
      /\ \A i \in 1 .. m : f[p[i]] = t[i]
      /\ \A j \in 1 .. n : f[j] # CR => \E i \in 1 .. m : p[i] = j
  BY DEF FromPlaces
<1>3. q \in [1 .. m + k -> 1 .. n + k]
  BY <1>p
<1>4. ASSUME NEW i \in 1 .. m + k, NEW j \in 1 .. m + k, i < j PROVE q[i] < q[j]
  <2>1. CASE j <= m
    <3>1. i \in 1 .. m /\ j \in 1 .. m /\ q[i] = p[i] /\ q[j] = p[j]
      BY <1>4, <2>1
    <3> HIDE DEF q
    <3> QED
      BY <1>p, <1>4, <3>1
  <2>2. CASE i <= m /\ j > m
    <3>1. i \in 1 .. m /\ q[i] = p[i] /\ q[j] = n + (j - m)
      BY <1>4, <2>2
    <3>2. p[i] \in 1 .. n
      BY <1>p, <3>1
    <3> HIDE DEF q
    <3> QED
      BY <2>2, <3>1, <3>2
  <2>3. CASE i > m
    BY <1>4, <2>3
  <2> QED
    BY <2>1, <2>2, <2>3
<1>5. ASSUME NEW i \in 1 .. m + k PROVE g[q[i]] = w[i]
  <2>1. CASE i <= m
    <3>1. q[i] = p[i] /\ p[i] \in 1 .. n /\ f[p[i]] = t[i]
      BY <1>p, <2>1
    <3> QED
      BY <1>2, <2>1, <3>1 DEF g, w
  <2>2. CASE i > m
    <3>1. q[i] = n + (i - m) /\ q[i] \in 1 .. n + k /\ ~(q[i] <= n) /\ q[i] - n = i - m
      BY <2>2
    <3> HIDE DEF q
    <3> QED
      BY <1>2, <2>2, <3>1 DEF g, w
  <2> QED
    BY <2>1, <2>2
<1>6. ASSUME NEW j \in 1 .. n + k, g[j] # CR PROVE \E i \in 1 .. m + k : q[i] = j
  <2>1. CASE j <= n
    <3>1. f[j] # CR
      BY <1>2, <1>6, <2>1 DEF g
    <3> PICK i \in 1 .. m : p[i] = j
      BY <1>p, <2>1, <3>1
    <3> QED
      OBVIOUS
  <2>2. CASE j > n
    <3>1. m + (j - n) \in 1 .. m + k /\ q[m + (j - n)] = j
      BY <2>2
    <3> QED
      BY <3>1
  <2> QED
    BY <2>1, <2>2
<1> HIDE DEF q
<1>7. FromPlaces(w, g, q)
  BY <1>2, <1>3, <1>4, <1>5, <1>6 DEF FromPlaces, g, w
<1> QED
  BY <1>7 DEF Comes, g, w

\* The bytes g are those of f without the CR at place c.
LEMMA LoseCR ==
  ASSUME NEW t \in Seq(Bytes), NEW f \in Seq(FileBytes), NEW g \in Seq(FileBytes), NEW c \in 1 .. Len(f),
         Comes(t, f), f[c] = CR, CR \notin Bytes, Len(g) = Len(f) - 1,
         \A k \in 1 .. c - 1 : g[k] = f[k],
         \A k \in c .. Len(g) : g[k] = f[k + 1]
  PROVE  Comes(t, g)
<1> PICK p : FromPlaces(t, f, p)
  BY DEF Comes
<1> PICK m \in Nat : m = Len(t)
  OBVIOUS
<1> PICK n \in Nat : n = Len(g) /\ Len(f) = n + 1
  OBVIOUS
<1>p. /\ p \in [1 .. m -> 1 .. n + 1]
      /\ \A i, j \in 1 .. m : i < j => p[i] < p[j]
      /\ \A i \in 1 .. m : f[p[i]] = t[i]
      /\ \A j \in 1 .. n + 1 : f[j] # CR => \E i \in 1 .. m : p[i] = j
  BY DEF FromPlaces
<1>1. ASSUME NEW i \in 1 .. m PROVE p[i] # c /\ p[i] \in 1 .. n + 1
  <2>1. t[i] \in Bytes
    BY ElementOfSeq
  <2> QED
    BY <1>p, <2>1
<1> DEFINE q == [i \in 1 .. m |-> IF p[i] < c THEN p[i] ELSE p[i] - 1]
<1>2. q \in [1 .. m -> 1 .. n]
  BY <1>1
<1>3. ASSUME NEW i \in 1 .. m, NEW j \in 1 .. m, i < j PROVE q[i] < q[j]
  BY <1>1, <1>3, <1>p
<1>4. ASSUME NEW i \in 1 .. m PROVE g[q[i]] = t[i]
  <2>1. f[p[i]] = t[i]
    BY <1>p
  <2>2. CASE p[i] < c
    BY <1>1, <2>1, <2>2
  <2>3. CASE p[i] > c
    <3>1. q[i] = p[i] - 1 /\ q[i] \in c .. n /\ q[i] + 1 = p[i]
      BY <1>1, <2>3
    <3> HIDE DEF q
    <3> QED
      BY <2>1, <3>1
  <2> QED
    BY <1>1, <2>2, <2>3
<1>5. ASSUME NEW k \in 1 .. n, g[k] # CR PROVE \E i \in 1 .. m : q[i] = k
  <2>1. CASE k < c
    <3>1. f[k] # CR /\ k \in 1 .. n + 1
      BY <1>5, <2>1
    <3> PICK i \in 1 .. m : p[i] = k
      BY <1>p, <3>1
    <3> QED
      BY <2>1
  <2>2. CASE k >= c
    <3>1. f[k + 1] # CR /\ k + 1 \in 1 .. n + 1
      BY <1>5, <2>2
    <3> PICK i \in 1 .. m : p[i] = k + 1
      BY <1>p, <3>1
    <3>2. ~(p[i] < c) /\ p[i] - 1 = k
      BY <2>2
    <3>3. q[i] = k
      BY <3>2
    <3> QED
      BY <3>3
  <2> QED
    BY <2>1, <2>2
<1> HIDE DEF q
<1>6. FromPlaces(t, g, q)
  BY <1>2, <1>3, <1>4, <1>5 DEF FromPlaces
<1> QED
  BY <1>6 DEF Comes

\* The bytes g are those of f after the first, which is not a CR.
LEMMA LoseByte ==
  ASSUME NEW t \in Seq(Bytes), NEW f \in Seq(FileBytes), NEW g \in Seq(FileBytes),
         Comes(t, f), f # <<>>, f[1] # CR, Len(g) = Len(f) - 1,
         \A k \in 1 .. Len(g) : g[k] = f[k + 1]
  PROVE  t # <<>> /\ Head(t) = f[1] /\ Comes(Tail(t), g)
<1> PICK p : FromPlaces(t, f, p)
  BY DEF Comes
<1> PICK n \in Nat : n = Len(g) /\ Len(f) = n + 1
  OBVIOUS
<1> PICK m \in Nat : m = Len(t)
  OBVIOUS
<1>p. /\ p \in [1 .. m -> 1 .. n + 1]
      /\ \A i, j \in 1 .. m : i < j => p[i] < p[j]
      /\ \A i \in 1 .. m : f[p[i]] = t[i]
      /\ \A j \in 1 .. n + 1 : f[j] # CR => \E i \in 1 .. m : p[i] = j
  BY DEF FromPlaces
<1> PICK h \in 1 .. m : p[h] = 1
  BY <1>p
<1>1. h = 1
  <2> SUFFICES ASSUME h # 1 PROVE FALSE
    OBVIOUS
  <2>1. 1 \in 1 .. m /\ 1 < h
    OBVIOUS
  <2>2. p[1] < 1 /\ p[1] \in 1 .. n + 1
    BY <1>p, <2>1
  <2> QED
    BY <2>2
<1>2. m >= 1 /\ p[1] = 1 /\ t[1] = f[1]
  BY <1>1, <1>p
<1>3. t # <<>> /\ Head(t) = t[1]
  BY <1>2
<1>4. Tail(t) \in Seq(Bytes) /\ Len(Tail(t)) = m - 1 /\ \A i \in 1 .. m - 1 : Tail(t)[i] = t[i + 1]
  BY <1>3, HeadTailProperties
<1> DEFINE q == [i \in 1 .. m - 1 |-> p[i + 1] - 1]
<1>5. ASSUME NEW i \in 1 .. m - 1 PROVE p[i + 1] \in 2 .. n + 1
  <2>1. i + 1 \in 1 .. m /\ 1 \in 1 .. m /\ 1 < i + 1
    OBVIOUS
  <2> QED
    BY <1>2, <1>p, <2>1
<1>6. q \in [1 .. m - 1 -> 1 .. n]
  <2> SUFFICES ASSUME NEW i \in 1 .. m - 1 PROVE p[i + 1] - 1 \in 1 .. n
    OBVIOUS
  <2> QED
    BY <1>5
<1>7. ASSUME NEW i \in 1 .. m - 1, NEW j \in 1 .. m - 1, i < j PROVE q[i] < q[j]
  <2>1. i + 1 \in 1 .. m /\ j + 1 \in 1 .. m /\ i + 1 < j + 1
    BY <1>7
  <2>2. p[i + 1] < p[j + 1]
    BY <1>p, <2>1
  <2> QED
    BY <1>5, <2>2
<1>8. ASSUME NEW i \in 1 .. m - 1 PROVE g[q[i]] = Tail(t)[i]
  <2>1. f[p[i + 1]] = t[i + 1]
    BY <1>p
  <2>2. q[i] \in 1 .. n /\ q[i] + 1 = p[i + 1]
    BY <1>5
  <2> HIDE DEF q
  <2> QED
    BY <1>4, <2>1, <2>2
<1>9. ASSUME NEW k \in 1 .. n, g[k] # CR PROVE \E i \in 1 .. m - 1 : q[i] = k
  <2>1. f[k + 1] # CR /\ k + 1 \in 1 .. n + 1
    BY <1>9
  <2> PICK i \in 1 .. m : p[i] = k + 1
    BY <1>p, <2>1
  <2>2. i - 1 \in 1 .. m - 1
    BY <1>2
  <2>3. q[i - 1] = k
    BY <2>2
  <2> QED
    BY <2>2, <2>3
<1> HIDE DEF q
<1>10. FromPlaces(Tail(t), g, q)
  BY <1>4, <1>6, <1>7, <1>8, <1>9 DEF FromPlaces
<1> QED
  BY <1>2, <1>3, <1>10 DEF Comes

\* Bytes of the text in between take CR apart.
LEMMA ApartBytes ==
  ASSUME NEW f \in Seq(FileBytes), NEW u \in Seq(Bytes), Apart(f), CR \notin Bytes
  PROVE  Apart(f \o u) /\ (u # <<>> => Open(f \o u))
<1> PICK n \in Nat : n = Len(f)
  OBVIOUS
<1> PICK k \in Nat : k = Len(u)
  OBVIOUS
<1>1. u \in Seq(FileBytes)
  BY DEF FileBytes
<1> DEFINE g == f \o u
<1>2. Len(g) = n + k /\ \A i \in 1 .. n + k : g[i] = IF i <= n THEN f[i] ELSE u[i - n]
  BY <1>1, ConcatProperties
<1> HIDE DEF g
<1>3. ASSUME NEW i \in n + 1 .. n + k PROVE g[i] # CR
  <2>1. i - n \in 1 .. k /\ g[i] = u[i - n]
    BY <1>2
  <2>2. u[i - n] \in Bytes
    BY <2>1, ElementOfSeq
  <2> QED
    BY <2>1, <2>2
<1>4. Apart(g)
  <2> SUFFICES ASSUME NEW i \in 1 .. n + k - 2, g[i] = CR, g[i + 1] = CR, g[i + 2] = CR
               PROVE  FALSE
    BY <1>2 DEF Apart
  <2>1. i + 2 <= n
    BY <1>3
  <2>2. f[i] = CR /\ f[i + 1] = CR /\ f[i + 2] = CR /\ i \in 1 .. n - 2
    BY <1>2, <2>1
  <2> QED
    BY <2>2 DEF Apart
<1>5. u # <<>> => Open(g)
  <2> SUFFICES ASSUME u # <<>> PROVE g[n + k] # CR
    BY <1>2 DEF Open
  <2>1. k >= 1
    BY EmptySeq
  <2> QED
    BY <1>3, <2>1
<1> QED
  BY <1>4, <1>5 DEF g

\* So does a CR, where there was room for one.
LEMMA ApartCR ==
  ASSUME NEW f \in Seq(FileBytes), Apart(f), Open(f)
  PROVE  Apart(f \o <<CR>>)
<1> PICK n \in Nat : n = Len(f)
  OBVIOUS
<1>0. CR \in FileBytes /\ <<CR>> \in Seq(FileBytes) /\ Len(<<CR>>) = 1
  BY DEF FileBytes
<1> DEFINE g == f \o <<CR>>
<1>2. Len(g) = n + 1 /\ \A i \in 1 .. n : g[i] = f[i]
  BY <1>0, ConcatProperties
<1> HIDE DEF g
<1>3. Apart(g)
  <2> SUFFICES ASSUME NEW i \in 1 .. n - 1, g[i] = CR, g[i + 1] = CR, g[i + 2] = CR
               PROVE  FALSE
    BY <1>2 DEF Apart
  <2>1. f[i] = CR /\ f[i + 1] = CR
    BY <1>2
  <2>2. CASE i + 1 = n
    BY <2>1, <2>2 DEF Open
  <2>3. CASE i + 2 <= n
    <3>1. f[i + 2] = CR /\ i \in 1 .. n - 2
      BY <1>2, <2>3
    <3> QED
      BY <2>1, <3>1 DEF Apart
  <2> QED
    BY <2>2, <2>3
<1> QED
  BY <1>3 DEF g

\* A byte behind others.
LEMMA OneByte ==
  ASSUME NEW s \in Seq(FileBytes), NEW c \in FileBytes
  PROVE  Len(s \o <<c>>) = Len(s) + 1 /\ \A i \in 1 .. Len(s) : (s \o <<c>>)[i] = s[i]
<1>1. s \o <<c>> = Append(s, c)
  BY AppendIsConcat
<1>2. Len(Append(s, c)) = Len(s) + 1 /\ \A i \in 1 .. Len(s) : Append(s, c)[i] = s[i]
  BY AppendProperties
<1> QED
  BY <1>1, <1>2

\* After bytes of the text and a CR there is room for another.
LEMMA OpenCR ==
  ASSUME NEW f \in Seq(FileBytes), NEW u \in Seq(Bytes), u # <<>>, CR \notin Bytes
  PROVE  Open((f \o u) \o <<CR>>)
<1> PICK n \in Nat : n = Len(f)
  OBVIOUS
<1> PICK k \in Nat : k = Len(u) /\ k >= 1
  BY EmptySeq
<1>0. CR \in FileBytes /\ <<CR>> \in Seq(FileBytes) /\ Len(<<CR>>) = 1 /\ u \in Seq(FileBytes)
  BY DEF FileBytes
<1> DEFINE g == f \o u
           e == g \o <<CR>>
<1>1. g \in Seq(FileBytes) /\ Len(g) = n + k /\ g[n + k] = u[k]
  BY <1>0, ConcatProperties
<1> HIDE DEF g
<1>2. Len(e) = n + k + 1 /\ e[n + k] = u[k]
  <2>1. n + k \in 1 .. Len(g)
    BY <1>1
  <2>2. Len(e) = Len(g) + 1 /\ \A i \in 1 .. Len(g) : e[i] = g[i]
    BY <1>0, <1>1, OneByte
  <2> QED
    BY <1>1, <2>1, <2>2
<1> HIDE DEF e
<1>3. u[k] \in Bytes
  BY ElementOfSeq
<1>4. Open(e)
  BY <1>2, <1>3 DEF Open
<1> QED
  BY <1>4 DEF e, g

\* The rest of a file whose first bytes were read.
LEMMA ApartRest ==
  ASSUME NEW f \in Seq(FileBytes), NEW c \in 0 .. Len(f), Apart(f)
  PROVE  SubSeq(f, c + 1, Len(f)) \in Seq(FileBytes) /\ Apart(SubSeq(f, c + 1, Len(f)))
<1> PICK n \in Nat : n = Len(f)
  OBVIOUS
<1> DEFINE g == SubSeq(f, c + 1, n)
<1>1. g \in Seq(FileBytes) /\ Len(g) = n - c /\ \A i \in 1 .. n - c : g[i] = f[c + i]
  <2>1. \A i \in c + 1 .. n : f[i] \in FileBytes
    BY ElementOfSeq
  <2>2. /\ g \in Seq(FileBytes) /\ Len(g) = IF c + 1 <= n THEN n - (c + 1) + 1 ELSE 0
        /\ \A i \in 1 .. n - (c + 1) + 1 : g[i] = f[c + 1 + i - 1]
    BY <2>1, SubSeqProperties
  <2> QED
    BY <2>2
<1> HIDE DEF g
<1>2. Apart(g)
  <2> SUFFICES ASSUME NEW i \in 1 .. n - c - 2, g[i] = CR, g[i + 1] = CR, g[i + 2] = CR
               PROVE  FALSE
    BY <1>1 DEF Apart
  <2>1. /\ i \in 1 .. n - c /\ i + 1 \in 1 .. n - c /\ i + 2 \in 1 .. n - c
        /\ c + (i + 1) = (c + i) + 1 /\ c + (i + 2) = (c + i) + 2
    OBVIOUS
  <2>2. f[c + i] = CR /\ f[(c + i) + 1] = CR /\ f[(c + i) + 2] = CR
    BY <1>1, <2>1
  <2>3. c + i \in 1 .. n - 2
    OBVIOUS
  <2> QED
    BY <2>2, <2>3 DEF Apart
<1> QED
  BY <1>1, <1>2 DEF g

\* Nat is well founded.
LEMMA LeastNumber ==
  ASSUME NEW S, S \subseteq Nat, S # {}
  PROVE  \E m \in S : \A x \in S : m <= x
<1>1. PICK m \in S : \A x \in S : ~ (<<x, m>> \in OpToRel(<, Nat))
  BY NatLessThanWellFounded, WFMin
<1>2. ASSUME NEW x \in S PROVE m <= x
  <2>1. ~ (x < m)
    BY <1>1 DEF OpToRel
  <2> QED
    BY <2>1
<1> QED
  BY <1>2

\* What memchr returns is the place of the first c, or 0.
LEMMA PlaceFound ==
  ASSUME NEW b, NEW i \in Nat, NEW n \in Int
  PROVE  memchr(b, i, LF, n) = 0 \/ memchr(b, i, LF, n) \in i .. i + n - 1
<1> DEFINE found == {j \in i .. i + n - 1 : b[j] = LF}
<1> SUFFICES ASSUME found # {}
             PROVE  (CHOOSE j \in found : \A k \in found : j <= k) \in found
  BY DEF memchr
<1>1. found \subseteq Nat
  OBVIOUS
<1>2. \E j \in found : \A k \in found : j <= k
  BY <1>1, LeastNumber
<1> QED
  BY <1>2

\* The two parts of a sequence.
LEMMA Parts ==
  ASSUME NEW S, NEW s \in Seq(S), NEW n \in 0 .. Len(s)
  PROVE  /\ SubSeq(s, 1, n) \in Seq(S) /\ Len(SubSeq(s, 1, n)) = n
         /\ SubSeq(s, n + 1, Len(s)) \in Seq(S) /\ Len(SubSeq(s, n + 1, Len(s))) = Len(s) - n
         /\ SubSeq(s, 1, n) \o SubSeq(s, n + 1, Len(s)) = s
<1>1. \A i \in 1 .. Len(s) : s[i] \in S
  BY ElementOfSeq
<1>2. SubSeq(s, 1, n) \in Seq(S) /\ Len(SubSeq(s, 1, n)) = IF 1 <= n THEN n - 1 + 1 ELSE 0
  BY <1>1, SubSeqProperties
<1>3. /\ SubSeq(s, n + 1, Len(s)) \in Seq(S)
      /\ Len(SubSeq(s, n + 1, Len(s))) = IF n + 1 <= Len(s) THEN Len(s) - (n + 1) + 1 ELSE 0
  BY <1>1, SubSeqProperties
<1>4. SubSeq(s, 1, n) \o SubSeq(s, n + 1, Len(s)) = SubSeq(s, 1, Len(s))
  <2>1. 1 \in 1 .. Len(s) + 1 /\ n \in 1 - 1 .. Len(s) /\ Len(s) \in n .. Len(s)
    OBVIOUS
  <2> QED
    BY <2>1, ConcatAdjacentSubSeq
<1>5. Len(SubSeq(s, 1, n)) = n
  BY <1>2
<1>6. Len(SubSeq(s, n + 1, Len(s))) = Len(s) - n
  BY <1>3
<1>7. SubSeq(s, 1, n) \o SubSeq(s, n + 1, Len(s)) = s
  BY <1>4, SubSeqFull
<1> QED
  BY <1>2, <1>3, <1>5, <1>6, <1>7

(***************************************************************************)
(* The invariant: no three CR in a row, and what is missing of the text is   *)
(* still to come, of what is not written or of what is not read             *)
(***************************************************************************)
LinesTypeOK ==
  /\ text \in Seq(Bytes) /\ left \in Seq(Bytes) /\ got \in Seq(Bytes) /\ kept \in Seq(Bytes)
  /\ file \in Seq(FileBytes) /\ buffer \in Seq(FileBytes)
  /\ phase \in {"write", "translate", "read", "skip", "end"}

InWrite ==
  phase = "write" =>
    /\ got = <<>> /\ kept = <<>> /\ Open(file)
    /\ \E w \in Seq(Bytes) : Comes(w, file) /\ text = w \o left

InTranslate ==
  phase = "translate" =>
    /\ got = <<>> /\ kept = <<>>
    /\ buffer \in Seq(Bytes) /\ length \in Nat /\ Len(buffer) = length + 1
    /\ ptr \in 1 .. length + 1 /\ (ptr = 1 => length >= 1 /\ Open(file))
    /\ \E w \in Seq(Bytes) :
         Comes(w, file) /\ text = w \o (SubSeq(buffer, 1, length) \o left)

InRead ==
  phase = "read" =>
    kept = <<>> /\ \E w \in Seq(Bytes) : Comes(w, file) /\ text = got \o w

InSkip ==
  phase = "skip" =>
    /\ \E w \in Seq(Bytes) : Comes(w, buffer \o file) /\ text = got \o (kept \o w)
    /\ kept = <<>> => file = <<>> \/ \E k \in 1 .. Len(buffer) : buffer[k] # CR

LinesInv == LinesTypeOK /\ Apart(file) /\ InWrite /\ InTranslate /\ InRead /\ InSkip /\ TextComesBack

\* Nothing is written, and all of the text is still to come.
LEMMA LinesInitInv == LinesInit => LinesInv
<1> SUFFICES ASSUME LinesInit PROVE LinesInv
  OBVIOUS
<1>1. text \in Seq(Bytes) /\ text = left
  BY LinesAssumption DEF LinesInit, LinesStart
<1>2. Comes(<<>>, <<>>) /\ <<>> \in Seq(Bytes) /\ <<>> \in Seq(FileBytes) /\ <<>> \o left = left
  BY <1>1, NothingComes, EmptySeq, ConcatEmptySeq
<1>3. Apart(<<>>) /\ Open(<<>>)
  BY DEF Apart, Open
<1> QED
  BY <1>1, <1>2, <1>3
     DEF LinesInit, LinesStart, LinesInv, LinesTypeOK, InWrite, InTranslate, InRead, InSkip, TextComesBack

\* Joining is associative (a library fact, for the bytes of a text).  The provers find the
\* instances of the folded definition at once.
Joins(x, y, z) == (x \o y) \o z = x \o (y \o z)

LEMMA Associative ==
  ASSUME NEW x \in Seq(Bytes), NEW y \in Seq(Bytes), NEW z \in Seq(Bytes)
  PROVE  Joins(x, y, z)
BY ConcatAssociative DEF Joins

\* What _write does with the n bytes that are left, of which w came before.
LEMMA TranslateInv ==
  ASSUME NEW b \in Seq(Bytes), NEW n \in Nat, NEW p \in Nat, NEW f \in Seq(FileBytes),
         NEW w \in Seq(Bytes), LinesTypeOK, Len(b) = n + 1, p = 0 \/ p \in 1 .. n + 1,
         p = 1 => n >= 1 /\ Open(f), p = 0 => n >= 1 \/ Open(f),
         Apart(f), Comes(w, f), left' \in Seq(Bytes),
         text = w \o (SubSeq(b, 1, n) \o left'), got = <<>>, kept = <<>>,
         UNCHANGED <<text, kept, got>>, Translate(b, n, p, f)
  PROVE  LinesInv'
<1>0. CR \notin Bytes /\ b \in Seq(FileBytes)
  BY LinesAssumption DEF FileBytes
<1>1. CASE p # 0
  <2>1. /\ file' = f /\ buffer' = b /\ length' = n /\ ptr' = p /\ phase' = "translate"
    BY <1>1 DEF Translate
  <2>2. LinesTypeOK'
    BY <1>0, <2>1 DEF LinesTypeOK
  <2>3. InTranslate'
    BY <1>1, <2>1 DEF InTranslate
  <2> QED
    BY <2>1, <2>2, <2>3 DEF LinesInv, InWrite, InRead, InSkip, TextComesBack
<1>2. CASE p = 0
  <2> DEFINE u == SubSeq(b, 1, n)
  <2>1. /\ file' = f \o u /\ phase' = "write" /\ buffer' = <<>>
    BY <1>2 DEF Translate
  <2>2. u \in Seq(Bytes) /\ Len(u) = n
    BY Parts
  <2> HIDE DEF u
  <2>3. f \o u \in Seq(FileBytes)
    <3>1. u \in Seq(FileBytes)
      BY <2>2 DEF FileBytes
    <3> QED
      BY <3>1, ConcatProperties
  <2>4. LinesTypeOK'
    BY <2>1, <2>3, EmptySeq DEF LinesTypeOK
  <2>5. Apart(f \o u) /\ (u # <<>> => Open(f \o u))
    BY <1>0, <2>2, ApartBytes
  <2>6. Open(f \o u)
    <3>1. CASE u # <<>>
      BY <2>5, <3>1
    <3>2. CASE u = <<>>
      <4>1. n = 0
        BY <2>2, <3>2
      <4>2. f \o u = f
        BY <3>2, ConcatEmptySeq
      <4> QED
        BY <1>2, <4>1, <4>2
    <3> QED
      BY <3>1, <3>2
  <2>7. w \o u \in Seq(Bytes) /\ Comes(w \o u, f \o u) /\ text = (w \o u) \o left'
    <3>1. Comes(w \o u, f \o u)
      BY <2>2, AddBytes
    <3>2. w \o u \in Seq(Bytes)
      BY <2>2, ConcatProperties
    <3>u. PICK x \in Seq(Bytes) : x = u
      BY <2>2
    <3>z. PICK z \in Seq(Bytes) : z = left'
      OBVIOUS
    <3>3. Joins(w, x, z)
      BY Associative
    <3>4. text = w \o (u \o left')
      BY DEF u
    <3>5. text = (w \o u) \o left'
      BY <3>u, <3>z, <3>3, <3>4 DEF Joins
    <3> QED
      BY <3>1, <3>2, <3>5
  <2>8. InWrite'
    BY <2>1, <2>6, <2>7 DEF InWrite
  <2> QED
    BY <2>1, <2>4, <2>5, <2>8 DEF LinesInv, InTranslate, InRead, InSkip, TextComesBack
<1> QED
  BY <1>1, <1>2

\* What Append makes of the bytes of a text.
LEMMA OneMore ==
  ASSUME NEW s \in Seq(Bytes), NEW c \in Bytes
  PROVE  /\ Append(s, c) \in Seq(Bytes) /\ <<c>> \in Seq(Bytes)
         /\ Append(s, c) = s \o <<c>> /\ Append(s, c) # <<>>
<1>1. Append(s, c) \in Seq(Bytes) /\ Len(Append(s, c)) = Len(s) + 1
  BY AppendProperties
<1>2. <<c>> \in Seq(Bytes)
  OBVIOUS
<1>3. Append(s, c) = s \o <<c>>
  BY AppendIsConcat
<1>4. Append(s, c) # <<>>
  <2>1. Len(Append(s, c)) # 0
    BY <1>1, LenProperties
  <2> QED
    BY <1>1, <2>1, EmptySeq
<1> QED
  BY <1>1, <1>2, <1>3, <1>4

\* A call of _write takes its bytes, up to the first LF.
LEMMA WriteInv ==
  ASSUME LinesInv, Write
  PROVE  LinesInv'
<1>0. left \in Seq(Bytes) /\ file \in Seq(FileBytes) /\ WriteLengths \subseteq Nat \ {0}
  BY LinesAssumption DEF LinesInv, LinesTypeOK
<1>n. PICK n \in Nat, after \in Bytes :
        /\ n >= 1 /\ n <= Len(left)
        /\ LET b == SubSeq(left, 1, n) \o <<after>>
           IN  Translate(b, n, memchr(b, 1, LF, n), file)
        /\ left' = SubSeq(left, n + 1, Len(left))
  BY <1>0 DEF Write
<1>1. n \in 0 .. Len(left)
  BY <1>0, <1>n
<1>u. PICK u \in Seq(Bytes) : u = SubSeq(left, 1, n)
  BY <1>0, <1>1, Parts
<1>2. left' \in Seq(Bytes) /\ u \o left' = left /\ Len(u) = n
  BY <1>0, <1>1, <1>n, <1>u, Parts
<1>3. <<after>> \in Seq(Bytes) /\ Len(<<after>>) = 1
  OBVIOUS
<1>b. PICK b \in Seq(Bytes) : b = u \o <<after>>
  BY <1>3, ConcatProperties
<1>4. Len(b) = n + 1
  BY <1>2, <1>3, <1>b, ConcatProperties
<1>5. SubSeq(b, 1, n) = u
  <2>1. 1 \in 1 .. Len(u) /\ n \in 1 .. Len(u)
    BY <1>n, <1>2
  <2>2. SubSeq(u \o <<after>>, 1, n) = SubSeq(u, 1, n)
    BY <1>3, <2>1, SubSeqOfConcat1
  <2>3. SubSeq(u, 1, n) = u
    BY <1>2, SubSeqFull
  <2> QED
    BY <1>b, <2>2, <2>3
<1>6. memchr(b, 1, LF, n) = 0 \/ memchr(b, 1, LF, n) \in 1 .. 1 + n - 1
  BY PlaceFound
<1>p. PICK p \in Nat : p = memchr(b, 1, LF, n) /\ (p = 0 \/ p \in 1 .. n + 1)
  BY <1>6
<1>7. Translate(b, n, p, file)
  BY <1>n, <1>u, <1>b, <1>p
<1>8. Apart(file) /\ LinesTypeOK /\ got = <<>> /\ kept = <<>> /\ UNCHANGED <<text, kept, got>>
  BY DEF LinesInv, InWrite, Write
<1>9. (p = 1 => n >= 1 /\ Open(file)) /\ (p = 0 => n >= 1 \/ Open(file)) /\ (p = 0 \/ p \in 1 .. n + 1)
  BY <1>n, <1>p DEF LinesInv, InWrite, Write
<1>w. PICK w \in Seq(Bytes) : Comes(w, file) /\ text = w \o left
  BY DEF LinesInv, InWrite, Write
<1>10. text = w \o (SubSeq(b, 1, n) \o left')
  BY <1>2, <1>5, <1>w
<1> QED
  BY <1>0, <1>2, <1>4, <1>7, <1>8, <1>9, <1>10, <1>w, TranslateInv

\* A round writes what is before the LF, and a CR.
LEMMA RoundInv ==
  ASSUME LinesInv, Round
  PROVE  LinesInv'
<1>1. /\ got = <<>> /\ kept = <<>> /\ buffer \in Seq(Bytes) /\ length \in Nat
      /\ Len(buffer) = length + 1 /\ ptr \in 1 .. length + 1
      /\ (ptr = 1 => length >= 1 /\ Open(file))
  BY DEF LinesInv, InTranslate, Round
<1>2. Apart(file) /\ LinesTypeOK /\ file \in Seq(FileBytes) /\ left \in Seq(Bytes)
  BY DEF LinesInv, LinesTypeOK
<1>3. UNCHANGED <<text, left, kept, got>> /\ CR \notin Bytes
  BY LinesAssumption DEF Round
<1>w. PICK w \in Seq(Bytes) :
        Comes(w, file) /\ text = w \o (SubSeq(buffer, 1, length) \o left)
  BY DEF LinesInv, InTranslate, Round
<1>k. PICK k \in Nat : k = ptr - 1 /\ k + 1 = ptr /\ k <= length
  BY <1>1
<1>n. PICK n \in Nat : n = length - k
  BY <1>1, <1>k
<1>4. k \in 0 .. Len(buffer) /\ Len(buffer) - k = n + 1
  BY <1>1, <1>k, <1>n
<1>u. PICK u \in Seq(Bytes) : u = SubSeq(buffer, 1, k)
  BY <1>1, <1>4, Parts
<1>r. PICK rest \in Seq(Bytes) : rest = SubSeq(buffer, k + 1, Len(buffer))
  BY <1>1, <1>4, Parts
<1>l. Len(u) = k /\ Len(rest) = n + 1
  <2>1. Len(u) = k
    BY <1>1, <1>4, <1>u, Parts
  <2>2. Len(rest) = n + 1
    BY <1>1, <1>4, <1>r, Parts
  <2> QED
    BY <2>1, <2>2
<1>5. n \in 0 .. Len(rest)
  BY <1>l
<1>s. PICK s \in Seq(Bytes) : s = SubSeq(rest, 1, n)
  BY <1>5, Parts
<1>6. SubSeq(buffer, 1, length) = u \o s
  <2>1. CASE n = 0
    <3>1. s = <<>> /\ k = length
      BY <1>1, <1>s, <1>n, <1>k, <2>1, SubSeqEmpty
    <3>2. u \o <<>> = u
      BY ConcatEmptySeq
    <3>3. u \o s = u
      BY <3>1, <3>2
    <3> QED
      BY <1>u, <3>1, <3>3
  <2>2. CASE n # 0
    <3>1. s = SubSeq(buffer, k + 1, length)
      <4>1. /\ k + 1 \in 1 .. Len(buffer) /\ Len(buffer) \in 1 .. Len(buffer)
            /\ 1 \in 1 .. Len(buffer) - (k + 1) + 1 /\ n \in 1 .. Len(buffer) - (k + 1) + 1
            /\ (k + 1) + 1 - 1 = k + 1 /\ (k + 1) + n - 1 = length
        BY <1>1, <1>k, <1>n, <2>2
      <4>2. SubSeq(SubSeq(buffer, k + 1, Len(buffer)), 1, n)
              = SubSeq(buffer, (k + 1) + 1 - 1, (k + 1) + n - 1)
        BY <1>1, <4>1, SubSeqOfSubSeq
      <4> QED
        BY <1>r, <1>s, <4>1, <4>2
    <3>2. 1 \in 1 .. Len(buffer) + 1 /\ k \in 1 - 1 .. Len(buffer) /\ length \in k .. Len(buffer)
      BY <1>1, <1>k
    <3>3. SubSeq(buffer, 1, k) \o SubSeq(buffer, k + 1, length) = SubSeq(buffer, 1, length)
      BY <1>1, <3>2, ConcatAdjacentSubSeq
    <3> QED
      BY <1>u, <3>1, <3>3
  <2> QED
    BY <2>1, <2>2, Zenon
<1>7. u \in Seq(FileBytes) /\ <<CR>> \in Seq(FileBytes)
  BY DEF FileBytes
<1>v. PICK v \in Seq(Bytes) : v = w \o u
  BY ConcatProperties
<1>g. PICK g \in Seq(FileBytes) : g = file \o u
  BY <1>2, <1>7, ConcatProperties
<1>f. PICK f \in Seq(FileBytes) : f = g \o <<CR>>
  BY <1>7, ConcatProperties
<1>8. Comes(v, f)
  <2>1. Comes(v, g)
    BY <1>2, <1>w, <1>v, <1>g, AddBytes
  <2> QED
    BY <1>f, <2>1, AddCR
<1>9. Apart(f) /\ (k >= 1 => Open(f))
  <2>1. CASE k = 0
    <3>1. u = <<>>
      BY <1>l, <2>1, EmptySeq
    <3>2. g = file
      BY <1>2, <1>g, <3>1, ConcatEmptySeq
    <3>3. Open(file)
      BY <1>1, <1>k, <2>1
    <3> QED
      BY <1>2, <1>f, <2>1, <3>2, <3>3, ApartCR
  <2>2. CASE k >= 1
    <3>1. u # <<>>
      <4>1. Len(<<>>) = 0
        OBVIOUS
      <4> QED
        BY <1>l, <2>2, <4>1
    <3>2. Apart(g) /\ Open(g)
      BY <1>2, <1>3, <1>g, <3>1, ApartBytes
    <3>3. Apart(f)
      BY <1>f, <3>2, ApartCR
    <3>4. Open(f)
      BY <1>2, <1>3, <1>f, <1>g, <3>1, OpenCR
    <3> QED
      BY <3>3, <3>4
  <2> QED
    BY <2>1, <2>2
<1>10. text = v \o (s \o left)
  <2>y. PICK y \in Seq(Bytes) : y = left
    BY <1>2
  <2>z. PICK z \in Seq(Bytes) : z = s \o y
    BY ConcatProperties
  <2>1. Joins(u, s, y) /\ Joins(w, u, z)
    BY Associative
  <2>2. (w \o u) \o z = w \o (u \o z) /\ (u \o s) \o y = u \o z
    BY <2>1, <2>z DEF Joins
  <2>3. text = w \o ((u \o s) \o left)
    BY <1>6, <1>w
  <2> QED
    BY <1>v, <2>y, <2>z, <2>2, <2>3
<1>11. memchr(rest, 2, LF, n) = 0 \/ memchr(rest, 2, LF, n) \in 2 .. 2 + n - 1
  BY PlaceFound
<1>p. PICK p \in Nat : p = memchr(rest, 2, LF, n) /\ (p = 0 \/ p \in 2 .. n + 1)
  BY <1>11
<1>12. Translate(rest, n, p, f)
  BY <1>k, <1>n, <1>u, <1>r, <1>f, <1>g, <1>p DEF Round, Less
<1>13. (p = 1 => n >= 1 /\ Open(f)) /\ (p = 0 => n >= 1 \/ Open(f)) /\ (p = 0 \/ p \in 1 .. n + 1)
  <2>1. n = 0 => k >= 1
    BY <1>1, <1>k, <1>n
  <2> QED
    BY <1>9, <1>p, <2>1
<1>14. text = v \o (SubSeq(rest, 1, n) \o left') /\ left' \in Seq(Bytes)
  BY <1>2, <1>3, <1>10, <1>s
<1>15. UNCHANGED <<text, kept, got>>
  BY <1>3
<1> QED
  BY <1>1, <1>2, <1>8, <1>9, <1>12, <1>13, <1>14, <1>15, <1>l, TranslateInv

\* The program closes the file and reads it.
LEMMA CloseInv ==
  ASSUME LinesInv, Close
  PROVE  LinesInv'
<1>1. phase = "write" /\ left = <<>> /\ phase' = "read"
  BY DEF Close
<1>2. UNCHANGED <<text, left, file, buffer, length, ptr, kept, got>>
  BY DEF Close
<1>3. got = <<>> /\ kept = <<>> /\ LinesTypeOK /\ Apart(file)
  BY <1>1 DEF LinesInv, InWrite
<1>w. PICK w \in Seq(Bytes) : Comes(w, file) /\ text = w \o left
  BY <1>1 DEF LinesInv, InWrite
<1>4. text = got \o w
  <2>1. w \o <<>> = w /\ <<>> \o w = w
    BY ConcatEmptySeq
  <2> QED
    BY <1>1, <1>3, <1>w, <2>1
<1>5. LinesTypeOK' /\ Apart(file)'
  BY <1>1, <1>2, <1>3 DEF LinesTypeOK
<1>6. InRead'
  BY <1>2, <1>3, <1>4, <1>w DEF InRead
<1> QED
  BY <1>1, <1>5, <1>6 DEF LinesInv, InWrite, InTranslate, InSkip, TextComesBack

\* The bytes that a call of _read got and the rest of the file, from which a CR between
\* the two was dropped.
LEMMA Dropped ==
  ASSUME NEW t \in Seq(Bytes), NEW f \in Seq(FileBytes), NEW x \in Seq(FileBytes), NEW y \in Seq(FileBytes),
         Comes(t, f), f = (x \o <<CR>>) \o y, CR \notin Bytes
  PROVE  Comes(t, x \o y)
<1> PICK n \in Nat : n = Len(x)
  OBVIOUS
<1> PICK m \in Nat : m = Len(y)
  OBVIOUS
<1>0. <<CR>> \in Seq(FileBytes) /\ Len(<<CR>>) = 1 /\ <<CR>>[1] = CR
  BY DEF FileBytes
<1>x. PICK xc \in Seq(FileBytes) : xc = x \o <<CR>>
  BY <1>0, ConcatProperties
<1>1. /\ Len(xc) = n + 1
      /\ \A i \in 1 .. n + 1 : xc[i] = IF i <= n THEN x[i] ELSE CR
  <2>1. /\ Len(xc) = n + 1
        /\ \A i \in 1 .. n + 1 : xc[i] = IF i <= n THEN x[i] ELSE <<CR>>[i - n]
    BY <1>0, <1>x, ConcatProperties
  <2> QED
    BY <1>0, <2>1
<1>2. /\ Len(f) = n + 1 + m
      /\ \A i \in 1 .. n + 1 + m : f[i] = IF i <= n + 1 THEN xc[i] ELSE y[i - (n + 1)]
  BY <1>x, <1>1, ConcatProperties
<1>g. PICK g \in Seq(FileBytes) : g = x \o y
  BY ConcatProperties
<1>3. /\ Len(g) = n + m
      /\ \A i \in 1 .. n + m : g[i] = IF i <= n THEN x[i] ELSE y[i - n]
  BY <1>g, ConcatProperties
<1>4. n + 1 \in 1 .. Len(f) /\ f[n + 1] = CR /\ Len(g) = Len(f) - 1
  BY <1>1, <1>2, <1>3
<1>5. \A k \in 1 .. (n + 1) - 1 : g[k] = f[k]
  BY <1>1, <1>2, <1>3
<1>6. \A k \in n + 1 .. Len(g) : g[k] = f[k + 1]
  BY <1>2, <1>3
<1>7. Comes(t, g)
  BY <1>4, <1>5, <1>6, LoseCR
<1> QED
  BY <1>7, <1>g

\* A call of _read gets its bytes: the CR at their end, which it drops, is not part of the
\* text, and one of the three bytes is no CR.
LEMMA ReadInv ==
  ASSUME LinesInv, Read
  PROVE  LinesInv'
<1>0. /\ phase = "read" /\ kept = <<>> /\ LinesTypeOK /\ Apart(file) /\ file \in Seq(FileBytes)
      /\ text \in Seq(Bytes) /\ got \in Seq(Bytes)
  BY DEF LinesInv, LinesTypeOK, InRead, Read
<1>w. PICK w \in Seq(Bytes) : Comes(w, file) /\ text = got \o w
  BY <1>0 DEF LinesInv, InRead
<1>1. UNCHANGED <<text, left, length, ptr, got>> /\ CR \notin Bytes /\ CR \in FileBytes
  BY LinesAssumption DEF Read, FileBytes
<1>c. PICK count \in Nat : count = IF ReadLength <= Len(file) THEN ReadLength ELSE Len(file)
  BY <1>0, LinesAssumption
<1>2. count \in 0 .. Len(file) /\ (count = Len(file) \/ (count >= 3 /\ count < Len(file)))
  BY <1>0, <1>c, LinesAssumption
<1>3. CASE count = 0
  <2>1. phase' = "end" /\ UNCHANGED <<file, buffer, kept>>
    BY <1>c, <1>3 DEF Read
  <2>2. file = <<>>
    BY <1>0, <1>2, <1>3, EmptySeq
  <2>3. w = <<>>
    BY <1>w, <2>2, NothingComes
  <2>4. text = got
    BY <1>0, <1>w, <2>3, ConcatEmptySeq
  <2>5. LinesTypeOK' /\ Apart(file)' /\ TextComesBack'
    BY <1>0, <1>1, <2>1, <2>4 DEF LinesTypeOK, TextComesBack
  <2> QED
    BY <2>1, <2>5 DEF LinesInv, InWrite, InTranslate, InRead, InSkip
<1>4. CASE count # 0
  <2>b. PICK b \in Seq(FileBytes) : b = SubSeq(file, 1, count)
    BY <1>0, <1>2, Parts
  <2>r. PICK rest \in Seq(FileBytes) : rest = SubSeq(file, count + 1, Len(file))
    BY <1>0, <1>2, Parts
  <2>1. b \o rest = file /\ Len(b) = count /\ Len(rest) = Len(file) - count
    <3>1. b \o rest = file
      BY <1>0, <1>2, <2>b, <2>r, Parts
    <3>2. Len(b) = count
      BY <1>0, <1>2, <2>b, Parts
    <3>3. Len(rest) = Len(file) - count
      BY <1>0, <1>2, <2>r, Parts
    <3> QED
      BY <3>1, <3>2, <3>3
  <2>2. /\ phase' = "skip" /\ kept' = <<>> /\ file' = rest
        /\ buffer' = IF b[count] = CR THEN SubSeq(b, 1, count - 1) ELSE b
    BY <1>c, <1>4, <2>b, <2>r DEF Read
  <2>3. Apart(rest)
    BY <1>0, <1>2, <2>r, ApartRest
  <2>4. \A i \in 1 .. count : b[i] = file[i]
    <3>m. PICK m \in Nat : m = Len(rest)
      OBVIOUS
    <3>0. \A i \in 1 .. Len(b) + Len(rest) :
            (b \o rest)[i] = IF i <= Len(b) THEN b[i] ELSE rest[i - Len(b)]
      BY ConcatProperties
    <3>1. \A i \in 1 .. count : (b \o rest)[i] = b[i]
      BY <2>1, <3>m, <3>0
    <3> QED
      BY <2>1, <3>1
  <2>5. rest = <<>> \/ \E i \in 1 .. count : b[i] # CR
    <3>1. CASE count = Len(file)
      <4>1. Len(rest) = 0
        BY <1>0, <2>1, <3>1
      <4> QED
        BY <4>1, EmptySeq
    <3>2. CASE count >= 3 /\ count < Len(file)
      <4>1. 1 \in 1 .. Len(file) - 2 /\ 1 + 1 = 2 /\ 1 + 2 = 3
        BY <1>0, <3>2
      <4>2. file[1] # CR \/ file[2] # CR \/ file[3] # CR
        BY <1>0, <4>1 DEF Apart
      <4>3. 1 \in 1 .. count /\ 2 \in 1 .. count /\ 3 \in 1 .. count
        BY <3>2
      <4> QED
        BY <2>4, <4>2, <4>3
    <3> QED
      BY <1>2, <3>1, <3>2
  <2>6. /\ buffer' \in Seq(FileBytes) /\ Comes(w, buffer' \o rest)
        /\ rest = <<>> \/ \E i \in 1 .. Len(buffer') : buffer'[i] # CR
    <3>1. CASE b[count] # CR
      <4>1. buffer' = b
        BY <2>2, <3>1
      <4> QED
        BY <1>w, <2>1, <2>5, <4>1
    <3>2. CASE b[count] = CR
      <4>0. count - 1 \in 0 .. Len(b) /\ count \in 1 .. Len(b) /\ count \in count .. Len(b)
        BY <1>4, <2>1
      <4>x. PICK x \in Seq(FileBytes) : x = SubSeq(b, 1, count - 1)
        BY <4>0, Parts
      <4>1. Len(x) = count - 1
        BY <4>0, <4>x, Parts
      <4>2. SubSeq(b, count, count) = <<CR>>
        <5>1. SubSeq(b, count, count) = <<b[count]>> \o SubSeq(b, count + 1, count)
          BY <4>0, SubSeqRecursiveFirst
        <5>2. SubSeq(b, count + 1, count) = <<>>
          BY SubSeqEmpty
        <5>3. <<CR>> \in Seq(FileBytes) /\ <<CR>> \o <<>> = <<CR>>
          BY <1>1, ConcatEmptySeq
        <5> QED
          BY <3>2, <5>1, <5>2, <5>3
      <4>3. b = x \o <<CR>>
        <5>1. count - 1 \in 0 .. Len(b) /\ (count - 1) + 1 = count
          BY <1>4, <2>1
        <5>2. SubSeq(b, 1, count - 1) \o SubSeq(b, count, count) = b
          BY <2>1, <5>1, Parts
        <5> QED
          BY <4>x, <4>2, <5>2
      <4>4. \A i \in 1 .. count - 1 : x[i] = b[i]
        <5>1. <<CR>> \in Seq(FileBytes)
          BY <1>1
        <5>2. \A i \in 1 .. count - 1 : (x \o <<CR>>)[i] = x[i]
          BY <4>1, <5>1, ConcatProperties
        <5> QED
          BY <4>3, <5>2
      <4>5. Comes(w, x \o rest)
        BY <1>0, <1>1, <1>w, <2>1, <4>3, Dropped
      <4>6. rest = <<>> \/ \E i \in 1 .. Len(x) : x[i] # CR
        <5>1. ASSUME NEW i \in 1 .. count, b[i] # CR PROVE i \in 1 .. Len(x) /\ x[i] # CR
          <6>1. i # count
            BY <3>2, <5>1
          <6>2. i \in 1 .. count - 1
            BY <6>1
          <6> QED
            BY <4>1, <4>4, <5>1, <6>2
        <5> QED
          BY <2>5, <5>1
      <4>7. buffer' = x
        BY <2>2, <3>2, <4>x
      <4> QED
        BY <4>5, <4>6, <4>7
    <3> QED
      BY <3>1, <3>2
  <2>7. text = got \o (<<>> \o w)
    <3>1. <<>> \o w = w
      BY ConcatEmptySeq
    <3> QED
      BY <1>w, <3>1
  <2>8. InSkip'
    BY <1>1, <2>2, <2>6, <2>7 DEF InSkip
  <2>9. LinesTypeOK'
    BY <1>0, <1>1, <2>2, <2>6, EmptySeq DEF LinesTypeOK
  <2> QED
    BY <2>2, <2>3, <2>8, <2>9 DEF LinesInv, InWrite, InTranslate, InRead, TextComesBack
<1> QED
  BY <1>3, <1>4

\* A byte of the buffer is kept unless it is a CR.
LEMMA SkipInv ==
  ASSUME LinesInv, Skip
  PROVE  LinesInv'
<1>0. /\ phase = "skip" /\ phase' = "skip" /\ LinesTypeOK /\ Apart(file) /\ buffer # <<>>
      /\ file \in Seq(FileBytes) /\ buffer \in Seq(FileBytes) /\ kept \in Seq(Bytes) /\ got \in Seq(Bytes)
  BY DEF LinesInv, LinesTypeOK, Skip
<1>1. UNCHANGED <<text, left, file, length, ptr, got>> /\ buffer' = Tail(buffer) /\ CR \notin Bytes
  BY LinesAssumption DEF Skip
<1>w. PICK w \in Seq(Bytes) : Comes(w, buffer \o file) /\ text = got \o (kept \o w)
  BY <1>0 DEF LinesInv, InSkip
<1>n. PICK n \in Nat : Len(buffer) = n + 1
  <2>1. Len(buffer) \in Nat \ {0}
    BY <1>0, EmptySeq
  <2>2. Len(buffer) - 1 \in Nat /\ Len(buffer) = (Len(buffer) - 1) + 1
    BY <2>1
  <2> QED
    BY <2>2
<1>m. PICK m \in Nat : m = Len(file)
  BY <1>0
<1>2. /\ Tail(buffer) \in Seq(FileBytes) /\ Len(Tail(buffer)) = n
      /\ \A i \in 1 .. n : Tail(buffer)[i] = buffer[i + 1]
  BY <1>0, <1>n, HeadTailProperties
<1>t. PICK tail \in Seq(FileBytes) : tail = Tail(buffer)
  BY <1>2
<1>f. PICK f \in Seq(FileBytes) : f = buffer \o file
  BY <1>0, ConcatProperties
<1>g. PICK g \in Seq(FileBytes) : g = tail \o file
  BY <1>0, ConcatProperties
<1>3. /\ Len(f) = n + 1 + m
      /\ \A i \in 1 .. n + 1 + m : f[i] = IF i <= n + 1 THEN buffer[i] ELSE file[i - (n + 1)]
  <2>1. /\ Len(f) = Len(buffer) + Len(file)
        /\ \A i \in 1 .. Len(buffer) + Len(file) :
             f[i] = IF i <= Len(buffer) THEN buffer[i] ELSE file[i - Len(buffer)]
    BY <1>0, <1>f, ConcatProperties
  <2> QED
    BY <1>n, <1>m, <2>1
<1>4. /\ Len(g) = n + m
      /\ \A i \in 1 .. n + m : g[i] = IF i <= n THEN tail[i] ELSE file[i - n]
  BY <1>0, <1>2, <1>t, <1>m, <1>g, ConcatProperties
<1>5. Len(g) = Len(f) - 1 /\ (\A k \in 1 .. Len(g) : g[k] = f[k + 1]) /\ f # <<>>
  <2>1. Len(g) = Len(f) - 1 /\ Len(f) # 0
    BY <1>3, <1>4
  <2>2. ASSUME NEW k \in 1 .. n + m PROVE g[k] = f[k + 1]
    <3>1. CASE k <= n
      BY <1>2, <1>3, <1>4, <1>t, <3>1
    <3>2. CASE k > n
      <4>1. k - n = (k + 1) - (n + 1) /\ k + 1 \in 1 .. n + 1 + m /\ ~(k + 1 <= n + 1)
        BY <3>2
      <4>2. g[k] = file[k - n]
        BY <1>4, <3>2
      <4>3. f[k + 1] = file[(k + 1) - (n + 1)]
        BY <1>3, <4>1
      <4> QED
        BY <4>1, <4>2, <4>3
    <3> QED
      BY <3>1, <3>2
  <2>3. f # <<>>
    BY <2>1
  <2> QED
    BY <1>4, <2>1, <2>2, <2>3
<1>6. Head(buffer) = f[1] /\ Head(buffer) \in FileBytes /\ Head(buffer) = buffer[1]
  <2>1. Head(buffer) \in FileBytes /\ Head(buffer) = buffer[1]
    BY <1>0, HeadTailProperties
  <2>2. f[1] = buffer[1]
    BY <1>3
  <2> QED
    BY <2>1, <2>2
<1>7. CASE Head(buffer) = CR
  <2>1. kept' = kept
    BY <1>7 DEF Skip
  <2>2. Comes(w, g)
    <3>1. 1 \in 1 .. Len(f) /\ f[1] = CR /\ (\A k \in 1 .. 1 - 1 : g[k] = f[k])
      BY <1>3, <1>6, <1>7
    <3> QED
      BY <1>1, <1>w, <1>f, <1>5, <3>1, LoseCR
  <2>3. kept = <<>> => file = <<>> \/ \E k \in 1 .. Len(tail) : tail[k] # CR
    <3>1. ASSUME NEW k \in 1 .. Len(buffer), buffer[k] # CR
          PROVE  \E j \in 1 .. Len(tail) : tail[j] # CR
      <4>1. k # 1
        BY <1>6, <1>7, <3>1
      <4>2. k - 1 \in 1 .. n /\ (k - 1) + 1 = k
        BY <1>n, <4>1
      <4> QED
        BY <1>2, <1>t, <3>1, <4>2
    <3> QED
      BY <1>0, <3>1 DEF LinesInv, InSkip
  <2>4. InSkip'
    BY <1>1, <1>w, <1>t, <1>g, <2>1, <2>2, <2>3 DEF InSkip
  <2>5. LinesTypeOK'
    BY <1>0, <1>1, <1>2, <2>1 DEF LinesTypeOK
  <2> QED
    BY <1>0, <1>1, <2>4, <2>5 DEF LinesInv, InWrite, InTranslate, InRead, TextComesBack
<1>8. CASE Head(buffer) # CR
  <2>c. PICK c \in Bytes : c = Head(buffer)
    BY <1>6, <1>8 DEF FileBytes
  <2>1. kept' = Append(kept, c)
    BY <1>8, <2>c DEF Skip
  <2>2. w # <<>> /\ Head(w) = c /\ Comes(Tail(w), g)
    BY <1>w, <1>f, <1>5, <1>6, <1>8, <2>c, LoseByte
  <2>v. PICK v \in Seq(Bytes) : v = Tail(w)
    BY <2>2, HeadTailProperties
  <2>3. w = <<c>> \o v
    BY <2>2, <2>v
  <2>s. PICK old \in Seq(Bytes) : old = kept
    BY <1>0
  <2>m. /\ Append(old, c) \in Seq(Bytes) /\ <<c>> \in Seq(Bytes)
        /\ Append(old, c) = old \o <<c>> /\ Append(old, c) # <<>>
    BY OneMore
  <2>k. PICK kc \in Seq(Bytes) : kc = Append(old, c)
    BY <2>m
  <2>o. PICK one \in Seq(Bytes) : one = <<c>>
    BY <2>m
  <2>a. kc = old \o one /\ kc # <<>> /\ kept' = kc
    BY <2>1, <2>s, <2>m, <2>k, <2>o
  <2>4. kept \o w = kc \o v
    <3>1. Joins(old, one, v)
      BY Associative
    <3> QED
      BY <2>s, <2>3, <2>o, <2>a, <3>1 DEF Joins
  <2>5. InSkip'
    BY <1>1, <1>w, <1>t, <1>g, <2>2, <2>v, <2>a, <2>4 DEF InSkip
  <2>6. LinesTypeOK'
    BY <1>0, <1>1, <1>2, <2>a DEF LinesTypeOK
  <2> QED
    BY <1>0, <1>1, <2>5, <2>6 DEF LinesInv, InWrite, InTranslate, InRead, TextComesBack
<1> QED
  BY <1>7, <1>8

\* No byte of the text is taken for its end.
LEMMA NothingEnded == ASSUME NEW b \in Seq(Bytes) PROVE BeforeEnd(b) = b
<1>1. \A j \in 1 .. Len(b) : b[j] # CtrlZ
  BY ElementOfSeq, LinesAssumption
<1>2. 1 + Len(b) - 1 = Len(b)
  BY LenProperties
<1>3. memchr(b, 1, CtrlZ, Len(b)) = 0
  BY <1>1, <1>2 DEF memchr
<1> QED
  BY <1>3 DEF BeforeEnd

\* The C library gets what was kept, and nothing only at the end of the file.
LEMMA ReturnedInv ==
  ASSUME LinesInv, Returned
  PROVE  LinesInv'
<1>0. /\ phase = "skip" /\ LinesTypeOK /\ Apart(file) /\ buffer = <<>>
      /\ file \in Seq(FileBytes) /\ kept \in Seq(Bytes) /\ got \in Seq(Bytes)
  BY DEF LinesInv, LinesTypeOK, Returned
<1>1. /\ UNCHANGED <<text, left, file, buffer, length, ptr>> /\ kept' = <<>>
      /\ got' = got \o kept /\ phase' = IF kept = <<>> THEN "end" ELSE "read"
  <2>1. BeforeEnd(kept) = kept
    BY <1>0, NothingEnded
  <2> QED
    BY <2>1 DEF Returned
<1>w. PICK w \in Seq(Bytes) : Comes(w, buffer \o file) /\ text = got \o (kept \o w)
  BY <1>0 DEF LinesInv, InSkip
<1>2. Comes(w, file)
  <2>1. <<>> \o file = file
    BY <1>0, ConcatEmptySeq
  <2> QED
    BY <1>0, <1>w, <2>1
<1>3. text = got' \o w
  <2>1. Joins(got, kept, w)
    BY <1>0, Associative
  <2> QED
    BY <1>1, <1>w, <2>1 DEF Joins
<1>4. LinesTypeOK' /\ Apart(file)'
  <2>1. got \o kept \in Seq(Bytes) /\ <<>> \in Seq(Bytes)
    BY <1>0, ConcatProperties, EmptySeq
  <2> QED
    BY <1>0, <1>1, <2>1 DEF LinesTypeOK
<1>5. CASE kept # <<>>
  <2>1. InRead'
    BY <1>1, <1>2, <1>3 DEF InRead
  <2> QED
    BY <1>1, <1>4, <1>5, <2>1 DEF LinesInv, InWrite, InTranslate, InSkip, TextComesBack
<1>6. CASE kept = <<>>
  <2>1. file = <<>>
    <3>1. file = <<>> \/ \E k \in 1 .. Len(buffer) : buffer[k] # CR
      BY <1>0, <1>6 DEF LinesInv, InSkip
    <3>2. Len(buffer) = 0
      BY <1>0
    <3> QED
      BY <3>1, <3>2
  <2>2. w = <<>>
    BY <1>2, <2>1, NothingComes
  <2>3. got' \o <<>> = got'
    BY <1>4, ConcatEmptySeq DEF LinesTypeOK
  <2>4. TextComesBack'
    BY <1>1, <1>3, <2>2, <2>3 DEF TextComesBack
  <2> QED
    BY <1>1, <1>4, <1>6, <2>4 DEF LinesInv, InWrite, InTranslate, InRead, InSkip
<1> QED
  BY <1>5, <1>6

\* Nothing happens.
LEMMA LinesStutter ==
  ASSUME LinesInv, UNCHANGED linesVars
  PROVE  LinesInv'
BY DEF linesVars, LinesInv, LinesTypeOK, InWrite, InTranslate, InRead, InSkip, TextComesBack

\* In every state the text is what was read, followed by what will come of the bytes in
\* the buffer and the file when their CR are taken out (and, before that, by what is not
\* written), and no three CR stand in a row (_write and _read, src/Source/Amiga).
THEOREM LinesInvariant == LinesSpec => []LinesInv
<1>1. ASSUME LinesInv, [LinesNext]_linesVars PROVE LinesInv'
  <2>1. CASE Write
    BY <1>1, <2>1, WriteInv
  <2>2. CASE Round
    BY <1>1, <2>2, RoundInv
  <2>3. CASE Close
    BY <1>1, <2>3, CloseInv
  <2>4. CASE Read
    BY <1>1, <2>4, ReadInv
  <2>5. CASE Skip
    BY <1>1, <2>5, SkipInv
  <2>6. CASE Returned
    BY <1>1, <2>6, ReturnedInv
  <2>7. CASE UNCHANGED linesVars
    BY <1>1, <2>7, LinesStutter
  <2> QED
    BY <1>1, <2>1, <2>2, <2>3, <2>4, <2>5, <2>6, <2>7 DEF LinesNext
<1> QED
  BY LinesInitInv, <1>1, PTL DEF LinesSpec

\* Every text comes back as it was written, for all lengths of the calls of _write and
\* calls of _read of three bytes and more (_write.c:62-111, _read.c:54-105).
THEOREM EveryTextComesBack == LinesSpec => []TextComesBack
<1>1. LinesInv => TextComesBack
  BY DEF LinesInv
<1> QED
  BY LinesInvariant, <1>1, PTL
=============================================================================
