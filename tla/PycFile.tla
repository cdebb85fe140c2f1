------------------------------ MODULE PycFile ------------------------------
(***************************************************************************)
(* The compiled file beside a source file (src/Source/Python/import.c).     *)
(* Several Python programs, each a process, import the same source.  An      *)
(* import that finds a compiled file with the modification time of its       *)
(* source runs that; any other compiles the source and tries to write a new  *)
(* compiled file.  Nobody waits for anybody: what protects the file is that  *)
(* AmigaDOS lets one writer or any number of readers have it open, that the  *)
(* file is created exclusively, and that the time in its header is written   *)
(* last.  The machine may be switched off between any two steps.             *)
(*                                                                         *)
(* A compiled module has Blocks blocks, the pieces in which the C library's  *)
(* buffer is written; the last is in the buffer until fseek.  MaxEdits       *)
(* bounds the versions of the source.  Magic numbers of other Pythons, code  *)
(* that marshal refuses, and modules without a source are left out.          *)
(***************************************************************************)
EXTENDS Integers

CONSTANTS
  Procs,
  Times,          \* modification times, in seconds
  Blocks,
  MaxEdits,
  DiskMayFill,    \* writing may fail
  None

ASSUME PycAssumption ==
  /\ Blocks \in Nat \ {0} /\ MaxEdits \in Nat
  /\ Times \subseteq Nat \ {0}   \* a source is not of the epoch itself
  /\ DiskMayFill \in BOOLEAN

VARIABLES
  src,       \* the version of the source
  pyc,       \* the compiled file
  pc,        \* where each process is
  ver,       \* the version it has open
  code,      \* the version of the code it has got
  next,      \* the block its buffer holds
  err        \* ferror of the file it writes

vars == <<src, pyc, pc, ver, code, next, err>>

\* A version of the source.  The clock may be set back, so times may repeat.
Version == [id : Nat, time : Times]

\* The file: the time in its header (0 until it is written, -1 without a header),
\* the blocks that are on the disk, and the version they were compiled from.
File == [stamp : Times \cup {0, -1}, body : SUBSET (1 .. Blocks), of : Version]
NoFile == None

ASSUME NoneAssumption == None \notin Version /\ None \notin File

Whole == 1 .. Blocks

Reading == {"read"}
Writing == {"write", "seek", "stamp", "close", "discard"}
Other == {"idle", "check", "parse", "unlink", "lock", "create", "remove", "run"}

TypeOK ==
  /\ src \in Version
  /\ pyc \in File \cup {NoFile}
  /\ pc \in [Procs -> Reading \cup Writing \cup Other]
  /\ ver \in [Procs -> Version \cup {None}]
  /\ code \in [Procs -> Version \cup {None}]
  /\ next \in [Procs -> Whole]
  /\ err \in [Procs -> BOOLEAN]

Init ==
  /\ src \in [id : {0}, time : Times]
  /\ pyc = NoFile
  /\ pc = [p \in Procs |-> "idle"]
  /\ ver = [p \in Procs |-> None]
  /\ code = [p \in Procs |-> None]
  /\ next = [p \in Procs |-> 1]
  /\ err = [p \in Procs |-> FALSE]

There == pyc # NoFile

\* DOS refuses to read a file that is being written, and to write or delete one
\* that is open at all.
WriteLocked == \E p \in Procs : pc[p] \in Writing
Locked == \E p \in Procs : pc[p] \in Reading \cup Writing

Go(p, from, to) == pc[p] = from /\ pc' = [pc EXCEPT ![p] = to]

\* The import is over, done or failed: the source is closed.
Return(p, from) ==
  /\ Go(p, from, "idle")
  /\ ver' = [ver EXCEPT ![p] = None]
  /\ code' = [code EXCEPT ![p] = None]

-----------------------------------------------------------------------------
(* load_source_module *)

\* find_module has opened the source; its time is asked of the open file.
OpenSource(p) ==
  /\ Go(p, "idle", "check")
  /\ ver' = [ver EXCEPT ![p] = src]
  /\ UNCHANGED <<src, pyc, code, next, err>>

\* The fault of running any compiled file that is there.
MatchesAny(p) == There /\ ~WriteLocked /\ pyc.stamp # -1
\* check_compiled_module: the file can be opened, has a header and the right time.
Matches(p) == There /\ ~WriteLocked /\ pyc.stamp = ver[p].time

CheckPyc(p) ==
  /\ pc[p] = "check"
  /\ pc' = [pc EXCEPT ![p] = IF Matches(p) THEN "read" ELSE "parse"]
  /\ UNCHANGED <<src, pyc, ver, code, next, err>>

\* read_compiled_module and fclose: the import fails if the object is cut off.
ReadPyc(p) ==
  /\ \/ /\ Go(p, "read", "run")
        /\ pyc.body = Whole
        /\ code' = [code EXCEPT ![p] = pyc.of]
        /\ UNCHANGED ver
     \/ Return(p, "read") /\ pyc.body # Whole
  /\ UNCHANGED <<src, pyc, next, err>>

\* parse_source_module: the version that is open, unless it has an error.
Parse(p) ==
  /\ \/ /\ Go(p, "parse", "unlink")
        /\ code' = [code EXCEPT ![p] = ver[p]]
        /\ UNCHANGED ver
     \/ Return(p, "parse")
  /\ UNCHANGED <<src, pyc, next, err>>

\* The module's code runs; import_submodule closes the source after it.
Run(p) ==
  /\ Return(p, "run")
  /\ UNCHANGED <<src, pyc, next, err>>

-----------------------------------------------------------------------------
(* open_exclusive, which is unlink and __open with O_CREAT and O_EXCL *)

Deleted == IF Locked THEN pyc ELSE NoFile

Unlink(p) ==
  /\ Go(p, "unlink", "lock")
  /\ pyc' = Deleted
  /\ UNCHANGED <<src, ver, code, next, err>>

\* __open takes a shared lock to see whether the file exists.  A file that is being
\* written cannot be locked and so does not seem to exist.
LockTest(p) ==
  /\ pc[p] = "lock"
  /\ pc' = [pc EXCEPT ![p] = IF There /\ ~WriteLocked THEN "run" ELSE "create"]
  /\ UNCHANGED <<src, pyc, ver, code, next, err>>

\* Open(MODE_NEWFILE) needs the file for itself, and may fail for other reasons.
CreateTo(p) == IF Locked THEN {"run"} ELSE {"write", "run"}

Create(p) ==
  /\ pc[p] = "create"
  /\ \E to \in CreateTo(p) :
       /\ pc' = [pc EXCEPT ![p] = to]
       /\ pyc' = IF to = "write" THEN [stamp |-> -1, body |-> {}, of |-> ver[p]] ELSE pyc
  /\ UNCHANGED <<src, ver, code, next, err>>

-----------------------------------------------------------------------------
(* write_compiled_module *)

\* The buffer is written.  The header, with time 0, is in front of the first block.
Flushed(b) ==
  [stamp |-> IF b = 1 THEN 0 ELSE pyc.stamp, body |-> pyc.body \cup {b}, of |-> pyc.of]
\* A flush that fails loses its block, but the header may have got through.
FlushFails(b) ==
  {pyc} \cup IF b = 1 THEN {[pyc EXCEPT !.stamp = 0]} ELSE {}

WriteBlock(p) ==
  /\ pc[p] = "write" /\ next[p] < Blocks
  /\ next' = [next EXCEPT ![p] = @ + 1]
  /\ \/ pyc' = Flushed(next[p]) /\ UNCHANGED err
     \/ /\ DiskMayFill
        /\ pyc' \in FlushFails(next[p])
        /\ err' = [err EXCEPT ![p] = TRUE]
  /\ UNCHANGED <<src, pc, ver, code>>

\* The fault of not asking ferror.
NeverFails(p) == "seek"
\* ferror is asked while the last block is still in the buffer.
AfterWriting(p) == IF err[p] THEN "discard" ELSE "seek"

Written(p) ==
  /\ pc[p] = "write" /\ next[p] = Blocks
  /\ pc' = [pc EXCEPT ![p] = AfterWriting(p)]
  /\ UNCHANGED <<src, pyc, ver, code, next, err>>

\* fseek writes the last block; nobody asks whether it could.
Seek(p) ==
  /\ Go(p, "seek", "stamp")
  /\ \/ pyc' = Flushed(next[p])
     \/ DiskMayFill /\ pyc' \in FlushFails(next[p])
  /\ UNCHANGED <<src, ver, code, next, err>>

\* The time load_source_module was told when it had opened the source.
StampOf(p) == ver[p].time

\* The time is written over the 0 and fflush writes it.  A header that is not there
\* stays without a magic number.
Stamp(p) ==
  /\ Go(p, "stamp", "close")
  /\ \/ pyc' = [pyc EXCEPT !.stamp = IF @ = -1 THEN -1 ELSE StampOf(p)]
     \/ DiskMayFill /\ pyc' = pyc
  /\ UNCHANGED <<src, ver, code, next, err>>

\* The FILE is gone, and its buffer and error flag with it.
Forget(p) ==
  /\ next' = [next EXCEPT ![p] = 1]
  /\ err' = [err EXCEPT ![p] = FALSE]

CloseFile(p) ==
  /\ Go(p, "close", "run")
  /\ Forget(p)
  /\ UNCHANGED <<src, pyc, ver, code>>

\* After an error: fclose, which may write what is left, and unlink.
Discard(p) ==
  /\ Go(p, "discard", "remove")
  /\ pyc' \in {Flushed(next[p]), pyc}
  /\ Forget(p)
  /\ UNCHANGED <<src, ver, code>>

Remove(p) ==
  /\ Go(p, "remove", "run")
  /\ pyc' = Deleted
  /\ UNCHANGED <<src, ver, code, next, err>>

-----------------------------------------------------------------------------
(* The world outside *)

\* The source is replaced; who has it open keeps the version he has.
Edit ==
  /\ src.id < MaxEdits
  /\ \E t \in Times : src' = [id |-> src.id + 1, time |-> t]
  /\ UNCHANGED <<pyc, pc, ver, code, next, err>>

\* The machine stops; the disk keeps what was written.
Reboot ==
  /\ pc' = [p \in Procs |-> "idle"]
  /\ ver' = [p \in Procs |-> None]
  /\ code' = [p \in Procs |-> None]
  /\ next' = [p \in Procs |-> 1]
  /\ err' = [p \in Procs |-> FALSE]
  /\ UNCHANGED <<src, pyc>>

Step(p) ==
  \/ OpenSource(p) \/ CheckPyc(p) \/ ReadPyc(p) \/ Parse(p) \/ Run(p)
  \/ Unlink(p) \/ LockTest(p) \/ Create(p)
  \/ WriteBlock(p) \/ Written(p) \/ Seek(p) \/ Stamp(p) \/ CloseFile(p)
  \/ Discard(p) \/ Remove(p)

Next == (\E p \in Procs : Step(p)) \/ Edit \/ Reboot

Spec == Init /\ [][Next]_vars

-----------------------------------------------------------------------------
(* Properties *)

\* A compiled file that bears a time (write_compiled_module, fseek and after) is
\* of a source of that time and complete, but for the last block when the disk was full.
StampTells ==
  There /\ pyc.stamp \in Times =>
    /\ pyc.of.time = pyc.stamp
    /\ 1 .. (Blocks - 1) \subseteq pyc.body
    /\ ~DiskMayFill => Blocks \in pyc.body

\* Importing with compiled files looks like importing without them, but for
\* versions of the same second: see ImportedCode.
Abstract == INSTANCE ImportedCode WITH open <- ver, got <- code
ImportsWhatItOpened == Abstract!Spec
=============================================================================
