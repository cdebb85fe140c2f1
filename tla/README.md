# AmigaPython in TLA+

AmigaPython is the port of Python 2.0 to the Amiga (SAS/C): the interpreter of
CPython 2.0 with an Amiga run-time library (`Source/Amiga`), modules for
AmigaDOS, ARexx and AmiTCP (`Source/Modules`), and Python programs on top of
them (`Python/lib/site-python`).  This directory models the parts whose state is
shared, long-lived or easy to get wrong, checks them with TLC on small
instances, and proves with TLAPS what matters most for every instance.

`PROJECT.json` lists components, runs, mutants, findings, hazards and theorems,
and for each definition the lines of the source it stands for.

## The system

| Part | Source | State | Operations | What is hard |
|---|---|---|---|---|
| ARexx ports | `Modules/ARexxmodule.c` | message lists, a signal bit per port, a counter of outstanding replies, the state of each message | open, send (waiting or not), getmsg, wait, reply, destruction of objects, close | tasks interleave at every exec call; signals are bits, not counters; messages are memory owned by somebody else; close must wait for replies while answering others |
| ARexx host | `lib/site-python/arexx.py` | the messages on its port, the commands being executed | run, dispatch, flush, send from a command function, close | `send` flushes, `flush` dispatches, so dispatch nests; one wake-up may stand for several messages |
| File descriptors | `Amiga/_open.c`, `_close.c`, `_dup*.c`, `_chkufb.c`, `_allocufb.c`, `fhopen.c` | the C library's list of UFBs, AmiTCP's table of sockets, the handles DOS holds | open, close, dup, dup2, socket, the library's callback | two tables with the same numbers, kept together by a callback; every call can fail half-way |
| Dictionaries | `Objects/dictobject.c` | open-addressed tables with dummy entries | set, get, delete, clear, update, copy, resize | histories that fill tables or hide keys; the search ends only at a NULL entry; two search functions |
| Control flow | `Python/compile.c`, `Python/ceval.c`, `Objects/frameobject.c` | the compiler's block stack and counted stack level; the frame's block and value stacks | the compilation of each steering statement; the instructions they compile to; unwinding | the two sides share nothing but the byte code; the stack size is never checked at run time |
| Pending calls and Ctrl-C | `Python/ceval.c`, `Parser/intrcheck.c`, `Python/sigcheck.c` | a ring of 32 calls, two busy flags, `things_to_do`, a count of presses | register from a handler, make the calls at the head of the loop | handlers interrupt the loop and each other between any two accesses |
| Import of a module | `Python/import.c`, `Amiga/_open.c`, `Python/getmtime.c` | the compiled file beside a source | load, compile, create exclusively, write, stamp with the time, remove | programs share the file without waiting; full disks and resets; the source changes meanwhile |
| Lists and sorting | `Objects/listobject.c` | the item array | sort with a program's comparison | pivots kept in the array that is partitioned; comparisons that lie or fail; re-entrance |
| Plain and long integers | `Objects/intobject.c`, `Objects/longobject.c` | none | arithmetic that sees its overflow; arithmetic on 15-bit digits | boundary values, guesses of digits, bits of negative numbers |
| Object life times | `Include/object.h`, `Objects/object.c`, `Objects/tupleobject.c` and others | reference counts, the trashcan | decrement, deallocate, deposit, destroy the chain | recursion as deep as the data; destructors run code |
| Reading and writing | `Amiga/_read.c`, `Amiga/_write.c` | none beyond the descriptors | translate line ends | buffers cut anywhere |
| Tokenizer, parser, pgen | `Parser/` | indentation stacks | tokenize, parse | text |
| AmigaDOS modules | `Doslibmodule.c`, `amigamodule.c`, `unixemul.c`, `environment.c` | none of their own | single calls of dos.library | shared signals |
| Startup, time, syslog, sockets, select | `main.c`, `timerinit.c`, `socketmodule.c`, ... | library bases | open, close at exit | order at exit |

How they interact: a Python program runs in one Amiga task, the interpreter
calls the modules, and the modules call exec (ports, messages, signals), dos
(files) and bsdsocket.library.  Two interactions cross the boundary of the task:
messages between ports, and AmiTCP's callback into the C library's list.  The
Amiga build has no threads, no signal module and no cycle collector; the
compiled-in modules are those of `Modules/config.c`.

What makes each part correct: a message is answered once and given back before
its port goes away; a command is answered and its function returns; a number
names one thing and closing it frees that thing once; a dictionary is a mapping;
a program does what its nesting of loops and try statements says; an accepted call
is made once and in order; an import runs the code of the source it opened; a sort
keeps the items and sorts them; integers are integers or say that they are not; what
is garbage is freed once; a text comes back as it was written.

## Modules

    ARexxMessage   what a port promises of a message          (abstract)
      ^ implemented by
    ARexxPort      tasks, ports, queues, signals, messages
      ^ used by the program of
    ARexxHost      the host class of arexx.py

    Descriptors    what a program expects of its descriptors   (abstract)
      ^ implemented by
    FileTable      the list of UFBs and AmiTCP's table

    Mapping        a dictionary as its user sees it            (abstract)
      ^ implemented by
    Dict           tables, entries, the two searches, resizing
    DictArith      hash, increment and polynomials of the search
    DictProbe      the search as a walk over the slots (in Pieces)

    ImportedCode   what an import promises of its code         (abstract)
      ^ implemented by
    PycFile        sources, compiled files, processes, the disk

    CallQueue      what a registered call may expect           (abstract)
      ^ implemented by
    PendingCalls   the ring, the flags, handlers, the loop
    ListSort         binarysort and samplesortslice
    Trashcan         reference counts and the chain of postponed objects
    Lines            the translation of line ends
    IntArith         plain integers
      ^ all five extended by
    Pieces         one of the first four, or one of these machines:
      Arithmetic   compares IntArith, IntPower and LongArith with the integers
      DictProbe    the search of a key

    Statements     what steering statements mean               (reference)
      ^ compared, in Steering, with
    Eval           the machine of eval_code2
      ^ extends
    Blocks         what compile.c makes of the statements
      ^ compared with
    Nesting        where a statement may stand                 (reference)

`X_proofs` holds the theorems about `X`, `Pieces_proofs` those about `PendingCalls`,
`Trashcan` and `IntArith`, `Files_proofs` those about `PycFile` and `Lines`, `MC_X` the
instances for TLC.

A definition whose comment begins with "The fault of" is a plausible mistake in the
definition that follows it.  No specification uses it: put in the other's place it
shows that a property notices the mistake (`PROJECT.json`, "mutants").

### ARexxPort

`queue[p]` is `mp_MsgList`, `sig[p]` the task's signal bit of the port,
`replies[p]` the field `host->replies`, `status[p]` whether the port exists and
is in exec's list.  `msg[m]` is one `struct RexxMsg`: where it is in its life,
which port sent it, which port got it.  A task is in a C function (`call`), at a
place in it (`at`), on a port (`cur`), and a synchronous send remembers the reply
it waits for (`awaited`).

Every `GetMsg`, `ReplyMsg`, `PutMsg` and `Wait` is a step, since exec may switch
tasks there; `WaitPort` is two (look at the list, sleep on the signal), which is
how exec does it and where wake-ups get lost.  `FindPort`+`PutMsg` and the search
for a free name are one step, as the code brackets them with `Forbid`/`Permit`.
The three receive loops are `SendGet`, `GetARexxMsg` and `CloseGet`/`CloseFlush`.
Other programs are `Ext`: they send any kind of message to a public port
(`ExtSend`) and reply to what they get (`ExtReply`).

A message has a kind: a command, a function call (an action other than RXCOMM),
or one without an argument.  Names, arguments, results and the ARexx variables
are left out.

### ARexxHost

One host program and clients with one command under way each.  `stack` holds the
calls of `dispatch` that have not returned, each with the loop that made it:
`run`, or a `flush` inside the send of a command function.  A command's kind says
what its function does: return, ask to stop, send a command itself, raise a class
or a string exception, be unknown, have bad arguments or no text.  A message is
either on the port or in one call of `dispatch`.

The send of a command function is its flush (`mode` "flush"), the search for the other
port (`FindsPort`; `CannotSend` if there is none or no memory) and the wait for the reply
(`Reject`, `Sent`).  Its function then returns, or gets the exception of a send that
failed or came back with a result code other than 0 (`FunctionRaises`).  That exception
is of a class, which `dispatch` passes on or fails to format (`Aborts`), so it leaves every
dispatch, flush and function nested there; no function is assumed to catch it.  The
messages left unanswered in those calls are answered when the host closes.

### FileTable

`ufb` is the list `__ufbs` by number and `nufbs` its length; a UFB is free, a
file or a socket, with a handle and a name that may be unset, allocated, or
*dangling* (freed, with its address kept, as the failure paths of `__open` do).
`dtab` is the table of bsdsocket.library, `dos` the handles DOS holds for this
program.  `Take` is what happens when the library takes a number: the callback's
FDCB_CHECK, then FDCB_ALLOC, which marks every free UFB up to that number
(`Alloc`).  The library may be there from the start, come up later or never; the
callback is installed only if it is there when Python starts.

### Dict, DictArith, DictProbe

A table is a function from slots to entries.  The search order of a hash in a
table of a size is the constant `Probe`, of which the module assumes only that
it visits every slot; `DictArith` computes it as `lookdict` does and `DictProbe`
walks it for tables up to 1024 slots.  `MC_Dict` writes the orders out and
assumes them equal to the computed ones.  `dictresize`, `dict_update` and
`PyDict_Copy` insert entry by entry, one step each.  `lookup[d]` is `ma_lookup`:
the string search until the first other key.

### Statements, Nesting, Blocks, Eval, Steering

`Blocks` follows `compile.c`.  A function that compiles a kind of statement is given
as the list of what it calls: an instruction with the change of the stack level that
goes with it, a forward reference for one of its anchors, `com_backpatch`, `block_push`,
`com_node` for a part of the statement.  `work` holds the calls of `com_node` that have
not returned, each with its place in that list, its anchors and the `c_begin` it saved;
one primitive is a step, on the fields of `struct compiling` (`code`, `block`, `begin`,
`loops`, `level`, `max`, `error`).  `Eval` calls the function when it is compiled: an
instruction is a step, with the two stacks of the frame; an evaluation gives true,
false or an exception, freely for the first `MaxChoices`, false afterwards.
Expressions are one instruction; calls, names and line numbers are left out, and the
chain through which jumps with one anchor are patched.  An `if` whose test is the constant
false (`never`) is compiled as what is behind it (`IfStmt`), so its body is neither counted
nor checked.

`Statements` says by recursion on its structure what a statement means, given
the outcome of each evaluation: how it ends, with which value or exception, after
how many evaluations; `Steering` compares the two.  `Nesting` says which programs have to
be refused: `Admits` is what is asked of one statement, given what is allowed of its
parts, and the constant `Allowed` is assumed to satisfy that equation
(`NestingAssumption`); of an `if` with the constant false it asks for nothing but its
else part (`Skips`).  `MC_Eval` gives it a recursive definition, for which TLC
evaluates the assumption.  The compiler is a machine and not a recursive operator, and
`Nesting` declares none, so that theorems can be proved about them.

### PycFile

One source file with versions (`src`), the compiled file on the disk (`pyc`: the
time in its header, the blocks that have arrived, the version they belong to), and
processes that import.  Each `fopen`, `fwrite` of a buffer, `fseek`, `fflush`,
`fclose`, `unlink` is a step.  `open_exclusive` is three: AmigaPython's `__open` asks
with a shared lock whether the file exists, and then creates it
(`Unlink`, `LockTest`, `Create`).  DOS's rule (one writer or any number of readers) is
`Locked` and `WriteLocked`.  `Edit` replaces the source, with any time, `Reboot` stops
every process and keeps what is on the disk.  The last block of the code is in the
buffer of the C library until `fseek`, which is where the time is written and where
errors are no longer looked at.

### PendingCalls

`pendingcalls`, `pendingfirst`, `pendinglast`, `things_to_do` and the two `busy` are
the variables of `ceval.c`; `interrupted` is that of `intrcheck.c`.  `pc[k]` is where
the handler of level k is in `Py_AddPendingCall`, `main` where the interpreter is in
its loop or in `Py_MakePendingCalls`.  Each access to a shared variable is a step.
There are no threads in this build, so a handler returns before what it interrupted
goes on (`OnTop`).  `intcatcher` registers a look at the signals, and ends the program
at the third press that nobody has looked at.

### ListSort

The sort of a list, one comparison or one swap a step.  `a` is the array, `lo` to `r`
are the C variables of the same names, `right` is `extraOnRight`, `stack` the explicit
stack of `samplesortslice` (a node has `right` where the code makes `extra` negative),
`begin`, `end` and `start` are `lo`, `hi` and `start` of `binarysort`, and `then` is where
that returns to.  A samplesortslice that calls itself leaves its variables in `calls`.
`count` is the number of swaps that a loop has still to make, and `at` the place in
the program.  Each comparison answers as the program likes: by a total order (`key`), at
random (`key` is `NoOrder`), or with an exception, which ends the sort wherever it is.
The pseudo-random numbers are any of `Numbers`, and `SampleBits` stands for the table of
cutoffs: the number of pivots of a slice is a power of two less one that the slice
holds (`SortAssumption`; the code's comment asserts it, `listobject.c:1008-1012`, and
its table gives 7 pivots to 43 items less one, 15 to 105, and so on).

### Pieces

Algorithms without shared state have one run together.  The variable `st` holds the
machine a behaviour belongs to and its data; `PendingCalls`, `ListSort`, `Trashcan` and
`Lines` keep their own variables.

*Trashcan* is the C stack of deallocations: `frames` are the functions that have not
returned, the last on top, `nesting` and `later` the two variables of `object.c`, and
`freed` counts how often each object was freed; an object of no container type ends
without the macros, as an instance does.  A count holds the type of what waits in the
chain, as in the code.

*Arithmetic* draws two operands and compares every
operation of `IntArith` (words of `LONG_BIT` bits that wrap), `IntPower` (`int_pow`, apart
because its loop is a recursion) and `LongArith` (digits of `SHIFT` bits) with the integers.

*Lines* writes a text in calls of any length, with any byte in memory behind the buffer,
and reads it back.  A step of `_write` is what it does up to the next LF (`Write` up to
the first, `Round` once more); a step of `_read` is the call of DOS (`Read`), a byte of
its loop (`Skip`) or its end (`Returned`); `phase` says which is next.  Texts have no CR,
which is lost, and no Ctrl-Z, which ends what a call returns.

## Runs

| Run | Instance | What it shows |
|---|---|---|
| `port_safety` | 2 tasks with a port each, 2 messages, memory may fail | type, `QueuesMatchMessages`, `ReplyAccounting`, `DeletedPortUnused`, `NoLostWakeup`, `NoSendDeadlock`, and `ARexxPort` implements `ARexxMessage` (`KeepsPromise`) |
| `port_liveness` | 1 task with 2 ports, 2 messages | a synchronous send notices its reply, a closing port answers what lies on it, close ends once the others have what it sent |
| `port_reply` | 2 tasks, 2 messages | *violation*: a message without an argument is lost during a synchronous send |
| `host` | 3 clients, commands of every kind | every client is in one place; nothing is under way when the host waits; a command is answered unless `run` sleeps on it; command functions return or raise, also when a send fails |
| `host_wakeup` | 2 clients | *violation*: `run` sleeps on the second of two messages |
| `file_table` | 2 files, 2 sockets, numbers 0 to 3, failures, late AmiTCP | `HandlesOwned`, `NamesOwned`, `SocketsHaveUFBs`, and `FileTable` implements `Descriptors` (`DescriptorsKept`) |
| `dict_one` | 1 dictionary, 5 keys (two equal, three with one hash), sizes 4, 8, 16 | `Counted`, `FreeSlot`, `Findable`, `StringsOnly`, and `Dict` implements `Mapping` (`IsMapping`) |
| `dict_two` | 2 dictionaries, 3 keys | update and copy take over every key (`UpdateCopiesAll`) |
| `dict_memory` | 1 dictionary, memory may fail | *violation*: no NULL entry is left and a search does not end |
| `blocks` | about 1700 statements up to five deep, 3 blocks, 4 free evaluations | `FrameFits`, `MeansTheSame`, `RefusesMisplaced`, `Finishes` |
| `pyc` | 3 processes, 2 times, 2 blocks, 2 edits, a disk that may fill, resets | a compiled file that bears a time is of a source of that time (`StampTells`), and `PycFile` implements `ImportedCode` (`ImportsWhatItOpened`) |
| `pieces` | see below | `PendingCalls` implements `CallQueue` (`IsQueue`), `NoneForgotten`, `AcceptedRuns`; `SortCorrect`, `LongsAreIntegers`, `IntsAreExact`, `TextComesBack`, `GarbageFreed`, `VisitsAll` |

Where a run does not check a module's `TypeOK`, the module's proofs do (`Dict`,
`FileTable`, `PycFile`, `PendingCalls`); that of the host describes the variables, and
the types of `Blocks` and `Eval` are part of the invariant of `Eval_proofs`.

### Bounds and why they suffice

*Ports.*  Two messages are enough for a message of a task's own and one of
another to meet on a port in both orders, and for two sends to cross; two tasks
for a circle of sends.  A third message adds longer queues of the same kinds of
messages; the theorems cover every number.  Messages of `port_safety` are
symmetric.  A task with two ports (a program that calls `SendARexxMsg` next to its
own port) is in the run of the liveness properties, without symmetry.

*Host.*  Three clients let a message arrive before, during and after a nested
flush.

*Files.*  With numbers 0 to 3 and one standard descriptor a callback can skip two
free numbers, which is what distinguishes `Alloc` from taking one.

*Dictionaries.*  Five keys in a table of four slots force it through all three
sizes, with dummies on the way.  The three keys of `dict_two` are enough for an
update that resizes and one that does not.

*Blocks.*  `MaxBlocks` stands for `CO_MAXBLOCKS` (20) so that the refusal of
nesting that is too deep occurs; some statements are nested four deep in loops, some of
those and some misplaced ones stand behind a constant false.  Four free evaluations reach the second round of
an inner loop and an exception in a handler or a finally.

*Compiled files.*  Three processes: one reads or has read, one writes, one is about to
delete or create.  Two times suffice for an equal and a different one, and two edits for
a source that goes back to an earlier time.  Two blocks are one that ferror sees and
one that it does not.  With a disk that may fill the third conjunct of `StampTells` asks for
nothing; that a compiled file is whole on a disk that does not fill is left to the theorem.

*Pieces.*  A ring of three slots holds two calls and is full with the second; four calls,
three of them presses of Ctrl-C, the last of which may end the program, in handlers two deep, make it run round.  Lists of six
items with two keys and an order that may be none, `MINSIZE` 4 in place of 100 and
`MINPARTITIONSIZE` 2 in place of 40 so that slices are partitioned again, with one or
three pivots, and a stack that is just deep enough for them (`STACKSIZE` 2); of the
pseudo-random numbers one leaves the pivot where it is and one moves it.  Words of 8 bits with every operand on the left; long integers of up to
four digits of 3 bits in words of 8, which has operands for which the first guess of
a digit is too large after the correction with the second digit.  Texts of up to five
characters, written one to three at a time and read by threes.  Five objects with up to
two references each, and a level of 3: at a level of 2 an object that is taken out of
the chain would be put back for ever (the code has 50).  Tables up to 1024 slots.

### Deadlock

Checking for deadlock is switched off where the system may stop: a program that
makes no more calls (ports), a closed host, a machine of Pieces that has finished.

### Fairness

*Ports*: weak fairness of each task's call in progress, since exec schedules a
ready task and a call does not stop of its own accord; weak fairness of other
programs' replies, which is ARexx's rule for receivers.  No fairness for starting
a call, and none for sending: nobody has to send.

*Host*: weak fairness of the host's own steps and of its running or closing after
a stop; clients send finitely many commands.  The last is an assumption on the
environment: clients that never pause can hold up a function that waits for its
own answer, and nothing in the code prevents that.

*Blocks*: weak fairness of the machine: the compiler goes on and the interpreter
executes instructions.

*Pending calls*: weak fairness of the interpreter and of each handler: a handler runs to
its end, and a function that is called returns.  A handler that interrupts for ever
would starve the loop; the number of registrations is finite here.  *PycFile* and the
machines of Pieces have no fairness, since nothing is said of what they must reach.

## Proofs

All theorems hold for every value of the constants that satisfies the named
assumptions of the modules.  Two have a hypothesis: `FreeSlotCorrect`, that the
memory for a larger table is there (`[]ResizeWorks`; without it the run
`dict_memory` shows the property violated), and `SendsDoNotDeadlock`, that there is a
task.

**ARexxPort_proofs.**  `TypeCorrect` first.  The inductive invariant is
`PortInv`: the type invariant, `QueuesMatchMessages`, `ReplyAccounting`,
`DeletedPortUnused`, and `CallsOnPorts` (a task is only in a call on a port that
exists, and one that is past the waiting loop of close has nothing outstanding
and, at the deletion, nothing on its list).  Without the last, `DeletePort` could
delete a port under a message.  Every receive loop does one of four things to
queues and messages (take the head back, reply it, hold it, forget it), each a
lemma; the counter follows by adding or removing one element of a finite set of
messages.  `QueuesCorrect`, `AccountingCorrect` and `DeletedCorrect` are its
parts.  `WakeupCorrect` adds `NoLostWakeup`: a step signals a port or puts
nothing on its empty list, and only a task that is awake clears its signal.
`PortsKeepPromise` is the refinement: each step is a step of `ARexxMessage` or
leaves its variables alone; the closing of a port needs `PortInv`.
`SendsDoNotDeadlock` needs three facts of the sends under way: a message that is
waited for was sent to a port of another task and is nobody's or in a queue, in a
hand or answered (`SentToPort`), the sender has not got its answer yet (`Awaiting`),
and no set of tasks is closed under "waits for a message that one of the set
holds back" (`NoCircle`), since a task that sends goes on answering what arrives:
a send only waits for an owner that was not already waiting for it.

**ARexxHost_proofs.**  The inductive invariant `HostInv` is the type invariant,
`EveryClientAccountedFor`, `LiesOnce` (a message lies on the port once) and `Nesting`
(only the outermost call of dispatch was made by `run`, and `run` calls it when no
command function is under way).  `ClientsCorrect` and `NestingCorrect` are its consequences: no client's command is
lost or answered twice however deep the dispatches nest, and when the host waits or
is closed nothing is under way.

**Dict_proofs.**  `DictInv` says of every table, finished or being rebuilt, that
a slot has a value exactly if it has a key, that no two slots hold equal keys, and
that the way from the start of a key's search to its slot has no NULL entry.  A
deletion keeps the way (a dummy is not NULL), an insertion takes the first dummy
on it.  From the invariant follow `TypeCorrect`, `FindableCorrect` and
`StringsCorrect`.

`MapInv` adds to `DictInv` what relates the tables to the
mapping: while a table is rebuilt, what is still to be moved has no key in common with
what was; while a dictionary is updated, the keys before the next slot are there.  From it `MappingCorrect` (`Dict` implements
`Mapping`, step by step) and `CopiesCorrect`.  `CountedCorrect` is about `ma_used` and
`ma_fill`: a deletion turns a value into a dummy, an insertion fills a NULL or a dummy.
`FreeSlotCorrect` needs the counts and `RoomLeft`: a table has a NULL entry for whatever
the operation on it has still to insert, and one more, since each insertion of the
program tests the fill at its end and dictresize takes a size with room.

**FileTable_proofs.**  `Inv` is the type invariant, `Owned` (what `HandlesOwned`
and `NamesOwned` say, as an operator on a list, a length and the open handles so
that it can be applied in the middle of dup2) and `SocketsHaveUFBs`.  `Owned` adds
that exactly files have handles, without which a callback could mark a UFB whose
handle is then never closed.  `DescriptorsCorrect` is the refinement.

**Files_proofs: compiled files.**  The inductive invariant adds to `TypeOK` and `StampTells` what each
place in the code knows: `Exclusive`, there is one writer and no reader with it;
`WriterSees`, the file a writer has open is of the version it opened, has the blocks
before `next`, and bears no time until the last step; `ReaderSees`, the file a
reader has open bears the time of its source; `Phases` and `Buffers`, which process
has a source, a code, an empty buffer.  `StampCorrect` follows for any number of
processes, versions and blocks, and `ImportRefinement` shows each step to be one of
`ImportedCode` or to leave its variables alone.

**Pieces_proofs: pending calls.**  `OneInside` says that while a handler is in the critical
section `busy` is set, and every handler above it is idle or has yet to test `busy`.
A handler that claims is on top and saw `busy` clear, and what interrupted it has
returned; so of handlers one inside the other at most one is inside
(`NestedCorrect`).  A handler that finds the queue full leaves `busy` set, so the
converse does not hold.  `NoneForgottenCorrect` adds that a call put in the ring is
followed by the flag, and that the loop clears it before it looks.  `QueueCorrect` is
the refinement of `CallQueue`: `QueueInv` adds which call each handler holds, that
nothing fills the ring or overwrites the slot between a handler's test and its
advance, and that the call the interpreter took out is the first of the ring until it
moves `pendingfirst`.

**ListSort_proofs.**  The hard part of the sort is that it keeps its pivots in the array,
beside the part they belong to, and that it leaves parts for later on a stack, in a
slice that may itself be a part of another call's.  `SortInv` says of every
samplesortslice under way (`Level`): the parts that are still to be sorted, the one at hand
and those on its stack, do not overlap (`Shape`); two items that are not in one of
them are in order (`Order`); and the pivots left and right of a part are sorted
(`PivotsSorted`).  The callers' slices contain the callee's (`Nested`), and what a
caller knows holds when the callee returns because the callee only permutes items of its
own slice (`PermutedLevel`, `PermutedCallers`).  To each place of the program belongs what
is known of `l`, `r` and the pivot there (`InSlide`, `InDups`, ...).  That the stack
does not overflow follows from the pivots: those of the slice at depth i of the stack were
halved i times (`HasBits`), and there were at most 2^`STACKSIZE` - 1.  Twenty lemmas, one
for each step or for what steps have in common, give `SortInvariant`; `NothingLost` and
`SortingCorrect` are its consequences, for lists of every length.  The inductive invariant
was checked by TLC on lists of six and eight items first.  The
assumptions are `PowerAssumption`, which defines the powers of two (2^k cannot be
unfolded by the provers; TLC evaluates it), and `SortAssumption`: the code asks for
`MINPARTITIONSIZE` between 2 and `MINSIZE` (`listobject.c:761-763`), and of the number
of pivots what is said above.

**Pieces_proofs: the trashcan.**  The property speaks of what can be reached, but the code never
looks: it counts.  `Inv` says what the counts mean.  `Held` is the set of references
there are: the program's, and those in objects that are not free, without the ones an
unfinished deallocation already gave up.  No reference leads to an object that is being
deallocated, waits in the chain or is free; an object is at one of these stages at most
and comes to each once (`Once`); the count of any other is the number of references to
it and not 0 (`Counts`).  Between the decrement and the deallocation it may start, one
object is exempt from "not 0", hence the parameter of exempt objects; `LostOne` and
`Ended` are the two halves of `Py_DECREF`.  The other half of the invariant is the
stack (`Stacked`): the nesting level is the number of deallocations of containers that
have begun, a chain is destroyed only with none of them below it, and what waits has one
to wait for.  `NoGarbageIsForgotten` then needs two arguments about reachability: the
objects alive are closed under reference, so nothing reachable is freed; and the first
object that is alive but unreachable would have no holder, so everything else was.  The
second uses that references lead from lower to higher numbers: a cycle is never freed,
in the code either, where only the cycle collector would find it.  `TrashAssumption`
asks for a level of 3 at least; it is 50 (`object.h:539`).

**Pieces_proofs: plain integers.**  `PlainIntegersAreExact` says of words of every even
size what the run looks at in words of 8 bits: whatever the operands, the result is exact
or refused.  Sums: the result wraps into the other half of the range, which is what the
signs tell (`SumsExact`).  Products: `ProductExact` is about two factors below half a
word, whose product is less than a word, so that its sign tells; `LongTimesShortExact`
about the sum of the two partial products, of which the upper one is bounded before it is
shifted (`intobject.c:394`; with a limit one bit larger the sum may wrap twice); two
upper halves make a product of a whole word (`ProductsExact`).  Quotients: all four
combinations of signs come from the division of absolute values (`NegativeQuotient`).
`IntAssumption` spells out the two powers of 2 that are used, since 2^k cannot be
unfolded by the provers; TLC evaluates it.  Left to the run: `int_pow`, a recursion, and
with it the property `IntsAreExact` as a whole; the division of the least integer, which is
wrong in the code (below).

**Files_proofs: line ends.**  The length of a text is unbounded and so is where it is
cut, so the invariant may not mention either.  `Comes(t, f)` says that the text `t` is
what is left of the bytes `f` without CR, by the places its bytes have in `f`; no
function that strips a sequence is needed, which could not be reasoned about without
induction.  What was read, followed by what comes of the bytes in the buffer and the
file, is the text or the part of it that is written (`InWrite`, `InTranslate`, `InRead`,
`InSkip`).  That alone does not suffice: a call of `_read` that finds nothing but CR
returns 0, which the C library takes for the end.  So no three CR stand in a row
(`Apart`).  The byte that `_write` looks at behind its buffer may make it write a CR for
an LF that is not there yet, and the next call writes another one for that LF: these are
two, and between calls the file ends in one at most (`Open`).
`LinesAssumption` therefore asks for reads of three
bytes and more; the C library reads by the buffer.  The invariant was checked by TLC
first.

**Eval_proofs.**  `FrameFits` is about a stack that nobody checks: the compiler counts
how deep it may get, statement by statement, and a finally is entered with one, two or
three values on top of whatever the loops around it left.  A count of the stack alone is
no invariant, since jumps, handlers and `END_FINALLY` meet with stacks of different
heights.  So each instruction has a *place*: the shape of the value stack and the
instructions that set up its blocks.  A shape is a sequence of cells, each a value, an
exception or the reason a finally was entered for, with the most values there can be up
to its top; a block's instruction has a place below that of everything in the block
(`Nested`).  `Annotated` says that places agree along the code: an instruction leads
from its place to the next one (`Flows`), a jump or a handler from it to the place of
its target (`Aims`).
The compiler's part of the invariant (`CompileOK`) has a place for every
instruction so far, and for each call of `com_node` the place, the block stack and
the level where it began; the tables `ShapeAt`, `BlockAt`, `LevelAt`, `PeakAt` and `Owes`
say, for each kind of statement, what its list of calls has added to those by each place
in the list, and which of its jumps wait for their target.  There is a lemma for each
primitive and one for each action; a part begins at its caller's place, and comes back
to it when it has returned.  Nothing is assumed of the statement and no
induction over its structure is needed: the stack of calls takes its place.
When the last call returns no jump is without a target, and the frame's part of
the invariant begins: its stacks are those of the place of the next instruction (`Sits`),
through every instruction and every unwinding; the handler of a block that
catches is at a place like that of its set-up instruction, with the reason on top.
`FrameInvariant` is this invariant, and `FrameFitsAlways` follows for every program,
every limit of the blocks and every result of the evaluations: with the heights of the
two stacks, that the next instruction is in the code and finds the values and the block
it takes.

`RefusesMisplaced` has an invariant of its own (`Refusal`), which does not use that of
the frame: while the compiler works, the program is allowed if and only if nothing
forbidden is left to do (`Remains`).  `Demands` says, for each kind of statement and each
place in its list of calls, what of `Admits` is still to come: a part not yet compiled,
a block not yet pushed, a `break` or a `continue` not yet looked at.  A step that
compiles something forbidden falsifies what was left and sets the error; every other
step takes a true conjunct away, or replaces a part by that part's own demands, by the
equation of `Allowed`; an `if` with the constant false goes to its else part at once.  The block stack must say what is around the statement (`Around`)
and `c_loops` whether a loop is (`Counted`), at each call of `com_node` as well as now
(`NestOK`).  Again the stack of calls takes the place of an induction over the
statement.  What is assumed is `NestingAssumption`: the programs contain their own
parts (any set of programs has such a closure), none of them is a function's
definition (`Init` makes the one around the program), and `Allowed` satisfies its
equation.

Only model-checked: liveness and everything under fairness (out of the prover's
reach); powers of plain integers, long integers and the walk over the slots,
which are computed by recursion or over bounded data; the arithmetic of the dictionary's
search.  Of the control flow, `MeansTheSame`: the meaning of a statement is computed
by recursion on its structure and along its iterations.

## Where the code differs from what is said of it

Shown by a run:

* A synchronous send takes a message without ARG0 off the port and never replies
  to it (`ARexxmodule.c:259`).
* `host.run` dispatches one message per wake-up (`arexx.py:163`).
* When no memory is left to rebuild a table, an insertion may take its last NULL
  entry, and the next search for an absent key does not end (`dictobject.c:471`).

Met while modelling, part of the models' behaviour but of no run of their own:

* After a dup2 to a high number the next dup does not return the lowest free number, as
  `_dup.c:41` says, since FDCB_ALLOC marks every free UFB below as a socket
  (`_chkufb.c:115`).
* `write_compiled_module` asks ferror while the end of the code is still in the buffer
  (`import.c:691`), and nothing is asked afterwards: on a disk that fills there, a file
  stays that is cut off and bears the time of the source, and every later import
  of the module fails.  The comment says "if a write error occurs an attempt is made
  to remove the file" (`import.c:672-674`).  `StampTells` therefore excepts the last
  block.
* `Py_AddPendingCall` returns with `busy` set when the queue is full, so that no call can
  be registered any more (`ceval.c:243`).  On the other hand its comment says that it is
  not safe against nested registrations (`ceval.c:212`), which it is: handlers return
  in the reverse order.
* The division of the least integer takes its absolute value, which wraps
  (`intobject.c:430-437`): in 8 bits, -128 / 3 is 42, and pow with a modulus that comes
  by it is as wrong.  `IntsAreExact` leaves the least integer out of the dividends.
* A product that is the least integer is refused with OverflowError although it fits
  (`intobject.c:372`, `401`), unless one factor is 1.
* A translated write looks one byte past its buffer and may add a CR for what it finds
  there (`_write.c:100`), which a translated read takes out again.  A read of a single CR
  returns 0, which means end of file (`_read.c:82`); calls of three bytes and more
  do not meet such a chunk in a text that was written with the translation.
* A `break` outside every loop, a misplaced `continue` or a block too deep is an error
  unless it stands behind a test for a constant false: `if 0: break` is compiled
  anywhere (`compile.c:2571`).  `RefusesMisplaced` says so.
* A command that asks the host to stop is ignored when a flush dispatches it
  (`arexx.py:160`, `165`).
* A flush stops at a command without a result and leaves those behind it.
* With AmiTCP started after Python, files and sockets get the same numbers, and
  closing the file closes the socket (`_close.c:88`).  `Descriptors` therefore
  promises less while the two tables do not know of each other (`Coherent`).
* dup2 of a file, or of a number that is not in use, has closed the new number
  when it fails (`_dup2.c:47`).
* A send to a port that does not exist leaves its message allocated
  (`ARexxmodule.c:875`); so does `_open` a name when it refuses the mode.

Met while reading parts that are not modelled:

* `WaitSignal` of one object returns its signal, not the object
  (`Doslibmodule.c:384`).
* The list that is sorted is protected by its type only: a bound method kept from before,
  and a nested sort, get round it (`listobject.c:1250`; HISTORY speaks of a list that
  cannot be changed).

## Not modelled

* *AmigaDOS, environment, time, system log, arguments*: single library calls and
  conversions without state of the program.
* *Sockets and select beyond their descriptors*: the behaviour is that of
  bsdsocket.library, which is not in the repository.
* *Code that cannot be written at all*: marshal refuses code nested too deep, and Unicode
  text for which it has no memory (`marshal.c:114`, `189`); it sets an error of its own
  that `write_compiled_module` does not ask for.  `PycFile` writes code that marshal accepts.
* *Threads, signals, cycle collector*: not compiled into the Amiga build.
* *Tokenizer, parser, regular expressions, pickle, expat*: computations on text,
  portable or vendored.
* *Tools, demos, SlimPython, archive*: examples and an older copy of the sources.
* *User code called in the middle of an operation* (comparisons and destructors
  in dictionaries and lists): planned.

## Plan

Done: ARexxPort with ARexxMessage; ARexxHost; Dict with Mapping, DictArith and
DictProbe; FileTable with Descriptors; Blocks and Eval with Nesting, Steering and Statements; PycFile with
ImportedCode; PendingCalls with CallQueue; ListSort; the machines of Pieces.

Next, in this order:

1. Doslib's WaitSignal and CheckSignal as calls of ARexxPort, since they take the
   ports' signals.
2. Re-entrant updates: a destructor or a comparison that changes the dictionary, or the
   list that is being sorted, in the middle of an operation.
3. The tokenizer's stack of indentations as a further machine of Pieces; the binding of
   arguments to the parameters of a function.
4. `sys.modules` during an import that fails or imports itself.

Each run answers a question of its own, and their number is kept to twelve so that all
of them stay part of every check; new algorithms without shared state join `pieces`.

## Running

    tlc -config ARexxPort_safety.cfg MC_ARexxPort
    tlapm ARexxPort_proofs.tla

A run takes from a few seconds to about two and a half minutes (`pieces`), a proof module
under two, but for `Eval_proofs`, which takes about nine.
