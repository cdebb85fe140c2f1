----------------------------- MODULE ARexxHost -----------------------------
(***************************************************************************)
(* The `host' class of Python/lib/site-python/arexx.py: a program that      *)
(* receives commands on its public port and dispatches them to functions.   *)
(*                                                                          *)
(* The port itself is the one of ARexxPort (^C is left to that module); the *)
(* replies to asynchronous sends go unnoticed. A client has at most one     *)
(* command under way (ARexx waits for each reply), so a client stands for   *)
(* its message.  A command function may send a command of its own from the  *)
(* host, and send() flushes the host first: dispatch is then called again   *)
(* inside a command function.  `stack' are the commands whose function has  *)
(* not returned, each with the loop that called dispatch.  A send that fails *)
(* raises an exception; no function is assumed to catch one.                 *)
(***************************************************************************)
EXTENDS Integers, Sequences

CONSTANTS
  Clients,   \* programs that send commands to the host and wait for the reply
  Commands   \* the commands they use, among CommandKinds

\* What becomes of a command: its function returns 1 or 0, sends a command
\* itself, or raises a class or string exception; the command is not in
\* host.commands; ReadArgs rejects the arguments; the message is empty.
CommandKinds ==
  {"good", "quit", "asks", "raises class", "raises string", "unknown", "bad args", "empty"}

ASSUME HostAssumption == Commands \subseteq CommandKinds

VARIABLES
  cmd,       \* the command each client waits for, or "none"
  pending,   \* the clients whose message is on the host's port
  sig,       \* the port's signal bit
  mode,      \* what the host program is doing
  stack,     \* commands being executed: [client, loop], innermost last
  catch      \* host.catch

vars == <<cmd, pending, sig, mode, stack, catch>>

Modes ==
  {"created", "flush", "wait", "dispatch", "send", "sending", "stopped", "aborted", "closed"}

Init ==
  /\ cmd = [c \in Clients |-> "none"]
  /\ pending = <<>>
  /\ sig = FALSE
  /\ mode = "created"
  /\ stack = <<>>
  /\ catch = FALSE

Waiting(c) == cmd[c] # "none"
Top == stack[Len(stack)]
Pop == SubSeq(stack, 1, Len(stack) - 1)

\* m.reply(), or the end of a message object that was not replied to.
Reply(c) == cmd' = [cmd EXCEPT ![c] = "none"]

\* A client sends a command; FindPort no longer knows a closed port.
Send(c) ==
  /\ ~Waiting(c)
  /\ mode # "closed"
  /\ \E k \in Commands : cmd' = [cmd EXCEPT ![c] = k]
  /\ pending' = Append(pending, c)
  /\ sig' = TRUE
  /\ UNCHANGED <<mode, stack, catch>>

\* host.catchExceptions(1).
CatchExceptions ==
  /\ mode = "created"
  /\ catch' = TRUE
  /\ UNCHANGED <<cmd, pending, sig, mode, stack>>

\* host.run(): flush() first.
Run ==
  /\ mode \in {"created", "stopped"}
  /\ mode' = "flush"
  /\ UNCHANGED <<cmd, pending, sig, stack, catch>>

Wait ==
  /\ mode = "wait"
  /\ sig
  /\ sig' = FALSE
  /\ mode' = "dispatch"
  /\ UNCHANGED <<cmd, pending, stack, catch>>

(***************************************************************************)
(* dispatch() is called by two loops: flush() calls it until it returns -1, *)
(* run() calls it once after each wait() and goes on unless it returned 0.  *)
(* After(loop, res) is where the host goes when it returned res; a flush    *)
(* inside a command function is the beginning of that function's send().    *)
(***************************************************************************)
\* The fault of a flush that always returns to run().
AfterToRun(loop, res, depth) ==
  CASE loop = "dispatch" -> IF res = 0 THEN "stopped" ELSE "wait"
    [] loop = "flush" -> IF res # -1 THEN "flush" ELSE "wait"
After(loop, res, depth) ==
  CASE loop = "dispatch" -> IF res = 0 THEN "stopped" ELSE "wait"
    [] loop = "flush" /\ res # -1 -> "flush"
    [] loop = "flush" /\ res = -1 /\ depth = 0 -> "wait"
    [] loop = "flush" /\ res = -1 /\ depth > 0 -> "send"

Dispatching == mode \in {"flush", "dispatch"}

DispatchNone ==
  /\ Dispatching
  /\ pending = <<>>
  /\ mode' = After(mode, -1, Len(stack))
  /\ UNCHANGED <<cmd, pending, sig, stack, catch>>

\* What dispatch returns: only a function that was called changes res.
Result(k) ==
  CASE k = "good" -> 1
    [] k = "quit" -> 0
    [] OTHER -> -1

\* The except clause of dispatch passes an exception on unless catch is set;
\* and with catch set it adds the exception to a string, which fails with a
\* TypeError unless exception and value are strings.
Aborts(k) == k = "raises class" \/ (k = "raises string" /\ ~catch)

Dispatch ==
  /\ Dispatching
  /\ pending # <<>>
  /\ LET c == Head(pending)  k == cmd[c] IN
     \/ /\ k # "asks" /\ ~Aborts(k)
        /\ Reply(c)
        /\ mode' = After(mode, Result(k), Len(stack))
        /\ UNCHANGED stack
     \/ /\ k = "asks"
        /\ stack' = Append(stack, [client |-> c, loop |-> mode])
        /\ mode' = "flush"
        /\ UNCHANGED cmd
     \/ /\ Aborts(k)
        /\ stack' = Append(stack, [client |-> c, loop |-> mode])
        /\ mode' = "aborted"
        /\ UNCHANGED cmd
  /\ pending' = Tail(pending)
  /\ UNCHANGED <<sig, catch>>

(***************************************************************************)
(* The synchronous send of a command function (port.send in ARexxmodule.c). *)
(* The exceptions it may end in are of the class ARexx.error, so one leaves  *)
(* the command function and then every call of dispatch, whether catch is   *)
(* set or not (Aborts), and the loops and functions that called it.         *)
(***************************************************************************)
FunctionReturns ==
  /\ Reply(Top.client)
  /\ mode' = After(Top.loop, 1, Len(Pop))
  /\ stack' = Pop
FunctionRaises ==
  /\ mode' = "aborted"
  /\ UNCHANGED <<cmd, stack>>

\* SendRexxCommandToPort finds the port, or not, or has no memory for the message.
FindsPort ==
  /\ mode = "send"
  /\ mode' = "sending"
  /\ UNCHANGED <<cmd, pending, sig, stack, catch>>
CannotSend ==
  /\ mode = "send"
  /\ FunctionRaises
  /\ UNCHANGED <<pending, sig, catch>>

\* The fault of dropping what arrives, as a send does with a message that has
\* no argument.
RejectSilently ==
  /\ mode = "sending"
  /\ pending # <<>>
  /\ pending' = Tail(pending)
  /\ UNCHANGED <<cmd, sig, mode, stack, catch>>
\* What arrives at the port before the reply gets the error "invalid port".
Reject ==
  /\ mode = "sending"
  /\ pending # <<>>
  /\ Reply(Head(pending))
  /\ pending' = Tail(pending)
  /\ UNCHANGED <<sig, mode, stack, catch>>

\* The reply was among the messages taken and the port is empty.  A result code
\* other than 0 is raised as an error.  The signal is left set if something arrived
\* before WaitPort had to wait for it, and consumed by WaitPort if not.
Sent ==
  /\ mode = "sending"
  /\ pending = <<>>
  /\ FunctionReturns \/ FunctionRaises
  /\ sig' \in BOOLEAN
  /\ UNCHANGED <<pending, catch>>

(***************************************************************************)
(* host.close(), or the end of the program: the port answers what lies on   *)
(* it, and the messages that an exception left in the frames of its         *)
(* traceback are deleted, which replies to them.                            *)
(***************************************************************************)
InStack(c) == \E i \in 1..Len(stack) : stack[i].client = c
Lying(c) == \E i \in 1..Len(pending) : pending[i] = c

\* The fault of a close that does not answer what lies on the port.
AnsweredIfHeld(c) == InStack(c)
AnsweredAtClose(c) == InStack(c) \/ Lying(c)

Close ==
  /\ mode \in {"created", "stopped", "aborted"}
  /\ cmd' = [c \in Clients |-> IF AnsweredAtClose(c) THEN "none" ELSE cmd[c]]
  /\ pending' = <<>>
  /\ stack' = <<>>
  /\ mode' = "closed"
  /\ UNCHANGED <<sig, catch>>

HostStep ==
  Run \/ Wait \/ DispatchNone \/ Dispatch \/ FindsPort \/ CannotSend \/ Reject \/ Sent

Next ==
  \/ \E c \in Clients : Send(c)
  \/ HostStep
  \/ CatchExceptions
  \/ Close

Spec == Init /\ [][Next]_vars

-----------------------------------------------------------------------------
(* Properties *)

\* Every variable has its type (the attributes of the host object and its port).
TypeOK ==
  /\ cmd \in [Clients -> CommandKinds \cup {"none"}]
  /\ pending \in Seq(Clients)
  /\ sig \in BOOLEAN
  /\ mode \in Modes
  /\ stack \in Seq([client : Clients, loop : {"flush", "dispatch"}])
  /\ catch \in BOOLEAN
  /\ mode \in {"send", "sending"} => stack # <<>>

\* A client that waits has its message in exactly one place: on the port or in
\* a call of dispatch that will answer it, however deep the calls nest.
EveryClientAccountedFor ==
  \A c \in Clients :
    /\ Waiting(c) <=> Lying(c) \/ InStack(c)
    /\ ~(Lying(c) /\ InStack(c))
    /\ \A i, j \in 1..Len(stack) : stack[i].client = c /\ stack[j].client = c => i = j

\* run() and flush() leave no call of dispatch behind: when the host waits for
\* messages or has stopped, no command function is under way.
NothingUnderWay ==
  mode \in {"created", "wait", "stopped", "closed"} => stack = <<>>

(***************************************************************************)
(* Fairness: the host's program is scheduled, one that stopped runs again   *)
(* or closes, and the programs it sends commands to answer.  Each client    *)
(* sends finitely many commands: nothing in the code keeps clients that     *)
(* never pause from holding up a function that waits for its own answer.    *)
(***************************************************************************)
HostRuns == WF_vars(HostStep) /\ WF_vars(Run \/ Close)
FinitelyManyCommands == <>[][~\E c \in Clients : Send(c)]_vars
FairSpec == Spec /\ HostRuns /\ FinitelyManyCommands

\* "otherwise the message is not replied to, and the calling app will freeze"
\* (ARexx_module:419): every command is answered.
EveryCommandAnswered == \A c \in Clients : Waiting(c) ~> ~Waiting(c)

\* The host sleeps although a command lies on its port.
Overslept == mode = "wait" /\ ~sig /\ pending # <<>>

\* A command is answered, whatever is dispatched, refused, raised and closed
\* meanwhile, unless run() sleeps on it: that is the only way to lose one.
AnsweredOrOverslept == \A c \in Clients : Waiting(c) ~> ~Waiting(c) \/ Overslept

\* A command function that sends a command comes back from the flush and the
\* send, whatever it is made to dispatch and refuse meanwhile, or the exception of
\* a send that failed ends the host and its commands are answered then.
FunctionsReturn == \A c \in Clients : InStack(c) ~> ~InStack(c)
=============================================================================
