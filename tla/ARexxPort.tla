----------------------------- MODULE ARexxPort -----------------------------
(***************************************************************************)
(* The ARexx message ports of Source/Modules/ARexxmodule.c: the `arexxport' *)
(* and `arexxmsg' objects and the functions under "AREXX SUPPORT".          *)
(*                                                                          *)
(* Several Amiga tasks run Python programs.  Each program opens ports,      *)
(* sends commands to other ports, receives commands as message objects and  *)
(* replies to them.  A RexxMsg is one piece of memory that travels: the     *)
(* sender creates it, exec puts it on the receiver's port, the receiver     *)
(* replies it, exec puts it back on the sender's port, the sender deletes   *)
(* it.  Everything else that may hold a port (the REXX interpreter, other   *)
(* applications) is the single external party Ext.                          *)
(*                                                                          *)
(* A task executes one call at a time.  call[t] is the C function it is in, *)
(* at[t] the place inside it, cur[t] the port it was called on.  Every      *)
(* GetMsg, Wait and ReplyMsg is one step, so the calls of different tasks   *)
(* interleave the way exec lets them.                                       *)
(***************************************************************************)
EXTENDS Integers, Sequences, FiniteSets

CONSTANTS
  Tasks,          \* Amiga processes running a Python program
  Ports,          \* the MsgPorts those programs may open
  Owner,          \* the task that owns a port (mp_SigTask)
  Messages,       \* the RexxMsg structures memory has room for
  Ext,            \* every other program: it has ports of its own
  NoMsg,          \* a null RexxMsg pointer
  MemoryMayFail   \* whether an allocation may return NULL

ASSUME PortAssumption ==
  /\ Owner \in [Ports -> Tasks]
  /\ Ext \notin Ports
  /\ NoMsg \notin Messages
  /\ IsFiniteSet(Messages)
  /\ MemoryMayFail \in BOOLEAN

VARIABLES
  msg,       \* the RexxMsg structures, see MsgRecord
  queue,     \* mp_MsgList of each port: commands and replies, in order
  sig,       \* the task's signal bit that belongs to each port
  status,    \* is a port closed, open (in exec's port list or not) or closing
  replies,   \* host->replies: replies the port still waits for
  call, at, cur, awaited,  \* the call each task is executing
  ctrlC      \* SIGBREAKF_CTRL_C of each task

vars == <<msg, queue, sig, status, replies, call, at, cur, awaited, ctrlC>>
callVars == <<call, at, cur, awaited>>

(***************************************************************************)
(* Messages.  A "command" is an RXCOMM with an argument; a "function" is    *)
(* any other action code (it has an argument too); a "noarg" has ARG0 NULL. *)
(* Python only sends commands.  "lost" is a message that was taken off its  *)
(* queue and that nobody remembers, "leaked" one that was created and       *)
(* neither sent nor deleted.                                                *)
(***************************************************************************)
Kinds == {"command", "function", "noarg"}
MsgStates == {"free", "sent", "held", "replied", "lost", "leaked"}
Parties == Ports \cup {Ext}

MsgRecord == [st : MsgStates, from : Parties, dest : Parties, kind : Kinds]
Blank == [st |-> "free", from |-> Ext, dest |-> Ext, kind |-> "command"]

Free == {m \in Messages : msg[m].st = "free"}
\* Messages whose owner still has to get them back.
Outstanding(p) ==
  {m \in Messages : msg[m].from = p /\ msg[m].st \in {"sent", "held", "replied", "lost"}}

Idle(t) == call[t] = "idle"
Open(p) == status[p] \in {"private", "public"}
\* exec's list of public ports, what FindPort searches.
Listed == {p \in Ports : status[p] = "public"}

Init ==
  /\ msg = [m \in Messages |-> Blank]
  /\ queue = [p \in Ports |-> <<>>]
  /\ sig = [p \in Ports |-> FALSE]
  /\ status = [p \in Ports |-> "closed"]
  /\ replies = [p \in Ports |-> 0]
  /\ call = [t \in Tasks |-> "idle"]
  /\ at = [t \in Tasks |-> "start"]
  /\ cur = [t \in Tasks |-> Ext]
  /\ awaited = [t \in Tasks |-> NoMsg]
  /\ ctrlC = [t \in Tasks |-> FALSE]

-----------------------------------------------------------------------------
(* The calls of a task *)

Enter(t, c, p, place, m) ==
  /\ call' = [call EXCEPT ![t] = c]
  /\ at' = [at EXCEPT ![t] = place]
  /\ cur' = [cur EXCEPT ![t] = p]
  /\ awaited' = [awaited EXCEPT ![t] = m]

\* The fault of leaving a call without forgetting where in it the task was.
ReturnInPlace(t) == Enter(t, "idle", cur[t], at[t], NoMsg)
Return(t) == Enter(t, "idle", Ext, "start", NoMsg)

Goto(t, place) ==
  /\ at' = [at EXCEPT ![t] = place]
  /\ UNCHANGED <<call, cur, awaited>>

(***************************************************************************)
(* exec.library.  PutMsg appends to the port's list and signals its task;   *)
(* ReplyMsg puts the message back on the port it came from.  base is the    *)
(* queues as the caller left them (after the GetMsg that came before).      *)
(***************************************************************************)
PutMsg(base, p, m) ==
  /\ queue' = [base EXCEPT ![p] = Append(@, m)]
  /\ sig' = [sig EXCEPT ![p] = TRUE]

ReplyMsg(base, m) ==
  LET from == msg[m].from IN
  IF from = Ext
  THEN /\ msg' = [msg EXCEPT ![m] = Blank]
       /\ queue' = base
       /\ UNCHANGED sig
  ELSE /\ msg' = [msg EXCEPT ![m].st = "replied"]
       /\ PutMsg(base, from, m)

WithoutHead(p) == [queue EXCEPT ![p] = Tail(@)]

(***************************************************************************)
(* port() / newarexxportobject / SetupARexxHost.  The name search and       *)
(* AddPort run under Forbid(), so a public port appears in one step.        *)
(***************************************************************************)
OpenPort(t, p) ==
  /\ Idle(t)
  /\ Owner[p] = t
  /\ status[p] = "closed"
  /\ \E s \in {"private", "public"} : status' = [status EXCEPT ![p] = s]
  /\ replies' = [replies EXCEPT ![p] = 0]
  /\ sig' = [sig EXCEPT ![p] = FALSE]
  /\ UNCHANGED <<msg, queue, callVars, ctrlC>>

(***************************************************************************)
(* port.send.  CreateRexxCommand takes a free message; if FindPort does not *)
(* know the name the message is neither sent nor deleted.  FindPort and     *)
(* PutMsg run under Forbid().  The counter is the sender's own, so          *)
(* incrementing it after Permit() is part of the same step.                 *)
(***************************************************************************)
Command(p, d) == [st |-> "sent", from |-> p, dest |-> d, kind |-> "command"]

SendNoPort(t, p) ==
  /\ Idle(t)
  /\ Owner[p] = t
  /\ Open(p)
  /\ \E m \in Free : msg' = [msg EXCEPT ![m].st = "leaked"]
  /\ UNCHANGED <<queue, sig, status, replies, callVars, ctrlC>>

PortSend(t, p, async) ==
  /\ Idle(t)
  /\ Owner[p] = t
  /\ Open(p)
  /\ \E m \in Free, d \in Listed \cup {Ext} :
       /\ IF d = Ext
          THEN /\ msg' = [msg EXCEPT ![m] = [Command(p, d) EXCEPT !.st = "held"]]
               /\ UNCHANGED <<queue, sig>>
          ELSE /\ msg' = [msg EXCEPT ![m] = Command(p, d)]
               /\ PutMsg(queue, d, m)
       /\ IF async THEN UNCHANGED callVars ELSE Enter(t, "send", p, "port", m)
  /\ replies' = [replies EXCEPT ![p] = @ + 1]
  /\ UNCHANGED <<status, ctrlC>>

(***************************************************************************)
(* exec's WaitPort, called by a synchronous send and by close: it returns   *)
(* at once when the list is not empty, and otherwise waits for the signal   *)
(* bit, which Wait clears, and looks at the list again.                     *)
(***************************************************************************)
WaitPort(t) ==
  /\ at[t] = "port"
  /\ Goto(t, IF queue[cur[t]] = <<>> THEN "sleep" ELSE "get")
  /\ UNCHANGED <<msg, queue, sig, status, replies, ctrlC>>

Woken(t) ==
  /\ at[t] = "sleep"
  /\ sig[cur[t]]
  /\ sig' = [sig EXCEPT ![cur[t]] = FALSE]
  /\ Goto(t, "port")
  /\ UNCHANGED <<msg, queue, status, replies, ctrlC>>

\* FreeRexxCommand and the decrement that goes with it.
\* The fault of deleting a reply without counting it.
TakeBackUncounted(p, m) ==
  /\ msg' = [msg EXCEPT ![m] = Blank]
  /\ queue' = WithoutHead(p)
  /\ UNCHANGED <<replies, sig>>

TakeBack(p, m) ==
  /\ msg' = [msg EXCEPT ![m] = Blank]
  /\ queue' = WithoutHead(p)
  /\ replies' = [replies EXCEPT ![p] = @ - 1]
  /\ UNCHANGED sig

Forget(p, m) ==
  /\ msg' = [msg EXCEPT ![m].st = "lost"]
  /\ queue' = WithoutHead(p)
  /\ UNCHANGED sig

\* The fault of not noticing that the reply was the one waited for.
NeverSatisfied(t, m) == awaited[t]
StillAwaited(t, m) == IF m = awaited[t] THEN NoMsg ELSE awaited[t]

(***************************************************************************)
(* The loop of a synchronous send: it takes everything off the port.  Its   *)
(* own reply ends the waiting, other replies are deleted, commands from     *)
(* others are answered with an error - but only if ARG0 is not NULL.        *)
(***************************************************************************)
SendGet(t) ==
  /\ call[t] = "send" /\ at[t] = "get"
  /\ LET p == cur[t]  m == Head(queue[p]) IN
     \/ /\ queue[p] = <<>>
        /\ IF awaited[t] = NoMsg THEN Return(t) ELSE Goto(t, "port")
        /\ UNCHANGED <<msg, queue, sig, replies>>
     \/ /\ queue[p] # <<>>
        /\ msg[m].st = "replied"
        /\ TakeBack(p, m)
        /\ awaited' = [awaited EXCEPT ![t] = StillAwaited(t, m)]
        /\ UNCHANGED <<call, at, cur>>
     \/ /\ queue[p] # <<>>
        /\ msg[m].st = "sent"
        /\ IF msg[m].kind = "noarg"
           THEN Forget(p, m)
           ELSE ReplyMsg(WithoutHead(p), m)
        /\ UNCHANGED <<replies, callVars>>
  /\ UNCHANGED <<status, ctrlC>>

(***************************************************************************)
(* port.getmsg / GetARexxMsg: deletes replies to earlier asynchronous       *)
(* sends, replies what is not a command, and stops at the first command or  *)
(* at the end of the list.  The command becomes a message object; without   *)
(* memory for the object it is forgotten.                                   *)
(***************************************************************************)
PortGetMsg(t, p) ==
  /\ Idle(t)
  /\ Owner[p] = t
  /\ Open(p)
  /\ Enter(t, "getmsg", p, "get", NoMsg)
  /\ UNCHANGED <<msg, queue, sig, status, replies, ctrlC>>

NewMsgObject(p, m) ==
  \/ /\ msg' = [msg EXCEPT ![m].st = "held"]
     /\ queue' = WithoutHead(p)
     /\ UNCHANGED sig
  \/ /\ MemoryMayFail
     /\ Forget(p, m)

GetARexxMsg(t) ==
  /\ call[t] = "getmsg" /\ at[t] = "get"
  /\ LET p == cur[t]  m == Head(queue[p]) IN
     \/ /\ queue[p] = <<>>
        /\ Return(t)
        /\ UNCHANGED <<msg, queue, sig, replies>>
     \/ /\ queue[p] # <<>>
        /\ msg[m].st = "replied"
        /\ TakeBack(p, m)
        /\ UNCHANGED callVars
     \/ /\ queue[p] # <<>>
        /\ msg[m].st = "sent"
        /\ IF msg[m].kind = "command"
           THEN NewMsgObject(p, m) /\ Return(t)
           ELSE ReplyMsg(WithoutHead(p), m) /\ UNCHANGED callVars
        /\ UNCHANGED replies
  /\ UNCHANGED <<status, ctrlC>>

(***************************************************************************)
(* port.wait: Wait() for the port's signal or a break.  It does not look at *)
(* the port's list, and it clears both bits whichever ends it.              *)
(***************************************************************************)
PortWait(t, p) ==
  /\ Idle(t)
  /\ Owner[p] = t
  /\ Open(p)
  /\ Enter(t, "wait", p, "start", NoMsg)
  /\ UNCHANGED <<msg, queue, sig, status, replies, ctrlC>>

WaitReturns(t) ==
  /\ call[t] = "wait"
  /\ sig[cur[t]] \/ ctrlC[t]
  /\ sig' = [sig EXCEPT ![cur[t]] = FALSE]
  /\ ctrlC' = [ctrlC EXCEPT ![t] = FALSE]
  /\ Return(t)
  /\ UNCHANGED <<msg, queue, status, replies>>

(***************************************************************************)
(* msg.reply, and msg_dealloc of a message object that was not replied to.  *)
(***************************************************************************)
\* The fault of replying to a message without looking whether it was replied to.
HoldsStill(t, m) ==
  msg[m].st \in {"held", "replied"} /\ msg[m].dest # Ext /\ Owner[msg[m].dest] = t
Holds(t, m) == msg[m].st = "held" /\ msg[m].dest # Ext /\ Owner[msg[m].dest] = t

MsgReply(t, m) ==
  /\ Idle(t)
  /\ Holds(t, m)
  /\ ReplyMsg(queue, m)
  /\ UNCHANGED <<status, replies, callVars, ctrlC>>

(***************************************************************************)
(* port.close and port_dealloc / CloseDownARexxHost: RemPort, wait until    *)
(* every command sent from this port came back, answer what is left on the  *)
(* port, DeleteMsgPort.                                                     *)
(***************************************************************************)
\* The fault in which close does not wait for the replies.
NotWaiting(p) == TRUE
AllBack(p) == replies[p] <= 0

\* The fault of waiting for the signal without looking at the list first.
PortCloseUnseen(t, p) ==
  /\ Idle(t)
  /\ Owner[p] = t
  /\ Open(p)
  /\ status' = [status EXCEPT ![p] = "closing"]
  /\ Enter(t, "close", p, IF AllBack(p) THEN "flush" ELSE "sleep", NoMsg)
  /\ UNCHANGED <<msg, queue, sig, replies, ctrlC>>

PortClose(t, p) ==
  /\ Idle(t)
  /\ Owner[p] = t
  /\ Open(p)
  /\ status' = [status EXCEPT ![p] = "closing"]
  /\ Enter(t, "close", p, IF AllBack(p) THEN "flush" ELSE "port", NoMsg)
  /\ UNCHANGED <<msg, queue, sig, replies, ctrlC>>

CloseGet(t) ==
  /\ call[t] = "close" /\ at[t] = "get"
  /\ LET p == cur[t]  m == Head(queue[p]) IN
     \/ /\ queue[p] = <<>>
        /\ Goto(t, IF AllBack(p) THEN "flush" ELSE "port")
        /\ UNCHANGED <<msg, queue, sig, replies>>
     \/ /\ queue[p] # <<>>
        /\ msg[m].st = "replied"
        /\ TakeBack(p, m)
        /\ UNCHANGED callVars
     \/ /\ queue[p] # <<>>
        /\ msg[m].st = "sent"
        /\ ReplyMsg(WithoutHead(p), m)
        /\ UNCHANGED <<replies, callVars>>
  /\ UNCHANGED <<status, ctrlC>>

\* The fault of deleting the port with the messages that lie on it.
CloseUnflushed(t) ==
  /\ call[t] = "close" /\ at[t] = "flush"
  /\ Goto(t, "delete")
  /\ UNCHANGED <<msg, queue, sig, status, replies, ctrlC>>
CloseFlush(t) ==
  /\ call[t] = "close" /\ at[t] = "flush"
  /\ LET p == cur[t]  m == Head(queue[p]) IN
     \/ /\ queue[p] = <<>>
        /\ Goto(t, "delete")
        /\ UNCHANGED <<msg, queue, sig>>
     \/ /\ queue[p] # <<>>
        /\ ReplyMsg(WithoutHead(p), m)
        /\ UNCHANGED callVars
  /\ UNCHANGED <<status, replies, ctrlC>>

DeletePort(t) ==
  /\ call[t] = "close" /\ at[t] = "delete"
  /\ status' = [status EXCEPT ![cur[t]] = "closed"]
  /\ Return(t)
  /\ UNCHANGED <<msg, queue, sig, replies, ctrlC>>

-----------------------------------------------------------------------------
(* The rest of the system *)

\* Another program sends a message of any kind to a public port.
ExtSend ==
  /\ \E m \in Free, p \in Listed, k \in Kinds :
       /\ msg' = [msg EXCEPT ![m] =
                    [st |-> "sent", from |-> Ext, dest |-> p, kind |-> k]]
       /\ PutMsg(queue, p, m)
  /\ UNCHANGED <<status, replies, callVars, ctrlC>>

\* Another program replies to a command it was sent.
ExtReply(m) ==
  /\ msg[m].st = "held" /\ msg[m].dest = Ext
  /\ ReplyMsg(queue, m)
  /\ UNCHANGED <<status, replies, callVars, ctrlC>>

\* The user presses Ctrl-C.  Only Wait() in port.wait looks at the signal: one
\* that comes earlier stays pending, as if it had come when the wait began.
Break(t) ==
  /\ call[t] = "wait"
  /\ ~ctrlC[t]
  /\ ctrlC' = [ctrlC EXCEPT ![t] = TRUE]
  /\ UNCHANGED <<msg, queue, sig, status, replies, callVars>>

\* What a call does once it has begun.
InCall(t) ==
  \/ WaitPort(t) \/ Woken(t)
  \/ SendGet(t)
  \/ GetARexxMsg(t)
  \/ WaitReturns(t)
  \/ CloseGet(t) \/ CloseFlush(t) \/ DeletePort(t)

Program(t, p) ==
  \/ OpenPort(t, p)
  \/ SendNoPort(t, p)
  \/ \E async \in BOOLEAN : PortSend(t, p, async)
  \/ PortGetMsg(t, p)
  \/ PortWait(t, p)
  \/ PortClose(t, p)

Next ==
  \/ \E t \in Tasks, p \in Ports : Program(t, p)
  \/ \E t \in Tasks, m \in Messages : MsgReply(t, m)
  \/ \E t \in Tasks : InCall(t)
  \/ \E m \in Messages : ExtReply(m)
  \/ ExtSend
  \/ \E t \in Tasks : Break(t)

Spec == Init /\ [][Next]_vars

-----------------------------------------------------------------------------
(* Properties *)

\* The place a task is in: on a port of its own exactly during a call.
CallOK ==
  /\ call \in [Tasks -> {"idle", "send", "getmsg", "wait", "close"}]
  /\ at \in [Tasks -> {"start", "port", "sleep", "get", "flush", "delete"}]
  /\ cur \in [Tasks -> Parties]
  /\ awaited \in [Tasks -> Messages \cup {NoMsg}]
  /\ \A t \in Tasks :
       /\ cur[t] = Ext <=> call[t] = "idle"
       /\ at[t] = "start" <=> call[t] \in {"idle", "wait"}
       /\ cur[t] # Ext => Owner[cur[t]] = t

\* Every variable has its type (the RexxMsg, MsgPort and RexxHost fields the
\* module keeps).
TypeOK ==
  /\ msg \in [Messages -> MsgRecord]
  /\ queue \in [Ports -> Seq(Messages)]
  /\ sig \in [Ports -> BOOLEAN]
  /\ status \in [Ports -> {"closed", "private", "public", "closing"}]
  /\ replies \in [Ports -> Int]
  /\ ctrlC \in [Tasks -> BOOLEAN]
  /\ CallOK

\* A message is on a queue exactly when it travels to that port, and only at
\* one place of it: no GetMsg/ReplyMsg pair of the three receive loops links a
\* message twice or drops a link.
OnQueue(m, p) ==
  \/ msg[m].st = "sent" /\ msg[m].dest = p
  \/ msg[m].st = "replied" /\ msg[m].from = p
Lies(m, s) == \E i \in 1..Len(s) : s[i] = m
Once(s) == \A i, j \in 1..Len(s) : s[i] = s[j] => i = j
QueuesMatchMessages ==
  \A p \in Ports :
    /\ Once(queue[p])
    /\ \A m \in Messages : OnQueue(m, p) <=> Lies(m, queue[p])

\* host->replies, which close waits on, is the number of commands sent from
\* the port that have not come back, whichever loop took the reply.
ReplyAccounting ==
  \A p \in Ports :
    status[p] # "closed" => replies[p] = Cardinality(Outstanding(p))

\* A deleted port is never the reply port of a message that is still under
\* way, and never has a message on it: nobody writes to a freed MsgPort.
DeletedPortUnused ==
  \A p \in Ports :
    status[p] = "closed" => Outstanding(p) = {} /\ queue[p] = <<>>

\* A task asleep in WaitPort has been signalled as soon as there is something
\* on the port: a send or close never sleeps over its own reply.
NoLostWakeup ==
  \A t \in Tasks :
    at[t] = "sleep" /\ queue[cur[t]] # <<>> => sig[cur[t]]

Stuck(t) == call[t] = "send" /\ at[t] = "sleep" /\ ~sig[cur[t]]
\* A message m lies on a port of t while t sends from another of its ports.
Unattended(m, t) ==
  msg[m].st = "sent" /\ Owner[msg[m].dest] = t /\ msg[m].dest # cur[t]

\* Synchronous sends do not wait for each other in a circle, since the loop of
\* each answers what it receives: when every task is stuck in one, some program
\* outside has not replied, a message was lost, or a task was sent a command on
\* a port it is not looking at (SendARexxMsg from a program with a port).
NoSendDeadlock ==
  (\A t \in Tasks : Stuck(t)) =>
    \E m \in Messages :
      \/ msg[m].st = "held" /\ msg[m].dest = Ext
      \/ msg[m].st = "lost"
      \/ \E t \in Tasks : Unattended(m, t)

\* The message as its sender and receiver see it.
Life(m) ==
  CASE msg[m].st \in {"sent", "held", "lost"} -> "asked"
    [] msg[m].st = "replied" -> "answered"
    [] OTHER -> "idle"
Promise == INSTANCE ARexxMessage WITH
  life <- [m \in Messages |-> Life(m)],
  asker <- [m \in Messages |-> msg[m].from],
  alive <- {p \in Ports : status[p] # "closed"}

\* The ports keep what ARexxMessage promises: no message is answered twice, and
\* close waits until every message of the port was given back.
KeepsPromise == Promise!Spec

\* "Each message must be replied to!" (ARexxmodule.c:49): with memory at hand
\* no receive loop takes a message off a port without passing it on.
EveryMessageAnswerable == \A m \in Messages : msg[m].st # "lost"

(***************************************************************************)
(* Fairness.  exec schedules a ready task eventually, so a call that can go *)
(* on goes on.  Other programs reply to the commands they are sent.         *)
(***************************************************************************)
CallsGoOn == \A t \in Tasks : WF_vars(InCall(t))
OthersReply == \A m \in Messages : WF_vars(ExtReply(m))
FairSpec == Spec /\ CallsGoOn /\ OthersReply

\* The reply to a synchronous send is taken off the port, whatever else the port
\* receives before and after it.
ReplyIsNoticed ==
  \A t \in Tasks, m \in Messages :
    awaited[t] = m /\ msg[m].st = "replied" ~> awaited[t] # m

\* A port that is being closed still answers what lies on it, even while its own
\* replies do not come.
ClosingPortAnswers ==
  \A m \in Messages, p \in Ports :
    status[p] = "closing" /\ OnQueue(m, p) ~> ~OnQueue(m, p)

\* close ends when what the port sent has been received by programs that reply.
CloseEndsOnceAnswered ==
  \A t \in Tasks :
    /\ call[t] = "close"
    /\ \A m \in Outstanding(cur[t]) :
         \/ msg[m].st = "replied"
         \/ msg[m].st = "held" /\ msg[m].dest = Ext
    ~> call[t] = "idle"

=============================================================================
