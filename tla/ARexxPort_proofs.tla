-------------------------- MODULE ARexxPort_proofs --------------------------
(***************************************************************************)
(* Proofs about the ports of ARexxPort for any number of tasks, ports and   *)
(* messages.                                                                *)
(***************************************************************************)
EXTENDS ARexxPort, FiniteSetTheorems, TLAPS

LEMMA RecordState ==
  ASSUME NEW r \in MsgRecord, NEW s \in MsgStates
  PROVE  [r EXCEPT !.st = s] \in MsgRecord
BY DEF MsgRecord

LEMMA SetState ==
  ASSUME TypeOK, NEW m \in Messages, NEW s \in MsgStates
  PROVE  [msg EXCEPT ![m].st = s] \in [Messages -> MsgRecord]
<1>1. [msg[m] EXCEPT !.st = s] \in MsgRecord
  BY RecordState DEF TypeOK
<1> QED
  BY <1>1 DEF TypeOK

LEMMA ReplyMsgType ==
  ASSUME TypeOK, NEW base \in [Ports -> Seq(Messages)], NEW m \in Messages,
         ReplyMsg(base, m)
  PROVE  /\ msg' \in [Messages -> MsgRecord]
         /\ queue' \in [Ports -> Seq(Messages)]
         /\ sig' \in [Ports -> BOOLEAN]
<1>1. msg[m].from \in Parties
  BY DEF TypeOK, MsgRecord
<1>2. CASE msg[m].from = Ext
  <2>1. msg' = [msg EXCEPT ![m] = Blank] /\ queue' = base /\ sig' = sig
    BY <1>2 DEF ReplyMsg
  <2>2. Blank \in MsgRecord
    BY DEF Blank, MsgRecord, Parties, MsgStates, Kinds
  <2> QED
    BY <2>1, <2>2 DEF TypeOK
<1>3. CASE msg[m].from # Ext
  <2>1. msg' = [msg EXCEPT ![m].st = "replied"] /\ PutMsg(base, msg[m].from, m)
    BY <1>3 DEF ReplyMsg
  <2>2. msg' \in [Messages -> MsgRecord]
    BY <2>1, SetState DEF MsgStates
  <2> QED
    BY <1>1, <1>3, <2>1, <2>2 DEF TypeOK, PutMsg, Parties
<1> QED
  BY <1>2, <1>3

LEMMA WithoutHeadType ==
  ASSUME TypeOK, NEW p \in Ports, queue[p] # <<>>
  PROVE  /\ Head(queue[p]) \in Messages
         /\ WithoutHead(p) \in [Ports -> Seq(Messages)]
BY DEF TypeOK, WithoutHead

LEMMA TypeInit == Init => TypeOK
<1>1. Blank \in MsgRecord
  BY DEF Blank, MsgRecord, Parties, MsgStates, Kinds
<1> QED
  BY <1>1, PortAssumption DEF Init, TypeOK, CallOK, Parties

Places == {"start", "port", "sleep", "get", "flush", "delete"}
Calls == {"idle", "send", "getmsg", "wait", "close"}

LEMMA EnterCallOK ==
  ASSUME TypeOK, NEW t \in Tasks, NEW c \in Calls \ {"idle"},
         NEW p \in Ports, Owner[p] = t,
         NEW place \in Places, place = "start" <=> c = "wait",
         NEW m \in Messages \cup {NoMsg}, Enter(t, c, p, place, m)
  PROVE  CallOK'
<1>1. p \in Parties /\ p # Ext
  BY PortAssumption DEF Parties
<1> QED
  BY <1>1 DEF TypeOK, CallOK, Enter, Places, Calls

LEMMA ReturnCallOK ==
  ASSUME TypeOK, NEW t \in Tasks, Return(t)
  PROVE  CallOK'
BY DEF TypeOK, CallOK, Return, Enter, Parties

LEMMA GotoCallOK ==
  ASSUME TypeOK, NEW t \in Tasks, at[t] # "start",
         NEW place \in Places \ {"start"}, Goto(t, place)
  PROVE  CallOK'
BY DEF TypeOK, CallOK, Goto, Places

LEMMA SameCallOK ==
  ASSUME TypeOK, UNCHANGED callVars
  PROVE  CallOK'
BY DEF TypeOK, CallOK, callVars

LEMMA CurIsPort ==
  ASSUME TypeOK, NEW t \in Tasks, call[t] # "idle"
  PROVE  cur[t] \in Ports /\ Owner[cur[t]] = t
BY DEF TypeOK, CallOK, Parties

LEMMA TakeBackType ==
  ASSUME TypeOK, NEW p \in Ports, queue[p] # <<>>, TakeBack(p, Head(queue[p]))
  PROVE  /\ msg' \in [Messages -> MsgRecord]
         /\ queue' \in [Ports -> Seq(Messages)]
         /\ replies' \in [Ports -> Int]
         /\ sig' = sig
<1>1. Blank \in MsgRecord
  BY DEF Blank, MsgRecord, Parties, MsgStates, Kinds
<1>2. Head(queue[p]) \in Messages /\ WithoutHead(p) \in [Ports -> Seq(Messages)]
  BY WithoutHeadType
<1>3. replies' \in [Ports -> Int]
  BY DEF TypeOK, TakeBack
<1>4. msg' \in [Messages -> MsgRecord]
  BY <1>1, <1>2 DEF TypeOK, TakeBack
<1> QED
  BY <1>2, <1>3, <1>4 DEF TakeBack

LEMMA ForgetType ==
  ASSUME TypeOK, NEW p \in Ports, queue[p] # <<>>, Forget(p, Head(queue[p]))
  PROVE  /\ msg' \in [Messages -> MsgRecord]
         /\ queue' \in [Ports -> Seq(Messages)]
         /\ sig' = sig
BY WithoutHeadType, SetState DEF Forget, MsgStates

LEMMA NewMsgObjectType ==
  ASSUME TypeOK, NEW p \in Ports, queue[p] # <<>>, NewMsgObject(p, Head(queue[p]))
  PROVE  /\ msg' \in [Messages -> MsgRecord]
         /\ queue' \in [Ports -> Seq(Messages)]
         /\ sig' = sig
<1>1. CASE Forget(p, Head(queue[p]))
  BY <1>1, ForgetType
<1>2. CASE /\ msg' = [msg EXCEPT ![Head(queue[p])].st = "held"]
           /\ queue' = WithoutHead(p)
           /\ UNCHANGED sig
  BY <1>2, WithoutHeadType, SetState DEF MsgStates
<1> QED
  BY <1>1, <1>2 DEF NewMsgObject

LEMMA TypeProgram ==
  ASSUME TypeOK, NEW t \in Tasks, NEW p \in Ports, Program(t, p)
  PROVE  TypeOK'
<1>1. CASE OpenPort(t, p)
  <2>1. CallOK'
    BY <1>1, SameCallOK DEF OpenPort
  <2> QED
    BY <1>1, <2>1 DEF TypeOK, OpenPort
<1>2. CASE SendNoPort(t, p)
  <2>1. CallOK'
    BY <1>2, SameCallOK DEF SendNoPort
  <2>2. msg' \in [Messages -> MsgRecord]
    BY <1>2, SetState DEF SendNoPort, Free, MsgStates
  <2> QED
    BY <1>2, <2>1, <2>2 DEF TypeOK, SendNoPort
<1>3. ASSUME NEW async \in BOOLEAN, PortSend(t, p, async)
      PROVE  TypeOK'
  <2>1. PICK m \in Free, d \in Listed \cup {Ext} :
          /\ IF d = Ext
             THEN /\ msg' = [msg EXCEPT ![m] = [Command(p, d) EXCEPT !.st = "held"]]
                  /\ UNCHANGED <<queue, sig>>
             ELSE /\ msg' = [msg EXCEPT ![m] = Command(p, d)]
                  /\ PutMsg(queue, d, m)
          /\ IF async THEN UNCHANGED callVars ELSE Enter(t, "send", p, "port", m)
    BY <1>3 DEF PortSend
  <2>2. m \in Messages /\ d \in Parties
    BY DEF Free, Listed, Parties
  <2>3. Command(p, d) \in MsgRecord
    BY <2>2 DEF Command, MsgRecord, MsgStates, Parties, Kinds
  <2>4. [Command(p, d) EXCEPT !.st = "held"] \in MsgRecord
    BY <2>3, RecordState DEF MsgStates
  <2>5. CallOK'
    <3>1. CASE async
      BY <2>1, <3>1, SameCallOK
    <3>2. CASE ~async
      <4>1. Enter(t, "send", p, "port", m) /\ Owner[p] = t
        BY <1>3, <2>1, <3>2 DEF PortSend
      <4> QED
        BY <2>2, <4>1, EnterCallOK DEF Calls, Places
    <3> QED
      BY <3>1, <3>2
  <2>6. /\ msg' \in [Messages -> MsgRecord]
        /\ queue' \in [Ports -> Seq(Messages)]
        /\ sig' \in [Ports -> BOOLEAN]
    <3>1. CASE d = Ext
      BY <2>1, <2>2, <2>4, <3>1 DEF TypeOK
    <3>2. CASE d # Ext
      <4>1. msg' = [msg EXCEPT ![m] = Command(p, d)] /\ PutMsg(queue, d, m)
        BY <2>1, <3>2
      <4>2. msg' \in [Messages -> MsgRecord]
        BY <2>3, <4>1 DEF TypeOK
      <4> QED
        BY <2>2, <3>2, <4>1, <4>2 DEF TypeOK, PutMsg, Parties
    <3> QED
      BY <3>1, <3>2
  <2>7. replies' = [replies EXCEPT ![p] = @ + 1] /\ UNCHANGED <<status, ctrlC>>
    BY <1>3 DEF PortSend
  <2> QED
    BY <2>5, <2>6, <2>7 DEF TypeOK
<1>4. CASE PortGetMsg(t, p)
  <2>1. CallOK'
    BY <1>4, EnterCallOK DEF PortGetMsg, Calls, Places
  <2> QED
    BY <1>4, <2>1 DEF TypeOK, PortGetMsg
<1>5. CASE PortWait(t, p)
  <2>1. CallOK'
    BY <1>5, EnterCallOK DEF PortWait, Calls, Places
  <2> QED
    BY <1>5, <2>1 DEF TypeOK, PortWait
<1>6. CASE PortClose(t, p)
  <2>1. CallOK'
    BY <1>6, EnterCallOK DEF PortClose, Calls, Places
  <2> QED
    BY <1>6, <2>1 DEF TypeOK, PortClose
<1> QED
  BY <1>1, <1>2, <1>3, <1>4, <1>5, <1>6 DEF Program

LEMMA TypeInCall ==
  ASSUME TypeOK, NEW t \in Tasks, InCall(t)
  PROVE  TypeOK'
<1>1. CASE WaitPort(t)
  <2>1. CallOK'
    <3>1. at[t] # "start" /\ \E place \in {"sleep", "get"} : Goto(t, place)
      BY <1>1 DEF WaitPort
    <3> QED
      BY <3>1, GotoCallOK DEF Places
  <2> QED
    BY <1>1, <2>1 DEF TypeOK, WaitPort
<1>2. CASE Woken(t)
  <2>1. CallOK'
    BY <1>2, GotoCallOK DEF Woken, Places
  <2> QED
    BY <1>2, <2>1 DEF TypeOK, Woken
<1>3. CASE SendGet(t)
  <2> DEFINE p == cur[t]  m == Head(queue[p])
  <2>1. p \in Ports
    BY <1>3, CurIsPort DEF SendGet
  <2>2. at[t] = "get" /\ status' = status /\ ctrlC' = ctrlC
    BY <1>3 DEF SendGet
  <2>3. CASE queue[p] = <<>>
    <3>1. UNCHANGED <<msg, queue, sig, replies>> /\ (Return(t) \/ Goto(t, "port"))
      BY <1>3, <2>3 DEF SendGet
    <3>2. CallOK'
      BY <2>2, <3>1, ReturnCallOK, GotoCallOK DEF Places
    <3> QED
      BY <2>2, <3>1, <3>2 DEF TypeOK
  <2>4. CASE queue[p] # <<>> /\ msg[m].st = "replied"
    <3>1. /\ TakeBack(p, m)
          /\ awaited' = [awaited EXCEPT ![t] = StillAwaited(t, m)]
          /\ UNCHANGED <<call, at, cur>>
      BY <1>3, <2>4 DEF SendGet
    <3>2. StillAwaited(t, m) \in Messages \cup {NoMsg}
      BY DEF TypeOK, CallOK, StillAwaited
    <3>3. CallOK'
      BY <3>1, <3>2 DEF TypeOK, CallOK
    <3> QED
      BY <2>1, <2>2, <2>4, <3>1, <3>3, TakeBackType DEF TypeOK
  <2>5. CASE queue[p] # <<>> /\ msg[m].st = "sent"
    <3>1. /\ Forget(p, m) \/ ReplyMsg(WithoutHead(p), m)
          /\ UNCHANGED <<replies, callVars>>
      BY <1>3, <2>5 DEF SendGet
    <3>2. /\ msg' \in [Messages -> MsgRecord]
          /\ queue' \in [Ports -> Seq(Messages)]
          /\ sig' \in [Ports -> BOOLEAN]
      <4>1. CASE Forget(p, m)
        BY <2>1, <2>5, <4>1, ForgetType DEF TypeOK
      <4>2. CASE ReplyMsg(WithoutHead(p), m)
        BY <2>1, <2>5, <4>2, WithoutHeadType, ReplyMsgType
      <4> QED
        BY <3>1, <4>1, <4>2
    <3>3. CallOK'
      BY <3>1, SameCallOK
    <3> QED
      BY <2>2, <3>1, <3>2, <3>3 DEF TypeOK
  <2> QED
    BY <1>3, <2>3, <2>4, <2>5 DEF SendGet
<1>4. CASE GetARexxMsg(t)
  <2> DEFINE p == cur[t]  m == Head(queue[p])
  <2>1. p \in Ports
    BY <1>4, CurIsPort DEF GetARexxMsg
  <2>2. status' = status /\ ctrlC' = ctrlC
    BY <1>4 DEF GetARexxMsg
  <2>3. CASE queue[p] = <<>>
    <3>1. UNCHANGED <<msg, queue, sig, replies>> /\ Return(t)
      BY <1>4, <2>3 DEF GetARexxMsg
    <3>2. CallOK'
      BY <3>1, ReturnCallOK
    <3> QED
      BY <2>2, <3>1, <3>2 DEF TypeOK
  <2>4. CASE queue[p] # <<>> /\ msg[m].st = "replied"
    <3>1. TakeBack(p, m) /\ UNCHANGED callVars
      BY <1>4, <2>4 DEF GetARexxMsg
    <3>2. CallOK'
      BY <3>1, SameCallOK
    <3> QED
      BY <2>1, <2>2, <2>4, <3>1, <3>2, TakeBackType DEF TypeOK
  <2>5. CASE queue[p] # <<>> /\ msg[m].st = "sent"
    <3>1. /\ \/ NewMsgObject(p, m) /\ Return(t)
             \/ ReplyMsg(WithoutHead(p), m) /\ UNCHANGED callVars
          /\ UNCHANGED replies
      BY <1>4, <2>5 DEF GetARexxMsg
    <3>2. /\ msg' \in [Messages -> MsgRecord]
          /\ queue' \in [Ports -> Seq(Messages)]
          /\ sig' \in [Ports -> BOOLEAN]
      <4>1. CASE NewMsgObject(p, m)
        BY <2>1, <2>5, <4>1, NewMsgObjectType DEF TypeOK
      <4>2. CASE ReplyMsg(WithoutHead(p), m)
        BY <2>1, <2>5, <4>2, WithoutHeadType, ReplyMsgType
      <4> QED
        BY <3>1, <4>1, <4>2
    <3>3. CallOK'
      BY <3>1, SameCallOK, ReturnCallOK
    <3> QED
      BY <2>2, <3>1, <3>2, <3>3 DEF TypeOK
  <2> QED
    BY <1>4, <2>3, <2>4, <2>5 DEF GetARexxMsg
<1>5. CASE WaitReturns(t)
  <2>1. CallOK'
    BY <1>5, ReturnCallOK DEF WaitReturns
  <2> QED
    BY <1>5, <2>1 DEF TypeOK, WaitReturns
<1>6. CASE CloseGet(t)
  <2> DEFINE p == cur[t]  m == Head(queue[p])
  <2>1. p \in Ports
    BY <1>6, CurIsPort DEF CloseGet
  <2>2. at[t] = "get" /\ status' = status /\ ctrlC' = ctrlC
    BY <1>6 DEF CloseGet
  <2>3. CASE queue[p] = <<>>
    <3>1. UNCHANGED <<msg, queue, sig, replies>> /\ \E place \in {"flush", "port"} : Goto(t, place)
      BY <1>6, <2>3 DEF CloseGet
    <3>2. CallOK'
      BY <2>2, <3>1, GotoCallOK DEF Places
    <3> QED
      BY <2>2, <3>1, <3>2 DEF TypeOK
  <2>4. CASE queue[p] # <<>> /\ msg[m].st = "replied"
    <3>1. TakeBack(p, m) /\ UNCHANGED callVars
      BY <1>6, <2>4 DEF CloseGet
    <3>2. CallOK'
      BY <3>1, SameCallOK
    <3> QED
      BY <2>1, <2>2, <2>4, <3>1, <3>2, TakeBackType DEF TypeOK
  <2>5. CASE queue[p] # <<>> /\ msg[m].st = "sent"
    <3>1. ReplyMsg(WithoutHead(p), m) /\ UNCHANGED <<replies, callVars>>
      BY <1>6, <2>5 DEF CloseGet
    <3>2. CallOK'
      BY <3>1, SameCallOK
    <3>3. /\ msg' \in [Messages -> MsgRecord]
          /\ queue' \in [Ports -> Seq(Messages)]
          /\ sig' \in [Ports -> BOOLEAN]
      BY <2>1, <2>5, <3>1, WithoutHeadType, ReplyMsgType
    <3> QED
      BY <2>2, <3>1, <3>2, <3>3 DEF TypeOK
  <2> QED
    BY <1>6, <2>3, <2>4, <2>5 DEF CloseGet
<1>7. CASE CloseFlush(t)
  <2> DEFINE p == cur[t]  m == Head(queue[p])
  <2>1. p \in Ports
    BY <1>7, CurIsPort DEF CloseFlush
  <2>2. at[t] = "flush" /\ UNCHANGED <<status, replies, ctrlC>>
    BY <1>7 DEF CloseFlush
  <2>3. CASE queue[p] = <<>>
    <3>1. UNCHANGED <<msg, queue, sig>> /\ Goto(t, "delete")
      BY <1>7, <2>3 DEF CloseFlush
    <3>2. CallOK'
      BY <2>2, <3>1, GotoCallOK DEF Places
    <3> QED
      BY <2>2, <3>1, <3>2 DEF TypeOK
  <2>4. CASE queue[p] # <<>>
    <3>1. ReplyMsg(WithoutHead(p), m) /\ UNCHANGED callVars
      BY <1>7, <2>4 DEF CloseFlush
    <3>2. CallOK'
      BY <3>1, SameCallOK
    <3>3. /\ msg' \in [Messages -> MsgRecord]
          /\ queue' \in [Ports -> Seq(Messages)]
          /\ sig' \in [Ports -> BOOLEAN]
      BY <2>1, <2>4, <3>1, WithoutHeadType, ReplyMsgType
    <3> QED
      BY <2>2, <3>2, <3>3 DEF TypeOK
  <2> QED
    BY <2>3, <2>4
<1>8. CASE DeletePort(t)
  <2>1. CallOK'
    BY <1>8, ReturnCallOK DEF DeletePort
  <2> QED
    BY <1>8, <2>1 DEF TypeOK, DeletePort
<1> QED
  BY <1>1, <1>2, <1>3, <1>4, <1>5, <1>6, <1>7, <1>8 DEF InCall

LEMMA TypeNext == TypeOK /\ [Next]_vars => TypeOK'
<1> SUFFICES ASSUME TypeOK, [Next]_vars PROVE TypeOK'
  OBVIOUS
<1>1. ASSUME NEW t \in Tasks, NEW m \in Messages, MsgReply(t, m)
      PROVE  TypeOK'
  <2>1. CallOK'
    BY <1>1, SameCallOK DEF MsgReply
  <2>2. ReplyMsg(queue, m)
    BY <1>1 DEF MsgReply
  <2>3. queue \in [Ports -> Seq(Messages)]
    BY DEF TypeOK
  <2> QED
    BY <1>1, <2>1, <2>2, <2>3, ReplyMsgType DEF TypeOK, MsgReply
<1>2. ASSUME NEW m \in Messages, ExtReply(m)
      PROVE  TypeOK'
  <2>1. CallOK'
    BY <1>2, SameCallOK DEF ExtReply
  <2>2. ReplyMsg(queue, m)
    BY <1>2 DEF ExtReply
  <2>3. queue \in [Ports -> Seq(Messages)]
    BY DEF TypeOK
  <2> QED
    BY <1>2, <2>1, <2>2, <2>3, ReplyMsgType DEF TypeOK, ExtReply
<1>3. CASE ExtSend
  <2>1. CallOK'
    BY <1>3, SameCallOK DEF ExtSend
  <2>2. PICK m \in Free, p \in Listed, k \in Kinds :
          /\ msg' = [msg EXCEPT ![m] =
                       [st |-> "sent", from |-> Ext, dest |-> p, kind |-> k]]
          /\ PutMsg(queue, p, m)
    BY <1>3 DEF ExtSend
  <2>3. m \in Messages /\ p \in Ports
    BY DEF Free, Listed
  <2>4. [st |-> "sent", from |-> Ext, dest |-> p, kind |-> k] \in MsgRecord
    BY <2>3 DEF MsgRecord, MsgStates, Parties
  <2>5. msg' \in [Messages -> MsgRecord]
    BY <2>2, <2>4 DEF TypeOK
  <2>6. queue' \in [Ports -> Seq(Messages)] /\ sig' \in [Ports -> BOOLEAN]
    BY <2>2, <2>3 DEF TypeOK, PutMsg
  <2>7. UNCHANGED <<status, replies, ctrlC>>
    BY <1>3 DEF ExtSend
  <2> QED
    BY <2>1, <2>5, <2>6, <2>7 DEF TypeOK
<1>4. ASSUME NEW t \in Tasks, Break(t)
      PROVE  TypeOK'
  <2>1. CallOK'
    BY <1>4, SameCallOK DEF Break
  <2> QED
    BY <1>4, <2>1 DEF TypeOK, Break
<1>5. CASE UNCHANGED vars
  BY <1>5 DEF vars, callVars, TypeOK, CallOK
<1> QED
  BY <1>1, <1>2, <1>3, <1>4, <1>5, TypeProgram, TypeInCall DEF Next

\* Whatever the tasks, ports and messages, every variable keeps its type.
THEOREM TypeCorrect == Spec => []TypeOK
BY TypeInit, TypeNext, PTL DEF Spec

-----------------------------------------------------------------------------
(* Queues.  Match(qs, R) says that R relates a message to the port whose queue *)
(* in qs it lies on; taking the head of a queue and appending to one keep it.  *)

LEMMA TailOnce ==
  ASSUME NEW s \in Seq(Messages), s # <<>>, Once(s)
  PROVE  /\ Once(Tail(s))
         /\ \A m \in Messages : Lies(m, Tail(s)) <=> Lies(m, s) /\ m # Head(s)
<1>1. /\ Len(s) \in Nat \ {0} /\ Len(Tail(s)) = Len(s) - 1
      /\ \A i \in 1..Len(Tail(s)) : Tail(s)[i] = s[i + 1]
      /\ Head(s) = s[1]
  OBVIOUS
<1>2. Once(Tail(s))
  <2> SUFFICES ASSUME NEW i \in 1..Len(Tail(s)), NEW j \in 1..Len(Tail(s)),
                      Tail(s)[i] = Tail(s)[j]
               PROVE  i = j
    BY DEF Once
  <2>1. i + 1 \in 1..Len(s) /\ j + 1 \in 1..Len(s) /\ s[i + 1] = s[j + 1]
    BY <1>1
  <2> QED
    BY <2>1 DEF Once
<1>3. ASSUME NEW m \in Messages, Lies(m, Tail(s))
      PROVE  Lies(m, s) /\ m # Head(s)
  <2>1. PICK i \in 1..Len(Tail(s)) : Tail(s)[i] = m
    BY <1>3 DEF Lies
  <2>2. i + 1 \in 1..Len(s) /\ s[i + 1] = m /\ i + 1 # 1 /\ 1 \in 1..Len(s)
    BY <1>1, <2>1
  <2> QED
    BY <1>1, <2>2 DEF Lies, Once
<1>4. ASSUME NEW m \in Messages, Lies(m, s), m # Head(s)
      PROVE  Lies(m, Tail(s))
  <2>1. PICK i \in 1..Len(s) : s[i] = m
    BY <1>4 DEF Lies
  <2>2. i - 1 \in 1..Len(Tail(s)) /\ Tail(s)[i - 1] = m
    BY <1>1, <1>4, <2>1
  <2> QED
    BY <2>2 DEF Lies
<1> QED
  BY <1>2, <1>3, <1>4

LEMMA AppendOnce ==
  ASSUME NEW s \in Seq(Messages), Once(s), NEW n \in Messages, ~Lies(n, s)
  PROVE  /\ Once(Append(s, n))
         /\ \A m \in Messages : Lies(m, Append(s, n)) <=> Lies(m, s) \/ m = n
<1> DEFINE a == Append(s, n)
<1>1. /\ Len(s) \in Nat /\ Len(a) = Len(s) + 1
      /\ \A i \in 1..Len(s) : a[i] = s[i]
      /\ a[Len(s) + 1] = n
  OBVIOUS
<1> HIDE DEF a
<1>2. Once(a)
  <2> SUFFICES ASSUME NEW i \in 1..Len(a), NEW j \in 1..Len(a), a[i] = a[j]
               PROVE  i = j
    BY DEF Once
  <2>1. CASE i \in 1..Len(s) /\ j \in 1..Len(s)
    BY <1>1, <2>1 DEF Once
  <2>2. CASE i = Len(s) + 1 /\ j \in 1..Len(s)
    BY <1>1, <2>2 DEF Lies
  <2>3. CASE i \in 1..Len(s) /\ j = Len(s) + 1
    BY <1>1, <2>3 DEF Lies
  <2>4. CASE i = Len(s) + 1 /\ j = Len(s) + 1
    BY <2>4
  <2> QED
    BY <1>1, <2>1, <2>2, <2>3, <2>4
<1>3. ASSUME NEW m \in Messages, Lies(m, a)
      PROVE  Lies(m, s) \/ m = n
  <2>1. PICK i \in 1..Len(a) : a[i] = m
    BY <1>3 DEF Lies
  <2> QED
    BY <1>1, <2>1 DEF Lies
<1>4. ASSUME NEW m \in Messages, Lies(m, s) \/ m = n
      PROVE  Lies(m, a)
  BY <1>1, <1>4 DEF Lies
<1> QED
  BY <1>2, <1>3, <1>4 DEF a

Match(qs, R) ==
  \A p \in Ports :
    /\ Once(qs[p])
    /\ \A m \in Messages : <<m, p>> \in R <=> Lies(m, qs[p])
On == {r \in Messages \X Ports : OnQueue(r[1], r[2])}

LEMMA MatchTake ==
  ASSUME NEW qs \in [Ports -> Seq(Messages)], NEW R, Match(qs, R),
         NEW p \in Ports, qs[p] # <<>>
  PROVE  Match([qs EXCEPT ![p] = Tail(@)], R \ {<<Head(qs[p]), p>>})
<1> DEFINE after == [qs EXCEPT ![p] = Tail(@)]
<1> SUFFICES ASSUME NEW q \in Ports
             PROVE  /\ Once(after[q])
                    /\ \A m \in Messages :
                         <<m, q>> \in R \ {<<Head(qs[p]), p>>} <=> Lies(m, after[q])
  BY DEF Match
<1>1. /\ Once(qs[q])
      /\ \A m \in Messages : <<m, q>> \in R <=> Lies(m, qs[q])
  BY DEF Match
<1>2. CASE q = p
  <2>1. after[q] = Tail(qs[p])
    BY <1>2
  <2>2. /\ Once(Tail(qs[p]))
        /\ \A m \in Messages : Lies(m, Tail(qs[p])) <=> Lies(m, qs[p]) /\ m # Head(qs[p])
    BY <1>1, <1>2, TailOnce
  <2> QED
    BY <1>1, <1>2, <2>1, <2>2
<1>3. CASE q # p
  BY <1>1, <1>3
<1> QED
  BY <1>2, <1>3

LEMMA MatchPut ==
  ASSUME NEW qs \in [Ports -> Seq(Messages)], NEW R, Match(qs, R),
         NEW p \in Ports, NEW n \in Messages, <<n, p>> \notin R
  PROVE  Match([qs EXCEPT ![p] = Append(@, n)], R \cup {<<n, p>>})
<1> DEFINE after == [qs EXCEPT ![p] = Append(@, n)]
<1> SUFFICES ASSUME NEW q \in Ports
             PROVE  /\ Once(after[q])
                    /\ \A m \in Messages :
                         <<m, q>> \in R \cup {<<n, p>>} <=> Lies(m, after[q])
  BY DEF Match
<1>1. /\ Once(qs[q])
      /\ \A m \in Messages : <<m, q>> \in R <=> Lies(m, qs[q])
  BY DEF Match
<1>2. CASE q = p
  <2>1. after[q] = Append(qs[p], n)
    BY <1>2
  <2>2. /\ Once(Append(qs[p], n))
        /\ \A m \in Messages : Lies(m, Append(qs[p], n)) <=> Lies(m, qs[p]) \/ m = n
    BY <1>1, <1>2, AppendOnce
  <2> QED
    BY <1>1, <1>2, <2>1, <2>2
<1>3. CASE q # p
  BY <1>1, <1>3
<1> QED
  BY <1>2, <1>3

LEMMA QueuesAreMatch == QueuesMatchMessages <=> Match(queue, On)
BY DEF QueuesMatchMessages, Match, On

-----------------------------------------------------------------------------
(* What the operations on one message do to the queues and to the messages a  *)
(* port has outstanding.                                                       *)

\* Only message m changes, and it becomes r.
Becomes(m, r) ==
  /\ msg'[m] = r
  /\ \A n \in Messages \ {m} : msg'[n] = msg[n]

LEMMA NewRecord ==
  ASSUME TypeOK, NEW m \in Messages, NEW r, msg' = [msg EXCEPT ![m] = r]
  PROVE  Becomes(m, r)
BY DEF TypeOK, Becomes

LEMMA NewState ==
  ASSUME TypeOK, NEW m \in Messages, NEW s \in MsgStates,
         msg' = [msg EXCEPT ![m].st = s]
  PROVE  /\ Becomes(m, [msg[m] EXCEPT !.st = s])
         /\ msg'[m].st = s
         /\ msg'[m].from = msg[m].from
         /\ msg'[m].dest = msg[m].dest
         /\ msg'[m].kind = msg[m].kind
<1>1. Becomes(m, [msg[m] EXCEPT !.st = s])
  BY DEF TypeOK, Becomes
<1>2. msg[m] \in MsgRecord
  BY DEF TypeOK
<1> QED
  BY <1>1, <1>2 DEF Becomes, MsgRecord

LEMMA HeadOnQueue ==
  ASSUME TypeOK, QueuesMatchMessages, NEW p \in Ports, queue[p] # <<>>
  PROVE  /\ Head(queue[p]) \in Messages
         /\ OnQueue(Head(queue[p]), p)
<1>1. queue[p] \in Seq(Messages)
  BY DEF TypeOK
<1>2. 1 \in 1..Len(queue[p]) /\ Head(queue[p]) = queue[p][1] /\ Head(queue[p]) \in Messages
  BY <1>1
<1> QED
  BY <1>2 DEF QueuesMatchMessages, Lies

\* A message of which only one changes keeps the others where they are.
LEMMA OthersStay ==
  ASSUME NEW m \in Messages, NEW r, Becomes(m, r),
         NEW n \in Messages, n # m, NEW q \in Ports
  PROVE  /\ OnQueue(n, q)' <=> OnQueue(n, q)
         /\ n \in Outstanding(q)' <=> n \in Outstanding(q)
BY DEF Becomes, OnQueue, Outstanding

\* A change of one message that neither was nor is on a queue.
LEMMA OffQueue ==
  ASSUME TypeOK, QueuesMatchMessages, NEW m \in Messages, NEW r, Becomes(m, r),
         msg[m].st \notin {"sent", "replied"}, r.st \notin {"sent", "replied"},
         queue' = queue
  PROVE  QueuesMatchMessages'
<1>1. \A n \in Messages, q \in Ports : OnQueue(n, q)' <=> OnQueue(n, q)
  BY OthersStay DEF OnQueue, Becomes
<1> QED
  BY <1>1 DEF QueuesMatchMessages

\* A message that was on no queue is put on the port it now belongs to.
LEMMA PutOnQueue ==
  ASSUME TypeOK, QueuesMatchMessages, NEW m \in Messages, NEW r, Becomes(m, r),
         msg[m].st \notin {"sent", "replied"}, NEW d \in Ports,
         \A q \in Ports : OnQueue(m, q)' <=> q = d,
         queue' = [queue EXCEPT ![d] = Append(@, m)]
  PROVE  QueuesMatchMessages'
<1>1. Match(queue, On)
  BY QueuesAreMatch
<1>2. <<m, d>> \notin On
  BY DEF On, OnQueue
<1>3. queue \in [Ports -> Seq(Messages)]
  BY DEF TypeOK
<1>4. Match(queue', On \cup {<<m, d>>})
  BY <1>1, <1>2, <1>3, MatchPut
<1>5. \A n \in Messages, q \in Ports :
        OnQueue(n, q)' <=> <<n, q>> \in On \cup {<<m, d>>}
  BY OthersStay DEF On, OnQueue
<1> QED
  BY <1>4, <1>5 DEF Match, QueuesMatchMessages

\* The head of a queue is taken off and is on no queue afterwards.
LEMMA TakeOffQueue ==
  ASSUME TypeOK, QueuesMatchMessages, NEW p \in Ports, queue[p] # <<>>,
         NEW m \in Messages, m = Head(queue[p]),
         NEW r, Becomes(m, r), r.st \notin {"sent", "replied"},
         queue' = WithoutHead(p)
  PROVE  QueuesMatchMessages'
<1>1. Match(queue, On)
  BY QueuesAreMatch
<1>2. m \in Messages /\ OnQueue(m, p)
  BY HeadOnQueue
<1>3. queue \in [Ports -> Seq(Messages)]
  BY DEF TypeOK
<1>4. Match(queue', On \ {<<m, p>>})
  BY <1>1, <1>3, MatchTake DEF WithoutHead
<1>5. \A q \in Ports : OnQueue(m, q) <=> q = p
  BY <1>2 DEF OnQueue
<1>6. \A q \in Ports : ~OnQueue(m, q)'
  BY DEF OnQueue, Becomes
<1>7. \A n \in Messages, q \in Ports :
        OnQueue(n, q)' <=> <<n, q>> \in On \ {<<m, p>>}
  BY <1>2, <1>5, <1>6, OthersStay DEF On
<1> QED
  BY <1>4, <1>7 DEF Match, QueuesMatchMessages

\* The head of a queue moves to the end of a queue.
LEMMA MoveHead ==
  ASSUME TypeOK, QueuesMatchMessages, NEW p \in Ports, queue[p] # <<>>,
         NEW m \in Messages, m = Head(queue[p]),
         NEW r, Becomes(m, r), NEW d \in Ports,
         \A q \in Ports : OnQueue(m, q)' <=> q = d,
         queue' = [WithoutHead(p) EXCEPT ![d] = Append(@, m)]
  PROVE  QueuesMatchMessages'
<1> DEFINE R == On \ {<<m, p>>}
<1>1. Match(queue, On)
  BY QueuesAreMatch
<1>2. m \in Messages /\ OnQueue(m, p)
  BY HeadOnQueue
<1>3. queue \in [Ports -> Seq(Messages)] /\ WithoutHead(p) \in [Ports -> Seq(Messages)]
  BY WithoutHeadType DEF TypeOK
<1>4. Match(WithoutHead(p), R)
  BY <1>1, <1>3, MatchTake DEF WithoutHead
<1>5. \A q \in Ports : OnQueue(m, q) <=> q = p
  BY <1>2 DEF OnQueue
<1>6. <<m, d>> \notin R
  BY <1>5 DEF On
<1> HIDE DEF R
<1>7. Match([WithoutHead(p) EXCEPT ![d] = Append(@, m)], R \cup {<<m, d>>})
  BY <1>2, <1>3, <1>4, <1>6, MatchPut
<1>8. \A n \in Messages, q \in Ports :
        OnQueue(n, q)' <=> <<n, q>> \in R \cup {<<m, d>>}
  BY <1>2, <1>5, OthersStay DEF On, R
<1> QED
  BY <1>7, <1>8 DEF Match, QueuesMatchMessages

SameOutstanding == \A q \in Ports : Outstanding(q)' = Outstanding(q)

\* No message is put on a port but those that come back to it.
NothingSent == \A n \in Messages : msg'[n].st = "sent" => msg'[n] = msg[n]

LEMMA NotSent ==
  ASSUME NEW m \in Messages, NEW r, Becomes(m, r), msg'[m].st # "sent"
  PROVE  NothingSent
BY DEF Becomes, NothingSent

\* Replying to a message leaves it with its port, and puts it on that port.
LEMMA ReplyHead ==
  ASSUME TypeOK, QueuesMatchMessages, NEW p \in Ports, queue[p] # <<>>,
         NEW m \in Messages, m = Head(queue[p]), msg[m].st = "sent",
         ReplyMsg(WithoutHead(p), m)
  PROVE  QueuesMatchMessages' /\ SameOutstanding /\ NothingSent
<1>1. msg[m].from \in Parties
  BY DEF TypeOK, MsgRecord
<1>2. CASE msg[m].from = Ext
  <2>1. msg' = [msg EXCEPT ![m] = Blank] /\ queue' = WithoutHead(p)
    BY <1>2 DEF ReplyMsg
  <2>2. Becomes(m, Blank)
    BY <2>1, NewRecord
  <2>3. QueuesMatchMessages'
    BY <2>1, <2>2, TakeOffQueue DEF Blank
  <2>4. \A q \in Ports : m \in Outstanding(q)' <=> m \in Outstanding(q)
    BY <1>2, <2>2, PortAssumption DEF Outstanding, Becomes, Blank
  <2>5. \A q \in Ports, n \in Messages : n \in Outstanding(q)' <=> n \in Outstanding(q)
    BY <2>2, <2>4, OthersStay
  <2>6. NothingSent
    BY <2>2, NotSent DEF Becomes, Blank
  <2> QED
    BY <2>3, <2>5, <2>6 DEF SameOutstanding, Outstanding
<1>3. CASE msg[m].from # Ext
  <2> DEFINE d == msg[m].from
  <2>1. /\ msg' = [msg EXCEPT ![m].st = "replied"]
        /\ queue' = [WithoutHead(p) EXCEPT ![msg[m].from] = Append(@, m)]
    BY <1>3 DEF ReplyMsg, PutMsg
  <2>2. /\ Becomes(m, [msg[m] EXCEPT !.st = "replied"])
        /\ msg'[m].st = "replied" /\ msg'[m].from = msg[m].from
    BY <2>1, NewState DEF MsgStates
  <2>3. PICK f \in Ports : f = msg[m].from
    BY <1>1, <1>3 DEF Parties
  <2>4. \A q \in Ports : OnQueue(m, q)' <=> q = f
    BY <2>2, <2>3 DEF OnQueue
  <2>5. QueuesMatchMessages'
    BY <2>1, <2>2, <2>3, <2>4, MoveHead
  <2>6. \A q \in Ports : m \in Outstanding(q)' <=> m \in Outstanding(q)
    BY <2>2 DEF Outstanding
  <2>7. \A q \in Ports, n \in Messages : n \in Outstanding(q)' <=> n \in Outstanding(q)
    BY <2>2, <2>6, OthersStay
  <2>8. NothingSent
    BY <2>2, NotSent
  <2> QED
    BY <2>5, <2>7, <2>8 DEF SameOutstanding, Outstanding
<1> QED
  BY <1>2, <1>3

LEMMA ReplyHeld ==
  ASSUME TypeOK, QueuesMatchMessages, NEW m \in Messages, msg[m].st = "held",
         ReplyMsg(queue, m)
  PROVE  QueuesMatchMessages' /\ SameOutstanding /\ NothingSent
<1>1. msg[m].from \in Parties
  BY DEF TypeOK, MsgRecord
<1>2. CASE msg[m].from = Ext
  <2>1. msg' = [msg EXCEPT ![m] = Blank] /\ queue' = queue
    BY <1>2 DEF ReplyMsg
  <2>2. Becomes(m, Blank)
    BY <2>1, NewRecord
  <2>3. QueuesMatchMessages'
    BY <2>1, <2>2, OffQueue DEF Blank
  <2>4. \A q \in Ports : m \in Outstanding(q)' <=> m \in Outstanding(q)
    BY <1>2, <2>2, PortAssumption DEF Outstanding, Becomes, Blank
  <2>5. \A q \in Ports, n \in Messages : n \in Outstanding(q)' <=> n \in Outstanding(q)
    BY <2>2, <2>4, OthersStay
  <2>6. NothingSent
    BY <2>2, NotSent DEF Becomes, Blank
  <2> QED
    BY <2>3, <2>5, <2>6 DEF SameOutstanding, Outstanding
<1>3. CASE msg[m].from # Ext
  <2>1. /\ msg' = [msg EXCEPT ![m].st = "replied"]
        /\ queue' = [queue EXCEPT ![msg[m].from] = Append(@, m)]
    BY <1>3 DEF ReplyMsg, PutMsg
  <2>2. /\ Becomes(m, [msg[m] EXCEPT !.st = "replied"])
        /\ msg'[m].st = "replied" /\ msg'[m].from = msg[m].from
    BY <2>1, NewState DEF MsgStates
  <2>3. PICK f \in Ports : f = msg[m].from
    BY <1>1, <1>3 DEF Parties
  <2>4. \A q \in Ports : OnQueue(m, q)' <=> q = f
    BY <2>2, <2>3 DEF OnQueue
  <2>5. QueuesMatchMessages'
    BY <2>1, <2>2, <2>3, <2>4, PutOnQueue
  <2>6. \A q \in Ports : m \in Outstanding(q)' <=> m \in Outstanding(q)
    BY <2>2 DEF Outstanding
  <2>7. \A q \in Ports, n \in Messages : n \in Outstanding(q)' <=> n \in Outstanding(q)
    BY <2>2, <2>6, OthersStay
  <2>8. NothingSent
    BY <2>2, NotSent
  <2> QED
    BY <2>5, <2>7, <2>8 DEF SameOutstanding, Outstanding
<1> QED
  BY <1>2, <1>3

\* Deleting a reply: the port has one message less outstanding.
LEMMA TakeBackEffect ==
  ASSUME TypeOK, QueuesMatchMessages, NEW p \in Ports, queue[p] # <<>>,
         NEW m \in Messages, m = Head(queue[p]), msg[m].st = "replied",
         TakeBack(p, m)
  PROVE  /\ QueuesMatchMessages'
         /\ m \in Outstanding(p)
         /\ Outstanding(p)' = Outstanding(p) \ {m}
         /\ \A q \in Ports \ {p} : Outstanding(q)' = Outstanding(q)
         /\ replies' = [replies EXCEPT ![p] = @ - 1]
         /\ NothingSent
<1>1. msg' = [msg EXCEPT ![m] = Blank] /\ queue' = WithoutHead(p)
  BY DEF TakeBack
<1>2. Becomes(m, Blank)
  BY <1>1, NewRecord
<1>3. QueuesMatchMessages'
  BY <1>1, <1>2, TakeOffQueue DEF Blank
<1>4. msg[m].from = p
  BY HeadOnQueue DEF OnQueue
<1>5. /\ m \in Outstanding(p)
      /\ \A q \in Ports \ {p} : m \notin Outstanding(q)
      /\ \A q \in Ports : m \notin Outstanding(q)'
  BY <1>2, <1>4 DEF Outstanding, Becomes, Blank
<1>6. \A q \in Ports, n \in Messages \ {m} : n \in Outstanding(q)' <=> n \in Outstanding(q)
  BY <1>2, OthersStay
<1>7. \A q \in Ports : Outstanding(q) \subseteq Messages /\ Outstanding(q)' \subseteq Messages
  BY DEF Outstanding
<1>8. Outstanding(p)' = Outstanding(p) \ {m}
  BY <1>5, <1>6, <1>7
<1>9. \A q \in Ports \ {p} : Outstanding(q)' = Outstanding(q)
  <2> SUFFICES ASSUME NEW q \in Ports \ {p} PROVE Outstanding(q)' = Outstanding(q)
    OBVIOUS
  <2>1. \A n \in Messages : n \in Outstanding(q)' <=> n \in Outstanding(q)
    BY <1>5, <1>6
  <2>2. Outstanding(q) \subseteq Messages /\ Outstanding(q)' \subseteq Messages
    BY <1>7
  <2> QED
    BY <2>1, <2>2
<1>10. NothingSent
  BY <1>2, NotSent DEF Becomes, Blank
<1> QED
  BY <1>3, <1>5, <1>8, <1>9, <1>10 DEF TakeBack

\* A message of which only the state changes among those of a message under way.
LEMMA TakeHead ==
  ASSUME TypeOK, QueuesMatchMessages, NEW p \in Ports, queue[p] # <<>>,
         NEW m \in Messages, m = Head(queue[p]), msg[m].st = "sent",
         NEW s \in {"held", "lost"},
         msg' = [msg EXCEPT ![m].st = s], queue' = WithoutHead(p)
  PROVE  QueuesMatchMessages' /\ SameOutstanding /\ NothingSent
<1>1. /\ Becomes(m, [msg[m] EXCEPT !.st = s])
      /\ msg'[m].st = s /\ msg'[m].from = msg[m].from
  BY NewState DEF MsgStates
<1>2. [msg[m] EXCEPT !.st = s].st \notin {"sent", "replied"}
  BY <1>1 DEF Becomes
<1>3. QueuesMatchMessages'
  BY <1>1, <1>2, TakeOffQueue
<1>4. \A q \in Ports : m \in Outstanding(q)' <=> m \in Outstanding(q)
  BY <1>1 DEF Outstanding
<1>5. \A q \in Ports, n \in Messages : n \in Outstanding(q)' <=> n \in Outstanding(q)
  BY <1>1, <1>4, OthersStay
<1>6. NothingSent
  BY <1>1, NotSent
<1> QED
  BY <1>3, <1>5, <1>6 DEF SameOutstanding, Outstanding

LEMMA ForgetEffect ==
  ASSUME TypeOK, QueuesMatchMessages, NEW p \in Ports, queue[p] # <<>>,
         NEW m \in Messages, m = Head(queue[p]), msg[m].st = "sent", Forget(p, m)
  PROVE  QueuesMatchMessages' /\ SameOutstanding /\ NothingSent
BY TakeHead DEF Forget

LEMMA NewMsgObjectEffect ==
  ASSUME TypeOK, QueuesMatchMessages, NEW p \in Ports, queue[p] # <<>>,
         NEW m \in Messages, m = Head(queue[p]), msg[m].st = "sent",
         NewMsgObject(p, m)
  PROVE  QueuesMatchMessages' /\ SameOutstanding /\ NothingSent
BY ForgetEffect, TakeHead DEF NewMsgObject

\* A free message is sent from port p: it is one more that p waits for.
LEMMA SendEffect ==
  ASSUME TypeOK, QueuesMatchMessages, NEW t \in Tasks, NEW p \in Ports,
         NEW async \in BOOLEAN, PortSend(t, p, async)
  PROVE  /\ QueuesMatchMessages'
         /\ \E m \in Messages :
              /\ m \notin Outstanding(p)
              /\ Outstanding(p)' = Outstanding(p) \cup {m}
              /\ \A q \in Ports \ {p} : Outstanding(q)' = Outstanding(q)
              /\ msg'[m].from = p /\ msg'[m].kind = "command"
              /\ async \/ Enter(t, "send", p, "port", m)
         /\ \A n \in Messages :
              msg'[n].st = "sent" => msg'[n] = msg[n] \/ msg'[n].dest \in Listed
         /\ async => UNCHANGED callVars
<1>1. PICK m \in Free, d \in Listed \cup {Ext} :
        /\ IF d = Ext
           THEN /\ msg' = [msg EXCEPT ![m] = [Command(p, d) EXCEPT !.st = "held"]]
                /\ UNCHANGED <<queue, sig>>
           ELSE /\ msg' = [msg EXCEPT ![m] = Command(p, d)]
                /\ PutMsg(queue, d, m)
        /\ IF async THEN UNCHANGED callVars ELSE Enter(t, "send", p, "port", m)
  BY DEF PortSend
<1>2. m \in Messages /\ msg[m].st = "free"
  BY DEF Free
<1> DEFINE s == IF d = Ext THEN "held" ELSE "sent"
           r == [st |-> s, from |-> p, dest |-> d, kind |-> "command"]
<1>3. Becomes(m, r)
  <2>1. CASE d = Ext
    <3>1. [Command(p, d) EXCEPT !.st = "held"] = r
      BY <2>1 DEF Command
    <3>2. msg' = [msg EXCEPT ![m] = [Command(p, d) EXCEPT !.st = "held"]]
      BY <1>1, <2>1
    <3> QED
      BY <1>2, <3>1, <3>2, NewRecord
  <2>2. CASE d # Ext
    <3>1. msg' = [msg EXCEPT ![m] = Command(p, d)]
      BY <1>1, <2>2
    <3>2. Command(p, d) = r
      BY <2>2 DEF Command
    <3> QED
      BY <1>2, <3>1, <3>2, NewRecord
  <2> QED
    BY <2>1, <2>2
<1>4. msg'[m].st = s /\ msg'[m].from = p /\ msg'[m].dest = d /\ msg'[m].kind = "command"
  BY <1>3 DEF Becomes
<1>5. QueuesMatchMessages'
  <2>1. CASE d = Ext
    <3>1. queue' = queue
      BY <1>1, <2>1
    <3>2. r.st \notin {"sent", "replied"}
      BY <2>1
    <3> QED
      BY <1>2, <1>3, <3>1, <3>2, OffQueue
  <2>2. CASE d # Ext
    <3>1. d \in Ports /\ queue' = [queue EXCEPT ![d] = Append(@, m)]
      BY <1>1, <2>2 DEF PutMsg, Listed
    <3>2. \A q \in Ports : OnQueue(m, q)' <=> q = d
      BY <1>4, <2>2 DEF OnQueue
    <3> QED
      BY <1>2, <1>3, <3>1, <3>2, PutOnQueue
  <2> QED
    BY <2>1, <2>2
<1>6. /\ \A q \in Ports : m \notin Outstanding(q)
      /\ m \in Outstanding(p)'
      /\ \A q \in Ports \ {p} : m \notin Outstanding(q)'
  BY <1>2, <1>4 DEF Outstanding
<1>7. \A q \in Ports, n \in Messages \ {m} : n \in Outstanding(q)' <=> n \in Outstanding(q)
  BY <1>2, <1>3, OthersStay
<1>8. \A q \in Ports : Outstanding(q) \subseteq Messages /\ Outstanding(q)' \subseteq Messages
  BY DEF Outstanding
<1>9. Outstanding(p)' = Outstanding(p) \cup {m}
  BY <1>2, <1>6, <1>7, <1>8
<1>10. \A q \in Ports \ {p} : Outstanding(q)' = Outstanding(q)
  <2> SUFFICES ASSUME NEW q \in Ports \ {p} PROVE Outstanding(q)' = Outstanding(q)
    OBVIOUS
  <2>1. \A n \in Messages : n \in Outstanding(q)' <=> n \in Outstanding(q)
    BY <1>6, <1>7
  <2>2. Outstanding(q) \subseteq Messages /\ Outstanding(q)' \subseteq Messages
    BY <1>8
  <2> QED
    BY <2>1, <2>2
<1>11. \A n \in Messages : msg'[n].st = "sent" => msg'[n] = msg[n] \/ msg'[n].dest \in Listed
  BY <1>3, <1>4 DEF Becomes
<1> QED
  BY <1>1, <1>2, <1>4, <1>5, <1>6, <1>9, <1>10, <1>11

LEMMA ExtSendEffect ==
  ASSUME TypeOK, QueuesMatchMessages, ExtSend
  PROVE  /\ QueuesMatchMessages' /\ SameOutstanding
         /\ \A n \in Messages :
              msg'[n].st = "sent" => msg'[n] = msg[n] \/ msg'[n].dest \in Listed
<1>1. PICK m \in Free, p \in Listed, k \in Kinds :
        /\ msg' = [msg EXCEPT ![m] =
                     [st |-> "sent", from |-> Ext, dest |-> p, kind |-> k]]
        /\ PutMsg(queue, p, m)
  BY DEF ExtSend
<1> DEFINE r == [st |-> "sent", from |-> Ext, dest |-> p, kind |-> k]
<1>2. m \in Messages /\ msg[m].st = "free" /\ p \in Ports
  BY DEF Free, Listed
<1>3. Becomes(m, r)
  BY <1>1, <1>2, NewRecord
<1>4. msg'[m].st = "sent" /\ msg'[m].from = Ext /\ msg'[m].dest = p
  BY <1>3 DEF Becomes
<1>5. \A q \in Ports : OnQueue(m, q)' <=> q = p
  BY <1>4 DEF OnQueue
<1>6. queue' = [queue EXCEPT ![p] = Append(@, m)]
  BY <1>1 DEF PutMsg
<1>7. QueuesMatchMessages'
  BY <1>2, <1>3, <1>5, <1>6, PutOnQueue
<1>8. \A q \in Ports : m \notin Outstanding(q) /\ m \notin Outstanding(q)'
  BY <1>2, <1>4, PortAssumption DEF Outstanding
<1>9. \A q \in Ports, n \in Messages : n \in Outstanding(q)' <=> n \in Outstanding(q)
  BY <1>2, <1>3, <1>8, OthersStay
<1>10. \A n \in Messages : msg'[n].st = "sent" => msg'[n] = msg[n] \/ msg'[n].dest \in Listed
  BY <1>3, <1>4 DEF Becomes
<1> QED
  BY <1>7, <1>9, <1>10 DEF SameOutstanding, Outstanding

LEMMA LeakEffect ==
  ASSUME TypeOK, QueuesMatchMessages, NEW t \in Tasks, NEW p \in Ports,
         SendNoPort(t, p)
  PROVE  QueuesMatchMessages' /\ SameOutstanding /\ NothingSent
<1>1. PICK m \in Free : msg' = [msg EXCEPT ![m].st = "leaked"]
  BY DEF SendNoPort
<1>2. m \in Messages /\ msg[m].st = "free" /\ queue' = queue
  BY DEF Free, SendNoPort
<1>3. Becomes(m, [msg[m] EXCEPT !.st = "leaked"]) /\ msg'[m].st = "leaked"
  BY <1>1, <1>2, NewState DEF MsgStates
<1>4. [msg[m] EXCEPT !.st = "leaked"].st \notin {"sent", "replied"}
  BY <1>3 DEF Becomes
<1>5. QueuesMatchMessages'
  BY <1>2, <1>3, <1>4, OffQueue
<1>6. \A q \in Ports : m \notin Outstanding(q) /\ m \notin Outstanding(q)'
  BY <1>2, <1>3 DEF Outstanding
<1>7. \A q \in Ports, n \in Messages : n \in Outstanding(q)' <=> n \in Outstanding(q)
  BY <1>2, <1>3, <1>6, OthersStay
<1>8. NothingSent
  BY <1>2, <1>3, NotSent
<1> QED
  BY <1>5, <1>7, <1>8 DEF SameOutstanding, Outstanding

-----------------------------------------------------------------------------
(* The inductive invariant behind the safety properties.  A call is on a port *)
(* that is open, a close on one that is closing; a close that has stopped      *)
(* waiting owes no reply, and one about to delete its port has emptied it.     *)

CallsOnPorts ==
  \A t \in Tasks :
    /\ call[t] \in {"send", "getmsg", "wait"} => Open(cur[t])
    /\ call[t] = "close" => status[cur[t]] = "closing"
    /\ at[t] \in {"flush", "delete"} => call[t] = "close" /\ replies[cur[t]] <= 0
    /\ at[t] = "delete" => queue[cur[t]] = <<>>

PortInv ==
  /\ TypeOK
  /\ QueuesMatchMessages
  /\ CallsOnPorts
  /\ ReplyAccounting
  /\ DeletedPortUnused

\* What a step does to the books of port q.
Ledger(q) ==
  \/ /\ Outstanding(q)' = Outstanding(q)
     /\ \/ replies'[q] = replies[q] /\ (status[q] = "closed" => status'[q] = "closed")
        \/ replies'[q] = 0 /\ status[q] = "closed"
  \/ \E m \in Messages \ Outstanding(q) :
       /\ Outstanding(q)' = Outstanding(q) \cup {m}
       /\ replies'[q] = replies[q] + 1
       /\ Open(q) /\ status'[q] = status[q]
  \/ \E m \in Outstanding(q) :
       /\ Outstanding(q)' = Outstanding(q) \ {m}
       /\ replies'[q] = replies[q] - 1
       /\ status'[q] = status[q]
SentToListed ==
  \A n \in Messages : msg'[n].st = "sent" => msg'[n] = msg[n] \/ msg'[n].dest \in Listed

LEMMA OutstandingFinite ==
  ASSUME NEW p \in Ports
  PROVE  IsFiniteSet(Outstanding(p))
<1>1. Outstanding(p) \subseteq Messages /\ IsFiniteSet(Messages)
  BY PortAssumption DEF Outstanding
<1> QED
  BY <1>1, FS_Subset

LEMMA NothingOwed ==
  ASSUME PortInv, NEW p \in Ports, status[p] # "closed", replies[p] <= 0
  PROVE  Outstanding(p) = {}
<1>1. Cardinality(Outstanding(p)) \in Nat /\ Cardinality(Outstanding(p)) <= 0
  BY OutstandingFinite, FS_CardinalityType DEF PortInv, ReplyAccounting
<1>2. Cardinality(Outstanding(p)) = 0
  BY <1>1
<1> QED
  BY <1>2, OutstandingFinite, FS_EmptySet

LEMMA SameLedger ==
  ASSUME SameOutstanding, UNCHANGED <<replies, status>>
  PROVE  \A q \in Ports : Ledger(q)
BY DEF SameOutstanding, Ledger

LEMMA NothingSentToListed == NothingSent => SentToListed
BY DEF NothingSent, SentToListed

LEMMA SameMessages ==
  ASSUME QueuesMatchMessages, UNCHANGED <<msg, queue>>
  PROVE  QueuesMatchMessages' /\ SameOutstanding /\ NothingSent
BY DEF QueuesMatchMessages, OnQueue, SameOutstanding, Outstanding, NothingSent

\* Deleting a reply is an entry in the ledger of the port.
LEMMA TakeBackLedger ==
  ASSUME PortInv, NEW p \in Ports, queue[p] # <<>>,
         NEW m \in Messages, m = Head(queue[p]), msg[m].st = "replied",
         TakeBack(p, m), UNCHANGED status
  PROVE  QueuesMatchMessages' /\ SentToListed /\ \A q \in Ports : Ledger(q)
<1>1. /\ QueuesMatchMessages'
      /\ m \in Outstanding(p)
      /\ Outstanding(p)' = Outstanding(p) \ {m}
      /\ \A q \in Ports \ {p} : Outstanding(q)' = Outstanding(q)
      /\ replies' = [replies EXCEPT ![p] = @ - 1]
      /\ NothingSent
  BY TakeBackEffect DEF PortInv
<1>2. Ledger(p)
  BY <1>1 DEF Ledger, PortInv, TypeOK
<1>3. \A q \in Ports \ {p} : Ledger(q)
  BY <1>1 DEF Ledger, PortInv, TypeOK
<1> QED
  BY <1>1, <1>2, <1>3, NothingSentToListed

LEMMA StepLedger ==
  ASSUME PortInv, [Next]_vars
  PROVE  QueuesMatchMessages' /\ SentToListed /\ \A q \in Ports : Ledger(q)
<1> USE DEF PortInv
<1>0. ASSUME UNCHANGED <<msg, queue, replies, status>>
      PROVE  QueuesMatchMessages' /\ SentToListed /\ \A q \in Ports : Ledger(q)
  BY <1>0, SameMessages, SameLedger, NothingSentToListed
<1>1. ASSUME NEW t \in Tasks, NEW p \in Ports, Program(t, p)
      PROVE  QueuesMatchMessages' /\ SentToListed /\ \A q \in Ports : Ledger(q)
  <2>1. CASE OpenPort(t, p)
    <3>1. QueuesMatchMessages' /\ SameOutstanding /\ NothingSent
      BY <2>1, SameMessages DEF OpenPort
    <3>2. \A q \in Ports : Ledger(q)
      BY <2>1, <3>1 DEF OpenPort, Ledger, SameOutstanding, TypeOK
    <3> QED
      BY <3>1, <3>2, NothingSentToListed
  <2>2. CASE SendNoPort(t, p)
    <3>1. QueuesMatchMessages' /\ SameOutstanding /\ NothingSent
      BY <2>2, LeakEffect
    <3> QED
      BY <2>2, <3>1, SameLedger, NothingSentToListed DEF SendNoPort
  <2>3. ASSUME NEW async \in BOOLEAN, PortSend(t, p, async)
        PROVE  QueuesMatchMessages' /\ SentToListed /\ \A q \in Ports : Ledger(q)
    <3>1. QueuesMatchMessages' /\ SentToListed
      BY <2>3, SendEffect DEF SentToListed
    <3>2. PICK m \in Messages :
              /\ m \notin Outstanding(p)
              /\ Outstanding(p)' = Outstanding(p) \cup {m}
              /\ \A q \in Ports \ {p} : Outstanding(q)' = Outstanding(q)
      BY <2>3, SendEffect
    <3>3. replies' = [replies EXCEPT ![p] = @ + 1] /\ status' = status /\ Open(p)
      BY <2>3 DEF PortSend
    <3>4. Ledger(p)
      BY <3>2, <3>3 DEF Ledger, TypeOK
    <3>5. \A q \in Ports \ {p} : Ledger(q)
      BY <3>2, <3>3 DEF Ledger, TypeOK
    <3> QED
      BY <3>1, <3>4, <3>5
  <2>4. CASE PortGetMsg(t, p)
    BY <1>0, <2>4 DEF PortGetMsg
  <2>5. CASE PortWait(t, p)
    BY <1>0, <2>5 DEF PortWait
  <2>6. CASE PortClose(t, p)
    <3>1. QueuesMatchMessages' /\ SameOutstanding /\ NothingSent
      BY <2>6, SameMessages DEF PortClose
    <3>2. \A q \in Ports : Ledger(q)
      BY <2>6, <3>1 DEF PortClose, Ledger, SameOutstanding, TypeOK, Open
    <3> QED
      BY <3>1, <3>2, NothingSentToListed
  <2> QED
    BY <1>1, <2>1, <2>2, <2>3, <2>4, <2>5, <2>6 DEF Program
<1>2. ASSUME NEW t \in Tasks, InCall(t)
      PROVE  QueuesMatchMessages' /\ SentToListed /\ \A q \in Ports : Ledger(q)
  <2>1. CASE WaitPort(t)
    BY <1>0, <2>1 DEF WaitPort
  <2>2. CASE Woken(t)
    BY <1>0, <2>2 DEF Woken
  <2>3. CASE WaitReturns(t)
    BY <1>0, <2>3 DEF WaitReturns
  <2>4. CASE DeletePort(t)
    <3>1. QueuesMatchMessages' /\ SameOutstanding /\ NothingSent
      BY <2>4, SameMessages DEF DeletePort
    <3>2. \A q \in Ports : Ledger(q)
      BY <2>4, <3>1 DEF DeletePort, Ledger, SameOutstanding, TypeOK
    <3> QED
      BY <3>1, <3>2, NothingSentToListed
  <2>5. ASSUME SendGet(t) \/ GetARexxMsg(t) \/ CloseGet(t) \/ CloseFlush(t)
        PROVE  QueuesMatchMessages' /\ SentToListed /\ \A q \in Ports : Ledger(q)
    <3>1. PICK p \in Ports : p = cur[t]
      BY <2>5, CurIsPort DEF SendGet, GetARexxMsg, CloseGet, CloseFlush
    <3>2. status' = status
      BY <2>5 DEF SendGet, GetARexxMsg, CloseGet, CloseFlush
    <3>3. CASE queue[p] = <<>>
      BY <1>0, <2>5, <3>1, <3>2, <3>3 DEF SendGet, GetARexxMsg, CloseGet, CloseFlush
    <3>4. CASE queue[p] # <<>>
      <4>1. PICK m \in Messages : m = Head(queue[p])
        BY <3>4, HeadOnQueue
      <4>2. OnQueue(m, p)
        BY <3>4, <4>1, HeadOnQueue
      <4>3. ASSUME TakeBack(p, m), msg[m].st = "replied"
            PROVE  QueuesMatchMessages' /\ SentToListed /\ \A q \in Ports : Ledger(q)
        BY <3>2, <3>4, <4>1, <4>3, TakeBackLedger
      <4>4. ASSUME msg[m].st = "sent", replies' = replies,
                   Forget(p, m) \/ NewMsgObject(p, m) \/ ReplyMsg(WithoutHead(p), m)
            PROVE  QueuesMatchMessages' /\ SentToListed /\ \A q \in Ports : Ledger(q)
        <5>1. QueuesMatchMessages' /\ SameOutstanding /\ NothingSent
          BY <3>4, <4>1, <4>4, ForgetEffect, NewMsgObjectEffect, ReplyHead
        <5> QED
          BY <3>2, <4>4, <5>1, SameLedger, NothingSentToListed
      <4>5. CASE SendGet(t)
        <5>1. \/ msg[m].st = "replied" /\ TakeBack(p, m)
              \/ /\ msg[m].st = "sent" /\ replies' = replies
                 /\ Forget(p, m) \/ ReplyMsg(WithoutHead(p), m)
          BY <3>1, <3>4, <4>1, <4>5 DEF SendGet
        <5> QED
          BY <4>3, <4>4, <5>1
      <4>6. CASE GetARexxMsg(t)
        <5>1. \/ msg[m].st = "replied" /\ TakeBack(p, m)
              \/ /\ msg[m].st = "sent" /\ replies' = replies
                 /\ NewMsgObject(p, m) \/ ReplyMsg(WithoutHead(p), m)
          BY <3>1, <3>4, <4>1, <4>6 DEF GetARexxMsg
        <5> QED
          BY <4>3, <4>4, <5>1
      <4>7. CASE CloseGet(t)
        <5>1. \/ msg[m].st = "replied" /\ TakeBack(p, m)
              \/ /\ msg[m].st = "sent" /\ replies' = replies
                 /\ ReplyMsg(WithoutHead(p), m)
          BY <3>1, <3>4, <4>1, <4>7 DEF CloseGet
        <5> QED
          BY <4>3, <4>4, <5>1
      <4>8. CASE CloseFlush(t)
        <5>1. ReplyMsg(WithoutHead(p), m) /\ replies' = replies
          BY <3>1, <3>4, <4>1, <4>8 DEF CloseFlush
        <5>2. status[p] = "closing" /\ replies[p] <= 0
          BY <3>1, <4>8 DEF CloseFlush, CallsOnPorts
        <5>3. m \notin Outstanding(p)
          BY <5>2, NothingOwed
        <5>4. msg[m].st = "sent"
          BY <4>2, <5>3 DEF OnQueue, Outstanding
        <5> QED
          BY <4>4, <5>1, <5>4
      <4> QED
        BY <2>5, <4>5, <4>6, <4>7, <4>8
    <3> QED
      BY <3>3, <3>4
  <2> QED
    BY <1>2, <2>1, <2>2, <2>3, <2>4, <2>5 DEF InCall
<1>3. ASSUME NEW m \in Messages, msg[m].st = "held", ReplyMsg(queue, m),
             UNCHANGED <<status, replies>>
      PROVE  QueuesMatchMessages' /\ SentToListed /\ \A q \in Ports : Ledger(q)
  BY <1>3, ReplyHeld, SameLedger, NothingSentToListed
<1>4. ASSUME NEW t \in Tasks, NEW m \in Messages, MsgReply(t, m)
      PROVE  QueuesMatchMessages' /\ SentToListed /\ \A q \in Ports : Ledger(q)
  BY <1>3, <1>4 DEF MsgReply, Holds
<1>5. ASSUME NEW m \in Messages, ExtReply(m)
      PROVE  QueuesMatchMessages' /\ SentToListed /\ \A q \in Ports : Ledger(q)
  BY <1>3, <1>5 DEF ExtReply
<1>6. CASE ExtSend
  <2>1. QueuesMatchMessages' /\ SameOutstanding /\ SentToListed
    BY <1>6, ExtSendEffect DEF SentToListed
  <2> QED
    BY <1>6, <2>1, SameLedger DEF ExtSend
<1>7. ASSUME NEW t \in Tasks, Break(t)
      PROVE  QueuesMatchMessages' /\ SentToListed /\ \A q \in Ports : Ledger(q)
  BY <1>0, <1>7 DEF Break
<1>8. CASE UNCHANGED vars
  BY <1>0, <1>8 DEF vars
<1> QED
  BY <1>1, <1>2, <1>4, <1>5, <1>6, <1>7, <1>8 DEF Next

LEMMA AccountingStep ==
  ASSUME PortInv, [Next]_vars
  PROVE  ReplyAccounting'
<1> SUFFICES ASSUME NEW q \in Ports, status'[q] # "closed"
             PROVE  replies'[q] = Cardinality(Outstanding(q)')
  BY DEF ReplyAccounting
<1>1. Ledger(q)
  BY StepLedger
<1>2. /\ status[q] # "closed" => replies[q] = Cardinality(Outstanding(q))
      /\ status[q] = "closed" => Outstanding(q) = {}
  BY DEF PortInv, ReplyAccounting, DeletedPortUnused
<1>3. IsFiniteSet(Outstanding(q)) /\ Cardinality({}) = 0
  BY OutstandingFinite, FS_EmptySet
<1>4. CASE Outstanding(q)' = Outstanding(q)
  BY <1>1, <1>2, <1>3, <1>4 DEF Ledger
<1>5. ASSUME NEW m \in Messages \ Outstanding(q),
             Outstanding(q)' = Outstanding(q) \cup {m},
             replies'[q] = replies[q] + 1, Open(q)
      PROVE  replies'[q] = Cardinality(Outstanding(q)')
  <2>1. Cardinality(Outstanding(q) \cup {m}) = Cardinality(Outstanding(q)) + 1
    BY <1>3, FS_AddElement
  <2>2. replies[q] = Cardinality(Outstanding(q))
    BY <1>2, <1>5 DEF Open
  <2> QED
    BY <1>5, <2>1, <2>2
<1>6. ASSUME NEW m \in Outstanding(q),
             Outstanding(q)' = Outstanding(q) \ {m},
             replies'[q] = replies[q] - 1
      PROVE  replies'[q] = Cardinality(Outstanding(q)')
  <2>1. Cardinality(Outstanding(q) \ {m}) = Cardinality(Outstanding(q)) - 1
    BY <1>3, FS_RemoveElement
  <2>2. replies[q] = Cardinality(Outstanding(q))
    BY <1>2
  <2> QED
    BY <1>6, <2>1, <2>2
<1> QED
  BY <1>1, <1>4, <1>5, <1>6 DEF Ledger

\* A port with nothing on it and nothing to come stays so unless it is open.
LEMMA EmptyStays ==
  ASSUME PortInv, [Next]_vars, NEW p \in Ports, queue[p] = <<>>,
         Outstanding(p) = {}, ~Open(p)
  PROVE  queue'[p] = <<>> /\ Outstanding(p)' = {}
<1>1. QueuesMatchMessages' /\ SentToListed /\ Ledger(p)
  BY StepLedger
<1>2. TypeOK'
  BY TypeNext DEF PortInv
<1>3. Outstanding(p)' = {}
  BY <1>1 DEF Ledger
<1>4. \A m \in Messages : ~OnQueue(m, p)
  BY DEF PortInv, QueuesMatchMessages, Lies
<1>5. \A m \in Messages : ~OnQueue(m, p)'
  <2> SUFFICES ASSUME NEW m \in Messages, OnQueue(m, p)' PROVE FALSE
    OBVIOUS
  <2>1. CASE msg'[m].st = "sent" /\ msg'[m].dest = p
    <3>1. p \notin Listed
      BY DEF Listed, Open
    <3>2. msg'[m] = msg[m]
      BY <1>1, <2>1, <3>1 DEF SentToListed
    <3> QED
      BY <1>4, <2>1, <3>2 DEF OnQueue
  <2>2. CASE msg'[m].st = "replied" /\ msg'[m].from = p
    <3>1. m \in Outstanding(p)'
      BY <2>2 DEF Outstanding
    <3> QED
      BY <1>3, <3>1
  <2> QED
    BY <2>1, <2>2 DEF OnQueue
<1>6. queue'[p] \in Seq(Messages) /\ \A m \in Messages : ~Lies(m, queue'[p])
  BY <1>1, <1>2, <1>5 DEF TypeOK, QueuesMatchMessages
<1>7. ASSUME queue'[p] # <<>> PROVE FALSE
  <2>1. 1 \in 1..Len(queue'[p]) /\ queue'[p][1] \in Messages
    BY <1>6, <1>7
  <2> QED
    BY <1>6, <2>1 DEF Lies
<1> QED
  BY <1>3, <1>7

\* Only its owner opens, closes or deletes a port, or changes its counter.
LEMMA OthersPorts ==
  ASSUME PortInv, NEW u \in Tasks, NEW q \in Ports, Owner[q] # u,
         \/ \E p \in Ports : Program(u, p)
         \/ \E m \in Messages : MsgReply(u, m)
         \/ InCall(u)
  PROVE  status'[q] = status[q] /\ replies'[q] = replies[q]
<1> USE DEF PortInv
<1>1. ASSUME NEW p \in Ports, Program(u, p)
      PROVE  status'[q] = status[q] /\ replies'[q] = replies[q]
  <2>1. Owner[p] = u
    BY <1>1 DEF Program, OpenPort, SendNoPort, PortSend, PortGetMsg, PortWait, PortClose
  <2>2. q # p
    BY <2>1
  <2>3. ASSUME NEW async \in BOOLEAN, PortSend(u, p, async)
        PROVE  status'[q] = status[q] /\ replies'[q] = replies[q]
    <3>1. replies' = [replies EXCEPT ![p] = @ + 1] /\ status' = status
      BY <2>3 DEF PortSend
    <3> QED
      BY <2>2, <3>1 DEF TypeOK
  <2>4. CASE OpenPort(u, p)
    BY <2>2, <2>4 DEF OpenPort, TypeOK
  <2>5. CASE PortClose(u, p)
    BY <2>2, <2>5 DEF PortClose, TypeOK
  <2>6. CASE SendNoPort(u, p) \/ PortGetMsg(u, p) \/ PortWait(u, p)
    BY <2>6 DEF SendNoPort, PortGetMsg, PortWait
  <2> QED
    BY <1>1, <2>3, <2>4, <2>5, <2>6 DEF Program
<1>2. ASSUME NEW m \in Messages, MsgReply(u, m)
      PROVE  status'[q] = status[q] /\ replies'[q] = replies[q]
  BY <1>2 DEF MsgReply
<1>3. CASE InCall(u)
  <2>1. CASE WaitPort(u) \/ Woken(u) \/ WaitReturns(u)
    BY <2>1 DEF WaitPort, Woken, WaitReturns
  <2>2. CASE CloseFlush(u)
    BY <2>2 DEF CloseFlush
  <2>3. CASE SendGet(u) \/ GetARexxMsg(u) \/ CloseGet(u)
    <3>1. cur[u] \in Ports /\ Owner[cur[u]] = u
      BY <2>3, CurIsPort DEF SendGet, GetARexxMsg, CloseGet
    <3>2. \/ replies' = replies
          \/ replies' = [replies EXCEPT ![cur[u]] = @ - 1]
      BY <2>3 DEF SendGet, GetARexxMsg, CloseGet, TakeBack
    <3>3. status' = status
      BY <2>3 DEF SendGet, GetARexxMsg, CloseGet
    <3> QED
      BY <3>1, <3>2, <3>3 DEF TypeOK
  <2>4. CASE DeletePort(u)
    <3>1. cur[u] \in Ports /\ Owner[cur[u]] = u
      BY <2>4, CurIsPort DEF DeletePort
    <3> QED
      BY <2>4, <3>1 DEF DeletePort, TypeOK
  <2> QED
    BY <1>3, <2>1, <2>2, <2>3, <2>4 DEF InCall
<1> QED
  BY <1>1, <1>2, <1>3

\* A task's place in its call is its own.
Stays(t) ==
  /\ call'[t] = call[t] /\ at'[t] = at[t]
  /\ cur'[t] = cur[t] /\ awaited'[t] = awaited[t]

LEMMA SameCalls ==
  ASSUME UNCHANGED callVars, NEW t \in Tasks
  PROVE  Stays(t)
BY DEF callVars, Stays

LEMMA EnterOthers ==
  ASSUME TypeOK, NEW u \in Tasks, NEW c, NEW p, NEW place, NEW m,
         Enter(u, c, p, place, m)
  PROVE  /\ call'[u] = c /\ at'[u] = place /\ cur'[u] = p /\ awaited'[u] = m
         /\ \A t \in Tasks \ {u} : Stays(t)
BY DEF Enter, Stays, TypeOK, CallOK

LEMMA GotoOthers ==
  ASSUME TypeOK, NEW u \in Tasks, NEW place, Goto(u, place)
  PROVE  /\ call'[u] = call[u] /\ at'[u] = place /\ cur'[u] = cur[u]
         /\ awaited'[u] = awaited[u]
         /\ \A t \in Tasks \ {u} : Stays(t)
BY DEF Goto, Stays, TypeOK, CallOK

\* A task other than t takes a step of its own.
Acts(u) ==
  \/ \E p \in Ports : Program(u, p)
  \/ \E m \in Messages : MsgReply(u, m)
  \/ InCall(u)

LEMMA OthersCalls ==
  ASSUME PortInv, NEW u \in Tasks, Acts(u)
  PROVE  \A t \in Tasks \ {u} : Stays(t)
<1> SUFFICES ASSUME NEW t \in Tasks \ {u} PROVE Stays(t)
  OBVIOUS
<1> USE DEF PortInv
<1>1. ASSUME NEW p \in Ports, Program(u, p) PROVE Stays(t)
  <2>1. ASSUME NEW async \in BOOLEAN, PortSend(u, p, async)
        PROVE  Stays(t)
    <3>1. UNCHANGED callVars \/ \E m \in Messages : Enter(u, "send", p, "port", m)
      BY <2>1, SendEffect
    <3> QED
      BY <3>1, SameCalls, EnterOthers
  <2>2. CASE OpenPort(u, p) \/ SendNoPort(u, p)
    BY <2>2, SameCalls DEF OpenPort, SendNoPort
  <2>3. CASE PortGetMsg(u, p) \/ PortWait(u, p) \/ PortClose(u, p)
    BY <2>3, EnterOthers DEF PortGetMsg, PortWait, PortClose
  <2> QED
    BY <1>1, <2>1, <2>2, <2>3 DEF Program
<1>2. ASSUME NEW m \in Messages, MsgReply(u, m) PROVE Stays(t)
  BY <1>2, SameCalls DEF MsgReply
<1>3. CASE InCall(u)
  <2>1. \/ UNCHANGED callVars
        \/ Return(u)
        \/ \E place \in Places : Goto(u, place)
        \/ /\ awaited' = [awaited EXCEPT ![u] = StillAwaited(u, Head(queue[cur[u]]))]
           /\ UNCHANGED <<call, at, cur>>
    BY <1>3 DEF InCall, WaitPort, Woken, SendGet, GetARexxMsg, WaitReturns,
                CloseGet, CloseFlush, DeletePort, Places
  <2>2. CASE /\ awaited' = [awaited EXCEPT ![u] = StillAwaited(u, Head(queue[cur[u]]))]
             /\ UNCHANGED <<call, at, cur>>
    BY <2>2 DEF Stays, TypeOK, CallOK
  <2> QED
    BY <2>1, <2>2, SameCalls, EnterOthers, GotoOthers DEF Return
<1> QED
  BY <1>1, <1>2, <1>3 DEF Acts

CallOnPort(t) ==
  /\ call[t] \in {"send", "getmsg", "wait"} => Open(cur[t])
  /\ call[t] = "close" => status[cur[t]] = "closing"
  /\ at[t] \in {"flush", "delete"} => call[t] = "close" /\ replies[cur[t]] <= 0
  /\ at[t] = "delete" => queue[cur[t]] = <<>>

\* A task that stays where it is, on a port nobody else changes.
LEMMA StaysOnPort ==
  ASSUME PortInv, [Next]_vars, NEW t \in Tasks, Stays(t),
         \A q \in Ports : Owner[q] = t => status'[q] = status[q] /\ replies'[q] = replies[q]
  PROVE  CallOnPort(t)'
<1> USE DEF PortInv
<1>1. CASE call[t] = "idle"
  BY <1>1 DEF Stays, CallOnPort, TypeOK, CallOK
<1>2. CASE call[t] # "idle"
  <2>1. PICK q \in Ports : q = cur[t] /\ Owner[q] = t
    BY <1>2, CurIsPort
  <2>2. status'[q] = status[q] /\ replies'[q] = replies[q]
    BY <2>1
  <2>3. CASE at[t] # "delete"
    BY <2>1, <2>2, <2>3 DEF Stays, CallOnPort, CallsOnPorts, Open
  <2>4. CASE at[t] = "delete"
    <3>1. status[q] = "closing" /\ replies[q] <= 0 /\ queue[q] = <<>>
      BY <2>1, <2>4 DEF CallsOnPorts
    <3>2. queue'[q] = <<>>
      BY <3>1, EmptyStays, NothingOwed DEF Open
    <3> QED
      BY <2>1, <2>2, <2>4, <3>1, <3>2 DEF Stays, CallOnPort, CallsOnPorts
  <2> QED
    BY <2>3, <2>4
<1> QED
  BY <1>1, <1>2

LEMMA CallsStep ==
  ASSUME PortInv, [Next]_vars
  PROVE  CallsOnPorts'
<1> SUFFICES ASSUME NEW t \in Tasks PROVE CallOnPort(t)'
  BY DEF CallsOnPorts, CallOnPort
<1> USE DEF PortInv
<1>1. ASSUME NEW u \in Tasks \ {t}, Acts(u) PROVE CallOnPort(t)'
  <2>1. Stays(t)
    BY <1>1, OthersCalls
  <2>2. \A q \in Ports : Owner[q] = t => status'[q] = status[q] /\ replies'[q] = replies[q]
    BY <1>1, OthersPorts DEF Acts
  <2> QED
    BY <2>1, <2>2, StaysOnPort
<1>2. CASE UNCHANGED <<status, replies, callVars>>
  BY <1>2, SameCalls, StaysOnPort
<1>3. ASSUME NEW p \in Ports, Program(t, p) PROVE CallOnPort(t)'
  <2>1. CASE OpenPort(t, p)
    BY <2>1 DEF OpenPort, Idle, callVars, CallOnPort, TypeOK, CallOK
  <2>2. CASE SendNoPort(t, p)
    BY <1>2, <2>2 DEF SendNoPort
  <2>3. ASSUME NEW async \in BOOLEAN, PortSend(t, p, async)
        PROVE  CallOnPort(t)'
    <3>1. Open(p) /\ Idle(t) /\ status' = status
      BY <2>3 DEF PortSend
    <3>2. UNCHANGED callVars \/ \E m \in Messages : Enter(t, "send", p, "port", m)
      BY <2>3, SendEffect
    <3>3. CASE UNCHANGED callVars
      BY <3>1, <3>3 DEF Idle, callVars, CallOnPort, TypeOK, CallOK
    <3>4. CASE \E m \in Messages : Enter(t, "send", p, "port", m)
      BY <3>1, <3>4, EnterOthers DEF CallOnPort, Open
    <3> QED
      BY <3>2, <3>3, <3>4
  <2>4. CASE PortGetMsg(t, p)
    BY <2>4, EnterOthers DEF PortGetMsg, CallOnPort, Open
  <2>5. CASE PortWait(t, p)
    BY <2>5, EnterOthers DEF PortWait, CallOnPort, Open
  <2>6. CASE PortClose(t, p)
    <3>1. /\ call'[t] = "close" /\ cur'[t] = p
          /\ at'[t] = IF AllBack(p) THEN "flush" ELSE "port"
      BY <2>6, EnterOthers DEF PortClose
    <3>2. status'[p] = "closing" /\ replies' = replies
      BY <2>6 DEF PortClose, TypeOK
    <3> QED
      BY <3>1, <3>2 DEF CallOnPort, AllBack
  <2> QED
    BY <1>3, <2>1, <2>2, <2>3, <2>4, <2>5, <2>6 DEF Program
<1>4. ASSUME NEW m \in Messages, MsgReply(t, m) PROVE CallOnPort(t)'
  BY <1>2, <1>4 DEF MsgReply
<1>5. CASE InCall(t)
  <2>1. CASE WaitPort(t)
    <3>1. \E place \in {"sleep", "get"} : Goto(t, place)
      BY <2>1 DEF WaitPort
    <3> QED
      BY <2>1, <3>1, GotoOthers DEF WaitPort, CallOnPort, CallsOnPorts, Open
  <2>2. CASE Woken(t)
    BY <2>2, GotoOthers DEF Woken, CallOnPort, CallsOnPorts, Open
  <2>3. CASE SendGet(t)
    <3>1. /\ call[t] = "send" /\ at[t] = "get" /\ status' = status
          /\ \/ Return(t) \/ Goto(t, "port") \/ UNCHANGED <<call, at, cur>>
      BY <2>3 DEF SendGet, callVars
    <3> QED
      BY <3>1, GotoOthers, EnterOthers DEF Return, CallOnPort, CallsOnPorts, Open
  <2>4. CASE GetARexxMsg(t)
    <3>1. /\ call[t] = "getmsg" /\ status' = status
          /\ Return(t) \/ UNCHANGED <<call, at, cur>>
      BY <2>4 DEF GetARexxMsg, callVars
    <3>2. at[t] \notin {"flush", "delete"}
      BY <3>1 DEF CallsOnPorts
    <3> QED
      BY <3>1, <3>2, EnterOthers DEF Return, CallOnPort, CallsOnPorts, Open
  <2>5. CASE WaitReturns(t)
    BY <2>5, EnterOthers DEF WaitReturns, Return, CallOnPort
  <2>6. CASE CloseGet(t)
    <3>1. /\ call[t] = "close" /\ at[t] = "get" /\ status' = status
          /\ \/ Goto(t, IF AllBack(cur[t]) THEN "flush" ELSE "port") /\ replies' = replies
             \/ UNCHANGED <<call, at, cur>>
      BY <2>6 DEF CloseGet, callVars
    <3>2. CASE Goto(t, IF AllBack(cur[t]) THEN "flush" ELSE "port") /\ replies' = replies
      <4>1. /\ call'[t] = call[t] /\ cur'[t] = cur[t]
            /\ at'[t] = IF AllBack(cur[t]) THEN "flush" ELSE "port"
        BY <3>2, GotoOthers
      <4> QED
        BY <3>1, <3>2, <4>1 DEF CallOnPort, CallsOnPorts, AllBack
    <3>3. CASE UNCHANGED <<call, at, cur>>
      BY <3>1, <3>3 DEF CallOnPort, CallsOnPorts
    <3> QED
      BY <3>1, <3>2, <3>3
  <2>7. CASE CloseFlush(t)
    <3>1. /\ call[t] = "close" /\ at[t] = "flush" /\ UNCHANGED <<status, replies>>
          /\ \/ Goto(t, "delete") /\ queue[cur[t]] = <<>> /\ queue' = queue
             \/ UNCHANGED <<call, at, cur>>
      BY <2>7 DEF CloseFlush, callVars
    <3> QED
      BY <3>1, GotoOthers DEF CallOnPort, CallsOnPorts
  <2>8. CASE DeletePort(t)
    BY <2>8, EnterOthers DEF DeletePort, Return, CallOnPort
  <2> QED
    BY <1>5, <2>1, <2>2, <2>3, <2>4, <2>5, <2>6, <2>7, <2>8 DEF InCall
<1>6. CASE \E m \in Messages : ExtReply(m)
  BY <1>2, <1>6 DEF ExtReply
<1>7. CASE ExtSend
  BY <1>2, <1>7 DEF ExtSend
<1>8. CASE \E u \in Tasks : Break(u)
  BY <1>2, <1>8 DEF Break
<1>9. CASE UNCHANGED vars
  BY <1>2, <1>9 DEF vars, callVars
<1> QED
  BY <1>1, <1>3, <1>4, <1>5, <1>6, <1>7, <1>8, <1>9 DEF Next, Acts

LEMMA DeletedStep ==
  ASSUME PortInv, [Next]_vars
  PROVE  DeletedPortUnused'
<1> SUFFICES ASSUME NEW q \in Ports, status'[q] = "closed"
             PROVE  Outstanding(q)' = {} /\ queue'[q] = <<>>
  BY DEF DeletedPortUnused
<1>1. CASE status[q] = "closed"
  BY <1>1, EmptyStays DEF PortInv, DeletedPortUnused, Open
<1>2. ASSUME NEW t \in Tasks, DeletePort(t), cur[t] = q
      PROVE  Outstanding(q)' = {} /\ queue'[q] = <<>>
  <2>1. status[q] = "closing" /\ replies[q] <= 0 /\ queue[q] = <<>>
    BY <1>2 DEF DeletePort, PortInv, CallsOnPorts
  <2> QED
    BY <2>1, NothingOwed, EmptyStays DEF Open
<1>3. CASE status[q] # "closed"
  <2>1. PICK t \in Tasks : DeletePort(t)
    <3>1. \/ \E t \in Tasks, p \in Ports : OpenPort(t, p) \/ PortClose(t, p)
          \/ \E t \in Tasks : DeletePort(t)
          \/ status' = status
      BY DEF Next, Program, SendNoPort, PortSend, PortGetMsg, PortWait, MsgReply,
             InCall, WaitPort, Woken, SendGet, GetARexxMsg, WaitReturns, CloseGet,
             CloseFlush, ExtReply, ExtSend, Break, vars
    <3>2. ASSUME NEW t \in Tasks, NEW p \in Ports, OpenPort(t, p) \/ PortClose(t, p)
          PROVE  FALSE
      BY <1>3, <3>2 DEF OpenPort, PortClose, PortInv, TypeOK
    <3> QED
      BY <1>3, <3>1, <3>2
  <2>2. cur[t] = q
    <3>1. cur[t] \in Ports
      BY <2>1, CurIsPort DEF DeletePort, PortInv
    <3> QED
      BY <1>3, <2>1, <3>1 DEF DeletePort, PortInv, TypeOK
  <2> QED
    BY <1>2, <2>1, <2>2
<1> QED
  BY <1>1, <1>3

LEMMA PortInvInit == Init => PortInv
<1> SUFFICES ASSUME Init PROVE PortInv
  OBVIOUS
<1>1. TypeOK
  BY TypeInit
<1>2. \A m \in Messages : msg[m].st = "free"
  BY DEF Init, Blank
<1>3. \A p \in Ports : queue[p] = <<>> /\ status[p] = "closed"
  BY DEF Init
<1>4. QueuesMatchMessages
  BY <1>2, <1>3 DEF QueuesMatchMessages, OnQueue, Once, Lies
<1>5. CallsOnPorts
  BY DEF Init, CallsOnPorts
<1>6. ReplyAccounting /\ DeletedPortUnused
  BY <1>2, <1>3 DEF ReplyAccounting, DeletedPortUnused, Outstanding
<1> QED
  BY <1>1, <1>4, <1>5, <1>6 DEF PortInv

LEMMA PortInvNext == PortInv /\ [Next]_vars => PortInv'
<1> SUFFICES ASSUME PortInv, [Next]_vars PROVE PortInv'
  OBVIOUS
<1>1. TypeOK'
  BY TypeNext DEF PortInv
<1>2. QueuesMatchMessages'
  BY StepLedger
<1> QED
  BY <1>1, <1>2, AccountingStep, CallsStep, DeletedStep DEF PortInv

LEMMA PortInvariant == Spec => []PortInv
BY PortInvInit, PortInvNext, PTL DEF Spec

-----------------------------------------------------------------------------
(* Signals.  A step signals a port, or leaves its signal and puts nothing on  *)
(* its empty list; only a task that is not asleep clears signals of its ports. *)

Kept(p) == sig'[p] \/ (sig'[p] = sig[p] /\ (queue[p] = <<>> => queue'[p] = <<>>))
NothingNew(base) ==
  /\ base \in [Ports -> Seq(Messages)]
  /\ \A p \in Ports : queue[p] = <<>> => base[p] = <<>>

LEMMA SameKept ==
  ASSUME NothingNew(queue'), UNCHANGED sig
  PROVE  \A p \in Ports : Kept(p)
BY DEF Kept, NothingNew

LEMMA PutKept ==
  ASSUME TypeOK, NEW base, NothingNew(base), NEW q \in Ports, NEW m \in Messages,
         PutMsg(base, q, m)
  PROVE  \A p \in Ports : Kept(p)
BY DEF PutMsg, Kept, NothingNew, TypeOK

LEMMA ReplyKept ==
  ASSUME TypeOK, NEW base, NothingNew(base), NEW m \in Messages, ReplyMsg(base, m)
  PROVE  \A p \in Ports : Kept(p)
<1>1. msg[m].from \in Parties
  BY DEF TypeOK, MsgRecord
<1>2. CASE msg[m].from = Ext
  BY <1>2, SameKept DEF ReplyMsg
<1>3. CASE msg[m].from # Ext
  BY <1>1, <1>3, PutKept DEF ReplyMsg, Parties
<1> QED
  BY <1>2, <1>3

LEMMA QueueNothingNew == TypeOK => NothingNew(queue)
BY DEF TypeOK, NothingNew

LEMMA HeadNothingNew ==
  ASSUME TypeOK, NEW p \in Ports, queue[p] # <<>>
  PROVE  NothingNew(WithoutHead(p)) /\ Head(queue[p]) \in Messages
<1>1. WithoutHead(p) \in [Ports -> Seq(Messages)] /\ Head(queue[p]) \in Messages
  BY WithoutHeadType
<1> QED
  BY <1>1 DEF NothingNew, WithoutHead, TypeOK

\* What a receive loop does with the head of the list.
LEMMA HeadKept ==
  ASSUME TypeOK, NEW p \in Ports, queue[p] # <<>>, NEW m, m = Head(queue[p]),
         \/ TakeBack(p, m) \/ Forget(p, m) \/ NewMsgObject(p, m)
         \/ ReplyMsg(WithoutHead(p), m)
  PROVE  \A q \in Ports : Kept(q)
<1>1. NothingNew(WithoutHead(p)) /\ m \in Messages
  BY HeadNothingNew
<1>2. CASE ReplyMsg(WithoutHead(p), m)
  BY <1>1, <1>2, ReplyKept
<1>3. CASE queue' = WithoutHead(p) /\ UNCHANGED sig
  BY <1>1, <1>3, SameKept
<1> QED
  BY <1>2, <1>3 DEF TakeBack, Forget, NewMsgObject

LEMMA ReceiveKept ==
  ASSUME TypeOK, NEW u \in Tasks,
         SendGet(u) \/ GetARexxMsg(u) \/ CloseGet(u) \/ CloseFlush(u)
  PROVE  \A q \in Ports : Kept(q)
<1>1. cur[u] \in Ports
  BY CurIsPort DEF SendGet, GetARexxMsg, CloseGet, CloseFlush
<1>2. PICK p \in Ports : p = cur[u]
  BY <1>1
<1>3. PICK m : m = Head(queue[p])
  OBVIOUS
<1>4. \/ UNCHANGED <<queue, sig>>
      \/ /\ queue[p] # <<>>
         /\ \/ TakeBack(p, m) \/ Forget(p, m) \/ NewMsgObject(p, m)
            \/ ReplyMsg(WithoutHead(p), m)
  BY <1>2, <1>3 DEF SendGet, GetARexxMsg, CloseGet, CloseFlush
<1>5. CASE UNCHANGED <<queue, sig>>
  BY <1>5, QueueNothingNew, SameKept
<1> QED
  BY <1>3, <1>4, <1>5, HeadKept

\* The steps that clear a signal.
Clears(u) ==
  /\ UNCHANGED queue
  /\ \E q \in Ports : Owner[q] = u /\ sig' = [sig EXCEPT ![q] = FALSE]

LEMMA SignalsStep ==
  ASSUME TypeOK, NEW u \in Tasks, Acts(u)
  PROVE  Clears(u) \/ \A p \in Ports : Kept(p)
<1>1. CASE UNCHANGED <<queue, sig>>
  BY <1>1, QueueNothingNew, SameKept
<1>2. ASSUME NEW p \in Ports, Program(u, p) PROVE Clears(u) \/ \A q \in Ports : Kept(q)
  <2>1. CASE OpenPort(u, p)
    BY <2>1 DEF OpenPort, Clears
  <2>2. ASSUME NEW async \in BOOLEAN, PortSend(u, p, async)
        PROVE  \A q \in Ports : Kept(q)
    <3>1. PICK m \in Free, d \in Listed \cup {Ext} :
            UNCHANGED <<queue, sig>> \/ (d # Ext /\ PutMsg(queue, d, m))
      BY <2>2 DEF PortSend
    <3>2. m \in Messages /\ (d # Ext => d \in Ports)
      BY <3>1 DEF Free, Listed
    <3>3. CASE UNCHANGED <<queue, sig>>
      BY <3>3, QueueNothingNew, SameKept
    <3> QED
      BY <3>1, <3>2, <3>3, QueueNothingNew, PutKept
  <2>3. CASE SendNoPort(u, p) \/ PortGetMsg(u, p) \/ PortWait(u, p) \/ PortClose(u, p)
    BY <1>1, <2>3 DEF SendNoPort, PortGetMsg, PortWait, PortClose
  <2> QED
    BY <1>2, <2>1, <2>2, <2>3 DEF Program
<1>3. ASSUME NEW m \in Messages, MsgReply(u, m) PROVE \A q \in Ports : Kept(q)
  BY <1>3, QueueNothingNew, ReplyKept DEF MsgReply
<1>4. CASE InCall(u)
  <2>1. CASE SendGet(u) \/ GetARexxMsg(u) \/ CloseGet(u) \/ CloseFlush(u)
    BY <2>1, ReceiveKept
  <2>2. CASE WaitPort(u) \/ DeletePort(u)
    BY <1>1, <2>2 DEF WaitPort, DeletePort
  <2>3. CASE Woken(u) \/ WaitReturns(u)
    <3>1. cur[u] \in Ports /\ Owner[cur[u]] = u
      BY <2>3, CurIsPort DEF Woken, WaitReturns, TypeOK, CallOK
    <3> QED
      BY <2>3, <3>1 DEF Woken, WaitReturns, Clears
  <2> QED
    BY <1>4, <2>1, <2>2, <2>3 DEF InCall
<1> QED
  BY <1>2, <1>3, <1>4 DEF Acts

\* A task goes to sleep only when it sees an empty list.
LEMMA FallsAsleep ==
  ASSUME PortInv, NEW t \in Tasks, Acts(t), at'[t] = "sleep"
  PROVE  \/ Stays(t) /\ \A p \in Ports : Kept(p)
         \/ queue'[cur'[t]] = <<>>
<1> USE DEF PortInv
<1>1. ASSUME NEW p \in Ports, Program(t, p) PROVE FALSE
  <2>1. at[t] = "start"
    BY <1>1 DEF Program, OpenPort, SendNoPort, PortSend, PortGetMsg, PortWait, PortClose,
                Idle, TypeOK, CallOK
  <2>2. ASSUME NEW async \in BOOLEAN, PortSend(t, p, async) PROVE FALSE
    <3>1. UNCHANGED callVars \/ \E m \in Messages : Enter(t, "send", p, "port", m)
      BY <2>2, SendEffect
    <3> QED
      BY <2>1, <3>1, EnterOthers DEF callVars
  <2>3. CASE OpenPort(t, p) \/ SendNoPort(t, p)
    BY <2>1, <2>3 DEF OpenPort, SendNoPort, callVars
  <2>4. CASE PortGetMsg(t, p) \/ PortWait(t, p) \/ PortClose(t, p)
    BY <2>4, EnterOthers DEF PortGetMsg, PortWait, PortClose
  <2> QED
    BY <1>1, <2>2, <2>3, <2>4 DEF Program
<1>2. ASSUME NEW m \in Messages, MsgReply(t, m) PROVE Stays(t) /\ \A p \in Ports : Kept(p)
  BY <1>2, SameCalls, QueueNothingNew, ReplyKept DEF MsgReply
<1>3. CASE InCall(t)
  <2>1. CASE WaitPort(t)
    BY <2>1, GotoOthers DEF WaitPort
  <2>2. CASE SendGet(t) \/ GetARexxMsg(t) \/ CloseGet(t) \/ CloseFlush(t)
    <3>1. \/ UNCHANGED <<call, at, cur>>
          \/ Return(t)
          \/ \E place \in {"port", "flush", "delete"} : Goto(t, place)
      BY <2>2 DEF SendGet, GetARexxMsg, CloseGet, CloseFlush, callVars
    <3>2. at[t] # "sleep"
      BY <2>2, <1>3 DEF SendGet, GetARexxMsg, CloseGet, CloseFlush
    <3> QED
      BY <3>1, <3>2, EnterOthers, GotoOthers DEF Return
  <2>3. CASE Woken(t)
    BY <2>3, GotoOthers DEF Woken
  <2>4. CASE WaitReturns(t) \/ DeletePort(t)
    BY <2>4, EnterOthers DEF WaitReturns, DeletePort, Return
  <2> QED
    BY <1>3, <2>1, <2>2, <2>3, <2>4 DEF InCall
<1> QED
  BY <1>1, <1>2, <1>3 DEF Acts

LEMMA WakeupStep ==
  ASSUME PortInv, NoLostWakeup, [Next]_vars
  PROVE  NoLostWakeup'
<1> SUFFICES ASSUME NEW t \in Tasks, at'[t] = "sleep", queue'[cur'[t]] # <<>>
             PROVE  sig'[cur'[t]]
  BY DEF NoLostWakeup
<1> USE DEF PortInv
<1>1. ASSUME Stays(t), \A p \in Ports : Owner[p] = t => Kept(p) PROVE sig'[cur'[t]]
  <2>1. cur[t] \in Ports /\ Owner[cur[t]] = t /\ at[t] = "sleep" /\ cur'[t] = cur[t]
    BY <1>1, CurIsPort DEF Stays, TypeOK, CallOK
  <2>2. queue[cur[t]] # <<>> => sig[cur[t]]
    BY <2>1 DEF NoLostWakeup
  <2> QED
    BY <1>1, <2>1, <2>2 DEF Kept, TypeOK
<1>2. CASE Acts(t)
  BY <1>1, <1>2, FallsAsleep
<1>3. ASSUME NEW u \in Tasks \ {t}, Acts(u) PROVE sig'[cur'[t]]
  <2>1. Stays(t)
    BY <1>3, OthersCalls
  <2>2. ASSUME Clears(u), NEW p \in Ports, Owner[p] = t PROVE Kept(p)
    BY <1>3, <2>2 DEF Clears, Kept, TypeOK
  <2> QED
    BY <1>1, <1>3, <2>1, <2>2, SignalsStep
<1>4. CASE \/ \E m \in Messages : ExtReply(m)
           \/ ExtSend \/ (\E u \in Tasks : Break(u)) \/ UNCHANGED vars
  <2>1. Stays(t)
    BY <1>4, SameCalls DEF ExtReply, ExtSend, Break, vars, callVars
  <2>2. CASE \E m \in Messages : ExtReply(m)
    BY <1>1, <2>1, <2>2, QueueNothingNew, ReplyKept DEF ExtReply
  <2>3. CASE ExtSend
    <3>1. PICK m \in Messages, p \in Ports : PutMsg(queue, p, m)
      BY <2>3 DEF ExtSend, Free, Listed
    <3> QED
      BY <1>1, <2>1, <3>1, QueueNothingNew, PutKept
  <2>4. CASE (\E u \in Tasks : Break(u)) \/ UNCHANGED vars
    <3>1. UNCHANGED <<queue, sig>>
      BY <2>4 DEF Break, vars
    <3> QED
      BY <1>1, <2>1, <3>1, QueueNothingNew, SameKept
  <2> QED
    BY <1>4, <2>2, <2>3, <2>4
<1> QED
  BY <1>2, <1>3, <1>4 DEF Next, Acts

\* A task that sleeps in WaitPort has been signalled when its port is not empty.
THEOREM WakeupCorrect == Spec => []NoLostWakeup
<1>1. Init => NoLostWakeup
  BY DEF Init, NoLostWakeup
<1> QED
  BY <1>1, WakeupStep, PortInvariant, PTL DEF Spec

\* The lists of the ports and the states of the messages agree.
THEOREM QueuesCorrect == Spec => []QueuesMatchMessages
<1>1. PortInv => QueuesMatchMessages
  BY DEF PortInv
<1> QED
  BY <1>1, PortInvariant, PTL

\* host->replies counts the commands that have not come back.
THEOREM AccountingCorrect == Spec => []ReplyAccounting
<1>1. PortInv => ReplyAccounting
  BY DEF PortInv
<1> QED
  BY <1>1, PortInvariant, PTL

\* Nobody writes to a port that was deleted.
THEOREM DeletedCorrect == Spec => []DeletedPortUnused
<1>1. PortInv => DeletedPortUnused
  BY DEF PortInv
<1> QED
  BY <1>1, PortInvariant, PTL

-----------------------------------------------------------------------------
(* The ports implement ARexxMessage. *)

SameLives == \A n \in Messages : Life(n)' = Life(n) /\ msg'[n].from = msg[n].from

LEMMA LivesStutter ==
  ASSUME SameLives, \A p \in Ports : status'[p] = "closed" <=> status[p] = "closed"
  PROVE  UNCHANGED Promise!vars
BY DEF SameLives, Promise!vars

\* Only the life of m changes: it becomes l, and its asker a.
LifeBecomes(m, l, a) ==
  /\ Life(m)' = l /\ msg'[m].from = a
  /\ \A n \in Messages \ {m} : Life(n)' = Life(n) /\ msg'[n].from = msg[n].from

LEMMA OneLife ==
  ASSUME NEW m \in Messages, NEW r, Becomes(m, r), NEW l, NEW a,
         Life(m)' = l, r.from = a
  PROVE  LifeBecomes(m, l, a)
BY DEF Becomes, Life, LifeBecomes

LEMMA OneLifeSame ==
  ASSUME NEW m \in Messages, LifeBecomes(m, Life(m), msg[m].from)
  PROVE  SameLives
BY DEF LifeBecomes, SameLives

LEMMA ReplyAnswers ==
  ASSUME TypeOK, NEW m \in Messages, msg[m].st \in {"sent", "held"},
         NEW base, ReplyMsg(base, m), status' = status
  PROVE  Promise!Answer(m)
<1>1. LifeBecomes(m, IF msg[m].from = Ext THEN "idle" ELSE "answered", msg[m].from)
  <2>1. CASE msg[m].from = Ext
    <3>1. Becomes(m, Blank)
      BY <2>1, NewRecord DEF ReplyMsg
    <3>2. Life(m)' = "idle" /\ Blank.from = Ext
      BY <3>1 DEF Life, Becomes, Blank
    <3> QED
      BY <2>1, <3>1, <3>2, OneLife
  <2>2. CASE msg[m].from # Ext
    <3>1. msg' = [msg EXCEPT ![m].st = "replied"]
      BY <2>2 DEF ReplyMsg
    <3>2. /\ Becomes(m, [msg[m] EXCEPT !.st = "replied"])
          /\ msg'[m].st = "replied" /\ msg'[m].from = msg[m].from
      BY <3>1, NewState DEF MsgStates
    <3>3. Life(m)' = "answered"
      BY <3>2 DEF Life
    <3>4. [msg[m] EXCEPT !.st = "replied"].from = msg[m].from
      BY <3>2 DEF Becomes
    <3> QED
      BY <2>2, <3>2, <3>3, <3>4, OneLife
  <2> QED
    BY <2>1, <2>2
<1>2. Life(m) = "asked"
  BY DEF Life
<1> QED
  BY <1>1, <1>2 DEF Promise!Answer, LifeBecomes

LEMMA TakeBackGives ==
  ASSUME TypeOK, NEW m \in Messages, msg[m].st = "replied",
         NEW p \in Ports, TakeBack(p, m), status' = status
  PROVE  Promise!GiveBack(m)
<1>1. Becomes(m, Blank)
  BY NewRecord DEF TakeBack
<1>2. Life(m)' = "idle" /\ Blank.from = Ext
  BY <1>1 DEF Life, Becomes, Blank
<1>3. LifeBecomes(m, "idle", Ext)
  BY <1>1, <1>2, OneLife
<1>4. Life(m) = "answered"
  BY DEF Life
<1> QED
  BY <1>3, <1>4 DEF Promise!GiveBack, LifeBecomes

LEMMA StateStutters ==
  ASSUME TypeOK, NEW m \in Messages, NEW s \in MsgStates,
         msg' = [msg EXCEPT ![m].st = s], status' = status,
         \/ msg[m].st = "free" /\ s = "leaked"
         \/ msg[m].st = "sent" /\ s \in {"held", "lost"}
  PROVE  UNCHANGED Promise!vars
<1>1. /\ Becomes(m, [msg[m] EXCEPT !.st = s])
      /\ msg'[m].st = s /\ msg'[m].from = msg[m].from
  BY NewState
<1>2. Life(m)' = Life(m)
  BY <1>1 DEF Life
<1>3. [msg[m] EXCEPT !.st = s].from = msg[m].from
  BY <1>1 DEF Becomes
<1> QED
  BY <1>1, <1>2, <1>3, OneLife, OneLifeSame, LivesStutter

LEMMA SendAsks ==
  ASSUME PortInv, NEW t \in Tasks, NEW p \in Ports, NEW async \in BOOLEAN,
         PortSend(t, p, async)
  PROVE  \E m \in Messages : Promise!Ask(m, p)
<1>1. PICK m \in Free, d \in Listed \cup {Ext} :
        /\ IF d = Ext
           THEN /\ msg' = [msg EXCEPT ![m] = [Command(p, d) EXCEPT !.st = "held"]]
                /\ UNCHANGED <<queue, sig>>
           ELSE /\ msg' = [msg EXCEPT ![m] = Command(p, d)]
                /\ PutMsg(queue, d, m)
        /\ IF async THEN UNCHANGED callVars ELSE Enter(t, "send", p, "port", m)
  BY DEF PortSend
<1>2. m \in Messages /\ msg[m].st = "free" /\ TypeOK
  BY DEF Free, PortInv
<1>3. PICK r : Becomes(m, r) /\ r.st \in {"sent", "held"} /\ r.from = p
  <2>1. CASE d = Ext
    <3>1. Becomes(m, [Command(p, d) EXCEPT !.st = "held"])
      BY <1>1, <1>2, <2>1, NewRecord
    <3>2. [Command(p, d) EXCEPT !.st = "held"] =
            [st |-> "held", from |-> p, dest |-> d, kind |-> "command"]
      BY DEF Command
    <3> QED
      BY <3>1, <3>2
  <2>2. CASE d # Ext
    <3>1. Becomes(m, Command(p, d))
      BY <1>1, <1>2, <2>2, NewRecord
    <3> QED
      BY <3>1 DEF Command
  <2> QED
    BY <2>1, <2>2
<1>4. Life(m)' = "asked"
  BY <1>3 DEF Life, Becomes
<1>5. LifeBecomes(m, "asked", p)
  BY <1>2, <1>3, <1>4, OneLife
<1>6. Life(m) = "idle"
  BY <1>2 DEF Life
<1>7. status' = status /\ status[p] # "closed"
  BY DEF PortSend, Open
<1>8. Promise!Ask(m, p)
  BY <1>2, <1>5, <1>6, <1>7 DEF Promise!Ask, LifeBecomes
<1> QED
  BY <1>2, <1>8

LEMMA ExtSendAsks ==
  ASSUME PortInv, ExtSend
  PROVE  \E m \in Messages : Promise!Ask(m, Ext)
<1>1. PICK m \in Free, p \in Listed, k \in Kinds :
        msg' = [msg EXCEPT ![m] =
                     [st |-> "sent", from |-> Ext, dest |-> p, kind |-> k]]
  BY DEF ExtSend
<1> DEFINE r == [st |-> "sent", from |-> Ext, dest |-> p, kind |-> k]
<1>2. m \in Messages /\ msg[m].st = "free" /\ TypeOK
  BY DEF Free, PortInv
<1>3. Becomes(m, r)
  BY <1>1, <1>2, NewRecord
<1>4. Life(m)' = "asked"
  BY <1>3 DEF Life, Becomes
<1>5. LifeBecomes(m, "asked", Ext)
  BY <1>2, <1>3, <1>4, OneLife
<1>6. Life(m) = "idle" /\ status' = status
  BY <1>2 DEF Life, ExtSend
<1>7. Promise!Ask(m, Ext)
  BY <1>2, <1>5, <1>6 DEF Promise!Ask, LifeBecomes
<1> QED
  BY <1>2, <1>7

LEMMA PromiseStep ==
  ASSUME PortInv, [Next]_vars
  PROVE  [Promise!Next]_Promise!vars
<1> USE DEF PortInv
<1>0. ASSUME UNCHANGED <<msg, status>> PROVE UNCHANGED Promise!vars
  BY <1>0, LivesStutter DEF SameLives, Life
<1>1. ASSUME NEW t \in Tasks, NEW p \in Ports, Program(t, p)
      PROVE  [Promise!Next]_Promise!vars
  <2>1. CASE OpenPort(t, p)
    <3>1. /\ UNCHANGED msg
          /\ \E s \in {"private", "public"} : status' = [status EXCEPT ![p] = s]
          /\ status[p] = "closed"
      BY <2>1 DEF OpenPort
    <3>2. Promise!Appear(p)
      BY <3>1 DEF Promise!Appear, Life, TypeOK
    <3> QED
      BY <3>2 DEF Promise!Next
  <2>2. CASE SendNoPort(t, p)
    <3>1. PICK m \in Free : msg' = [msg EXCEPT ![m].st = "leaked"]
      BY <2>2 DEF SendNoPort
    <3> QED
      BY <2>2, <3>1, StateStutters DEF SendNoPort, Free, MsgStates
  <2>3. ASSUME NEW async \in BOOLEAN, PortSend(t, p, async)
        PROVE  [Promise!Next]_Promise!vars
    BY <2>3, SendAsks DEF Promise!Next
  <2>4. CASE PortGetMsg(t, p) \/ PortWait(t, p)
    BY <1>0, <2>4 DEF PortGetMsg, PortWait
  <2>5. CASE PortClose(t, p)
    <3>1. UNCHANGED msg /\ \A q \in Ports : status'[q] = "closed" <=> status[q] = "closed"
      BY <2>5 DEF PortClose, Open, TypeOK
    <3> QED
      BY <3>1, LivesStutter DEF SameLives, Life
  <2> QED
    BY <1>1, <2>1, <2>2, <2>3, <2>4, <2>5 DEF Program
<1>2. ASSUME NEW t \in Tasks, InCall(t)
      PROVE  [Promise!Next]_Promise!vars
  <2>1. CASE WaitPort(t) \/ Woken(t) \/ WaitReturns(t)
    BY <1>0, <2>1 DEF WaitPort, Woken, WaitReturns
  <2>2. CASE DeletePort(t)
    <3>1. PICK q \in Ports : q = cur[t]
      BY <2>2, CurIsPort DEF DeletePort
    <3>2. status[q] = "closing" /\ replies[q] <= 0
      BY <2>2, <3>1 DEF DeletePort, CallsOnPorts
    <3>3. Outstanding(q) = {}
      BY <3>2, NothingOwed
    <3>4. \A m \in Messages : Life(m) # "idle" => msg[m].from # q
      BY <3>3 DEF Outstanding, Life
    <3>5. Promise!Asked(q) = {}
      BY <3>4 DEF Promise!Asked
    <3>6. UNCHANGED msg /\ status' = [status EXCEPT ![q] = "closed"]
      BY <2>2, <3>1 DEF DeletePort
    <3>7. {p \in Ports : status'[p] # "closed"} = {p \in Ports : status[p] # "closed"} \ {q}
      BY <3>6 DEF TypeOK
    <3>8. Promise!GoAway(q)
      BY <3>2, <3>5, <3>6, <3>7 DEF Promise!GoAway, Life
    <3> QED
      BY <3>8 DEF Promise!Next
  <2>3. ASSUME SendGet(t) \/ GetARexxMsg(t) \/ CloseGet(t) \/ CloseFlush(t)
        PROVE  [Promise!Next]_Promise!vars
    <3>1. PICK p \in Ports : p = cur[t]
      BY <2>3, CurIsPort DEF SendGet, GetARexxMsg, CloseGet, CloseFlush
    <3>2. status' = status
      BY <2>3 DEF SendGet, GetARexxMsg, CloseGet, CloseFlush
    <3>3. CASE queue[p] = <<>>
      BY <1>0, <2>3, <3>1, <3>2, <3>3 DEF SendGet, GetARexxMsg, CloseGet, CloseFlush
    <3>4. CASE queue[p] # <<>>
      <4>1. PICK m \in Messages : m = Head(queue[p])
        BY <3>4, HeadOnQueue
      <4>2. OnQueue(m, p)
        BY <3>4, <4>1, HeadOnQueue
      <4>3. ASSUME TakeBack(p, m), msg[m].st = "replied"
            PROVE  [Promise!Next]_Promise!vars
        BY <3>2, <4>3, TakeBackGives DEF Promise!Next
      <4>4. ASSUME msg[m].st = "sent", Forget(p, m) \/ NewMsgObject(p, m)
            PROVE  [Promise!Next]_Promise!vars
        <5>1. PICK s \in {"held", "lost"} : msg' = [msg EXCEPT ![m].st = s]
          BY <4>4 DEF Forget, NewMsgObject
        <5> QED
          BY <3>2, <4>4, <5>1, StateStutters DEF MsgStates
      <4>5. ASSUME msg[m].st = "sent", ReplyMsg(WithoutHead(p), m)
            PROVE  [Promise!Next]_Promise!vars
        <5>1. Promise!Answer(m)
          BY <3>2, <4>5, ReplyAnswers
        <5> QED
          BY <5>1 DEF Promise!Next
      <4>6. CASE CloseFlush(t)
        <5>1. ReplyMsg(WithoutHead(p), m) /\ status[p] = "closing" /\ replies[p] <= 0
          BY <3>1, <3>4, <4>1, <4>6 DEF CloseFlush, CallsOnPorts
        <5>2. m \notin Outstanding(p)
          BY <5>1, NothingOwed
        <5>3. msg[m].st = "sent"
          BY <4>2, <5>2 DEF OnQueue, Outstanding
        <5> QED
          BY <4>5, <5>1, <5>3
      <4>7. CASE SendGet(t) \/ GetARexxMsg(t) \/ CloseGet(t)
        <5>1. \/ msg[m].st = "replied" /\ TakeBack(p, m)
              \/ /\ msg[m].st = "sent"
                 /\ Forget(p, m) \/ NewMsgObject(p, m) \/ ReplyMsg(WithoutHead(p), m)
          BY <3>1, <3>4, <4>1, <4>7 DEF SendGet, GetARexxMsg, CloseGet
        <5> QED
          BY <4>3, <4>4, <4>5, <5>1
      <4> QED
        BY <2>3, <4>6, <4>7
    <3> QED
      BY <3>3, <3>4
  <2> QED
    BY <1>2, <2>1, <2>2, <2>3 DEF InCall
<1>3. ASSUME NEW m \in Messages, msg[m].st = "held", ReplyMsg(queue, m), status' = status
      PROVE  [Promise!Next]_Promise!vars
  <2>1. Promise!Answer(m)
    BY <1>3, ReplyAnswers
  <2> QED
    BY <2>1 DEF Promise!Next
<1>4. CASE \E t \in Tasks, m \in Messages : MsgReply(t, m)
  BY <1>3, <1>4 DEF MsgReply, Holds
<1>5. CASE \E m \in Messages : ExtReply(m)
  BY <1>3, <1>5 DEF ExtReply
<1>6. CASE ExtSend
  BY <1>6, ExtSendAsks DEF Promise!Next
<1>7. CASE \E t \in Tasks : Break(t)
  BY <1>0, <1>7 DEF Break
<1>8. CASE UNCHANGED vars
  BY <1>0, <1>8 DEF vars
<1> QED
  BY <1>1, <1>2, <1>4, <1>5, <1>6, <1>7, <1>8 DEF Next

\* Every behaviour of the ports is one of ARexxMessage: a message is answered at
\* most once, and its port outlives it.
THEOREM PortsKeepPromise == Spec => KeepsPromise
<1>1. Init => Promise!Init
  BY DEF Init, Blank, Life, Promise!Init
<1>2. PortInv /\ [Next]_vars => [Promise!Next]_Promise!vars
  BY PromiseStep
<1> QED
  BY <1>1, <1>2, PortInvariant, PTL DEF Spec, KeepsPromise, Promise!Spec

-----------------------------------------------------------------------------
(* Synchronous sends do not wait for each other in a circle.  A task waits for *)
(* another that holds, as a message object, the command it awaits the reply    *)
(* to.  Only getmsg makes such an object, and a task in getmsg awaits nothing: *)
(* so of any set of tasks one waits for none of the set.                       *)

SentToPort == \A m \in Messages : msg[m].st = "sent" => msg[m].dest \in Ports

\* The message a send awaits is one its port has outstanding, and a send does
\* not go to sleep when it has its answer.
Awaiting ==
  \A t \in Tasks :
    /\ awaited[t] # NoMsg => call[t] = "send" /\ awaited[t] \in Outstanding(cur[t])
    /\ call[t] = "send" /\ at[t] \in {"port", "sleep"} => awaited[t] # NoMsg

WaitsFor(t, u) == awaited[t] # NoMsg /\ Holds(u, awaited[t])
NoCircle ==
  \A W \in SUBSET Tasks :
    W # {} => \E t \in W : \A u \in W : ~WaitsFor(t, u)

SendInv == SentToPort /\ Awaiting /\ NoCircle

\* What a step may do to a message.
Born(n) ==
  /\ msg[n].st = "free"
  /\ msg'[n].st = "sent" => msg'[n].dest \in Ports
  /\ msg'[n].st = "held" => msg'[n].dest = Ext
Answered(n) ==
  \/ msg'[n].st \in {"replied", "lost"} /\ msg'[n].from = msg[n].from
  \/ msg'[n].st = "free" /\ msg[n].from = Ext
ReceivedBy(n, u) ==
  /\ msg'[n].st = "held" /\ msg'[n].from = msg[n].from
  /\ msg'[n].dest = cur[u]
  /\ call[u] = "getmsg" /\ call'[u] # "send"
TakenBackBy(n, u) ==
  /\ msg'[n].st = "free"
  /\ call[u] # "idle" /\ msg[n].from = cur[u] /\ awaited'[u] # n
Fate(n) ==
  \/ msg'[n] = msg[n]
  \/ Born(n)
  \/ Answered(n)
  \/ \E u \in Tasks : ReceivedBy(n, u) \/ TakenBackBy(n, u)

LEMMA SameFate == ASSUME UNCHANGED msg, NEW n \in Messages PROVE Fate(n)
BY DEF Fate

LEMMA ReplyFate ==
  ASSUME TypeOK, NEW m \in Messages, NEW base, ReplyMsg(base, m), NEW n \in Messages
  PROVE  Fate(n)
<1>1. CASE msg[m].from = Ext
  <2>1. Becomes(m, Blank)
    BY <1>1, NewRecord DEF ReplyMsg
  <2> QED
    BY <1>1, <2>1 DEF Becomes, Blank, Fate, Answered
<1>2. CASE msg[m].from # Ext
  <2>1. msg' = [msg EXCEPT ![m].st = "replied"]
    BY <1>2 DEF ReplyMsg
  <2>2. /\ Becomes(m, [msg[m] EXCEPT !.st = "replied"])
        /\ msg'[m].st = "replied" /\ msg'[m].from = msg[m].from
    BY <2>1, NewState DEF MsgStates
  <2> QED
    BY <2>2 DEF Becomes, Fate, Answered
<1> QED
  BY <1>1, <1>2

LEMMA TakeFate ==
  ASSUME TypeOK, NEW m \in Messages, NEW s \in {"lost", "held"},
         msg' = [msg EXCEPT ![m].st = s], NEW n \in Messages, NEW u \in Tasks,
         s = "held" => msg[m].dest = cur[u] /\ call[u] = "getmsg" /\ call'[u] # "send"
  PROVE  Fate(n)
<1>1. /\ Becomes(m, [msg[m] EXCEPT !.st = s]) /\ msg'[m].st = s
      /\ msg'[m].from = msg[m].from /\ msg'[m].dest = msg[m].dest
  BY NewState DEF MsgStates
<1> QED
  BY <1>1 DEF Becomes, Fate, Answered, ReceivedBy

LEMMA TakeBackFate ==
  ASSUME TypeOK, NEW m \in Messages, NEW u \in Tasks, TakeBack(cur[u], m),
         call[u] # "idle", msg[m].from = cur[u], awaited'[u] # m, NEW n \in Messages
  PROVE  Fate(n)
<1>1. Becomes(m, Blank)
  BY NewRecord DEF TakeBack
<1> QED
  BY <1>1 DEF Becomes, Blank, Fate, TakenBackBy

LEMMA SendFate ==
  ASSUME PortInv, NEW t \in Tasks, NEW p \in Ports, NEW async \in BOOLEAN,
         PortSend(t, p, async)
  PROVE  /\ \A n \in Messages : Fate(n)
         /\ \/ UNCHANGED callVars
            \/ \E m \in Free : Enter(t, "send", p, "port", m) /\ m \in Outstanding(p)'
<1>1. PICK m \in Free, d \in Listed \cup {Ext} :
        /\ IF d = Ext
           THEN /\ msg' = [msg EXCEPT ![m] = [Command(p, d) EXCEPT !.st = "held"]]
                /\ UNCHANGED <<queue, sig>>
           ELSE /\ msg' = [msg EXCEPT ![m] = Command(p, d)]
                /\ PutMsg(queue, d, m)
        /\ IF async THEN UNCHANGED callVars ELSE Enter(t, "send", p, "port", m)
  BY DEF PortSend
<1>2. m \in Messages /\ msg[m].st = "free" /\ TypeOK
  BY DEF Free, PortInv
<1>3. PICK r : /\ Becomes(m, r) /\ r.from = p
               /\ \/ r.st = "held" /\ r.dest = Ext
                  \/ r.st = "sent" /\ r.dest \in Ports
  <2>1. CASE d = Ext
    <3>1. Becomes(m, [Command(p, d) EXCEPT !.st = "held"])
      BY <1>1, <1>2, <2>1, NewRecord
    <3>2. [Command(p, d) EXCEPT !.st = "held"] =
            [st |-> "held", from |-> p, dest |-> d, kind |-> "command"]
      BY DEF Command
    <3> QED
      BY <2>1, <3>1, <3>2
  <2>2. CASE d # Ext
    <3>1. Becomes(m, Command(p, d)) /\ d \in Ports
      BY <1>1, <1>2, <2>2, NewRecord DEF Listed
    <3> QED
      BY <3>1 DEF Command
  <2> QED
    BY <2>1, <2>2
<1>4. \A n \in Messages : Fate(n)
  BY <1>2, <1>3 DEF Becomes, Fate, Born
<1>5. m \in Outstanding(p)'
  BY <1>2, <1>3 DEF Becomes, Outstanding
<1> QED
  BY <1>1, <1>4, <1>5

LEMMA ProgramFate ==
  ASSUME PortInv, NEW t \in Tasks, NEW p \in Ports, Program(t, p), NEW n \in Messages
  PROVE  Fate(n)
<1> USE DEF PortInv
<1>1. CASE SendNoPort(t, p)
  <2>1. PICK m \in Free : msg' = [msg EXCEPT ![m].st = "leaked"]
    BY <1>1 DEF SendNoPort
  <2>2. m \in Messages /\ msg[m].st = "free"
    BY DEF Free
  <2>3. /\ Becomes(m, [msg[m] EXCEPT !.st = "leaked"]) /\ msg'[m].st = "leaked"
    BY <2>1, <2>2, NewState DEF MsgStates
  <2> QED
    BY <2>2, <2>3 DEF Becomes, Fate, Born
<1>2. ASSUME NEW async \in BOOLEAN, PortSend(t, p, async) PROVE Fate(n)
  BY <1>2, SendFate
<1>3. CASE OpenPort(t, p) \/ PortGetMsg(t, p) \/ PortWait(t, p) \/ PortClose(t, p)
  BY <1>3, SameFate DEF OpenPort, PortGetMsg, PortWait, PortClose
<1> QED
  BY <1>1, <1>2, <1>3 DEF Program

LEMMA InCallFate ==
  ASSUME PortInv, SendInv, NEW u \in Tasks, InCall(u), NEW n \in Messages
  PROVE  Fate(n)
<1> USE DEF PortInv
<1>1. CASE WaitPort(u) \/ Woken(u) \/ WaitReturns(u) \/ DeletePort(u)
  BY <1>1, SameFate DEF WaitPort, Woken, WaitReturns, DeletePort
<1>2. CASE SendGet(u) \/ GetARexxMsg(u) \/ CloseGet(u) \/ CloseFlush(u)
  <2>1. PICK p \in Ports : p = cur[u] /\ call[u] # "idle"
    BY <1>2, CurIsPort DEF SendGet, GetARexxMsg, CloseGet, CloseFlush
  <2>2. CASE queue[p] = <<>>
    BY <1>2, <2>1, <2>2, SameFate DEF SendGet, GetARexxMsg, CloseGet, CloseFlush
  <2>3. CASE queue[p] # <<>>
    <3>1. PICK m \in Messages : m = Head(queue[p])
      BY <2>3, HeadOnQueue
    <3>2. OnQueue(m, p)
      BY <2>3, <3>1, HeadOnQueue
    <3>3. ASSUME TakeBack(p, m), msg[m].st = "replied", awaited'[u] # m PROVE Fate(n)
      BY <2>1, <3>2, <3>3, TakeBackFate DEF OnQueue
    <3>4. ASSUME Forget(p, m) PROVE Fate(n)
      BY <3>4, TakeFate DEF Forget
    <3>5. ASSUME ReplyMsg(WithoutHead(p), m) PROVE Fate(n)
      BY <3>5, ReplyFate
    <3>6. CASE SendGet(u)
      <4>1. \/ /\ msg[m].st = "replied" /\ TakeBack(p, m)
               /\ awaited' = [awaited EXCEPT ![u] = StillAwaited(u, m)]
            \/ Forget(p, m)
            \/ ReplyMsg(WithoutHead(p), m)
        BY <2>1, <2>3, <3>1, <3>6 DEF SendGet
      <4>2. StillAwaited(u, m) # m
        BY PortAssumption DEF StillAwaited
      <4>3. awaited \in [Tasks -> Messages \cup {NoMsg}]
        BY DEF TypeOK, CallOK
      <4> QED
        BY <3>3, <3>4, <3>5, <4>1, <4>2, <4>3
    <3>7. CASE GetARexxMsg(u) \/ CloseGet(u)
      <4>1. awaited[u] = NoMsg
        BY <3>7 DEF GetARexxMsg, CloseGet, SendInv, Awaiting
      <4>2. awaited'[u] = awaited[u] \/ Return(u)
        BY <3>7 DEF GetARexxMsg, CloseGet, callVars, Goto
      <4>3. awaited'[u] = NoMsg
        BY <4>1, <4>2, EnterOthers DEF Return
      <4>4. awaited'[u] # m
        BY <4>3, PortAssumption
      <4>5. \/ msg[m].st = "replied" /\ TakeBack(p, m)
            \/ ReplyMsg(WithoutHead(p), m)
            \/ msg[m].st = "sent" /\ NewMsgObject(p, m) /\ Return(u) /\ call[u] = "getmsg"
        BY <2>1, <2>3, <3>1, <3>7 DEF GetARexxMsg, CloseGet
      <4>6. ASSUME msg[m].st = "sent", NewMsgObject(p, m), Return(u), call[u] = "getmsg"
            PROVE  Fate(n)
        <5>1. call'[u] = "idle"
          BY <4>6, EnterOthers DEF Return
        <5>2. msg[m].dest = cur[u]
          BY <2>1, <3>2, <4>6 DEF OnQueue
        <5> QED
          BY <3>4, <4>6, <5>1, <5>2, TakeFate DEF NewMsgObject
      <4> QED
        BY <3>3, <3>5, <4>4, <4>5, <4>6
    <3>8. CASE CloseFlush(u)
      BY <2>1, <2>3, <3>1, <3>5, <3>8 DEF CloseFlush
    <3> QED
      BY <1>2, <3>6, <3>7, <3>8
  <2> QED
    BY <2>2, <2>3
<1> QED
  BY <1>1, <1>2 DEF InCall

LEMMA EveryFate ==
  ASSUME PortInv, SendInv, [Next]_vars, NEW n \in Messages
  PROVE  Fate(n)
<1> USE DEF PortInv
<1>1. CASE \E t \in Tasks, m \in Messages : MsgReply(t, m)
  BY <1>1, ReplyFate DEF MsgReply
<1>2. CASE \E m \in Messages : ExtReply(m)
  BY <1>2, ReplyFate DEF ExtReply
<1>3. CASE ExtSend
  <2>1. PICK m \in Free, p \in Listed, k \in Kinds :
          msg' = [msg EXCEPT ![m] =
                       [st |-> "sent", from |-> Ext, dest |-> p, kind |-> k]]
    BY <1>3 DEF ExtSend
  <2>2. m \in Messages /\ msg[m].st = "free" /\ p \in Ports
    BY DEF Free, Listed
  <2>3. Becomes(m, [st |-> "sent", from |-> Ext, dest |-> p, kind |-> k])
    BY <2>1, <2>2, NewRecord
  <2> QED
    BY <2>2, <2>3 DEF Becomes, Fate, Born
<1>4. CASE (\E t \in Tasks : Break(t)) \/ UNCHANGED vars
  BY <1>4, SameFate DEF Break, vars
<1> QED
  BY <1>1, <1>2, <1>3, <1>4, ProgramFate, InCallFate DEF Next

\* What a task's own step does to the reply it awaits: it awaits nothing any more
\* (and does not go back to sleep), or what it awaited before, or a new message.
Awaits(t) ==
  \/ /\ awaited'[t] = NoMsg
     /\ ~(call'[t] = "send" /\ at'[t] \in {"port", "sleep"})
  \/ /\ call'[t] = call[t] /\ cur'[t] = cur[t] /\ awaited'[t] = awaited[t]
     /\ at'[t] \in {"port", "sleep"} => at'[t] = at[t] \/ at[t] = "port" \/ at[t] = "sleep"
                                        \/ awaited[t] # NoMsg \/ call[t] # "send"
  \/ /\ call'[t] = "send" /\ cur'[t] \in Ports
     /\ awaited'[t] \in Free /\ (awaited[t] \in Outstanding(cur[t]))'

LEMMA StayAwaits == ASSUME NEW t \in Tasks, Stays(t) PROVE Awaits(t)
BY DEF Stays, Awaits

LEMMA ActAwaits ==
  ASSUME PortInv, SendInv, NEW t \in Tasks, Acts(t)
  PROVE  Awaits(t)
<1> USE DEF PortInv
<1>1. ASSUME NEW p \in Ports, Program(t, p) PROVE Awaits(t)
  <2>1. ASSUME NEW async \in BOOLEAN, PortSend(t, p, async) PROVE Awaits(t)
    <3>1. CASE UNCHANGED callVars
      BY <3>1, SameCalls, StayAwaits
    <3>2. ASSUME NEW m \in Free, Enter(t, "send", p, "port", m), m \in Outstanding(p)'
          PROVE  Awaits(t)
      BY <3>2, EnterOthers DEF Awaits
    <3> QED
      BY <2>1, <3>1, <3>2, SendFate
  <2>2. CASE OpenPort(t, p) \/ SendNoPort(t, p)
    BY <2>2, SameCalls, StayAwaits DEF OpenPort, SendNoPort
  <2>3. CASE PortGetMsg(t, p) \/ PortWait(t, p) \/ PortClose(t, p)
    BY <2>3, EnterOthers DEF PortGetMsg, PortWait, PortClose, Awaits
  <2> QED
    BY <1>1, <2>1, <2>2, <2>3 DEF Program
<1>2. ASSUME NEW m \in Messages, MsgReply(t, m) PROVE Awaits(t)
  BY <1>2, SameCalls, StayAwaits DEF MsgReply
<1>3. CASE InCall(t)
  <2>1. CASE WaitPort(t)
    BY <2>1, GotoOthers DEF WaitPort, Awaits
  <2>2. CASE Woken(t)
    BY <2>2, GotoOthers DEF Woken, Awaits
  <2>3. CASE WaitReturns(t) \/ DeletePort(t)
    BY <2>3, EnterOthers DEF WaitReturns, DeletePort, Return, Awaits
  <2>4. CASE GetARexxMsg(t) \/ CloseGet(t) \/ CloseFlush(t)
    <3>1. \/ UNCHANGED callVars
          \/ Return(t)
          \/ /\ \E place \in Places : Goto(t, place)
             /\ call[t] = "close"
      BY <2>4 DEF GetARexxMsg, CloseGet, CloseFlush, Places
    <3> QED
      BY <3>1, SameCalls, StayAwaits, EnterOthers, GotoOthers DEF Return, Awaits
  <2>5. CASE SendGet(t)
    <3>1. /\ at[t] = "get"
          /\ \/ UNCHANGED callVars
             \/ Return(t)
             \/ awaited[t] # NoMsg /\ Goto(t, "port")
             \/ /\ awaited' = [awaited EXCEPT ![t] = StillAwaited(t, Head(queue[cur[t]]))]
                /\ UNCHANGED <<call, at, cur>>
      BY <2>5 DEF SendGet
    <3>2. CASE /\ awaited' = [awaited EXCEPT ![t] = StillAwaited(t, Head(queue[cur[t]]))]
               /\ UNCHANGED <<call, at, cur>>
      <4>1. awaited'[t] \in {NoMsg, awaited[t]}
        BY <3>2 DEF StillAwaited, TypeOK, CallOK
      <4> QED
        BY <3>1, <3>2, <4>1 DEF Awaits
    <3> QED
      BY <3>1, <3>2, SameCalls, StayAwaits, EnterOthers, GotoOthers DEF Return, Awaits
  <2> QED
    BY <1>3, <2>1, <2>2, <2>3, <2>4, <2>5 DEF InCall
<1> QED
  BY <1>1, <1>2, <1>3 DEF Acts

LEMMA EveryAwaits ==
  ASSUME PortInv, SendInv, [Next]_vars, NEW t \in Tasks
  PROVE  Awaits(t)
<1>1. CASE Acts(t)
  BY <1>1, ActAwaits
<1>2. ASSUME NEW u \in Tasks \ {t}, Acts(u) PROVE Awaits(t)
  BY <1>2, OthersCalls, StayAwaits
<1>3. CASE \/ \E m \in Messages : ExtReply(m)
           \/ ExtSend \/ (\E u \in Tasks : Break(u)) \/ UNCHANGED vars
  BY <1>3, SameCalls, StayAwaits DEF ExtReply, ExtSend, Break, vars, callVars
<1> QED
  BY <1>1, <1>2, <1>3 DEF Next, Acts

LEMMA SentStep ==
  ASSUME PortInv, SendInv, [Next]_vars
  PROVE  SentToPort'
<1> SUFFICES ASSUME NEW n \in Messages, msg'[n].st = "sent" PROVE msg'[n].dest \in Ports
  BY DEF SentToPort
<1>1. Fate(n)
  BY EveryFate
<1> QED
  BY <1>1 DEF Fate, Born, Answered, ReceivedBy, TakenBackBy, SendInv, SentToPort

LEMMA AwaitingStep ==
  ASSUME PortInv, SendInv, [Next]_vars
  PROVE  Awaiting'
<1> SUFFICES ASSUME NEW t \in Tasks
             PROVE  /\ awaited'[t] # NoMsg =>
                         call'[t] = "send" /\ (awaited[t] \in Outstanding(cur[t]))'
                    /\ call'[t] = "send" /\ at'[t] \in {"port", "sleep"} => awaited'[t] # NoMsg
  BY DEF Awaiting, Outstanding
<1> USE DEF PortInv
<1>1. Awaits(t)
  BY EveryAwaits
<1>2. /\ awaited[t] # NoMsg => call[t] = "send" /\ awaited[t] \in Outstanding(cur[t])
      /\ call[t] = "send" /\ at[t] \in {"port", "sleep"} => awaited[t] # NoMsg
  BY DEF SendInv, Awaiting
<1>3. CASE awaited'[t] = NoMsg /\ ~(call'[t] = "send" /\ at'[t] \in {"port", "sleep"})
  BY <1>3
<1>4. CASE /\ call'[t] = call[t] /\ cur'[t] = cur[t] /\ awaited'[t] = awaited[t]
           /\ at'[t] \in {"port", "sleep"} => at'[t] = at[t] \/ at[t] = "port" \/ at[t] = "sleep"
                                              \/ awaited[t] # NoMsg \/ call[t] # "send"
  <2>1. ASSUME awaited[t] # NoMsg PROVE (awaited[t] \in Outstanding(cur[t]))'
    <3>1. PICK n \in Messages : n = awaited[t]
      BY <1>2, <2>1 DEF Outstanding
    <3>2. PICK p \in Ports : p = cur[t] /\ Owner[p] = t
      BY <1>2, <2>1, CurIsPort
    <3>3. msg[n].from = p /\ msg[n].st \in {"sent", "held", "replied", "lost"}
      BY <1>2, <2>1, <3>1, <3>2 DEF Outstanding
    <3>4. Fate(n)
      BY EveryFate
    <3>5. ~Born(n)
      BY <3>3 DEF Born
    <3>6. p # Ext
      BY PortAssumption
    <3>7. ASSUME NEW u \in Tasks, TakenBackBy(n, u) PROVE FALSE
      <4>1. Owner[cur[u]] = u /\ cur[u] = p
        BY <3>3, <3>7, CurIsPort DEF TakenBackBy
      <4>2. u = t
        BY <3>2, <4>1
      <4> QED
        BY <1>4, <3>1, <3>7, <4>2 DEF TakenBackBy
    <3>8. msg'[n].from = p /\ msg'[n].st \in {"sent", "held", "replied", "lost"}
      BY <3>3, <3>4, <3>5, <3>6, <3>7 DEF Fate, Answered, ReceivedBy
    <3> QED
      BY <1>4, <3>1, <3>2, <3>8 DEF Outstanding
  <2>2. at'[t] \in {"port", "sleep"} /\ call[t] = "send" => awaited[t] # NoMsg
    BY <1>2, <1>4
  <2>3. awaited[t] # NoMsg => (awaited[t] \in Outstanding(cur[t]))'
    BY <1>4, <2>1 DEF Outstanding
  <2> QED
    BY <1>2, <1>4, <2>2, <2>3
<1>5. CASE /\ call'[t] = "send" /\ cur'[t] \in Ports
           /\ awaited'[t] \in Free /\ (awaited[t] \in Outstanding(cur[t]))'
  BY <1>5, PortAssumption DEF Free
<1> QED
  BY <1>1, <1>3, <1>4, <1>5 DEF Awaits

\* A task that waits for u did so before, or u is leaving getmsg with the command.
LEMMA WaitsForStep ==
  ASSUME PortInv, SendInv, [Next]_vars, NEW t \in Tasks, NEW u \in Tasks,
         WaitsFor(t, u)'
  PROVE  WaitsFor(t, u) \/ call'[u] # "send"
<1> USE DEF PortInv
<1>1. TypeOK'
  BY TypeNext
<1>2. PICK n \in Messages : n = awaited'[t]
  BY <1>1 DEF WaitsFor, TypeOK, CallOK
<1>3. msg'[n].st = "held" /\ msg'[n].dest # Ext /\ Owner[msg'[n].dest] = u
  BY <1>2 DEF WaitsFor, Holds
<1>4. Fate(n)
  BY EveryFate
<1>5. ASSUME NEW v \in Tasks, ReceivedBy(n, v) PROVE call'[u] # "send"
  <2>1. v = u
    BY <1>3, <1>5, CurIsPort DEF ReceivedBy
  <2> QED
    BY <1>5, <2>1 DEF ReceivedBy
<1>6. CASE msg'[n] = msg[n]
  <2>1. n \notin Free
    BY <1>3, <1>6 DEF Free
  <2>2. n # NoMsg
    BY PortAssumption
  <2>3. awaited[t] = n
    BY <1>2, <2>1, <2>2, EveryAwaits DEF Awaits
  <2> QED
    BY <1>3, <1>6, <2>2, <2>3 DEF WaitsFor, Holds
<1> QED
  BY <1>3, <1>4, <1>5, <1>6 DEF Fate, Born, Answered, TakenBackBy

LEMMA NoCircleStep ==
  ASSUME PortInv, SendInv, [Next]_vars
  PROVE  NoCircle'
<1> SUFFICES ASSUME NEW W \in SUBSET Tasks, W # {}
             PROVE  \E t \in W : \A u \in W : ~WaitsFor(t, u)'
  BY DEF NoCircle
<1>1. CASE \E u \in W : call'[u] # "send"
  <2>1. PICK t \in W : call'[t] # "send"
    BY <1>1
  <2>2. awaited'[t] = NoMsg
    BY <2>1, AwaitingStep DEF Awaiting
  <2>3. \A u \in W : ~WaitsFor(t, u)'
    BY <2>2 DEF WaitsFor
  <2> QED
    BY <2>3
<1>2. CASE \A u \in W : call'[u] = "send"
  <2>1. PICK t \in W : \A u \in W : ~WaitsFor(t, u)
    BY DEF SendInv, NoCircle
  <2>2. \A u \in W : ~WaitsFor(t, u)'
    BY <1>2, <2>1, WaitsForStep
  <2> QED
    BY <2>2
<1> QED
  BY <1>1, <1>2

LEMMA SendInvInit == Init => SendInv
<1> SUFFICES ASSUME Init PROVE SendInv
  OBVIOUS
<1>1. SentToPort
  BY DEF Init, Blank, SentToPort
<1>2. \A t \in Tasks : awaited[t] = NoMsg /\ call[t] = "idle"
  BY DEF Init
<1> QED
  BY <1>1, <1>2 DEF SendInv, Awaiting, NoCircle, WaitsFor

LEMMA SendInvariant == Spec => []SendInv
<1>1. PortInv /\ SendInv /\ [Next]_vars => SendInv'
  BY SentStep, AwaitingStep, NoCircleStep DEF SendInv
<1> QED
  BY <1>1, SendInvInit, PortInvariant, PTL DEF Spec

LEMMA SendsEnd ==
  ASSUME PortInv, SendInv, NoLostWakeup, Tasks # {}
  PROVE  NoSendDeadlock
<1> USE DEF PortInv
<1> SUFFICES ASSUME \A t \in Tasks : Stuck(t),
                    \A m \in Messages :
                       /\ ~(msg[m].st = "held" /\ msg[m].dest = Ext)
                       /\ msg[m].st # "lost"
                       /\ \A t \in Tasks : ~Unattended(m, t)
             PROVE  FALSE
  BY DEF NoSendDeadlock
<1>1. ASSUME NEW t \in Tasks
      PROVE  cur[t] \in Ports /\ Owner[cur[t]] = t /\ queue[cur[t]] = <<>>
  BY CurIsPort DEF Stuck, NoLostWakeup
<1>2. ASSUME NEW m \in Messages, NEW t \in Tasks PROVE ~OnQueue(m, cur[t])
  <2>1. PICK p \in Ports : p = cur[t] /\ queue[p] = <<>>
    BY <1>1
  <2>2. ~Lies(m, queue[p])
    BY <2>1 DEF Lies
  <2> QED
    BY <2>1, <2>2 DEF QueuesMatchMessages
<1>3. ASSUME NEW t \in Tasks PROVE \E u \in Tasks : WaitsFor(t, u)
  <2>1. awaited[t] # NoMsg /\ awaited[t] \in Outstanding(cur[t])
    BY DEF Stuck, SendInv, Awaiting
  <2>2. PICK m \in Messages : m = awaited[t]
    BY <2>1 DEF Outstanding
  <2>3. msg[m].st \in {"sent", "held", "replied", "lost"} /\ msg[m].from = cur[t]
    BY <2>1, <2>2 DEF Outstanding
  <2>4. msg[m].st # "replied"
    BY <1>2, <2>3 DEF OnQueue
  <2>5. msg[m].st # "sent"
    <3> SUFFICES ASSUME msg[m].st = "sent" PROVE FALSE
      OBVIOUS
    <3>1. PICK d \in Ports : d = msg[m].dest
      BY DEF SendInv, SentToPort
    <3>2. PICK u \in Tasks : u = Owner[d]
      BY PortAssumption
    <3>3. d = cur[u]
      BY <3>1, <3>2 DEF Unattended
    <3> QED
      BY <1>2, <3>1, <3>3 DEF OnQueue
  <2>6. msg[m].st = "held" /\ msg[m].dest # Ext
    BY <2>3, <2>4, <2>5
  <2>7. PICK d \in Ports : d = msg[m].dest
    BY <2>6 DEF TypeOK, MsgRecord, Parties
  <2>8. PICK u \in Tasks : u = Owner[d]
    BY <2>7, PortAssumption
  <2>9. WaitsFor(t, u)
    BY <2>1, <2>2, <2>6, <2>7, <2>8 DEF WaitsFor, Holds
  <2> QED
    BY <2>9
<1>4. PICK t \in Tasks : \A u \in Tasks : ~WaitsFor(t, u)
  <2>1. Tasks \in SUBSET Tasks
    OBVIOUS
  <2> QED
    BY <2>1 DEF SendInv, NoCircle
<1> QED
  BY <1>3, <1>4

\* However many tasks send to each other, they never all wait for one another:
\* when every one is stuck in a synchronous send, the cause lies outside of the
\* ports they send from.  (With no task at all there is nobody to be stuck.)
THEOREM SendsDoNotDeadlock == Tasks # {} => (Spec => []NoSendDeadlock)
<1> SUFFICES ASSUME Tasks # {} PROVE Spec => []NoSendDeadlock
  OBVIOUS
<1>1. PortInv /\ SendInv /\ NoLostWakeup => NoSendDeadlock
  BY SendsEnd
<1> QED
  BY <1>1, PortInvariant, SendInvariant, WakeupCorrect, PTL
=============================================================================
