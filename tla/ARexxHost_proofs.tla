-------------------------- MODULE ARexxHost_proofs --------------------------
(***************************************************************************)
(* Proofs about the host of ARexxHost for any clients and any of the        *)
(* commands: however deep the calls of dispatch nest, every client that     *)
(* waits is in exactly one place that will answer it.                       *)
(***************************************************************************)
EXTENDS ARexxHost, SequenceTheorems, TLAPS

Loops == {"flush", "dispatch"}
Frame == [client : Clients, loop : Loops]

\* A message lies on the port once.
LiesOnce == \A i, j \in 1..Len(pending) : pending[i] = pending[j] => i = j

\* The loops that called dispatch: run() can only have called the outermost
\* one, and calls it when no command function is under way.
Nesting ==
  /\ mode \in {"created", "wait", "stopped", "closed", "dispatch"} => stack = <<>>
  /\ \A i \in 1..Len(stack) : i > 1 => stack[i].loop = "flush"

HostInv ==
  /\ TypeOK
  /\ EveryClientAccountedFor
  /\ LiesOnce
  /\ Nesting

-----------------------------------------------------------------------------
(* Sequences *)

LEMMA TailFacts ==
  ASSUME NEW S, NEW s \in Seq(S), s # <<>>
  PROVE  /\ Head(s) \in S /\ Head(s) = s[1]
         /\ Tail(s) \in Seq(S)
         /\ Len(s) \in Nat \ {0} /\ Len(Tail(s)) = Len(s) - 1
         /\ \A i \in 1..Len(Tail(s)) : Tail(s)[i] = s[i + 1]
BY HeadTailProperties, EmptySeq, LenProperties

LEMMA PopFacts ==
  ASSUME TypeOK, stack # <<>>
  PROVE  /\ Top \in Frame /\ Pop \in Seq(Frame)
         /\ Len(stack) \in Nat \ {0} /\ Len(Pop) = Len(stack) - 1
         /\ Len(stack) \in 1..Len(stack)
         /\ \A i \in 1..Len(Pop) : Pop[i] = stack[i]
<1>1. stack \in Seq(Frame)
  BY DEF TypeOK, Frame, Loops
<1>2. Len(stack) \in Nat \ {0}
  BY <1>1, EmptySeq, LenProperties
<1>3. Len(stack) \in 1..Len(stack)
  BY <1>2
<1>4. stack[Len(stack)] \in Frame
  BY <1>1, <1>3, ElementOfSeq
<1>5. \A i \in 1..Len(stack) - 1 : stack[i] \in Frame
  BY <1>1, <1>2, ElementOfSeq
<1>6. /\ SubSeq(stack, 1, Len(stack) - 1) \in Seq(Frame)
      /\ Len(SubSeq(stack, 1, Len(stack) - 1)) = Len(stack) - 1
      /\ \A i \in 1..Len(stack) - 1 : SubSeq(stack, 1, Len(stack) - 1)[i] = stack[i]
  <2>1. PICK k \in Nat : k = Len(stack) - 1
    BY <1>2
  <2>2. 1 \in Int /\ k \in Int /\ \A i \in 1..k : stack[i] \in Frame
    BY <1>5, <2>1
  <2>3. /\ SubSeq(stack, 1, k) \in Seq(Frame)
        /\ Len(SubSeq(stack, 1, k)) = IF 1 <= k THEN k - 1 + 1 ELSE 0
        /\ \A i \in 1..k - 1 + 1 : SubSeq(stack, 1, k)[i] = stack[1 + i - 1]
    BY <2>2, SubSeqProperties
  <2>4. Len(SubSeq(stack, 1, k)) = k /\ \A i \in 1..k : SubSeq(stack, 1, k)[i] = stack[i]
    BY <2>3
  <2> QED
    BY <2>1, <2>3, <2>4
<1> QED
  BY <1>2, <1>3, <1>4, <1>6 DEF Top, Pop

LEMMA AppendFacts ==
  ASSUME NEW S, NEW s \in Seq(S), NEW x \in S
  PROVE  /\ Append(s, x) \in Seq(S) /\ Len(Append(s, x)) = Len(s) + 1
         /\ \A i \in 1..Len(s) : Append(s, x)[i] = s[i]
         /\ Append(s, x)[Len(s) + 1] = x
         /\ Len(s) \in Nat
BY AppendProperties, LenProperties

\* What the four operations on the port's list and on the frames do to who lies
\* and who is in a frame.
LEMMA Queued ==
  ASSUME HostInv, NEW c \in Clients, ~Lying(c), pending' = Append(pending, c)
  PROVE  /\ pending' \in Seq(Clients) /\ LiesOnce'
         /\ \A d \in Clients : Lying(d)' <=> Lying(d) \/ d = c
<1>1. /\ pending \in Seq(Clients) /\ Len(pending) \in Nat
      /\ pending' \in Seq(Clients) /\ Len(pending') = Len(pending) + 1
      /\ \A i \in 1..Len(pending) : pending'[i] = pending[i]
      /\ pending'[Len(pending) + 1] = c
  BY AppendFacts DEF HostInv, TypeOK
<1>2. LiesOnce'
  BY <1>1 DEF HostInv, LiesOnce, Lying
<1>3. \A d \in Clients : Lying(d)' <=> Lying(d) \/ d = c
  BY <1>1 DEF Lying
<1> QED
  BY <1>1, <1>2, <1>3

LEMMA Taken ==
  ASSUME HostInv, pending # <<>>, pending' = Tail(pending)
  PROVE  /\ Head(pending) \in Clients /\ Lying(Head(pending))
         /\ pending' \in Seq(Clients) /\ LiesOnce'
         /\ \A d \in Clients : Lying(d)' <=> Lying(d) /\ d # Head(pending)
<1>1. /\ Head(pending) \in Clients /\ Head(pending) = pending[1]
      /\ pending' \in Seq(Clients)
      /\ Len(pending) \in Nat \ {0} /\ Len(pending') = Len(pending) - 1
      /\ \A i \in 1..Len(pending') : pending'[i] = pending[i + 1]
  BY TailFacts DEF HostInv, TypeOK
<1>2. Lying(Head(pending))
  BY <1>1 DEF Lying
<1>3. LiesOnce'
  BY <1>1 DEF HostInv, LiesOnce
<1>4. ASSUME NEW d \in Clients, Lying(d)' PROVE Lying(d) /\ d # Head(pending)
  <2>1. PICK i \in 1..Len(pending') : pending'[i] = d
    BY <1>4 DEF Lying
  <2>2. i + 1 \in 1..Len(pending) /\ pending[i + 1] = d /\ i + 1 # 1
    BY <1>1, <2>1
  <2> QED
    BY <1>1, <2>2 DEF HostInv, LiesOnce, Lying
<1>5. ASSUME NEW d \in Clients, Lying(d), d # Head(pending) PROVE Lying(d)'
  <2>1. PICK i \in 1..Len(pending) : pending[i] = d
    BY <1>5 DEF Lying
  <2>2. i - 1 \in 1..Len(pending') /\ pending'[i - 1] = d
    BY <1>1, <1>5, <2>1
  <2> QED
    BY <2>2 DEF Lying
<1> QED
  BY <1>1, <1>2, <1>3, <1>4, <1>5

\* Nobody has two commands being executed.
FramesApart ==
  \A c \in Clients : \A i, j \in 1..Len(stack) :
    stack[i].client = c /\ stack[j].client = c => i = j

LEMMA Called ==
  ASSUME HostInv, NEW c \in Clients, ~InStack(c), NEW loop \in Loops,
         stack' = Append(stack, [client |-> c, loop |-> loop])
  PROVE  /\ stack' \in Seq(Frame) /\ FramesApart'
         /\ \A d \in Clients : InStack(d)' <=> InStack(d) \/ d = c
         /\ Len(stack') = Len(stack) + 1
         /\ \A i \in 1..Len(stack) : stack'[i] = stack[i]
         /\ stack'[Len(stack) + 1].loop = loop
         /\ Len(stack) \in Nat
<1>1. [client |-> c, loop |-> loop] \in Frame
  BY DEF Frame
<1>2. /\ stack \in Seq(Frame) /\ Len(stack) \in Nat
      /\ stack' \in Seq(Frame) /\ Len(stack') = Len(stack) + 1
      /\ \A i \in 1..Len(stack) : stack'[i] = stack[i]
      /\ stack'[Len(stack) + 1] = [client |-> c, loop |-> loop]
  BY <1>1, AppendFacts DEF HostInv, TypeOK, Frame, Loops
<1>3. stack'[Len(stack) + 1].client = c /\ stack'[Len(stack) + 1].loop = loop
  BY <1>2
<1>4. \A d \in Clients : InStack(d)' <=> InStack(d) \/ d = c
  BY <1>2, <1>3 DEF InStack
<1>5. FramesApart'
  BY <1>2, <1>3 DEF FramesApart, HostInv, EveryClientAccountedFor, InStack
<1> QED
  BY <1>2, <1>3, <1>4, <1>5

LEMMA Returned ==
  ASSUME HostInv, stack # <<>>, stack' = Pop
  PROVE  /\ Top.client \in Clients /\ InStack(Top.client)
         /\ stack' \in Seq(Frame) /\ FramesApart'
         /\ \A d \in Clients : InStack(d)' <=> InStack(d) /\ d # Top.client
<1>1. /\ Top \in Frame /\ stack' \in Seq(Frame)
      /\ Len(stack) \in Nat \ {0} /\ Len(stack') = Len(stack) - 1
      /\ \A i \in 1..Len(stack') : stack'[i] = stack[i]
  BY PopFacts DEF HostInv
<1>2. Top = stack[Len(stack)] /\ Top.client \in Clients
  BY <1>1 DEF Top, Frame
<1>3. InStack(Top.client)
  BY <1>1, <1>2 DEF InStack
<1>4. FramesApart'
  BY <1>1 DEF FramesApart, HostInv, EveryClientAccountedFor
<1>5. ASSUME NEW d \in Clients, InStack(d)' PROVE InStack(d) /\ d # Top.client
  <2>1. PICK i \in 1..Len(stack') : stack'[i].client = d
    BY <1>5 DEF InStack
  <2>2. i \in 1..Len(stack) /\ stack[i].client = d /\ i # Len(stack)
    BY <1>1, <2>1
  <2> QED
    BY <1>1, <1>2, <2>2 DEF HostInv, EveryClientAccountedFor, InStack
<1>6. ASSUME NEW d \in Clients, InStack(d), d # Top.client PROVE InStack(d)'
  <2>1. PICK i \in 1..Len(stack) : stack[i].client = d
    BY <1>6 DEF InStack
  <2>2. i \in 1..Len(stack')
    BY <1>1, <1>2, <1>6, <2>1
  <2> QED
    BY <1>1, <2>1, <2>2 DEF InStack
<1> QED
  BY <1>1, <1>2, <1>3, <1>4, <1>5, <1>6

-----------------------------------------------------------------------------
(* The steps *)

LEMMA HostInvInit == Init => HostInv
<1> SUFFICES ASSUME Init PROVE HostInv
  OBVIOUS
<1>1. Len(<<>>) = 0 /\ pending = <<>> /\ stack = <<>> /\ mode = "created"
  BY DEF Init
<1>2. TypeOK
  BY EmptySeq DEF Init, TypeOK, Modes
<1>3. EveryClientAccountedFor /\ LiesOnce
  BY <1>1 DEF Init, EveryClientAccountedFor, LiesOnce, Waiting, Lying, InStack
<1>4. Nesting
  BY <1>1 DEF Nesting
<1> QED
  BY <1>2, <1>3, <1>4 DEF HostInv

\* The parts of the invariant as they are proved of a step.
Accounted ==
  \A c \in Clients :
    /\ Waiting(c) <=> Lying(c) \/ InStack(c)
    /\ ~(Lying(c) /\ InStack(c))

LEMMA CommandsHaveKinds == \A k \in Commands : k \in CommandKinds /\ k # "none"
BY HostAssumption DEF CommandKinds

LEMMA SendStep ==
  ASSUME HostInv, NEW c \in Clients, Send(c)
  PROVE  HostInv'
<1>1. PICK k \in Commands : cmd' = [cmd EXCEPT ![c] = k]
  BY DEF Send
<1>2. cmd \in [Clients -> CommandKinds \cup {"none"}]
  BY DEF HostInv, TypeOK
<1>3. /\ cmd' \in [Clients -> CommandKinds \cup {"none"}]
      /\ \A d \in Clients : Waiting(d)' <=> Waiting(d) \/ d = c
  BY <1>1, <1>2, CommandsHaveKinds DEF Waiting
<1>4. ~Lying(c) /\ ~InStack(c)
  BY DEF Send, HostInv, EveryClientAccountedFor
<1>5. /\ pending' \in Seq(Clients) /\ LiesOnce'
      /\ \A d \in Clients : Lying(d)' <=> Lying(d) \/ d = c
  BY <1>4, Queued DEF Send
<1>6. UNCHANGED <<mode, stack, catch>> /\ sig' = TRUE
  BY DEF Send
<1>7. TypeOK'
  BY <1>3, <1>5, <1>6 DEF HostInv, TypeOK
<1>8. Accounted' /\ FramesApart'
  BY <1>3, <1>4, <1>5, <1>6 DEF HostInv, EveryClientAccountedFor, Accounted, FramesApart, InStack
<1>9. Nesting'
  BY <1>6 DEF HostInv, Nesting
<1> QED
  BY <1>5, <1>7, <1>8, <1>9 DEF HostInv, EveryClientAccountedFor, Accounted, FramesApart

\* A step that changes neither the messages nor the frames.
LEMMA ModeStep ==
  ASSUME HostInv, UNCHANGED <<cmd, pending, stack>>, sig' \in BOOLEAN, catch' \in BOOLEAN,
         mode' \in Modes, mode' \in {"send", "sending"} => stack # <<>>,
         mode' \in {"created", "wait", "stopped", "closed", "dispatch"} => stack = <<>>
  PROVE  HostInv'
<1>1. TypeOK'
  BY DEF HostInv, TypeOK
<1>2. EveryClientAccountedFor' /\ LiesOnce'
  BY DEF HostInv, EveryClientAccountedFor, LiesOnce, Waiting, Lying, InStack
<1>3. Nesting'
  BY DEF HostInv, Nesting
<1> QED
  BY <1>1, <1>2, <1>3 DEF HostInv

LEMMA AfterFacts ==
  ASSUME NEW loop \in Loops, NEW res \in {-1, 0, 1}, NEW depth \in Nat,
         loop = "dispatch" => depth = 0
  PROVE  /\ After(loop, res, depth) \in {"stopped", "wait", "flush", "send"}
         /\ After(loop, res, depth) \in {"stopped", "wait"} => depth = 0
         /\ After(loop, res, depth) = "send" => depth > 0
<1>1. CASE loop = "dispatch"
  BY <1>1 DEF After
<1>2. CASE loop = "flush" /\ res # -1
  <2>1. After(loop, res, depth) = "flush"
    BY <1>2 DEF After
  <2> QED
    BY <2>1
<1>3. CASE loop = "flush" /\ res = -1 /\ depth = 0
  <2>1. After(loop, res, depth) = "wait"
    BY <1>3 DEF After
  <2> QED
    BY <1>3, <2>1
<1>4. CASE loop = "flush" /\ res = -1 /\ depth > 0
  <2>1. After(loop, res, depth) = "send"
    BY <1>4 DEF After
  <2> QED
    BY <1>4, <2>1
<1> QED
  BY <1>1, <1>2, <1>3, <1>4 DEF Loops

LEMMA StackDepth ==
  ASSUME HostInv
  PROVE  /\ Len(stack) \in Nat /\ (Len(stack) = 0 <=> stack = <<>>)
         /\ mode = "dispatch" => Len(stack) = 0
BY EmptySeq, LenProperties DEF HostInv, TypeOK, Nesting

\* A client gets its answer: it is taken off the one place it was in.
LEMMA AnswerStep ==
  ASSUME HostInv, NEW c \in Clients, Reply(c),
         \A d \in Clients :
            Lying(d)' \/ InStack(d)' <=> (Lying(d) \/ InStack(d)) /\ d # c,
         \A d \in Clients : (Lying(d)' => Lying(d)) /\ (InStack(d)' => InStack(d))
  PROVE  Accounted' /\ cmd' \in [Clients -> CommandKinds \cup {"none"}]
<1>1. cmd \in [Clients -> CommandKinds \cup {"none"}]
  BY DEF HostInv, TypeOK
<1>2. /\ cmd' \in [Clients -> CommandKinds \cup {"none"}]
      /\ \A d \in Clients : Waiting(d)' <=> Waiting(d) /\ d # c
  BY <1>1 DEF Reply, Waiting
<1> QED
  BY <1>2 DEF Accounted, HostInv, EveryClientAccountedFor

LEMMA TakenStep ==
  ASSUME HostInv, pending # <<>>, pending' = Tail(pending), Reply(Head(pending)),
         stack' = stack, sig' = sig, catch' = catch,
         mode' \in Modes, mode' \in {"send", "sending"} => stack # <<>>,
         mode' \in {"created", "wait", "stopped", "closed", "dispatch"} => stack = <<>>
  PROVE  HostInv'
<1>1. PICK c \in Clients : c = Head(pending) /\ Lying(c)
  BY Taken
<1>2. /\ pending' \in Seq(Clients) /\ LiesOnce'
      /\ \A d \in Clients : Lying(d)' <=> Lying(d) /\ d # c
  BY <1>1, Taken
<1>3. ~InStack(c)
  BY <1>1 DEF HostInv, EveryClientAccountedFor
<1>4. \A d \in Clients : InStack(d)' <=> InStack(d)
  BY DEF InStack
<1>5. Accounted' /\ cmd' \in [Clients -> CommandKinds \cup {"none"}]
  BY <1>1, <1>2, <1>3, <1>4, AnswerStep
<1>6. TypeOK'
  BY <1>2, <1>5 DEF HostInv, TypeOK
<1>7. FramesApart' /\ Nesting'
  BY DEF HostInv, EveryClientAccountedFor, FramesApart, Nesting
<1> QED
  BY <1>2, <1>5, <1>6, <1>7 DEF HostInv, EveryClientAccountedFor, Accounted, FramesApart

LEMMA DispatchStep ==
  ASSUME HostInv, Dispatch
  PROVE  HostInv'
<1>1. mode \in Loops /\ pending # <<>> /\ pending' = Tail(pending) /\ UNCHANGED <<sig, catch>>
  BY DEF Dispatch, Dispatching, Loops
<1>2. PICK c \in Clients : c = Head(pending) /\ Lying(c)
  BY <1>1, Taken
<1>3. PICK k : k = cmd[c]
  OBVIOUS
<1>4. CASE /\ Reply(c)
           /\ mode' = After(mode, Result(k), Len(stack))
           /\ UNCHANGED stack
  <2>1. Result(k) \in {-1, 0, 1}
    BY DEF Result
  <2>2. PICK res \in {-1, 0, 1} : res = Result(k)
    BY <2>1
  <2>3. /\ mode' \in {"stopped", "wait", "flush", "send"}
        /\ mode' \in {"stopped", "wait"} => Len(stack) = 0
        /\ mode' = "send" => Len(stack) > 0
    BY <1>1, <1>4, <2>2, StackDepth, AfterFacts
  <2>4. mode' \in Modes
    BY <2>3 DEF Modes
  <2> QED
    BY <1>1, <1>2, <1>4, <2>3, <2>4, StackDepth, TakenStep
<1>5. CASE /\ stack' = Append(stack, [client |-> c, loop |-> mode])
           /\ mode' \in {"flush", "aborted"}
           /\ UNCHANGED cmd
  <2>1. /\ pending' \in Seq(Clients) /\ LiesOnce'
        /\ \A d \in Clients : Lying(d)' <=> Lying(d) /\ d # c
    BY <1>1, <1>2, Taken
  <2>2. ~InStack(c)
    BY <1>2 DEF HostInv, EveryClientAccountedFor
  <2>3. /\ stack' \in Seq(Frame) /\ FramesApart'
        /\ \A d \in Clients : InStack(d)' <=> InStack(d) \/ d = c
        /\ Len(stack') = Len(stack) + 1
        /\ \A i \in 1..Len(stack) : stack'[i] = stack[i]
        /\ stack'[Len(stack) + 1].loop = mode
        /\ Len(stack) \in Nat
    BY <1>1, <1>5, <2>2, Called
  <2>4. Accounted'
    BY <1>2, <1>5, <2>1, <2>2, <2>3 DEF Accounted, HostInv, EveryClientAccountedFor, Waiting
  <2>5. TypeOK'
    BY <1>1, <1>5, <2>1, <2>3 DEF HostInv, TypeOK, Modes, Frame, Loops
  <2>6. Nesting'
    <3> SUFFICES ASSUME NEW i \in 1..Len(stack'), i > 1 PROVE stack'[i].loop = "flush"
      BY <1>5 DEF Nesting
    <3>1. CASE i \in 1..Len(stack)
      BY <2>3, <3>1 DEF HostInv, Nesting
    <3>2. CASE i = Len(stack) + 1
      BY <1>1, <2>3, <3>2, StackDepth DEF Loops
    <3> QED
      BY <2>3, <3>1, <3>2
  <2> QED
    BY <2>1, <2>3, <2>4, <2>5, <2>6 DEF HostInv, EveryClientAccountedFor, Accounted, FramesApart
<1> QED
  BY <1>2, <1>3, <1>4, <1>5 DEF Dispatch

LEMMA ReturnStep ==
  ASSUME HostInv, mode = "sending", FunctionReturns, sig' \in BOOLEAN,
         UNCHANGED <<pending, catch>>
  PROVE  HostInv'
<1>1. /\ mode = "sending" /\ Reply(Top.client) /\ mode' = After(Top.loop, 1, Len(Pop))
      /\ stack' = Pop /\ sig' \in BOOLEAN /\ UNCHANGED <<pending, catch>>
  BY DEF FunctionReturns
<1>2. stack # <<>>
  BY <1>1 DEF HostInv, TypeOK
<1>3. /\ Top \in Frame /\ Pop \in Seq(Frame)
      /\ Len(stack) \in Nat \ {0} /\ Len(Pop) = Len(stack) - 1
      /\ Len(stack) \in 1..Len(stack)
      /\ \A i \in 1..Len(Pop) : Pop[i] = stack[i]
  BY <1>2, PopFacts DEF HostInv
<1>4. PICK c \in Clients : c = Top.client
  BY <1>3 DEF Frame
<1>5. /\ InStack(c) /\ stack' \in Seq(Frame) /\ FramesApart'
      /\ \A d \in Clients : InStack(d)' <=> InStack(d) /\ d # c
  BY <1>1, <1>2, <1>4, Returned
<1>6. /\ ~Lying(c) /\ LiesOnce'
      /\ \A d \in Clients : Lying(d)' <=> Lying(d)
  BY <1>1, <1>5 DEF HostInv, EveryClientAccountedFor, LiesOnce, Lying
<1>7. Accounted' /\ cmd' \in [Clients -> CommandKinds \cup {"none"}]
  BY <1>1, <1>4, <1>5, <1>6, AnswerStep
<1>8. PICK loop \in Loops : loop = Top.loop
  BY <1>3 DEF Frame
<1>9. loop = "dispatch" => Len(Pop) = 0
  <2>1. PICK n \in 1..Len(stack) : n = Len(stack)
    BY <1>3
  <2>2. n > 1 => stack[n].loop = "flush"
    BY DEF HostInv, Nesting
  <2> QED
    BY <1>3, <1>8, <2>1, <2>2 DEF Top
<1>10. PICK depth \in Nat : depth = Len(Pop)
  BY <1>3
<1>11. /\ mode' \in {"stopped", "wait", "flush", "send"}
       /\ mode' \in {"stopped", "wait"} => depth = 0
       /\ mode' = "send" => depth > 0
  BY <1>1, <1>8, <1>9, <1>10, AfterFacts
<1>12. depth = 0 <=> stack' = <<>>
  BY <1>1, <1>3, <1>10, EmptySeq
<1>13. TypeOK'
  BY <1>1, <1>5, <1>7, <1>11, <1>12 DEF HostInv, TypeOK, Modes, Frame, Loops
<1>14. Nesting'
  BY <1>1, <1>3, <1>11, <1>12 DEF HostInv, Nesting
<1> QED
  BY <1>5, <1>6, <1>7, <1>13, <1>14 DEF HostInv, EveryClientAccountedFor, Accounted, FramesApart

LEMMA SentStep ==
  ASSUME HostInv, Sent
  PROVE  HostInv'
<1>1. mode = "sending" /\ sig' \in BOOLEAN /\ UNCHANGED <<pending, catch>>
  BY DEF Sent
<1>2. CASE FunctionReturns
  BY <1>1, <1>2, ReturnStep
<1>3. CASE FunctionRaises
  BY <1>1, <1>3, ModeStep DEF FunctionRaises, HostInv, TypeOK, Modes
<1> QED
  BY <1>2, <1>3 DEF Sent

LEMMA CloseStep ==
  ASSUME HostInv, Close
  PROVE  HostInv'
<1>1. /\ cmd' = [c \in Clients |-> IF AnsweredAtClose(c) THEN "none" ELSE cmd[c]]
      /\ pending' = <<>> /\ stack' = <<>> /\ mode' = "closed" /\ UNCHANGED <<sig, catch>>
      /\ Len(<<>>) = 0
  BY DEF Close
<1>2. TypeOK'
  BY <1>1, EmptySeq DEF HostInv, TypeOK, Modes
<1>3. \A c \in Clients : ~Waiting(c)'
  BY <1>1 DEF AnsweredAtClose, HostInv, EveryClientAccountedFor, Waiting
<1>4. EveryClientAccountedFor' /\ LiesOnce' /\ Nesting'
  BY <1>1, <1>3 DEF EveryClientAccountedFor, LiesOnce, Nesting, Lying, InStack
<1> QED
  BY <1>2, <1>4 DEF HostInv

LEMMA HostInvNext == HostInv /\ [Next]_vars => HostInv'
<1> SUFFICES ASSUME HostInv, [Next]_vars PROVE HostInv'
  OBVIOUS
<1>1. ASSUME NEW c \in Clients, Send(c) PROVE HostInv'
  BY <1>1, SendStep
<1>2. CASE Run
  BY <1>2, ModeStep DEF Run, HostInv, TypeOK, Modes
<1>3. CASE Wait
  BY <1>3, ModeStep DEF Wait, HostInv, TypeOK, Modes, Nesting
<1>4. CASE DispatchNone
  <2>1. mode \in Loops /\ mode' = After(mode, -1, Len(stack))
        /\ UNCHANGED <<cmd, pending, sig, stack, catch>>
    BY <1>4 DEF DispatchNone, Dispatching, Loops
  <2>2. /\ mode' \in {"stopped", "wait", "flush", "send"}
        /\ mode' \in {"stopped", "wait"} => Len(stack) = 0
        /\ mode' = "send" => Len(stack) > 0
    BY <2>1, StackDepth, AfterFacts
  <2> QED
    BY <2>1, <2>2, StackDepth, ModeStep DEF HostInv, TypeOK, Modes
<1>5. CASE Dispatch
  BY <1>5, DispatchStep
<1>6. CASE Reject
  <2>1. /\ pending # <<>> /\ pending' = Tail(pending) /\ Reply(Head(pending))
        /\ UNCHANGED <<sig, mode, stack, catch>> /\ mode = "sending" /\ stack # <<>>
    BY <1>6 DEF Reject, HostInv, TypeOK
  <2> QED
    BY <2>1, TakenStep DEF HostInv, TypeOK
<1>7. CASE Sent
  BY <1>7, SentStep
<1>8. CASE FindsPort
  BY <1>8, ModeStep DEF FindsPort, HostInv, TypeOK, Modes
<1>9. CASE CannotSend
  BY <1>9, ModeStep DEF CannotSend, FunctionRaises, HostInv, TypeOK, Modes
<1>10. CASE CatchExceptions
  BY <1>10, ModeStep DEF CatchExceptions, HostInv, TypeOK, Nesting
<1>11. CASE Close
  BY <1>11, CloseStep
<1>12. CASE UNCHANGED vars
  BY <1>12, ModeStep DEF vars, HostInv, TypeOK, Nesting
<1> QED
  BY <1>1, <1>2, <1>3, <1>4, <1>5, <1>6, <1>7, <1>8, <1>9, <1>10,
     <1>11, <1>12 DEF Next, HostStep

\* The host keeps its invariant whatever the clients send and the functions do.
THEOREM HostInvariant == Spec => []HostInv
BY HostInvInit, HostInvNext, PTL DEF Spec

\* Every variable of the host keeps its type.
THEOREM TypeCorrect == Spec => []TypeOK
<1>1. HostInv => TypeOK
  BY DEF HostInv
<1> QED
  BY <1>1, HostInvariant, PTL

\* A client that waits is on the port or in one call of dispatch that answers it.
THEOREM ClientsCorrect == Spec => []EveryClientAccountedFor
<1>1. HostInv => EveryClientAccountedFor
  BY DEF HostInv
<1> QED
  BY <1>1, HostInvariant, PTL

\* When the host waits or has stopped, no command function is under way.
THEOREM NestingCorrect == Spec => []NothingUnderWay
<1>1. HostInv => NothingUnderWay
  BY DEF HostInv, Nesting, NothingUnderWay
<1> QED
  BY <1>1, HostInvariant, PTL
=============================================================================
