---------------------------- MODULE ARexxMessage ----------------------------
(***************************************************************************)
(* What the ARexx ports promise of a message, whatever the queues, signals  *)
(* and loops behind it: a message is asked by a port that exists, answered  *)
(* at most once, given back to the port that asked, and a port does not go  *)
(* away before every message it asked has been given back.  ARexxPort       *)
(* implements this specification.                                           *)
(***************************************************************************)
EXTENDS FiniteSets

CONSTANTS Ports, Messages,
          Ext   \* askers outside the model, which are always there

VARIABLES
  life,    \* where a message is in its life
  asker,   \* the port a message was sent from
  alive    \* the ports that exist

vars == <<life, asker, alive>>

Init ==
  /\ life = [m \in Messages |-> "idle"]
  /\ asker = [m \in Messages |-> Ext]
  /\ alive = {}

Asked(p) == {m \in Messages : life[m] # "idle" /\ asker[m] = p}

Ask(m, p) ==
  /\ life[m] = "idle"
  /\ p \in alive \cup {Ext}
  /\ life' = [life EXCEPT ![m] = "asked"]
  /\ asker' = [asker EXCEPT ![m] = p]
  /\ UNCHANGED alive

\* An answer to an asker outside the model ends the message at once.
Answer(m) ==
  /\ life[m] = "asked"
  /\ life' = [life EXCEPT ![m] = IF asker[m] = Ext THEN "idle" ELSE "answered"]
  /\ UNCHANGED <<asker, alive>>

GiveBack(m) ==
  /\ life[m] = "answered"
  /\ life' = [life EXCEPT ![m] = "idle"]
  /\ asker' = [asker EXCEPT ![m] = Ext]
  /\ UNCHANGED alive

Appear(p) ==
  /\ p \notin alive
  /\ alive' = alive \cup {p}
  /\ UNCHANGED <<life, asker>>

GoAway(p) ==
  /\ p \in alive
  /\ Asked(p) = {}
  /\ alive' = alive \ {p}
  /\ UNCHANGED <<life, asker>>

Next ==
  \/ \E m \in Messages, p \in Ports \cup {Ext} : Ask(m, p)
  \/ \E m \in Messages : Answer(m) \/ GiveBack(m)
  \/ \E p \in Ports : Appear(p) \/ GoAway(p)

Spec == Init /\ [][Next]_vars
=============================================================================
