-------------------------- MODULE BroadcastService --------------------------
(***************************************************************************)
(* What a broadcast server promises: a message goes, once, to exactly      *)
(* those who were connected when it came, to each of them after every      *)
(* earlier message that was for it too.  Nobody gets a later message with  *)
(* an earlier one missing, and nobody gets any after it has left.          *)
(***************************************************************************)
EXTENDS Naturals

CONSTANTS Conn, Number   \* connections; the numbers of the messages, 1, 2, ...

VARIABLES
  connected,  \* those who are connected
  posted,     \* messages so far
  audience,   \* who was connected when a message came
  got         \* the messages each of them has been sent

serviceVars == <<connected, posted, audience, got>>

ServiceInit ==
  /\ connected = {} /\ posted = 0
  /\ audience = [m \in Number |-> {}]
  /\ got = [c \in Conn |-> {}]

Join(c) ==
  /\ c \notin connected
  /\ connected' = connected \cup {c}
  /\ UNCHANGED <<posted, audience, got>>

Leave(c) ==
  /\ c \in connected
  /\ connected' = connected \ {c}
  /\ UNCHANGED <<posted, audience, got>>

Publish ==
  /\ posted + 1 \in Number
  /\ posted' = posted + 1
  /\ audience' = [audience EXCEPT ![posted'] = connected]
  /\ UNCHANGED <<connected, got>>

\* The messages c has still to get.
Due(c) == {m \in Number : m <= posted /\ c \in audience[m] /\ m \notin got[c]}

Deliver(c, m) ==
  /\ c \in connected
  /\ m \in Due(c) /\ \A n \in Due(c) : m <= n
  /\ got' = [got EXCEPT ![c] = @ \cup {m}]
  /\ UNCHANGED <<connected, posted, audience>>

ServiceNext ==
  \/ Publish
  \/ \E c \in Conn : Join(c) \/ Leave(c) \/ \E m \in Number : Deliver(c, m)

ServiceSpec == ServiceInit /\ [][ServiceNext]_serviceVars
=============================================================================
