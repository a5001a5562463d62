----------------------------- MODULE DemoServer -----------------------------
(***************************************************************************)
(* The single-threaded broadcast server of wspp_demo.cpp: the io thread    *)
(* keeps the set of connections itself and sends a message to all of them  *)
(* inside the handler that received it.                                    *)
(***************************************************************************)
EXTENDS Naturals

CONSTANTS
  Conn,      \* connections; each is opened at most once
  MaxPosts   \* bound: messages the peers send

ASSUME DemoAssumption == MaxPosts \in Nat

VARIABLES
  session,   \* state of a connection: "new", "open", "closing" or "closed"
  members,   \* m_connections
  posted,    \* messages received; they are numbered as they come
  audience,  \* who was connected when a message came (history)
  left,      \* members the handler of the last message has still to send it to
  got,       \* messages sent to a connection (history)
  up         \* is run() still running?

demoVars == <<session, members, posted, audience, left, got, up>>

Number == 1 .. MaxPosts

DemoInit ==
  /\ session = [c \in Conn |-> "new"]
  /\ members = {} /\ left = {}
  /\ posted = 0 /\ audience = [m \in Number |-> {}]
  /\ got = [c \in Conn |-> {}]
  /\ up = TRUE

\* The io thread runs no handler.
Quiet == up /\ left = {}

Connected == {c \in Conn : session[c] \in {"open", "closing"}}

Opens(c) ==
  /\ Quiet /\ session[c] = "new"
  /\ session' = [session EXCEPT ![c] = "open"]
  /\ members' = members \cup {c}
  /\ UNCHANGED <<posted, audience, left, got, up>>

\* The closing handshake, or a broken connection: from here a send throws.
StartsToClose(c) ==
  /\ Quiet /\ session[c] = "open"
  /\ session' = [session EXCEPT ![c] = "closing"]
  /\ UNCHANGED <<members, posted, audience, left, got, up>>

Closes(c) ==
  /\ Quiet /\ session[c] = "closing"
  /\ session' = [session EXCEPT ![c] = "closed"]
  /\ members' = members \ {c}
  /\ UNCHANGED <<posted, audience, left, got, up>>

Posts(c) ==
  /\ Quiet /\ session[c] = "open" /\ posted < MaxPosts
  /\ posted' = posted + 1
  /\ audience' = [audience EXCEPT ![posted'] = Connected]
  /\ left' = members
  /\ UNCHANGED <<session, members, got, up>>

\* (mutant: the exception of one send is caught, the rest is skipped)
SkipRest(c) ==
  /\ up /\ c \in left /\ session[c] # "open"
  /\ left' = {}
  /\ UNCHANGED <<session, members, posted, audience, got, up>>

SendTo(c) ==
  /\ up /\ c \in left /\ session[c] = "open"
  /\ got' = [got EXCEPT ![c] = @ \cup {posted}]
  /\ left' = left \ {c}
  /\ UNCHANGED <<session, members, posted, audience, up>>

\* send throws, and nothing between it and run's caller catches it.
SendFails(c) ==
  /\ up /\ c \in left /\ session[c] # "open"
  /\ up' = FALSE
  /\ UNCHANGED <<session, members, posted, audience, left, got>>

DemoNext ==
  \E c \in Conn : \/ Opens(c) \/ StartsToClose(c) \/ Closes(c)
                  \/ Posts(c) \/ SendTo(c) \/ SendFails(c)

DemoSpec == DemoInit /\ [][DemoNext]_demoVars

-----------------------------------------------------------------------------
DemoService == INSTANCE BroadcastService WITH connected <- Connected

\* Sending inside the handler (wspp_demo.cpp:32-38) keeps the broadcast
\* service's promise: nobody gets a message with an earlier one missing, because
\* one send that fails ends the server.
DemoIsService == DemoService!ServiceSpec
=============================================================================
