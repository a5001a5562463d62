------------------------------ MODULE MCRouting ------------------------------
(* Small instances of Routing for TLC. *)
EXTENDS Routing, TLC

CONSTANTS clientServer, waiterServer, dispatchServer, w1, w2, d1,
          visitor1, visitor2, agent, agent2

\* Visitors, the waiters w1 and w2, and d1, the peer that dispatches.
PeersOf ==
  [c \in Conn |-> CASE c = d1 -> dispatchServer
                    [] c \in {w1, w2} -> waiterServer
                    [] OTHER  -> clientServer]

PeersServes ==
  [s \in Server |-> Account \cap IF s = clientServer THEN {visitor1, visitor2}
                                                   ELSE {agent, agent2}]

\* A message to both visitors.
ToVisitors == {[side |-> clientServer, to |-> <<visitor1, visitor2>>]}

\* A message to two waiters.
ToWaiters == {[side |-> waiterServer, to |-> <<agent, agent2>>]}

\* The same account twice.
ToOneTwice == {[side |-> clientServer, to |-> <<visitor1, visitor1>>]}

\* Addresses are interchangeable: nothing compares or chooses them.
Addresses == Permutations(Addr)

=============================================================================
