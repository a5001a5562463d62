------------------------- MODULE MCConnectionManager -------------------------
(* Small instances of ConnectionManager for TLC. *)
EXTENDS ConnectionManager

CONSTANTS clientServer, waiterServer, c3, visitor, waiter

\* One server and its peers.
OneServerOf == [c \in Conn |-> clientServer]
OneServes   == [s \in Server |-> Account]

\* A client and a waiter server, with accounts of their own or shared.
TwoServerOf == [c \in Conn |-> IF c = c3 THEN waiterServer ELSE clientServer]
TwoServes   == [s \in Server |-> IF s = clientServer THEN Account \ {waiter} ELSE {waiter}]

=============================================================================
