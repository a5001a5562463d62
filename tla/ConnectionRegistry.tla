-------------------------- MODULE ConnectionRegistry --------------------------
(***************************************************************************)
(* What the connection managers promise to those who send: a registry of   *)
(* which open connection may be reached under which account.  A connection *)
(* enters only by its own announcement and leaves all at once when it      *)
(* closes, before anybody can be given its address.                        *)
(***************************************************************************)
CONSTANTS Conn, Account

VARIABLES
  known,   \* connections opened so far
  open,    \* those that have not begun to close
  online   \* pairs <<connection, account>> a lookup may return

regVars == <<known, open, online>>

RegistryInit == known = {} /\ open = {} /\ online = {}

Connect(c) ==
  /\ c \notin known
  /\ known' = known \cup {c}
  /\ open' = open \cup {c}
  /\ UNCHANGED online

Register(c, k) ==
  /\ c \in open
  /\ online' = online \cup {<<c, k>>}
  /\ UNCHANGED <<known, open>>

Disconnect(c) ==
  /\ c \in open
  /\ open' = open \ {c}
  /\ online' = {p \in online : p[1] # c}
  /\ UNCHANGED known

Shutdown ==
  /\ open' = {} /\ online' = {}
  /\ UNCHANGED known

RegistryNext ==
  \/ \E c \in Conn : Connect(c) \/ Disconnect(c)
  \/ \E c \in Conn, k \in Account : Register(c, k)
  \/ Shutdown

RegistrySpec == RegistryInit /\ [][RegistryNext]_regVars

=============================================================================
