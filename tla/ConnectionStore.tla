--------------------------- MODULE ConnectionStore ---------------------------
(***************************************************************************)
(* The two stores outside the process that a connection manager writes:    *)
(* the MySQL table connection_manager and, in Redis database 1, one hash   *)
(* per account whose fields are connection addresses.                      *)
(*                                                                         *)
(* The table is a set of rows.  Its schema is not in im_service.sql; no    *)
(* statement of the program tells two equal rows apart, so a set stands    *)
(* for the multiset.  site_id is data nobody reads back, and machine_id is *)
(* the constant MACHINE_ID: database and Redis are both on localhost, so   *)
(* every row and every hash field is this machine's.                       *)
(***************************************************************************)

CONSTANTS
  Addr,       \* connection addresses: (int) of the connection object's pointer
  Account,    \* account ids a peer announces, none of them empty
  NoAccount   \* "", the client_id of a connection that has not announced itself

ASSUME StoreAssumption == NoAccount \notin Account

Row   == [addr : Addr, account : Account \cup {NoAccount}]
Field == [account : Account, addr : Addr]

-----------------------------------------------------------------------------
(* The table, one operator per statement. *)

\* insert into connection_manager, with the conn_m of init_connection
AddRow(rows, a) == rows \cup {[addr |-> a, account |-> NoAccount]}

\* (mutant: the update fails, and execute's result is not looked at)
UpdateLost(rows, a, k) == rows

\* update connection_manager set client_id = k where conn_addr = a
UpdateRows(rows, a, k) ==
  {[addr |-> r.addr, account |-> IF r.addr = a THEN k ELSE r.account] : r \in rows}

\* (mutant: the delete matches no row)
RowsKept(rows, a) == rows

\* delete from connection_manager where conn_addr = a
RowsWithout(rows, a) == {r \in rows : r.addr # a}

\* select * where conn_addr = a: the client_id of the first row, whichever the
\* server returns first, or that of a default conn_m when there is none
AccountsAt(rows, a) ==
  LET found == {r.account : r \in {x \in rows : x.addr = a}}
  IN  IF found = {} THEN {NoAccount} ELSE found

\* (mutant: the account of a row that has none yet is not left out)
AccountsOfAnyRow(rows) == {r.account : r \in rows}

\* select client_id where machine_id = MACHINE_ID; "" is no key of Redis
AccountsOfMachine(rows) == {r.account : r \in rows} \ {NoAccount}

-----------------------------------------------------------------------------
(* The hashes, as the set of their fields. *)

HashSet(fields, k, a) == fields \cup {[account |-> k, addr |-> a]}

\* (mutants: hdel matches no field; the whole hash is deleted)
FieldKept(fields, k, a) == fields
AllFieldsDeleted(fields, k, a) == {f \in fields : f.account # k}

HashDelField(fields, k, a) == fields \ {[account |-> k, addr |-> a]}

HashIsEmpty(fields, k) == \A f \in fields : f.account # k

HashDel(fields, k) == {f \in fields : f.account # k}

=============================================================================
