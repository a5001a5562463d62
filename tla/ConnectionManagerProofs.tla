----------------------- MODULE ConnectionManagerProofs -----------------------
(***************************************************************************)
(* Theorems about ConnectionManager, for every number of servers, of       *)
(* connections, of addresses and of accounts.                              *)
(***************************************************************************)
EXTENDS ConnectionManager, TLAPS

-----------------------------------------------------------------------------
(* Type correctness *)

LEMMA EntryUpdate ==
  ASSUME NEW A, NEW B, NEW T, NEW f \in [A -> [B -> T]],
         NEW a \in A, NEW b \in B, NEW t \in T
  PROVE  [f EXCEPT ![a][b] = t] \in [A -> [B -> T]]
OBVIOUS

LEMMA EntryLookup ==
  ASSUME NEW A, NEW B, NEW T, NEW f \in [A -> [B -> T]],
         NEW a \in A, NEW b \in B, NEW t, NEW x \in A, NEW y \in B
  PROVE  [f EXCEPT ![a][b] = t][x][y] = IF x = a /\ y = b THEN t ELSE f[x][y]
OBVIOUS

LEMMA InitTypeOK == Init => TypeOK
BY DEF Init, TypeOK, FreshMemory, Steps

\* The locals of a running handler have their values when they are used.
ThreadOK ==
  \A s \in Server :
    /\ pc[s] # "idle" => at[s] \in Addr
    /\ pc[s] \notin {"idle", "insert", "lookup"} => who[s] \in Account

LEMMA NextTypeOK ==
  ASSUME TypeOK, ThreadOK, [Next]_vars
  PROVE  TypeOK' /\ ThreadOK'
<1> USE StoreAssumption, ManagerAssumption
<1> USE DEF TypeOK, ThreadOK, Steps, AnnounceSteps, CloseSteps,
            maps, thread, peers, stores, process
<1>1. ASSUME NEW s \in Server, NEW c \in Conn, NEW a \in Addr, Open(s, c, a)
      PROVE  TypeOK' /\ ThreadOK'
  BY <1>1 DEF Open, Call
<1>2. ASSUME NEW s \in Server, NEW a \in Addr, NEW k \in Account, Announce(s, a, k)
      PROVE  TypeOK' /\ ThreadOK'
  <2>1. names' \in [Conn -> SUBSET Account]
    BY <1>2 DEF Announce, Held
  <2>2. CASE UNCHANGED <<clientConns, thread>>
    BY <1>2, <2>1, <2>2 DEF Announce
  <2>3. CASE /\ clientConns' = [clientConns EXCEPT ![s][k] = @ \cup {a}]
             /\ Call(s, "update", a, k)
    <3>1. clientConns' \in [Server -> [Account -> SUBSET Addr]]
      BY <2>3
    <3> QED
      BY <1>2, <2>1, <2>3, <3>1 DEF Announce, Call
  <2> QED
    BY <1>2, <2>2, <2>3 DEF Announce
<1>3. ASSUME NEW s \in Server, NEW a \in Addr, Close(s, a)
      PROVE  TypeOK' /\ ThreadOK'
  BY <1>3 DEF Close, Call, HandleErased
<1>4. ASSUME NEW s \in Server, InsertRow(s) PROVE TypeOK' /\ ThreadOK'
  BY <1>4 DEF InsertRow, Reached, Return, Call, AddRow, Row
<1>5. ASSUME NEW s \in Server, UpdateRow(s) PROVE TypeOK' /\ ThreadOK'
  BY <1>5 DEF UpdateRow, Reached, Continue, UpdateRows, Row
<1>6. ASSUME NEW s \in Server, SetConnMgnt(s) PROVE TypeOK' /\ ThreadOK'
  <2>1. [account |-> who[s], addr |-> at[s]] \in Field
    BY <1>6 DEF SetConnMgnt, Reached, Field
  <2>2. redis' \in SUBSET Field
    BY <1>6, <2>1 DEF SetConnMgnt, HashSet
  <2> QED
    BY <1>6, <2>2 DEF SetConnMgnt, Reached, Return, Call
<1>7. ASSUME NEW s \in Server, LookupAccount(s) PROVE TypeOK' /\ ThreadOK'
  <2>1. AccountsAt(table, at[s]) \subseteq Account \cup {NoAccount}
    BY DEF AccountsAt, Row
  <2>2. PICK k \in Account \cup {NoAccount} :
          \/ k = NoAccount /\ Release(s)
          \/ k # NoAccount /\ Call(s, "delete", at[s], k) /\ UNCHANGED heap
    BY <1>7, <2>1 DEF LookupAccount
  <2>3. CASE Release(s)
    BY <1>7, <2>3 DEF LookupAccount, Reached, Release, Return, Call
  <2>4. CASE k \in Account /\ Call(s, "delete", at[s], k) /\ UNCHANGED heap
    BY <1>7, <2>4 DEF LookupAccount, Reached, Call
  <2> QED
    BY <2>2, <2>3, <2>4
<1>8. ASSUME NEW s \in Server, DeleteRows(s) PROVE TypeOK' /\ ThreadOK'
  BY <1>8 DEF DeleteRows, Reached, Continue, RowsWithout
<1>9. ASSUME NEW s \in Server, Unmap(s) PROVE TypeOK' /\ ThreadOK'
  <2>0. who[s] \in Account
    BY <1>9 DEF Unmap, Reached
  <2>1. CASE Release(s) /\ UNCHANGED clientConns
    BY <1>9, <2>1 DEF Unmap, Reached, Release, Return, Call
  <2>2. ASSUME NEW S \in SUBSET Addr, NEW p \in {"hdel", "del"},
               clientConns' = [clientConns EXCEPT ![s][who[s]] = S],
               Continue(s, p), UNCHANGED heap
        PROVE  TypeOK' /\ ThreadOK'
    <3>1. clientConns' \in [Server -> [Account -> SUBSET Addr]]
      BY <2>0, <2>2, EntryUpdate
    <3>2. Reached(s, "unmap") /\ UNCHANGED <<process, used, names, conns, stores>>
      BY <1>9 DEF Unmap
    <3> QED
      BY <2>2, <3>1, <3>2 DEF Reached, Continue
  <2>3. CASE clientConns[s][who[s]] # {}
    <3> DEFINE v == clientConns[s][who[s]]
    <3>1. v \in SUBSET Addr
      BY <2>0
    <3>2. CASE Several(v)
      BY <1>9, <2>2, <2>3, <3>1, <3>2 DEF Unmap, EntryWithout
    <3>3. CASE ~Several(v)
      BY <1>9, <2>2, <2>3, <3>3 DEF Unmap, EntryWithout
    <3> QED
      BY <3>2, <3>3
  <2> QED
    BY <1>9, <2>1, <2>3 DEF Unmap
<1>10. ASSUME NEW s \in Server, HDel(s) PROVE TypeOK' /\ ThreadOK'
  <2>1. redis' \in SUBSET Field
    BY <1>10 DEF HDel, HashDelField
  <2> QED
    BY <1>10, <2>1 DEF HDel, Reached, Continue
<1>11. ASSUME NEW s \in Server, HLen(s) PROVE TypeOK' /\ ThreadOK'
  <2>1. CASE Continue(s, "del") /\ UNCHANGED heap
    BY <1>11, <2>1 DEF HLen, Reached, Continue
  <2>2. CASE Release(s)
    BY <1>11, <2>2 DEF HLen, Reached, Release, Return, Call
  <2> QED
    BY <1>11, <2>1, <2>2 DEF HLen
<1>12. ASSUME NEW s \in Server, Del(s) PROVE TypeOK' /\ ThreadOK'
  BY <1>12 DEF Del, Reached, Release, Return, Call, HashDel
<1>13. ASSUME NEW s \in Server, Throw(s) PROVE TypeOK' /\ ThreadOK'
  BY <1>13 DEF Throw
<1>14. ASSUME NEW s \in Server, NEW k \in Account, GetConnections(s, k)
       PROVE  TypeOK' /\ ThreadOK'
  BY <1>14 DEF GetConnections
<1>15. CASE Crash
  BY <1>15 DEF Crash, FreshMemory
<1>16. CASE Reset
  BY <1>16 DEF Reset, StartReset, ResetAccount, ResetRows, AccountsOfMachine, Row, HashDel
<1>17. CASE UNCHANGED vars
  BY <1>17 DEF vars
<1> QED
  BY <1>1, <1>2, <1>3, <1>4, <1>5, <1>6, <1>7, <1>8, <1>9, <1>10, <1>11, <1>12,
     <1>13, <1>14, <1>15, <1>16, <1>17 DEF Next, Event, HandlerStep

\* Every variable keeps its type, and every handler its locals.
THEOREM TypeCorrect == Spec => [](TypeOK /\ ThreadOK)
<1>1. Init => TypeOK /\ ThreadOK
  BY InitTypeOK DEF Init, FreshMemory, ThreadOK
<1>2. TypeOK /\ ThreadOK /\ [Next]_vars => TypeOK' /\ ThreadOK'
  BY NextTypeOK
<1> QED
  BY <1>1, <1>2, PTL DEF Spec

-----------------------------------------------------------------------------
(* Handles *)

\* A handler runs on behalf of the connection that lives at its address, so no
\* two handlers run at one address; on_close has dropped the handle first.
HandlerHolds ==
  \A s \in Server :
    /\ pc[s] # "idle" => Held(s, at[s])
    /\ pc[s] \in CloseSteps => conns[s][at[s]] \notin Conn

HandleInv == TypeOK /\ ThreadOK /\ HandlerHolds /\ HandleIsCurrent

LEMMA HandleNext ==
  ASSUME HandleInv, [Next]_vars
  PROVE  HandlerHolds' /\ HandleIsCurrent'
<1> USE StoreAssumption, ManagerAssumption
<1> USE DEF HandleInv, TypeOK, ThreadOK, HandlerHolds, HandleIsCurrent, Held, Steps,
            AnnounceSteps, CloseSteps, maps, thread, peers, stores, process
<1>1. ASSUME NEW s \in Server, NEW c \in Conn, NEW a \in Addr, Open(s, c, a)
      PROVE  HandlerHolds' /\ HandleIsCurrent'
  <2>1. \A t \in Server : conns[t][a] \notin Conn
    BY <1>1 DEF Open
  <2>2. HandlerHolds'
    BY <1>1 DEF Open, Call
  <2>3. HandleIsCurrent'
    BY <1>1, <2>1 DEF Open
  <2> QED
    BY <2>2, <2>3
<1>2. ASSUME NEW s \in Server, NEW a \in Addr, NEW k \in Account, Announce(s, a, k)
      PROVE  HandlerHolds' /\ HandleIsCurrent'
  BY <1>2 DEF Announce, Call
<1>3. ASSUME NEW s \in Server, NEW a \in Addr, Close(s, a)
      PROVE  HandlerHolds' /\ HandleIsCurrent'
  BY <1>3 DEF Close, Call, HandleErased
\* A close handler that ends: nobody else holds the address or a handle for it.
<1>4. ASSUME NEW s \in Server, pc[s] \in CloseSteps, Release(s), UNCHANGED conns
      PROVE  HandlerHolds' /\ HandleIsCurrent'
  <2>0. at[s] \in Addr /\ heap[at[s]] \in Conn /\ ServerOf[heap[at[s]]] = s
    BY <1>4
  <2>1. \A t \in Server : t # s /\ pc[t] # "idle" => at[t] # at[s]
    BY <2>0
  <2>2. HandlerHolds'
    BY <1>4, <2>1 DEF Release, Return, Call
  <2>3. \A t \in Server : conns[t][at[s]] \notin Conn
    BY <1>4, <2>0
  <2>4. HandleIsCurrent'
    BY <1>4, <2>3 DEF Release, Return, Call
  <2> QED
    BY <2>2, <2>4
\* A handler that goes on, or returns, without closing.
<1>5. ASSUME NEW s \in Server, NEW p \in Steps,
             pc[s] # "idle", p \in CloseSteps => pc[s] \in CloseSteps,
             Continue(s, p) \/ Return(s) \/ (\E k : Call(s, p, at[s], k)),
             UNCHANGED <<heap, conns>>
      PROVE  HandlerHolds' /\ HandleIsCurrent'
  BY <1>5 DEF Continue, Return, Call
<1>6. ASSUME NEW s \in Server, HandlerStep(s)
      PROVE  HandlerHolds' /\ HandleIsCurrent'
  <2>1. CASE InsertRow(s)
    BY <2>1, <1>5 DEF InsertRow, Reached
  <2>2. CASE UpdateRow(s)
    BY <2>2, <1>5 DEF UpdateRow, Reached
  <2>3. CASE SetConnMgnt(s)
    BY <2>3, <1>5 DEF SetConnMgnt, Reached
  <2>4. CASE LookupAccount(s)
    <3>1. pc[s] = "lookup" /\ UNCHANGED conns
      BY <2>4 DEF LookupAccount, Reached
    <3>2. CASE Release(s)
      BY <3>1, <3>2, <1>4
    <3>3. CASE (\E k : Call(s, "delete", at[s], k)) /\ UNCHANGED heap
      BY <3>1, <3>3, <1>5
    <3> QED
      BY <2>4, <3>2, <3>3 DEF LookupAccount
  <2>5. CASE DeleteRows(s)
    BY <2>5, <1>5 DEF DeleteRows, Reached
  <2>6. CASE Unmap(s)
    BY <2>6, <1>4, <1>5 DEF Unmap, Reached
  <2>7. CASE HDel(s)
    BY <2>7, <1>5 DEF HDel, Reached
  <2>8. CASE HLen(s)
    <3>1. pc[s] = "hlen" /\ UNCHANGED conns
      BY <2>8 DEF HLen, Reached
    <3>2. CASE Release(s)
      BY <3>1, <3>2, <1>4
    <3>3. CASE Continue(s, "del") /\ UNCHANGED heap
      BY <3>1, <3>3, <1>5
    <3> QED
      BY <2>8, <3>2, <3>3 DEF HLen
  <2>9. CASE Del(s)
    BY <2>9, <1>4 DEF Del, Reached
  <2> QED
    BY <1>6, <2>1, <2>2, <2>3, <2>4, <2>5, <2>6, <2>7, <2>8, <2>9 DEF HandlerStep
<1>7. ASSUME NEW s \in Server, Throw(s) PROVE HandlerHolds' /\ HandleIsCurrent'
  BY <1>7 DEF Throw
<1>8. ASSUME NEW s \in Server, NEW k \in Account, GetConnections(s, k)
      PROVE  HandlerHolds' /\ HandleIsCurrent'
  BY <1>8 DEF GetConnections
<1>9. CASE Crash
  BY <1>9 DEF Crash, FreshMemory
<1>10. CASE Reset
  BY <1>10 DEF Reset, StartReset, ResetAccount, ResetRows
<1>11. CASE UNCHANGED vars
  BY <1>11 DEF vars
<1> QED
  BY <1>1, <1>2, <1>3, <1>6, <1>7, <1>8, <1>9, <1>10, <1>11 DEF Next, Event

\* HandleIsCurrent, for every instance: m_connections never holds the handle of a
\* closed connection, nor that of another server's.
THEOREM HandlesAreCurrent == Spec => []HandleIsCurrent
<1>1. Init => HandleInv
  BY InitTypeOK, ManagerAssumption DEF Init, FreshMemory, HandleInv, ThreadOK,
     HandlerHolds, HandleIsCurrent, CloseSteps
<1>2. HandleInv /\ [Next]_vars => HandleInv'
  BY HandleNext, NextTypeOK DEF HandleInv
<1>3. HandleInv => HandleIsCurrent
  BY DEF HandleInv
<1> QED
  BY <1>1, <1>2, <1>3, PTL DEF Spec

-----------------------------------------------------------------------------
(* Rows of the table *)

\* All rows of an address name the same account, so a lookup has one answer.
RowsAgree == \A r, q \in table : r.addr = q.addr => r.account = q.account

\* What a handler has and has not yet written for its address.
HandlerRows ==
  \A s \in Server :
    /\ pc[s] = "insert" => \A r \in table : r.addr = at[s] => r.account = NoAccount
    /\ pc[s] \in {"unmap", "hdel", "hlen", "del"} => \A r \in table : r.addr # at[s]
    /\ pc[s] \in {"update", "hset", "delete", "unmap"} => at[s] \in clientConns[s][who[s]]

RowInv == HandleInv /\ RowsAgree /\ HandlerRows /\ RowIsMapped

LEMMA OneHandlerPerAddress ==
  ASSUME HandleInv, NEW s \in Server, NEW t \in Server, s # t,
         pc[s] # "idle", pc[t] # "idle"
  PROVE  at[s] # at[t]
BY DEF HandleInv, HandlerHolds, Held

\* An announcement only adds to an account's entry.
LEMMA AnnounceAdds ==
  ASSUME TypeOK, NEW s \in Server, NEW a \in Addr, NEW k \in Account, Announce(s, a, k),
         NEW t \in Server, NEW j \in Account
  PROVE  clientConns[t][j] \subseteq clientConns'[t][j]
<1>1. CASE clientConns' = [clientConns EXCEPT ![s][k] = @ \cup {a}]
  <2>1. clientConns'[t][j] =
          IF t = s /\ j = k THEN clientConns[s][k] \cup {a} ELSE clientConns[t][j]
    BY <1>1, EntryLookup DEF TypeOK
  <2> QED
    BY <2>1
<1>2. CASE UNCHANGED clientConns
  BY <1>2
<1> QED
  BY <1>1, <1>2 DEF Announce

\* When the rows of an address agree, the lookup answers with what they name.
LEMMA LookupAnswer ==
  ASSUME NEW a, NEW k \in AccountsAt(table, a), RowsAgree
  PROVE  /\ \A r \in table : r.addr = a => r.account = k
         /\ k # NoAccount => \E r \in table : r.addr = a /\ r.account = k
<1> DEFINE found == {r.account : r \in {x \in table : x.addr = a}}
<1>1. k \in IF found = {} THEN {NoAccount} ELSE found
  BY DEF AccountsAt
<1>2. CASE found = {}
  BY <1>1, <1>2
<1>3. CASE found # {}
  BY <1>1, <1>3 DEF RowsAgree
<1> QED
  BY <1>2, <1>3

LEMMA RowNext ==
  ASSUME RowInv, [Next]_vars
  PROVE  RowsAgree' /\ HandlerRows' /\ RowIsMapped'
<1> USE StoreAssumption, ManagerAssumption
<1> USE DEF RowsAgree, HandlerRows, RowIsMapped, Steps, AnnounceSteps, CloseSteps,
            maps, thread, peers, stores, process
<1>0. HandleInv /\ TypeOK /\ ThreadOK /\ HandlerHolds
  BY DEF RowInv, HandleInv
<1> USE <1>0 DEF RowInv, TypeOK
<1>a. \A s, t \in Server : s # t /\ pc[s] # "idle" /\ pc[t] # "idle" => at[s] # at[t]
  BY OneHandlerPerAddress
<1>1. ASSUME NEW s \in Server, NEW c \in Conn, NEW a \in Addr, Open(s, c, a)
      PROVE  RowsAgree' /\ HandlerRows' /\ RowIsMapped'
  <2>1. \A r \in table : r.addr = a => r.account = NoAccount
    BY <1>1 DEF Open, Ready
  <2> QED
    BY <1>1, <2>1 DEF Open, Call, Ready
<1>2. ASSUME NEW s \in Server, NEW a \in Addr, NEW k \in Account, Announce(s, a, k)
      PROVE  RowsAgree' /\ HandlerRows' /\ RowIsMapped'
  <2>1. /\ \A t \in Server, j \in Account : clientConns[t][j] \subseteq clientConns'[t][j]
        /\ UNCHANGED <<heap, table, proc>>
    BY <1>2, AnnounceAdds DEF Announce
  <2>2. RowsAgree' /\ RowIsMapped'
    BY <2>1, StoreAssumption DEF Row
  <2>3. HandlerRows'
    BY <1>2, <2>1 DEF Announce, Call, ThreadOK, Ready
  <2> QED
    BY <2>2, <2>3
<1>3. ASSUME NEW s \in Server, NEW a \in Addr, Close(s, a)
      PROVE  RowsAgree' /\ HandlerRows' /\ RowIsMapped'
  BY <1>3 DEF Close, Call, HandleErased
\* Steps of a handler that write neither the table nor an account's entry.
<1>4. ASSUME NEW s \in Server, NEW p \in Steps,
             p \in {"hdel", "hlen", "del"} => pc[s] \in {"unmap", "hdel", "hlen", "del"},
             p \in {"idle", "hset", "hdel", "hlen", "del"},
             p = "hset" => pc[s] = "update",
             Continue(s, p) \/ (p = "idle" /\ Return(s)), pc[s] # "idle",
             UNCHANGED <<heap, clientConns, table, proc>>
      PROVE  RowsAgree' /\ HandlerRows' /\ RowIsMapped'
  BY <1>4 DEF Continue, Return, Call
\* A connection goes away: no row names an account for its address.
<1>5. ASSUME NEW s \in Server, pc[s] # "idle", Release(s),
             \A r \in table : r.addr = at[s] => r.account = NoAccount,
             UNCHANGED <<clientConns, table, proc>>
      PROVE  RowsAgree' /\ HandlerRows' /\ RowIsMapped'
  <2>1. \A r \in table : r.account # NoAccount => heap'[r.addr] = heap[r.addr]
    BY <1>5 DEF Release, Row, ThreadOK
  <2>2. RowIsMapped'
    BY <1>5, <2>1
  <2> QED
    BY <1>5, <2>2 DEF Release, Return, Call
<1>6. ASSUME NEW s \in Server, InsertRow(s)
      PROVE  RowsAgree' /\ HandlerRows' /\ RowIsMapped'
  <2>1. /\ pc[s] = "insert" /\ Return(s) /\ UNCHANGED <<heap, clientConns>>
        /\ table' = table \cup {[addr |-> at[s], account |-> NoAccount]}
    BY <1>6 DEF InsertRow, Reached, AddRow
  <2>2. RowsAgree' /\ RowIsMapped'
    BY <1>6, <2>1 DEF InsertRow
  <2>3. ASSUME NEW t \in Server, t # s, pc[t] # "idle", NEW r \in table', r.addr = at[t]
        PROVE  r \in table
    BY <2>1, <2>3, <1>a
  <2>4. HandlerRows'
    BY <2>1, <2>3 DEF Return, Call
  <2> QED
    BY <2>2, <2>4
<1>7. ASSUME NEW s \in Server, UpdateRow(s)
      PROVE  RowsAgree' /\ HandlerRows' /\ RowIsMapped'
  <2>1. /\ pc[s] = "update" /\ Continue(s, "hset") /\ UNCHANGED <<heap, clientConns, proc>>
        /\ at[s] \in clientConns[s][who[s]]
        /\ heap[at[s]] \in Conn /\ ServerOf[heap[at[s]]] = s
    BY <1>7 DEF UpdateRow, Reached, HandlerHolds, Held
  <2>2. table' = {[addr |-> r.addr,
                   account |-> IF r.addr = at[s] THEN who[s] ELSE r.account] : r \in table}
    BY <1>7 DEF UpdateRow, UpdateRows
  <2>3. \A r \in table' : \E q \in table :
          /\ r.addr = q.addr
          /\ r.account = IF q.addr = at[s] THEN who[s] ELSE q.account
    BY <2>2
  <2>4. RowsAgree'
    BY <2>3
  <2>5. ASSUME NEW r \in table', proc = "up", r.account # NoAccount
        PROVE  heap[r.addr] \in Conn /\ r.addr \in clientConns[ServerOf[heap[r.addr]]][r.account]
    <3>1. PICK q \in table :
            /\ r.addr = q.addr
            /\ r.account = IF q.addr = at[s] THEN who[s] ELSE q.account
      BY <2>3
    <3>2. CASE q.addr = at[s]
      BY <2>1, <3>1, <3>2
    <3>3. CASE q.addr # at[s]
      BY <2>5, <3>1, <3>3
    <3> QED
      BY <3>2, <3>3
  <2>6. ASSUME NEW t \in Server, t # s
        PROVE  /\ pc[t] = "insert" => \A r \in table' : r.addr = at[t] => r.account = NoAccount
               /\ pc[t] \in {"unmap", "hdel", "hlen", "del"} => \A r \in table' : r.addr # at[t]
    <3>1. pc[t] # "idle" => at[t] # at[s]
      BY <1>a, <2>1, <2>6
    <3>2. \A r \in table' : r.addr # at[s] =>
            \E q \in table : r.addr = q.addr /\ r.account = q.account
      BY <2>3
    <3>3. ASSUME pc[t] = "insert", NEW r \in table', r.addr = at[t]
          PROVE  r.account = NoAccount
      <4>1. PICK q \in table : r.addr = q.addr /\ r.account = q.account
        BY <3>1, <3>2, <3>3
      <4> QED
        BY <3>3, <4>1
    <3>4. ASSUME pc[t] \in {"unmap", "hdel", "hlen", "del"}, NEW r \in table'
          PROVE  r.addr # at[t]
      BY <3>1, <3>2, <3>4
    <3> QED
      BY <3>3, <3>4
  <2>7. HandlerRows'
    BY <2>1, <2>6 DEF Continue
  <2> QED
    BY <2>1, <2>4, <2>5, <2>7
<1>8. ASSUME NEW s \in Server, LookupAccount(s)
      PROVE  RowsAgree' /\ HandlerRows' /\ RowIsMapped'
  <2>1. pc[s] = "lookup" /\ UNCHANGED <<clientConns, table, proc>>
    BY <1>8 DEF LookupAccount, Reached
  <2>2. PICK k \in AccountsAt(table, at[s]) :
          \/ k = NoAccount /\ Release(s)
          \/ k # NoAccount /\ Call(s, "delete", at[s], k) /\ UNCHANGED heap
    BY <1>8 DEF LookupAccount
  <2>3. /\ \A r \in table : r.addr = at[s] => r.account = k
        /\ k # NoAccount => \E r \in table : r.addr = at[s] /\ r.account = k
    BY LookupAnswer
  <2>4. CASE k = NoAccount
    BY <1>5, <2>1, <2>2, <2>3, <2>4
  <2>5. CASE k # NoAccount
    <3>1. at[s] \in clientConns[s][k]
      <4>1. PICK r \in table : r.addr = at[s] /\ r.account = k
        BY <2>3, <2>5
      <4>2. heap[at[s]] \in Conn /\ ServerOf[heap[at[s]]] = s /\ proc = "up"
        BY <1>8 DEF HandlerHolds, Held, LookupAccount, Reached
      <4> QED
        BY <2>5, <4>1, <4>2
    <3>2. RowIsMapped' /\ RowsAgree'
      BY <2>1, <2>2, <2>5
    <3>3. /\ pc' = [pc EXCEPT ![s] = "delete"] /\ who' = [who EXCEPT ![s] = k]
          /\ at' = [at EXCEPT ![s] = at[s]]
      BY <2>2, <2>5 DEF Call
    <3>4. HandlerRows'
      BY <2>1, <3>1, <3>3
    <3> QED
      BY <3>2, <3>4
  <2> QED
    BY <2>4, <2>5
<1>9. ASSUME NEW s \in Server, DeleteRows(s)
      PROVE  RowsAgree' /\ HandlerRows' /\ RowIsMapped'
  <2>1. /\ pc[s] = "delete" /\ Continue(s, "unmap") /\ UNCHANGED <<heap, clientConns, proc>>
        /\ table' = {r \in table : r.addr # at[s]}
    BY <1>9 DEF DeleteRows, Reached, RowsWithout
  <2> QED
    BY <2>1 DEF Continue
<1>10. ASSUME NEW s \in Server, Unmap(s)
       PROVE  RowsAgree' /\ HandlerRows' /\ RowIsMapped'
  <2> DEFINE v == clientConns[s][who[s]]
  <2>1. /\ pc[s] = "unmap" /\ at[s] \in v /\ who[s] \in Account
        /\ UNCHANGED <<heap, table, proc>>
    BY <1>10 DEF Unmap, Reached, ThreadOK
  <2>2. PICK p \in {"hdel", "del"} :
          /\ clientConns' = [clientConns EXCEPT ![s][who[s]] = v \ {at[s]}]
          /\ Continue(s, p)
    BY <1>10, <2>1 DEF Unmap, Several, EntryWithout
  <2>3. \A t \in Server, j \in Account : \A a \in clientConns[t][j] :
          a # at[s] => a \in clientConns'[t][j]
    BY <2>1, <2>2
  <2>4. RowIsMapped'
    BY <2>1, <2>3 DEF Row
  <2>5. HandlerRows'
    BY <2>1, <2>2, <2>3, OneHandlerPerAddress DEF Continue, ThreadOK
  <2> QED
    BY <2>1, <2>4, <2>5
<1>11. ASSUME NEW s \in Server, HandlerStep(s)
       PROVE  RowsAgree' /\ HandlerRows' /\ RowIsMapped'
  <2>1. CASE SetConnMgnt(s)
    BY <2>1, <1>4 DEF SetConnMgnt, Reached
  <2>2. CASE HDel(s)
    BY <2>2, <1>4 DEF HDel, Reached
  <2>3. CASE HLen(s)
    <3>1. pc[s] = "hlen" /\ UNCHANGED <<clientConns, table, proc>>
      BY <2>3 DEF HLen, Reached
    <3>2. CASE Release(s)
      BY <3>1, <3>2, <1>5
    <3>3. CASE Continue(s, "del") /\ UNCHANGED heap
      BY <3>1, <3>3, <1>4
    <3> QED
      BY <2>3, <3>2, <3>3 DEF HLen
  <2>4. CASE Del(s)
    BY <2>4, <1>5 DEF Del, Reached
  <2> QED
    BY <1>6, <1>7, <1>8, <1>9, <1>10, <1>11, <2>1, <2>2, <2>3, <2>4 DEF HandlerStep
<1>12. ASSUME NEW s \in Server, Throw(s)
       PROVE  RowsAgree' /\ HandlerRows' /\ RowIsMapped'
  BY <1>12 DEF Throw
<1>13. ASSUME NEW s \in Server, NEW k \in Account, GetConnections(s, k)
       PROVE  RowsAgree' /\ HandlerRows' /\ RowIsMapped'
  BY <1>13 DEF GetConnections
<1>14. CASE Crash
  BY <1>14 DEF Crash, FreshMemory
<1>15. CASE Reset
  BY <1>15 DEF Reset, StartReset, ResetAccount, ResetRows
<1>16. CASE UNCHANGED vars
  BY <1>16 DEF vars
<1> QED
  BY <1>1, <1>2, <1>3, <1>11, <1>12, <1>13, <1>14, <1>15, <1>16 DEF Next, Event

LEMMA RowInvariance == Spec => []RowInv
<1>1. Init => RowInv
  BY InitTypeOK, ManagerAssumption DEF Init, FreshMemory, RowInv, HandleInv, ThreadOK,
     HandlerHolds, HandleIsCurrent, CloseSteps, RowsAgree, HandlerRows, RowIsMapped
<1>2. RowInv /\ [Next]_vars => RowInv'
  BY RowNext, HandleNext, NextTypeOK DEF RowInv, HandleInv
<1> QED
  BY <1>1, <1>2, PTL DEF Spec

\* RowIsMapped, for every instance, peers that announce several accounts included:
\* on_close may trust the account the table gives it.
THEOREM RowsAreMapped == Spec => []RowIsMapped
BY RowInvariance, PTL DEF RowInv

\* UnmapsOnlyOwn, for every instance: closing a connection never makes a manager
\* forget another connection of the same account.
THEOREM ClosesUnmapOnlyOwn == Spec => UnmapsOnlyOwn
<1> DEFINE OwnOnly ==
      \A s \in Server, k \in Account :
        \A a \in clientConns[s][k] \ clientConns'[s][k] :
          proc' = "down" \/ (pc[s] = "unmap" /\ at[s] = a)
<1>1. RowInv /\ [Next]_vars => [OwnOnly]_vars
  <2> SUFFICES ASSUME RowInv, Next PROVE OwnOnly
    OBVIOUS
  <2> USE DEF maps, thread, peers, stores, process
  <2>0. TypeOK /\ ThreadOK /\ HandlerRows
    BY DEF RowInv, HandleInv
  <2>1. ASSUME NEW s \in Server, Unmap(s) PROVE OwnOnly
    <3>1. /\ pc[s] = "unmap" /\ at[s] \in clientConns[s][who[s]] /\ who[s] \in Account
      BY <2>0, <2>1 DEF Unmap, Reached, HandlerRows, ThreadOK
    <3>2. clientConns' = [clientConns EXCEPT ![s][who[s]] = @ \ {at[s]}]
      BY <2>1, <3>1 DEF Unmap, Several, EntryWithout
    <3> QED
      BY <2>0, <3>1, <3>2 DEF TypeOK
  <2>2. ASSUME NEW s \in Server, NEW a \in Addr, NEW k \in Account, Announce(s, a, k)
        PROVE  OwnOnly
    BY <2>0, <2>2, AnnounceAdds
  <2>3. ASSUME NEW s \in Server, HandlerStep(s), ~Unmap(s) PROVE UNCHANGED clientConns
    BY <2>3 DEF HandlerStep, InsertRow, UpdateRow, SetConnMgnt, LookupAccount,
                DeleteRows, HDel, HLen, Del
  <2>4. CASE Crash
    BY <2>4 DEF Crash
  <2>5. CASE Reset
    BY <2>5 DEF Reset, StartReset, ResetAccount, ResetRows
  <2>6. CASE \E s \in Server : Throw(s) \/ (\E k \in Account : GetConnections(s, k))
    BY <2>6 DEF Throw, GetConnections
  <2>7. CASE \E s \in Server, a \in Addr : Close(s, a) \/ (\E c \in Conn : Open(s, c, a))
    BY <2>7 DEF Close, Open
  <2> QED
    BY <2>1, <2>2, <2>3, <2>4, <2>5, <2>6, <2>7 DEF Next, Event
<1> QED
  BY <1>1, RowInvariance, PTL DEF Spec, UnmapsOnlyOwn

-----------------------------------------------------------------------------
(* A process that is not running *)

\* A process that is not up has empty managers and no connections.
DownIsEmpty ==
  proc # "up" => /\ \A s \in Server, k \in Account : clientConns[s][k] = {}
                 /\ \A a \in Addr : heap[a] = NoConn

LEMMA DownNext ==
  ASSUME HandleInv, DownIsEmpty, [Next]_vars
  PROVE  DownIsEmpty'
<1> USE DEF DownIsEmpty, process, peers, maps, thread, stores
<1>1. ASSUME NEW s \in Server, Event(s) PROVE DownIsEmpty'
  BY <1>1 DEF Event, Open, Announce, Close, Ready
<1>2. ASSUME NEW s \in Server, HandlerStep(s) PROVE DownIsEmpty'
  BY <1>2 DEF HandlerStep, InsertRow, UpdateRow, SetConnMgnt, LookupAccount, DeleteRows,
              Unmap, HDel, HLen, Del, Reached
<1>3. CASE Crash
  BY <1>3 DEF Crash, FreshMemory
<1>4. CASE Reset
  BY <1>4 DEF Reset, StartReset, ResetAccount, ResetRows
<1>5. CASE \E s \in Server : Throw(s) \/ (\E k \in Account : GetConnections(s, k))
  BY <1>5 DEF Throw, GetConnections
<1>6. CASE UNCHANGED vars
  BY <1>6 DEF vars
<1> QED
  BY <1>1, <1>2, <1>3, <1>4, <1>5, <1>6 DEF Next

-----------------------------------------------------------------------------
(* Entries of accounts, when no peer announces two accounts *)

RowOf(a, k) == [addr |-> a, account |-> k]

\* A mapped address has its row, except between the two writes of a handler.
EntryHasRow ==
  \A s \in Server, k \in Account : \A a \in clientConns[s][k] :
    \/ RowOf(a, k) \in table
    \/ at[s] = a /\ pc[s] \in {"update", "unmap"}

\* So does every connection, from the end of on_open to its close handler.
ConnHasRow ==
  \A s \in Server, a \in Addr :
    Held(s, a) => \/ \E r \in table : r.addr = a
                  \/ at[s] = a /\ pc[s] \in {"insert", "unmap", "hdel", "hlen", "del"}

Unmapped ==
  \A s \in Server : pc[s] \in {"hdel", "hlen", "del"} =>
    \A k \in Account : at[s] \notin clientConns[s][k]

OwnInv == RowInv /\ DownIsEmpty /\ MappedIsOwned /\ EntryHasRow /\ ConnHasRow /\ Unmapped

LEMMA OwnNext ==
  ASSUME OwnInv, Rename = FALSE, [Next]_vars
  PROVE  MappedIsOwned' /\ EntryHasRow' /\ ConnHasRow' /\ Unmapped'
<1> USE StoreAssumption, ManagerAssumption
<1> USE DEF Steps, AnnounceSteps, CloseSteps, maps, thread, peers, stores, process
<1> DEFINE Goal == MappedIsOwned /\ EntryHasRow /\ ConnHasRow /\ Unmapped
<1>0. /\ TypeOK /\ ThreadOK /\ HandlerRows /\ HandlerHolds /\ RowsAgree /\ DownIsEmpty
      /\ MappedIsOwned /\ EntryHasRow /\ ConnHasRow /\ Unmapped
  BY DEF OwnInv, RowInv, HandleInv
<1> USE <1>0 DEF TypeOK
<1>a. \A s, t \in Server : s # t /\ pc[s] # "idle" /\ pc[t] # "idle" => at[s] # at[t]
  BY OneHandlerPerAddress DEF OwnInv, RowInv
\* The address of a handler is mapped by no manager but the handler's own.
<1>b. ASSUME NEW s \in Server, pc[s] # "idle", NEW t \in Server, t # s, NEW k \in Account
      PROVE  at[s] \notin clientConns[t][k]
  BY <1>b DEF HandlerHolds, Held, MappedIsOwned
\* An address is in one entry.
<1>c. ASSUME NEW s \in Server, NEW t \in Server, NEW j \in Account, NEW k \in Account,
             NEW a \in clientConns[s][j], a \in clientConns[t][k]
      PROVE  s = t /\ j = k
  <2>1. Held(s, a) /\ names[heap[a]] = {j}
    BY DEF MappedIsOwned
  <2>2. Held(t, a) /\ names[heap[a]] = {k}
    BY <1>c DEF MappedIsOwned
  <2> QED
    BY <2>1, <2>2 DEF Held
<1>1. ASSUME NEW s \in Server, NEW c \in Conn, NEW a \in Addr, Open(s, c, a)
      PROVE  Goal'
  <2>1. /\ pc[s] = "idle" /\ heap[a] = NoConn /\ heap' = [heap EXCEPT ![a] = c]
        /\ ServerOf[c] = s /\ UNCHANGED <<names, clientConns, table>> /\ Call(s, "insert", a, NoAccount)
    BY <1>1 DEF Open, Ready
  <2>2. \A t \in Server, k \in Account : a \notin clientConns[t][k]
    BY <2>1 DEF MappedIsOwned, Held
  <2>3. MappedIsOwned'
    BY <2>1, <2>2 DEF MappedIsOwned, Held
  <2>4. EntryHasRow'
    BY <2>1, <2>2 DEF EntryHasRow, Call
  <2>5. ConnHasRow'
    BY <2>1 DEF ConnHasRow, Held, Call
  <2>6. Unmapped'
    BY <2>1 DEF Unmapped, Call
  <2> QED
    BY <2>3, <2>4, <2>5, <2>6
<1>2. ASSUME NEW s \in Server, NEW a \in Addr, NEW k \in Account, Announce(s, a, k)
      PROVE  Goal'
  <2>1. /\ pc[s] = "idle" /\ Held(s, a) /\ names[heap[a]] \subseteq {k}
        /\ names' = [names EXCEPT ![heap[a]] = @ \cup {k}]
        /\ UNCHANGED <<heap, table, proc>>
    BY <1>2 DEF Announce, Ready
  <2>2. names'[heap[a]] = {k} /\ \A c \in Conn : c # heap[a] => names'[c] = names[c]
    BY <2>1 DEF Held
  <2>3. ASSUME NEW t \in Server, NEW j \in Account, NEW b \in clientConns[t][j]
        PROVE  Held(t, b)' /\ names'[heap[b]] = {j}
    <3>1. Held(t, b) /\ names[heap[b]] = {j}
      BY DEF MappedIsOwned
    <3>2. CASE heap[b] = heap[a]
      BY <2>1, <2>2, <3>1, <3>2 DEF Held
    <3>3. CASE heap[b] # heap[a]
      BY <2>1, <2>2, <3>1, <3>3 DEF Held
    <3> QED
      BY <3>2, <3>3
  <2>4. CASE UNCHANGED <<clientConns, thread>>
    <3>1. MappedIsOwned'
      BY <2>1, <2>3, <2>4 DEF MappedIsOwned
    <3>2. EntryHasRow' /\ ConnHasRow' /\ Unmapped'
      BY <2>1, <2>4 DEF EntryHasRow, ConnHasRow, Unmapped, Held
    <3> QED
      BY <3>1, <3>2
  <2>5. CASE /\ clientConns' = [clientConns EXCEPT ![s][k] = @ \cup {a}]
             /\ Call(s, "update", a, k)
    <3>1. \A t \in Server, j \in Account : clientConns'[t][j] =
            IF t = s /\ j = k THEN clientConns[s][k] \cup {a} ELSE clientConns[t][j]
      BY <2>5, EntryLookup
    <3>2. ASSUME NEW t \in Server, NEW j \in Account, NEW b \in clientConns'[t][j]
          PROVE  b \in clientConns[t][j] \/ (t = s /\ j = k /\ b = a)
      BY <3>1, <3>2
    <3>3. MappedIsOwned'
      <4>1. Held(s, a)' /\ names'[heap'[a]] = {k}
        BY <2>1, <2>2 DEF Held
      <4>2. ASSUME NEW t \in Server, NEW j \in Account, NEW b \in clientConns'[t][j]
            PROVE  Held(t, b)' /\ names'[heap'[b]] = {j}
        BY <2>1, <2>3, <3>2, <4>1
      <4> QED
        BY <4>2 DEF MappedIsOwned
    <3>4. EntryHasRow'
      BY <2>1, <2>5, <3>2 DEF EntryHasRow, Call
    <3>5. ConnHasRow'
      BY <2>1, <2>5 DEF ConnHasRow, Held, Call
    <3>6. Unmapped'
      <4>1. ASSUME NEW t \in Server, pc'[t] \in {"hdel", "hlen", "del"}
            PROVE  t # s /\ at'[t] = at[t] /\ pc[t] = pc'[t]
        BY <2>5, <4>1 DEF Call
      <4> QED
        BY <3>2, <4>1 DEF Unmapped
    <3> QED
      BY <3>3, <3>4, <3>5, <3>6
  <2> QED
    BY <1>2, <2>4, <2>5 DEF Announce
<1>3. ASSUME NEW s \in Server, NEW a \in Addr, Close(s, a) PROVE Goal'
  BY <1>3 DEF Close, Call, Ready, MappedIsOwned, EntryHasRow, ConnHasRow, Unmapped, Held
\* Steps of a handler that leave the connections, their entries and rows alone.
<1>4. ASSUME NEW s \in Server, NEW p \in Steps, pc[s] \notin {"idle", "insert", "update", "unmap"},
             p \in {"hdel", "hlen", "del"} <=> pc[s] \in {"hdel", "hlen", "del"},
             p # "insert" /\ p # "update" /\ p # "unmap",
             \/ Continue(s, p)
             \/ \E k : Call(s, p, at[s], k)
             \/ Return(s) /\ p = "idle",
             UNCHANGED <<heap, names, clientConns, table>>
      PROVE  Goal'
  <2>1. pc' = [pc EXCEPT ![s] = p] /\ \A t \in Server : t # s => at'[t] = at[t]
    BY <1>4 DEF Continue, Return, Call
  <2>2. p # "idle" => at' = at
    BY <1>4 DEF Continue, Call
  <2>3. MappedIsOwned'
    BY <1>4 DEF MappedIsOwned, Held
  <2>4. EntryHasRow'
    BY <1>4, <2>1 DEF EntryHasRow
  <2>5. ConnHasRow'
    BY <1>4, <2>1, <2>2 DEF ConnHasRow, Held
  <2>6. Unmapped'
    BY <1>4, <2>1, <2>2 DEF Unmapped
  <2> QED
    BY <2>3, <2>4, <2>5, <2>6
\* A connection goes away: its address is in no entry.
<1>5. ASSUME NEW s \in Server, pc[s] \notin {"idle", "insert", "update", "unmap"}, Release(s),
             \A k \in Account : at[s] \notin clientConns[s][k],
             UNCHANGED <<names, clientConns, table>>
      PROVE  Goal'
  <2>1. /\ heap' = [heap EXCEPT ![at[s]] = NoConn] /\ at[s] \in Addr
        /\ pc' = [pc EXCEPT ![s] = "idle"] /\ \A t \in Server : t # s => at'[t] = at[t]
    BY <1>5 DEF Release, Return, Call, ThreadOK
  <2>2. \A t \in Server, k \in Account : at[s] \notin clientConns[t][k]
    BY <1>5, <1>b
  <2>3. MappedIsOwned'
    BY <1>5, <2>1, <2>2 DEF MappedIsOwned, Held
  <2>4. EntryHasRow'
    BY <1>5, <2>1, <2>2 DEF EntryHasRow
  <2>5. ConnHasRow'
    <3>1. ASSUME NEW t \in Server, NEW a \in Addr, Held(t, a)'
          PROVE  Held(t, a) /\ a # at[s]
      BY <2>1, <3>1 DEF Held
    <3> QED
      BY <1>5, <2>1, <3>1 DEF ConnHasRow
  <2>6. Unmapped'
    BY <1>5, <2>1 DEF Unmapped
  <2> QED
    BY <2>3, <2>4, <2>5, <2>6
<1>6. ASSUME NEW s \in Server, InsertRow(s) PROVE Goal'
  <2>1. /\ pc[s] = "insert" /\ Return(s) /\ UNCHANGED <<heap, names, clientConns>>
        /\ table' = table \cup {[addr |-> at[s], account |-> NoAccount]}
    BY <1>6 DEF InsertRow, Reached, AddRow
  <2>2. MappedIsOwned'
    BY <2>1 DEF MappedIsOwned, Held
  <2>3. EntryHasRow' /\ Unmapped'
    BY <2>1 DEF EntryHasRow, Unmapped, Return, Call
  <2>4. ConnHasRow'
    <3>1. [addr |-> at[s], account |-> NoAccount].addr = at[s]
      OBVIOUS
    <3>2. \E r \in table' : r.addr = at[s]
      BY <2>1, <3>1
    <3>3. ASSUME NEW t \in Server, NEW a \in Addr, Held(t, a), a # at[s]
          PROVE  \/ \E r \in table' : r.addr = a
                 \/ at'[t] = a /\ pc'[t] \in {"insert", "unmap", "hdel", "hlen", "del"}
      BY <2>1, <3>3 DEF ConnHasRow, Return, Call
    <3> QED
      BY <2>1, <3>2, <3>3 DEF ConnHasRow, Held
  <2> QED
    BY <2>2, <2>3, <2>4
<1>7. ASSUME NEW s \in Server, UpdateRow(s) PROVE Goal'
  <2>1. /\ pc[s] = "update" /\ Continue(s, "hset") /\ UNCHANGED <<heap, names, clientConns>>
        /\ at[s] \in Addr /\ Held(s, at[s]) /\ who[s] \in Account
        /\ at[s] \in clientConns[s][who[s]]
    BY <1>7 DEF UpdateRow, Reached, ThreadOK, HandlerHolds, HandlerRows
  <2>2. table' = {[addr |-> r.addr,
                   account |-> IF r.addr = at[s] THEN who[s] ELSE r.account] : r \in table}
    BY <1>7 DEF UpdateRow, UpdateRows
  <2>3. \A r \in table : [addr |-> r.addr,
                          account |-> IF r.addr = at[s] THEN who[s] ELSE r.account] \in table'
    BY <2>2
  <2>4. MappedIsOwned' /\ Unmapped'
    BY <2>1 DEF MappedIsOwned, Unmapped, Held, Continue
  <2>5. ConnHasRow'
    <3>1. ASSUME NEW a \in Addr, NEW r \in table, r.addr = a
          PROVE  \E q \in table' : q.addr = a
      BY <2>3, <3>1
    <3> QED
      BY <2>1, <3>1 DEF ConnHasRow, Held, Continue
  <2>6. RowOf(at[s], who[s]) \in table'
    <3>1. PICK r \in table : r.addr = at[s]
      BY <2>1 DEF ConnHasRow
    <3> QED
      BY <2>3, <3>1 DEF RowOf
  <2>7. EntryHasRow'
    <3>1. ASSUME NEW t \in Server, NEW k \in Account, NEW a \in clientConns[t][k]
          PROVE  RowOf(a, k) \in table'
                 \/ (at'[t] = a /\ pc'[t] \in {"update", "unmap"})
      <4>1. CASE a = at[s]
        <5>1. t = s /\ k = who[s]
          BY <1>c, <2>1, <4>1
        <5> QED
          BY <2>6, <4>1, <5>1
      <4>2. CASE a # at[s]
        <5>1. CASE RowOf(a, k) \in table
          <6>1. /\ RowOf(a, k).addr = a /\ RowOf(a, k).account = k
                /\ RowOf(a, k) = [addr |-> RowOf(a, k).addr, account |-> RowOf(a, k).account]
            BY DEF RowOf
          <6> QED
            BY <2>3, <4>2, <5>1, <6>1
        <5>2. CASE at[t] = a /\ pc[t] \in {"update", "unmap"}
          BY <2>1, <4>2, <5>2 DEF Continue
        <5> QED
          BY <5>1, <5>2 DEF EntryHasRow
      <4> QED
        BY <4>1, <4>2
    <3> QED
      BY <2>1, <3>1 DEF EntryHasRow
  <2> QED
    BY <2>4, <2>5, <2>7
<1>8. ASSUME NEW s \in Server, LookupAccount(s) PROVE Goal'
  <2>1. pc[s] = "lookup" /\ UNCHANGED <<names, clientConns, table>>
    BY <1>8 DEF LookupAccount, Reached
  <2>2. PICK k \in AccountsAt(table, at[s]) :
          \/ k = NoAccount /\ Release(s)
          \/ k # NoAccount /\ Call(s, "delete", at[s], k) /\ UNCHANGED heap
    BY <1>8 DEF LookupAccount
  <2>3. CASE k = NoAccount
    <3>1. \A r \in table : r.addr = at[s] => r.account = NoAccount
      BY <2>3, LookupAnswer
    <3>2. ASSUME NEW j \in Account, at[s] \in clientConns[s][j] PROVE FALSE
      <4>1. RowOf(at[s], j) \in table
        BY <2>1, <3>2 DEF EntryHasRow
      <4> QED
        BY <3>1, <4>1 DEF RowOf
    <3> QED
      BY <1>5, <2>1, <2>2, <2>3, <3>2
  <2>4. CASE Call(s, "delete", at[s], k) /\ UNCHANGED heap
    BY <1>4, <2>1, <2>4
  <2> QED
    BY <2>2, <2>3, <2>4
<1>9. ASSUME NEW s \in Server, DeleteRows(s) PROVE Goal'
  <2>1. /\ pc[s] = "delete" /\ Continue(s, "unmap") /\ UNCHANGED <<heap, names, clientConns>>
        /\ table' = {r \in table : r.addr # at[s]}
    BY <1>9 DEF DeleteRows, Reached, RowsWithout
  <2>2. MappedIsOwned' /\ Unmapped'
    BY <2>1 DEF MappedIsOwned, Unmapped, Held, Continue
  <2>3. ConnHasRow'
    <3>1. ASSUME NEW t \in Server, NEW a \in Addr, Held(t, a)
          PROVE  \/ \E r \in table' : r.addr = a
                 \/ at'[t] = a /\ pc'[t] \in {"insert", "unmap", "hdel", "hlen", "del"}
      <4>1. CASE a = at[s]
        BY <2>1, <3>1, <4>1 DEF Held, HandlerHolds, Continue
      <4>2. CASE a # at[s]
        BY <2>1, <3>1, <4>2 DEF ConnHasRow, Continue
      <4> QED
        BY <4>1, <4>2
    <3> QED
      BY <2>1, <3>1 DEF ConnHasRow, Held
  <2>4. EntryHasRow'
    <3>1. ASSUME NEW t \in Server, NEW k \in Account, NEW a \in clientConns[t][k]
          PROVE  RowOf(a, k) \in table'
                 \/ (at'[t] = a /\ pc'[t] \in {"update", "unmap"})
      <4>1. CASE a = at[s]
        <5>1. t = s
          BY <1>b, <2>1, <4>1
        <5> QED
          BY <2>1, <4>1, <5>1 DEF Continue
      <4>2. CASE a # at[s]
        <5>1. RowOf(a, k).addr = a
          BY DEF RowOf
        <5> QED
          BY <2>1, <4>2, <5>1 DEF EntryHasRow, Continue
      <4> QED
        BY <4>1, <4>2
    <3> QED
      BY <2>1, <3>1 DEF EntryHasRow
  <2> QED
    BY <2>2, <2>3, <2>4
<1>10. ASSUME NEW s \in Server, Unmap(s) PROVE Goal'
  <2> DEFINE v == clientConns[s][who[s]]
  <2>1. /\ pc[s] = "unmap" /\ at[s] \in v /\ who[s] \in Account
        /\ UNCHANGED <<heap, names, table>>
    BY <1>10 DEF Unmap, Reached, ThreadOK, HandlerRows
  <2>2. PICK p \in {"hdel", "del"} :
          /\ clientConns' = [clientConns EXCEPT ![s][who[s]] = v \ {at[s]}]
          /\ Continue(s, p)
    BY <1>10, <2>1 DEF Unmap, Several, EntryWithout
  <2>3. ASSUME NEW t \in Server, NEW j \in Account
        PROVE  /\ clientConns'[t][j] \subseteq clientConns[t][j]
               /\ at[s] \notin clientConns'[t][j]
    <3>1. CASE t = s /\ j = who[s]
      BY <2>1, <2>2, <3>1
    <3>2. CASE ~(t = s /\ j = who[s])
      <4>1. clientConns'[t][j] = clientConns[t][j]
        BY <2>1, <2>2, <3>2, EntryLookup
      <4>2. at[s] \notin clientConns[t][j]
        BY <1>c, <2>1, <3>2
      <4> QED
        BY <4>1, <4>2
    <3> QED
      BY <3>1, <3>2
  <2>4. MappedIsOwned'
    BY <2>1, <2>3 DEF MappedIsOwned, Held
  <2>5. EntryHasRow'
    BY <2>1, <2>2, <2>3 DEF EntryHasRow, Continue
  <2>6. ConnHasRow'
    BY <2>1, <2>2 DEF ConnHasRow, Held, Continue
  <2>7. Unmapped'
    BY <2>2, <2>3 DEF Unmapped, Continue
  <2> QED
    BY <2>4, <2>5, <2>6, <2>7
<1>11. ASSUME NEW s \in Server, SetConnMgnt(s) \/ HDel(s) \/ HLen(s) \/ Del(s) PROVE Goal'
  <2>1. CASE SetConnMgnt(s)
    BY <1>4, <2>1 DEF SetConnMgnt, Reached
  <2>2. CASE HDel(s)
    BY <1>4, <2>2 DEF HDel, Reached
  <2>3. CASE HLen(s)
    <3>1. pc[s] = "hlen" /\ UNCHANGED <<names, clientConns, table>>
      BY <2>3 DEF HLen, Reached
    <3>2. CASE Release(s)
      BY <1>5, <3>1, <3>2 DEF Unmapped
    <3>3. CASE Continue(s, "del") /\ UNCHANGED heap
      BY <1>4, <3>1, <3>3
    <3> QED
      BY <2>3, <3>2, <3>3 DEF HLen
  <2>4. CASE Del(s)
    BY <1>5, <2>4 DEF Del, Reached, Unmapped
  <2> QED
    BY <1>11, <2>1, <2>2, <2>3, <2>4
<1>12. ASSUME NEW s \in Server, Throw(s) PROVE Goal'
  BY <1>12 DEF Throw, MappedIsOwned, EntryHasRow, ConnHasRow, Unmapped, Held
<1>13. ASSUME NEW s \in Server, NEW k \in Account, GetConnections(s, k) PROVE Goal'
  BY <1>13 DEF GetConnections, MappedIsOwned, EntryHasRow, ConnHasRow, Unmapped, Held
<1>14. CASE Crash
  BY <1>14 DEF Crash, FreshMemory, MappedIsOwned, EntryHasRow, ConnHasRow, Unmapped, Held
<1>15. CASE Reset
  BY <1>15 DEF Reset, StartReset, ResetAccount, ResetRows, DownIsEmpty,
               MappedIsOwned, EntryHasRow, ConnHasRow, Unmapped, Held
<1>16. CASE UNCHANGED vars
  BY <1>16 DEF vars, MappedIsOwned, EntryHasRow, ConnHasRow, Unmapped, Held
<1> QED
  BY <1>1, <1>2, <1>3, <1>6, <1>7, <1>8, <1>9, <1>10, <1>11, <1>12, <1>13, <1>14, <1>15, <1>16
     DEF Next, Event, HandlerStep

\* MappedIsOwned, for every instance: as long as no peer announces two accounts,
\* a message to an account reaches only connections that announced it, whatever
\* addresses are reused and wherever a handler or the process has died.
THEOREM EntriesAreOwned ==
  ASSUME Rename = FALSE
  PROVE  Spec => []MappedIsOwned
<1>1. Init => DownIsEmpty /\ MappedIsOwned /\ EntryHasRow /\ ConnHasRow /\ Unmapped
  BY ManagerAssumption DEF Init, FreshMemory, DownIsEmpty, MappedIsOwned, EntryHasRow,
     ConnHasRow, Unmapped, Held
<1>2. (RowInv /\ DownIsEmpty /\ MappedIsOwned /\ EntryHasRow /\ ConnHasRow /\ Unmapped)
        /\ [Next]_vars
        => (DownIsEmpty /\ MappedIsOwned /\ EntryHasRow /\ ConnHasRow /\ Unmapped)'
  BY OwnNext, DownNext DEF OwnInv, RowInv
<1> QED
  BY <1>1, <1>2, RowInvariance, PTL DEF Spec

-----------------------------------------------------------------------------
(* The abstract registry *)

\* A connection object lives at one address and has been opened.
OneAddress ==
  /\ \A a \in Addr : heap[a] \in Conn => heap[a] \in used
  /\ \A a, b \in Addr : heap[a] = heap[b] /\ heap[a] \in Conn => a = b

\* Which connections are open and which pairs online, without set comprehensions.
LEMMA OpenAndOnline ==
  /\ \A c : c \in OpenConns <=> c \in Conn /\ \E a \in Addr : heap[a] = c /\ ~Closing(a)
  /\ \A c, k : <<c, k>> \in OnlinePairs <=>
       /\ c \in Conn /\ k \in Account
       /\ \E s \in Server : \E a \in clientConns[s][k] : conns[s][a] = c
  /\ OnlinePairs \subseteq Conn \X Account
BY DEF OpenConns, OnlinePairs

\* What the steps of the registry say of the managers' variables.
LEMMA RegistrySteps ==
  /\ \A c : Registry!Connect(c) <=>
       /\ c \notin used /\ used' = used \cup {c}
       /\ OpenConns' = OpenConns \cup {c} /\ OnlinePairs' = OnlinePairs
  /\ \A c, k : Registry!Register(c, k) <=>
       /\ c \in OpenConns /\ OnlinePairs' = OnlinePairs \cup {<<c, k>>}
       /\ used' = used /\ OpenConns' = OpenConns
  /\ \A c : Registry!Disconnect(c) <=>
       /\ c \in OpenConns /\ OpenConns' = OpenConns \ {c}
       /\ OnlinePairs' = {p \in OnlinePairs : p[1] # c} /\ used' = used
  /\ Registry!Shutdown <=> OpenConns' = {} /\ OnlinePairs' = {} /\ used' = used
  /\ UNCHANGED Registry!regVars <=>
       used' = used /\ OpenConns' = OpenConns /\ OnlinePairs' = OnlinePairs
BY DEF Registry!Connect, Registry!Register, Registry!Disconnect, Registry!Shutdown,
       Registry!regVars

\* A step of a handler leaves m_connections alone and goes on with its kind of
\* handler, ends it, or, when it closes, frees the address.
LEMMA HandlerKinds ==
  ASSUME HandleInv, NEW s \in Server, HandlerStep(s)
  PROVE  /\ UNCHANGED <<used, conns>>
         /\ \A t \in Server : t # s => pc'[t] = pc[t] /\ at'[t] = at[t]
         /\ \/ pc[s] \in {"insert", "update", "hset"} /\ pc'[s] \notin CloseSteps /\ heap' = heap
            \/ /\ pc[s] \in CloseSteps /\ pc'[s] \in CloseSteps
               /\ at'[s] = at[s] /\ heap' = heap
            \/ /\ pc[s] \in CloseSteps /\ pc'[s] \notin CloseSteps
               /\ heap' = [heap EXCEPT ![at[s]] = NoConn]
<1>0. /\ pc \in [Server -> Steps] /\ at \in [Server -> Addr \cup {NoAddr}]
  BY DEF HandleInv, TypeOK
<1> USE DEF Reached, Call, Continue, Return, Release, CloseSteps, maps, peers, stores
<1>1. CASE InsertRow(s) \/ UpdateRow(s) \/ SetConnMgnt(s)
  BY <1>0, <1>1 DEF InsertRow, UpdateRow, SetConnMgnt
<1>2. CASE LookupAccount(s)
  BY <1>0, <1>2 DEF LookupAccount
<1>3. CASE DeleteRows(s) \/ HDel(s)
  BY <1>0, <1>3 DEF DeleteRows, HDel
<1>4. CASE Unmap(s)
  BY <1>0, <1>4 DEF Unmap
<1>5. CASE HLen(s) \/ Del(s)
  BY <1>0, <1>5 DEF HLen, Del
<1> QED BY <1>1, <1>2, <1>3, <1>4, <1>5 DEF HandlerStep

LEMMA AddressNext ==
  ASSUME HandleInv, OneAddress, [Next]_vars
  PROVE  OneAddress'
<1> USE ManagerAssumption DEF OneAddress, peers
<1>0. heap \in [Addr -> Conn \cup {NoConn}]
  BY DEF HandleInv, TypeOK
<1>1. ASSUME NEW s \in Server, NEW c \in Conn, NEW a \in Addr, Open(s, c, a) PROVE OneAddress'
  BY <1>0, <1>1 DEF Open
<1>2. ASSUME NEW s \in Server, HandlerStep(s) PROVE OneAddress'
  <2>1. used' = used /\ \A b \in Addr : heap'[b] = heap[b] \/ heap'[b] = NoConn
    BY <1>0, <1>2, HandlerKinds
  <2> QED BY <2>1
<1>3. CASE Crash
  BY <1>3 DEF Crash, FreshMemory
<1>4. CASE UNCHANGED <<heap, used>>
  BY <1>4
<1> QED BY <1>1, <1>2, <1>3, <1>4
        DEF Next, Event, Announce, Close, Throw, GetConnections, Reset, StartReset,
            ResetAccount, ResetRows, vars

\* Which connections are open changes when one is opened and when its close handler
\* starts, and by nothing else that a thread does.
LEMMA OpenConnsNext ==
  ASSUME HandleInv, OneAddress
  PROVE  /\ \A s \in Server, c \in Conn, a \in Addr :
              Open(s, c, a) => OpenConns' = OpenConns \cup {c}
         /\ \A s \in Server, a \in Addr, k \in Account :
              Announce(s, a, k) => OpenConns' = OpenConns
         /\ \A s \in Server, a \in Addr :
              Close(s, a) => heap[a] \in OpenConns /\ OpenConns' = OpenConns \ {heap[a]}
         /\ \A s \in Server : HandlerStep(s) => OpenConns' = OpenConns
<1> USE ManagerAssumption DEF maps, peers, thread, stores, process
<1>0. /\ HandlerHolds /\ ThreadOK
      /\ heap \in [Addr -> Conn \cup {NoConn}]
      /\ pc \in [Server -> Steps] /\ at \in [Server -> Addr \cup {NoAddr}]
  BY DEF HandleInv, TypeOK
<1>a. \A s \in Server, a \in Addr : Held(s, a) /\ pc[s] = "idle" => ~Closing(a)
  BY <1>0 DEF HandlerHolds, Closing, Held, CloseSteps
<1>1. ASSUME NEW s \in Server, NEW c \in Conn, NEW a \in Addr, Open(s, c, a)
      PROVE  OpenConns' = OpenConns \cup {c}
  <2>1. /\ heap[a] = NoConn /\ pc[s] = "idle" /\ heap' = [heap EXCEPT ![a] = c]
        /\ pc' = [pc EXCEPT ![s] = "insert"] /\ at' = [at EXCEPT ![s] = a]
    BY <1>1 DEF Open, Ready, Call
  <2>2. \A t \in Server : pc[t] \in CloseSteps => at[t] # a
    BY <1>0, <2>1 DEF HandlerHolds, Held, CloseSteps
  <2>3. \A b \in Addr : Closing(b)' <=> Closing(b)
    BY <1>0, <2>1 DEF Closing, CloseSteps
  <2>4. ~Closing(a)
    BY <2>2 DEF Closing
  <2>5. \A d : d \in OpenConns' <=> d \in OpenConns \cup {c}
    BY <1>0, <2>1, <2>3, <2>4 DEF OpenConns
  <2> QED BY <2>5
<1>2. ASSUME NEW s \in Server, NEW a \in Addr, NEW k \in Account, Announce(s, a, k)
      PROVE  OpenConns' = OpenConns
  <2>1. pc[s] = "idle" /\ heap' = heap /\ (UNCHANGED <<pc, at>> \/ Call(s, "update", a, k))
    BY <1>2 DEF Announce, Ready
  <2>2. \A b \in Addr : Closing(b)' <=> Closing(b)
    BY <1>0, <2>1 DEF Call, Closing, CloseSteps
  <2> QED BY <2>1, <2>2 DEF OpenConns
<1>3. ASSUME NEW s \in Server, NEW a \in Addr, Close(s, a)
      PROVE  heap[a] \in OpenConns /\ OpenConns' = OpenConns \ {heap[a]}
  <2>1. /\ Held(s, a) /\ pc[s] = "idle" /\ heap' = heap
        /\ pc' = [pc EXCEPT ![s] = "lookup"] /\ at' = [at EXCEPT ![s] = a]
    BY <1>3 DEF Close, Ready, Call
  <2>2. \A b \in Addr : Closing(b)' <=> Closing(b) \/ b = a
    BY <1>0, <2>1 DEF Closing, CloseSteps
  <2>3. heap[a] \in OpenConns /\ heap[a] \in Conn
    BY <1>a, <2>1 DEF OpenConns, Held
  <2>4. \A d : d \in OpenConns' <=> d \in OpenConns \ {heap[a]}
    BY <2>1, <2>2 DEF OpenConns, OneAddress
  <2> QED BY <2>3, <2>4
<1>4. ASSUME NEW s \in Server, HandlerStep(s) PROVE OpenConns' = OpenConns
  <2>1. at[s] \in Addr /\ pc[s] # "idle" /\ Held(s, at[s])
    BY <1>0, <1>4 DEF HandlerHolds, ThreadOK, HandlerStep, InsertRow, UpdateRow, SetConnMgnt,
       LookupAccount, DeleteRows, Unmap, HDel, HLen, Del, Reached
  <2>2. \A t \in Server : t # s /\ pc[t] \in CloseSteps => at[t] # at[s]
    BY <2>1, OneHandlerPerAddress DEF CloseSteps
  <2>3. \A t \in Server : t # s => pc'[t] = pc[t] /\ at'[t] = at[t]
    BY <1>4, HandlerKinds
  <2>4. CASE pc[s] \in {"insert", "update", "hset"} /\ pc'[s] \notin CloseSteps /\ heap' = heap
    <3>1. \A b \in Addr : Closing(b)' <=> Closing(b)
      BY <2>3, <2>4 DEF Closing, CloseSteps
    <3> QED BY <2>4, <3>1 DEF OpenConns
  <2>5. CASE /\ pc[s] \in CloseSteps /\ pc'[s] \in CloseSteps
             /\ at'[s] = at[s] /\ heap' = heap
    <3>1. \A b \in Addr : Closing(b)' <=> Closing(b)
      BY <2>3, <2>5 DEF Closing
    <3> QED BY <2>5, <3>1 DEF OpenConns
  <2>6. CASE /\ pc[s] \in CloseSteps /\ pc'[s] \notin CloseSteps
             /\ heap' = [heap EXCEPT ![at[s]] = NoConn]
    <3>1. \A b \in Addr : b # at[s] => (Closing(b)' <=> Closing(b)) /\ heap'[b] = heap[b]
      BY <1>0, <2>3, <2>6 DEF Closing
    <3>2. Closing(at[s]) /\ heap'[at[s]] = NoConn
      BY <1>0, <2>1, <2>6 DEF Closing
    <3>3. \A d : d \in OpenConns' <=> d \in OpenConns
      BY <3>1, <3>2 DEF OpenConns
    <3> QED BY <3>3
  <2> QED BY <1>4, <2>4, <2>5, <2>6, HandlerKinds
<1> QED BY <1>1, <1>2, <1>3, <1>4

LEMMA StepIsRegistry ==
  ASSUME OwnInv, OneAddress, [Next]_vars
  PROVE  [Registry!RegistryNext]_(Registry!regVars)
<1> SUFFICES Registry!RegistryNext \/ UNCHANGED Registry!regVars
  OBVIOUS
<1> USE ManagerAssumption DEF maps, peers, thread, stores, process
<1>0. /\ HandleInv /\ MappedIsOwned /\ HandleIsCurrent /\ HandlerHolds /\ HandlerRows /\ ThreadOK
      /\ heap \in [Addr -> Conn \cup {NoConn}]
      /\ conns \in [Server -> [Addr -> Conn \cup {Absent, NoHdl}]]
      /\ clientConns \in [Server -> [Account -> SUBSET Addr]]
      /\ pc \in [Server -> Steps] /\ at \in [Server -> Addr \cup {NoAddr}]
  BY DEF OwnInv, RowInv, HandleInv, TypeOK
<1>1. ASSUME NEW s \in Server, NEW c \in Conn, NEW a \in Addr, Open(s, c, a)
      PROVE  Registry!Connect(c)
  <2>1. /\ heap[a] = NoConn /\ c \notin used /\ used' = used \cup {c} /\ pc[s] = "idle"
        /\ heap' = [heap EXCEPT ![a] = c] /\ clientConns' = clientConns
        /\ conns' = [conns EXCEPT ![s][a] = IF @ = Absent THEN c ELSE @]
        /\ pc' = [pc EXCEPT ![s] = "insert"] /\ at' = [at EXCEPT ![s] = a]
    BY <1>1 DEF Open, Ready, Call
  <2>5. OpenConns' = OpenConns \cup {c}
    BY <1>0, <1>1, OpenConnsNext
  <2>6. \A t \in Server, k \in Account : a \notin clientConns[t][k]
    BY <1>0, <2>1 DEF MappedIsOwned, Held
  <2>7. \A t \in Server, k \in Account : \A b \in clientConns[t][k] : conns'[t][b] = conns[t][b]
    BY <1>0, <2>1, <2>6
  <2>8. OnlinePairs' = OnlinePairs
    BY <2>1, <2>7 DEF OnlinePairs
  <2> QED BY <2>1, <2>5, <2>8, RegistrySteps
<1>2. ASSUME NEW s \in Server, NEW a \in Addr, NEW k \in Account, Announce(s, a, k)
      PROVE  UNCHANGED Registry!regVars \/ Registry!Register(heap[a], k)
  <2>1. /\ Held(s, a) /\ pc[s] = "idle" /\ UNCHANGED <<heap, used, conns>>
    BY <1>2 DEF Announce, Ready
  <2>2. CASE UNCHANGED <<clientConns, thread>>
    <3>1. OpenConns' = OpenConns /\ OnlinePairs' = OnlinePairs
      BY <1>0, <1>2, <2>1, <2>2, OpenConnsNext DEF OnlinePairs
    <3> QED BY <2>1, <3>1, RegistrySteps
  <2>3. CASE /\ clientConns' = [clientConns EXCEPT ![s][k] = @ \cup {a}]
             /\ Call(s, "update", a, k)
    <3>2. OpenConns' = OpenConns
      BY <1>0, <1>2, OpenConnsNext
    <3>3. heap[a] \in OpenConns /\ heap[a] \in Conn
      <4>1. ~Closing(a)
        BY <1>0, <2>1 DEF HandlerHolds, Closing, Held, CloseSteps
      <4> QED BY <2>1, <4>1 DEF OpenConns, Held
    <3>4. \A t \in Server, j \in Account :
            clientConns'[t][j] = IF t = s /\ j = k THEN clientConns[s][k] \cup {a}
                                 ELSE clientConns[t][j]
      BY <1>0, <2>3, EntryLookup
    <3>5. conns[s][a] = heap[a] \/ conns[s][a] \notin Conn
      BY <1>0 DEF HandleIsCurrent
    <3>6. CASE conns[s][a] = heap[a]
      <4>1. \A d \in Conn, j \in Account : <<d, j>> \in OnlinePairs' <=>
              <<d, j>> \in OnlinePairs \/ (d = heap[a] /\ j = k)
        BY <2>1, <3>3, <3>4, <3>6 DEF OnlinePairs
      <4>2. OnlinePairs' \subseteq Conn \X Account /\ OnlinePairs \subseteq Conn \X Account
        BY DEF OnlinePairs
      <4>3. OnlinePairs' = OnlinePairs \cup {<<heap[a], k>>}
        BY <3>3, <4>1, <4>2
      <4> QED BY <2>1, <3>2, <3>3, <4>3, RegistrySteps
    <3>7. CASE conns[s][a] \notin Conn
      <4>1. \A d \in Conn, j \in Account :
              (\E t \in Server : \E b \in clientConns'[t][j] : conns[t][b] = d) <=>
              (\E t \in Server : \E b \in clientConns[t][j] : conns[t][b] = d)
        BY <3>4, <3>7
      <4>2. OnlinePairs' = OnlinePairs
        BY <2>1, <4>1 DEF OnlinePairs
      <4> QED BY <2>1, <3>2, <4>2, RegistrySteps
    <3> QED BY <3>5, <3>6, <3>7
  <2> QED BY <1>2, <2>2, <2>3 DEF Announce
<1>3. ASSUME NEW s \in Server, NEW a \in Addr, Close(s, a) PROVE Registry!Disconnect(heap[a])
  <2>1. /\ Held(s, a) /\ pc[s] = "idle" /\ UNCHANGED <<heap, used, clientConns>>
        /\ conns' = [conns EXCEPT ![s][a] = Absent]
        /\ pc' = [pc EXCEPT ![s] = "lookup"] /\ at' = [at EXCEPT ![s] = a]
    BY <1>3 DEF Close, Ready, HandleErased, Call
  <2>3. /\ heap[a] \in OpenConns /\ heap[a] \in Conn
        /\ OpenConns' = OpenConns \ {heap[a]}
    BY <1>0, <1>3, <2>1, OpenConnsNext DEF Held
  <2>5. \A t \in Server, b \in Addr :
          conns'[t][b] = IF t = s /\ b = a THEN Absent ELSE conns[t][b]
    BY <1>0, <2>1, EntryLookup
  <2>6. \A t \in Server, b \in Addr, d \in Conn :
          conns'[t][b] = d <=> conns[t][b] = d /\ d # heap[a]
    <3> SUFFICES ASSUME NEW t \in Server, NEW b \in Addr, NEW d \in Conn
                 PROVE  conns'[t][b] = d <=> conns[t][b] = d /\ d # heap[a]
      OBVIOUS
    <3>1. CASE conns[t][b] # d
      BY <2>5, <3>1
    <3>2. CASE conns[t][b] = d
      <4>1. heap[b] = d /\ ServerOf[d] = t
        BY <1>0, <3>2 DEF HandleIsCurrent
      <4>2. d = heap[a] <=> t = s /\ b = a
        BY <2>1, <4>1 DEF OneAddress, Held
      <4> QED BY <2>5, <3>2, <4>2
    <3> QED BY <3>1, <3>2
  <2>7. \A t \in Server, j \in Account : clientConns[t][j] \subseteq Addr
    BY <1>0
  <2>8. \A p : p \in OnlinePairs' <=> p \in OnlinePairs /\ p[1] # heap[a]
    BY <2>1, <2>6, <2>7 DEF OnlinePairs
  <2>9. OnlinePairs' = {p \in OnlinePairs : p[1] # heap[a]}
    BY <2>8
  <2> QED BY <2>1, <2>3, <2>9, RegistrySteps
<1>4. ASSUME NEW s \in Server, HandlerStep(s) PROVE UNCHANGED Registry!regVars
  <2>3. OpenConns' = OpenConns
    BY <1>0, <1>4, OpenConnsNext
  <2>4. OnlinePairs' = OnlinePairs
    <3>1. conns' = conns
      BY <1>0, <1>4, HandlerKinds
    <3>2. CASE Unmap(s)
      <4>1. pc[s] = "unmap" /\ at[s] \in clientConns[s][who[s]] /\ who[s] \in Account
        BY <1>0, <3>2 DEF Unmap, Reached, HandlerRows, ThreadOK
      <4>2. conns[s][at[s]] \notin Conn
        BY <1>0, <4>1 DEF HandlerHolds, CloseSteps
      <4>3. clientConns' = [clientConns EXCEPT ![s][who[s]] = @ \ {at[s]}]
        BY <3>2, <4>1 DEF Unmap, Several, EntryWithout
      <4>4. \A t \in Server, j \in Account :
              clientConns'[t][j] = IF t = s /\ j = who[s] THEN clientConns[s][who[s]] \ {at[s]}
                                   ELSE clientConns[t][j]
        BY <1>0, <4>1, <4>3, EntryLookup
      <4>5. \A d \in Conn, j \in Account :
              (\E t \in Server : \E b \in clientConns'[t][j] : conns[t][b] = d) <=>
              (\E t \in Server : \E b \in clientConns[t][j] : conns[t][b] = d)
        BY <4>2, <4>4
      <4> QED BY <3>1, <4>5 DEF OnlinePairs
    <3>3. CASE ~Unmap(s)
      <4>1. clientConns' = clientConns
        BY <1>4, <3>3 DEF HandlerStep, InsertRow, UpdateRow, SetConnMgnt, LookupAccount,
           DeleteRows, HDel, HLen, Del
      <4> QED BY <3>1, <4>1 DEF OnlinePairs
    <3> QED BY <3>2, <3>3
  <2> QED BY <1>0, <1>4, <2>3, <2>4, HandlerKinds, RegistrySteps
<1>5. ASSUME NEW s \in Server, NEW k \in Account, GetConnections(s, k)
      PROVE  UNCHANGED Registry!regVars
  <2>1. UNCHANGED <<used, heap, pc, at, clientConns>>
    BY <1>5 DEF GetConnections
  <2>2. OpenConns' = OpenConns
    BY <2>1 DEF OpenConns, Closing
  <2>3. \A t \in Server, b \in Addr, d \in Conn : conns'[t][b] = d <=> conns[t][b] = d
    BY <1>0, <1>5 DEF GetConnections
  <2>4. \A t \in Server, j \in Account : clientConns[t][j] \subseteq Addr
    BY <1>0
  <2>5. OnlinePairs' = OnlinePairs
    BY <2>1, <2>3, <2>4 DEF OnlinePairs
  <2> QED BY <2>1, <2>2, <2>5, RegistrySteps
<1>6. CASE Crash
  <2>1. /\ used' = used /\ heap' = [a \in Addr |-> NoConn]
        /\ clientConns' = [s \in Server |-> [k \in Account |-> {}]]
    BY <1>6 DEF Crash, FreshMemory
  <2>2. OpenConns' = {} /\ OnlinePairs' = {}
    BY <2>1 DEF OpenConns, OnlinePairs
  <2> QED BY <2>1, <2>2, RegistrySteps DEF Registry!RegistryNext
<1>7. CASE UNCHANGED <<used, heap, pc, at, conns, clientConns>>
  <2>1. OpenConns' = OpenConns /\ OnlinePairs' = OnlinePairs
    BY <1>7 DEF OpenConns, OnlinePairs, Closing
  <2> QED BY <1>7, <2>1, RegistrySteps
<1>8. \A s \in Server, a \in Addr : Held(s, a) => heap[a] \in Conn
  BY DEF Held
<1>9. ASSUME NEW s \in Server, Event(s) PROVE Registry!RegistryNext \/ UNCHANGED Registry!regVars
  <2>1. CASE \E c \in Conn, a \in Addr : Open(s, c, a)
    BY <1>1, <2>1 DEF Registry!RegistryNext
  <2>2. CASE \E a \in Addr, k \in Account : Announce(s, a, k)
    BY <1>2, <1>8, <2>2 DEF Registry!RegistryNext, Announce
  <2>3. CASE \E a \in Addr : Close(s, a)
    BY <1>3, <1>8, <2>3 DEF Registry!RegistryNext, Close
  <2> QED BY <1>9, <2>1, <2>2, <2>3 DEF Event
<1>10. CASE Reset \/ (\E s \in Server : Throw(s)) \/ UNCHANGED vars
  BY <1>7, <1>10 DEF Reset, StartReset, ResetAccount, ResetRows, Throw, vars
<1> QED BY <1>4, <1>5, <1>6, <1>9, <1>10 DEF Next

\* The managers implement the registry, for every instance: as long as no peer
\* announces two accounts, a lookup returns only connections that announced the
\* account and have not begun to close (connection_manager.cpp:20-119).
THEOREM LookupsAreRegistered ==
  ASSUME Rename = FALSE
  PROVE  Spec => ImplementsRegistry
<1>1. Init => OneAddress /\ DownIsEmpty /\ MappedIsOwned /\ EntryHasRow /\ ConnHasRow /\ Unmapped
  BY ManagerAssumption DEF Init, FreshMemory, DownIsEmpty, MappedIsOwned, EntryHasRow,
     ConnHasRow, Unmapped, Held, OneAddress
<1>2. Init => Registry!RegistryInit
  BY ManagerAssumption DEF Init, FreshMemory, Registry!RegistryInit, OpenConns, OnlinePairs
<1>3. (RowInv /\ OneAddress /\ DownIsEmpty /\ MappedIsOwned /\ EntryHasRow /\ ConnHasRow
        /\ Unmapped) /\ [Next]_vars
        => (OneAddress /\ DownIsEmpty /\ MappedIsOwned /\ EntryHasRow /\ ConnHasRow /\ Unmapped)'
  <2> SUFFICES ASSUME RowInv, OneAddress, DownIsEmpty, MappedIsOwned, EntryHasRow, ConnHasRow,
                      Unmapped, [Next]_vars
               PROVE  (OneAddress /\ DownIsEmpty /\ MappedIsOwned /\ EntryHasRow
                        /\ ConnHasRow /\ Unmapped)'
    OBVIOUS
  <2>1. HandleInv /\ OwnInv
    BY DEF OwnInv, RowInv
  <2>2. OneAddress'
    BY <2>1, AddressNext
  <2>3. DownIsEmpty'
    BY <2>1, DownNext
  <2>4. MappedIsOwned' /\ EntryHasRow' /\ ConnHasRow' /\ Unmapped'
    BY <2>1, OwnNext
  <2> QED BY <2>2, <2>3, <2>4
<1>4. (RowInv /\ OneAddress /\ DownIsEmpty /\ MappedIsOwned /\ EntryHasRow /\ ConnHasRow
        /\ Unmapped) /\ [Next]_vars => [Registry!RegistryNext]_(Registry!regVars)
  BY StepIsRegistry DEF OwnInv
<1> QED BY <1>1, <1>2, <1>3, <1>4, RowInvariance, PTL
        DEF Spec, ImplementsRegistry, Registry!RegistrySpec

-----------------------------------------------------------------------------
(* Connections that are online can be reached *)

ClosingAt(s, a) == at[s] = a /\ pc[s] \in CloseSteps

\* What a connection has announced is mapped until it closes.
AnnouncedIsMapped ==
  /\ \A c \in Conn \ used : names[c] = {}
  /\ \A s \in Server, a \in Addr : \A k \in Account :
       Held(s, a) /\ k \in names[heap[a]] /\ ~ClosingAt(s, a) => a \in clientConns[s][k]

\* An open connection has its handle, or an empty one: what a lookup by another
\* thread may have left there. (Lookups anywhere.)
HandlesThere ==
  \A s \in Server, a \in Addr :
    Held(s, a) /\ ~ClosingAt(s, a) => conns[s][a] \in {heap[a], NoHdl}

MappedInv == OwnInv /\ OneAddress /\ HandlesThere /\ AnnouncedIsMapped

\* Handlers do not touch m_connections, except that on_close begins with it.
LEMMA HandlerAt ==
  ASSUME HandleInv, NEW s \in Server, HandlerStep(s), NEW t \in Server, NEW a \in Addr
  PROVE  (Held(t, a) /\ ~ClosingAt(t, a))' <=> Held(t, a) /\ ~ClosingAt(t, a)
<1> USE ManagerAssumption DEF HandleInv
<1>0. /\ heap \in [Addr -> Conn \cup {NoConn}] /\ at[s] \in Addr /\ pc[s] # "idle"
      /\ Held(s, at[s])
  BY DEF TypeOK, HandlerHolds, ThreadOK, HandlerStep, InsertRow, UpdateRow, SetConnMgnt,
     LookupAccount, DeleteRows, Unmap, HDel, HLen, Del, Reached
<1>1. \A u \in Server : u # s => pc'[u] = pc[u] /\ at'[u] = at[u]
  BY HandlerKinds
<1>2. CASE pc[s] \in {"insert", "update", "hset"} /\ pc'[s] \notin CloseSteps /\ heap' = heap
  BY <1>1, <1>2 DEF ClosingAt, CloseSteps, Held
<1>3. CASE /\ pc[s] \in CloseSteps /\ pc'[s] \in CloseSteps /\ at'[s] = at[s] /\ heap' = heap
  BY <1>1, <1>3 DEF ClosingAt, Held
<1>4. CASE /\ pc[s] \in CloseSteps /\ pc'[s] \notin CloseSteps
           /\ heap' = [heap EXCEPT ![at[s]] = NoConn]
  <2>1. CASE a = at[s]
    <3>1. ~Held(t, a)' /\ (Held(t, a) => t = s) /\ ClosingAt(s, a)
      BY <1>0, <1>4, <2>1 DEF Held, ClosingAt
    <3> QED BY <3>1
  <2>2. CASE a # at[s]
    <3>1. heap'[a] = heap[a] /\ (ClosingAt(t, a)' <=> ClosingAt(t, a))
      BY <1>0, <1>1, <1>4, <2>2 DEF ClosingAt
    <3> QED BY <3>1 DEF Held
  <2> QED BY <2>1, <2>2
<1> QED BY <1>2, <1>3, <1>4, HandlerKinds

LEMMA MappedNext ==
  ASSUME MappedInv, Rename = FALSE, [Next]_vars
  PROVE  HandlesThere' /\ AnnouncedIsMapped'
<1> USE ManagerAssumption DEF maps, peers, thread, stores, process
<1>0. /\ HandleInv /\ MappedIsOwned /\ HandleIsCurrent /\ HandlerHolds /\ ThreadOK /\ OneAddress
      /\ HandlesThere /\ AnnouncedIsMapped
      /\ heap \in [Addr -> Conn \cup {NoConn}] /\ names \in [Conn -> SUBSET Account]
      /\ conns \in [Server -> [Addr -> Conn \cup {Absent, NoHdl}]]
      /\ clientConns \in [Server -> [Account -> SUBSET Addr]]
      /\ pc \in [Server -> Steps] /\ at \in [Server -> Addr \cup {NoAddr}]
  BY DEF MappedInv, OwnInv, RowInv, HandleInv, TypeOK
<1>1. ASSUME NEW s \in Server, NEW c \in Conn, NEW a \in Addr, Open(s, c, a)
      PROVE  HandlesThere' /\ AnnouncedIsMapped'
  <2>1. /\ heap[a] = NoConn /\ c \notin used /\ used' = used \cup {c} /\ pc[s] = "idle"
        /\ ServerOf[c] = s /\ heap' = [heap EXCEPT ![a] = c]
        /\ UNCHANGED <<names, clientConns>>
        /\ conns' = [conns EXCEPT ![s][a] = IF conns[s][a] = Absent THEN c ELSE conns[s][a]]
        /\ pc' = [pc EXCEPT ![s] = "insert"] /\ at' = [at EXCEPT ![s] = a]
    BY <1>1 DEF Open, Ready, Call
  <2>2. \A t \in Server, b \in Addr : ClosingAt(t, b)' <=> ClosingAt(t, b)
    BY <1>0, <2>1 DEF ClosingAt, CloseSteps
  <2>3. conns[s][a] \in {Absent, NoHdl}
    BY <1>0, <2>1 DEF HandleIsCurrent
  <2>4. \A t \in Server, b \in Addr :
          conns'[t][b] = IF t = s /\ b = a
                           THEN (IF conns[s][a] = Absent THEN c ELSE conns[s][a])
                           ELSE conns[t][b]
    BY <1>0, <2>1, EntryLookup
  <2>5. ~ClosingAt(s, a)
    BY <2>1 DEF ClosingAt, CloseSteps
  <2>6. \A t \in Server, b \in Addr : Held(t, b)' <=> (Held(t, b) \/ (t = s /\ b = a))
    BY <1>0, <2>1 DEF Held
  <2>7. \A b \in Addr : heap'[b] = IF b = a THEN c ELSE heap[b]
    BY <1>0, <2>1
  <2>8. HandlesThere'
    <3> SUFFICES ASSUME NEW t \in Server, NEW b \in Addr, Held(t, b)', ~ClosingAt(t, b)'
                 PROVE  conns'[t][b] \in {heap'[b], NoHdl}
      BY DEF HandlesThere
    <3>1. CASE b = a
      <4>1. t = s
        BY <2>1, <2>6, <2>7, <3>1 DEF Held
      <4> QED BY <2>3, <2>4, <2>7, <3>1, <4>1
    <3>2. CASE b # a
      BY <1>0, <2>2, <2>4, <2>6, <2>7, <3>2 DEF HandlesThere
    <3> QED BY <3>1, <3>2
  <2>9. names[c] = {}
    BY <1>0, <2>1 DEF AnnouncedIsMapped
  <2>10. AnnouncedIsMapped'
    <3>1. \A d \in Conn \ used' : names'[d] = {}
      BY <1>0, <2>1 DEF AnnouncedIsMapped
    <3>2. ASSUME NEW t \in Server, NEW b \in Addr, NEW k \in Account,
                 Held(t, b)', k \in names'[heap'[b]], ~ClosingAt(t, b)'
          PROVE  b \in clientConns'[t][k]
      <4>1. b # a
        BY <2>1, <2>7, <2>9, <3>2
      <4> QED BY <1>0, <2>1, <2>2, <2>6, <2>7, <3>2, <4>1 DEF AnnouncedIsMapped
    <3> QED BY <3>1, <3>2 DEF AnnouncedIsMapped
  <2> QED BY <2>8, <2>10
<1>2. ASSUME NEW s \in Server, NEW a \in Addr, NEW k \in Account, Announce(s, a, k)
      PROVE  HandlesThere' /\ AnnouncedIsMapped'
  <2>1. /\ Held(s, a) /\ pc[s] = "idle" /\ UNCHANGED <<heap, used, conns>>
        /\ names' = [names EXCEPT ![heap[a]] = @ \cup {k}]
    BY <1>2 DEF Announce, Ready
  <2>2. \A t \in Server, b \in Addr : ClosingAt(t, b)' <=> ClosingAt(t, b)
    BY <1>0, <1>2, <2>1 DEF Announce, Call, ClosingAt, CloseSteps
  <2>3. \A t \in Server, b \in Addr : Held(t, b)' <=> Held(t, b)
    BY <2>1 DEF Held
  <2>4. HandlesThere'
    BY <1>0, <2>1, <2>2, <2>3 DEF HandlesThere
  <2>5. \A t \in Server, j \in Account : clientConns[t][j] \subseteq clientConns'[t][j]
    BY <1>0, <1>2, AnnounceAdds DEF HandleInv
  <2>6. a \in clientConns'[s][k]
    <3>1. CASE UNCHANGED <<clientConns, thread>> /\ a \in clientConns[s][k]
      BY <3>1
    <3>2. CASE clientConns' = [clientConns EXCEPT ![s][k] = @ \cup {a}]
      BY <1>0, <3>2
    <3> QED BY <1>2, <3>1, <3>2 DEF Announce
  <2>7. \A d \in Conn : names'[d] = IF d = heap[a] THEN names[d] \cup {k} ELSE names[d]
    BY <1>0, <2>1
  <2>8. heap[a] \in used /\ heap[a] \in Conn /\ ServerOf[heap[a]] = s
    BY <1>0, <2>1 DEF OneAddress, Held
  <2>9. AnnouncedIsMapped'
    <3>1. \A d \in Conn \ used' : names'[d] = {}
      BY <1>0, <2>1, <2>7, <2>8 DEF AnnouncedIsMapped
    <3>2. ASSUME NEW t \in Server, NEW b \in Addr, NEW j \in Account,
                 Held(t, b)', j \in names'[heap'[b]], ~ClosingAt(t, b)'
          PROVE  b \in clientConns'[t][j]
      <4>1. Held(t, b) /\ ~ClosingAt(t, b) /\ heap[b] \in Conn /\ ServerOf[heap[b]] = t
            /\ j \in names'[heap[b]]
        BY <2>1, <2>2, <2>3, <3>2 DEF Held
      <4>2. CASE j \in names[heap[b]]
        BY <1>0, <2>5, <4>1, <4>2 DEF AnnouncedIsMapped
      <4>3. CASE j \notin names[heap[b]]
        <5>1. heap[b] = heap[a] /\ j = k
          BY <2>7, <4>1, <4>3
        <5>2. b = a /\ t = s
          BY <1>0, <2>8, <4>1, <5>1 DEF OneAddress
        <5> QED BY <2>6, <5>1, <5>2
      <4> QED BY <4>2, <4>3
    <3> QED BY <3>1, <3>2 DEF AnnouncedIsMapped
  <2> QED BY <2>4, <2>9
<1>3. ASSUME NEW s \in Server, NEW a \in Addr, Close(s, a)
      PROVE  HandlesThere' /\ AnnouncedIsMapped'
  <2>1. /\ Held(s, a) /\ pc[s] = "idle" /\ UNCHANGED <<heap, used, names, clientConns>>
        /\ conns' = [conns EXCEPT ![s][a] = Absent]
        /\ pc' = [pc EXCEPT ![s] = "lookup"] /\ at' = [at EXCEPT ![s] = a]
    BY <1>3 DEF Close, Ready, HandleErased, Call
  <2>2. \A t \in Server, b \in Addr : ClosingAt(t, b)' <=> ClosingAt(t, b) \/ (t = s /\ b = a)
    BY <1>0, <2>1 DEF ClosingAt, CloseSteps
  <2>3. \A t \in Server, b \in Addr : Held(t, b)' <=> Held(t, b)
    BY <2>1 DEF Held
  <2>4. \A t \in Server, b \in Addr :
          conns'[t][b] = IF t = s /\ b = a THEN Absent ELSE conns[t][b]
    BY <1>0, <2>1, EntryLookup
  <2>5. HandlesThere'
    BY <1>0, <2>1, <2>2, <2>3, <2>4 DEF HandlesThere
  <2>6. AnnouncedIsMapped'
    BY <1>0, <2>1, <2>2, <2>3 DEF AnnouncedIsMapped
  <2> QED BY <2>5, <2>6
<1>4. ASSUME NEW s \in Server, HandlerStep(s) PROVE HandlesThere' /\ AnnouncedIsMapped'
  <2>1. UNCHANGED <<used, conns, names>>
    BY <1>0, <1>4, HandlerKinds DEF HandlerStep, InsertRow, UpdateRow, SetConnMgnt,
       LookupAccount, DeleteRows, Unmap, HDel, HLen, Del
  <2>2. \A t \in Server, b \in Addr :
          (Held(t, b) /\ ~ClosingAt(t, b))' <=> Held(t, b) /\ ~ClosingAt(t, b)
    BY <1>0, <1>4, HandlerAt
  <2>3. \A b \in Addr : heap'[b] = heap[b] \/ heap'[b] = NoConn
    BY <1>0, <1>4, HandlerKinds
  <2>4. \A t \in Server, b \in Addr : (Held(t, b) /\ ~ClosingAt(t, b))' => heap'[b] = heap[b]
    BY <2>3 DEF Held
  <2>5. HandlesThere'
    BY <1>0, <2>1, <2>2, <2>4 DEF HandlesThere
  <2>6. \A t \in Server, k \in Account : \A b \in clientConns[t][k] :
          ~ClosingAt(t, b) => b \in clientConns'[t][k]
    <3>1. CASE Unmap(s)
      <4>1. /\ pc[s] = "unmap" /\ who[s] \in Account
            /\ at[s] \in clientConns[s][who[s]]
        BY <1>0, <3>1 DEF Unmap, Reached, ThreadOK, MappedInv, OwnInv, RowInv, HandlerRows
      <4>2. clientConns' = [clientConns EXCEPT ![s][who[s]] = @ \ {at[s]}]
        BY <3>1, <4>1 DEF Unmap, Several, EntryWithout
      <4>3. \A t \in Server, j \in Account :
              clientConns'[t][j] = IF t = s /\ j = who[s] THEN clientConns[s][who[s]] \ {at[s]}
                                   ELSE clientConns[t][j]
        BY <1>0, <4>1, <4>2, EntryLookup
      <4> QED BY <4>1, <4>3 DEF ClosingAt, CloseSteps
    <3>2. CASE ~Unmap(s)
      BY <1>4, <3>2 DEF HandlerStep, InsertRow, UpdateRow, SetConnMgnt, LookupAccount,
         DeleteRows, HDel, HLen, Del
    <3> QED BY <3>1, <3>2
  <2>7. AnnouncedIsMapped'
    <3>1. \A d \in Conn \ used' : names'[d] = {}
      BY <1>0, <2>1 DEF AnnouncedIsMapped
    <3>2. ASSUME NEW t \in Server, NEW b \in Addr, NEW k \in Account,
                 (Held(t, b) /\ ~ClosingAt(t, b))', k \in names'[heap'[b]]
          PROVE  b \in clientConns'[t][k]
      <4>1. Held(t, b) /\ ~ClosingAt(t, b) /\ k \in names[heap[b]]
        BY <2>1, <2>2, <2>4, <3>2
      <4> QED BY <1>0, <2>6, <4>1 DEF AnnouncedIsMapped
    <3> QED BY <3>1, <3>2 DEF AnnouncedIsMapped
  <2> QED BY <2>5, <2>7
<1>5. ASSUME NEW s \in Server, NEW k \in Account, GetConnections(s, k)
      PROVE  HandlesThere' /\ AnnouncedIsMapped'
  <2>1. UNCHANGED <<used, names, heap, pc, at, clientConns>>
    BY <1>5 DEF GetConnections
  <2>2. \A t \in Server, b \in Addr : conns'[t][b] \in {conns[t][b], NoHdl}
    BY <1>0, <1>5 DEF GetConnections
  <2> QED BY <1>0, <2>1, <2>2 DEF HandlesThere, AnnouncedIsMapped, Held, ClosingAt
<1>6. CASE Crash
  BY <1>0, <1>6 DEF Crash, FreshMemory, HandlesThere, AnnouncedIsMapped, Held
<1>7. CASE UNCHANGED <<used, names, heap, pc, at, conns, clientConns>>
  BY <1>0, <1>7 DEF HandlesThere, AnnouncedIsMapped, Held, ClosingAt
<1> QED BY <1>1, <1>2, <1>3, <1>4, <1>5, <1>6, <1>7
        DEF Next, Event, Throw, Reset, StartReset, ResetAccount, ResetRows, vars

LEMMA MappedInitially == Init => MappedInv
BY InitTypeOK, ManagerAssumption DEF Init, FreshMemory, MappedInv, OwnInv, RowInv, HandleInv,
   ThreadOK, HandlerHolds, HandleIsCurrent, CloseSteps, RowsAgree, HandlerRows, RowIsMapped,
   DownIsEmpty, MappedIsOwned, EntryHasRow, ConnHasRow, Unmapped, Held, OneAddress,
   HandlesThere, AnnouncedIsMapped

LEMMA MappedStep ==
  ASSUME MappedInv, Rename = FALSE, [Next]_vars
  PROVE  MappedInv'
<1>1. OwnInv /\ RowInv /\ HandleInv /\ TypeOK /\ ThreadOK /\ DownIsEmpty /\ OneAddress
  BY DEF MappedInv, OwnInv, RowInv, HandleInv
<1>2. HandleInv'
  BY <1>1, HandleNext, NextTypeOK DEF HandleInv
<1>3. RowInv'
  BY <1>1, <1>2, RowNext DEF RowInv
<1>4. OwnInv'
  BY <1>1, <1>3, DownNext, OwnNext DEF OwnInv
<1>5. OneAddress'
  BY <1>1, AddressNext
<1> QED
  BY <1>4, <1>5, MappedNext DEF MappedInv

\* OnlineIsMapped, for every instance: with one account per peer a connection is
\* under its account, with its own handle or the empty one of another thread's
\* lookup, from its announcement to its close, also after failing calls and crashes
\* and with lookups inside any handler.
THEOREM OnlineStaysMapped ==
  ASSUME Rename = FALSE
  PROVE  Spec => []OnlineIsMapped
<1>1. MappedInv => OnlineIsMapped
  BY DEF MappedInv, HandlesThere, AnnouncedIsMapped, OnlineIsMapped, ClosingAt
<1> QED BY <1>1, MappedInitially, MappedStep, PTL DEF Spec

-----------------------------------------------------------------------------
(* Only another server's close takes a mapped address out of Redis *)

\* When a close handler deletes the account's hash, the hash has none of the
\* addresses its manager still has under that account.
DelSeesNone ==
  \A s \in Server : pc[s] = "del" =>
    \A a \in clientConns[s][who[s]] : [account |-> who[s], addr |-> a] \notin redis

LEMMA DelNext ==
  ASSUME OwnInv, DelSeesNone, [Next]_vars
  PROVE  DelSeesNone'
<1> USE DEF maps, peers, thread, stores, process
<1>0. /\ HandlerRows /\ ThreadOK /\ MappedIsOwned /\ DownIsEmpty /\ HandleInv
      /\ clientConns \in [Server -> [Account -> SUBSET Addr]]
      /\ pc \in [Server -> Steps] /\ at \in [Server -> Addr \cup {NoAddr}]
      /\ who \in [Server -> Account \cup {NoAccount}]
  BY DEF OwnInv, RowInv, HandleInv, TypeOK
\* Steps of a server that is not at its del and does not come to it, that add no
\* field.
<1>1. ASSUME NEW s \in Server, pc'[s] # "del", redis' \subseteq redis,
             \A t \in Server : t # s =>
               pc'[t] = pc[t] /\ who'[t] = who[t] /\ clientConns'[t] = clientConns[t]
      PROVE  DelSeesNone'
  BY <1>1 DEF DelSeesNone
<1>2. ASSUME NEW s \in Server, Event(s) PROVE DelSeesNone'
  <2>1. /\ pc[s] = "idle" /\ redis' = redis
        /\ \A t \in Server : t # s => pc'[t] = pc[t] /\ who'[t] = who[t]
    BY <1>0, <1>2 DEF Event, Open, Announce, Close, Ready, Call
  <2>2. pc'[s] # "del"
    BY <1>0, <1>2, <2>1 DEF Event, Open, Announce, Close, Call
  <2>3. \A t \in Server : t # s => clientConns'[t] = clientConns[t]
    BY <1>0, <1>2 DEF Event, Open, Announce, Close
  <2> QED BY <1>1, <2>1, <2>2, <2>3
<1>3. ASSUME NEW s \in Server,
             InsertRow(s) \/ UpdateRow(s) \/ LookupAccount(s) \/ DeleteRows(s) \/ HDel(s) \/ Del(s)
      PROVE  DelSeesNone'
  <2>1. /\ pc'[s] # "del" /\ redis' \subseteq redis /\ UNCHANGED clientConns
        /\ \A t \in Server : t # s => pc'[t] = pc[t] /\ who'[t] = who[t]
    BY <1>0, <1>3 DEF InsertRow, UpdateRow, LookupAccount, DeleteRows, HDel, Del, Reached,
       Call, Continue, Return, Release, HashDelField, HashDel
  <2> QED BY <1>1, <2>1
\* The field hset adds is of an address of its own manager, so of no other's.
<1>4. ASSUME NEW s \in Server, SetConnMgnt(s) PROVE DelSeesNone'
  <2>1. /\ redis' = redis \cup {[account |-> who[s], addr |-> at[s]]}
        /\ at[s] \in clientConns[s][who[s]] /\ who[s] \in Account /\ UNCHANGED clientConns
        /\ pc' = [pc EXCEPT ![s] = "idle"] /\ who' = [who EXCEPT ![s] = NoAccount]
    BY <1>0, <1>4 DEF SetConnMgnt, Reached, Return, Call, HashSet, HandlerRows, ThreadOK,
       AnnounceSteps
  <2> SUFFICES ASSUME NEW t \in Server, pc'[t] = "del", NEW a \in clientConns'[t][who'[t]]
               PROVE  [account |-> who'[t], addr |-> a] \notin redis'
    BY DEF DelSeesNone
  <2>2. t # s /\ pc[t] = "del" /\ who'[t] = who[t] /\ a \in clientConns[t][who[t]]
    BY <1>0, <2>1
  <2>3. [account |-> who[t], addr |-> a] \notin redis
    BY <2>2 DEF DelSeesNone
  <2>4. who[t] \in Account
    BY <1>0, <2>2 DEF ThreadOK
  <2>5. a # at[s]
    BY <1>0, <2>1, <2>2, <2>4 DEF MappedIsOwned, Held
  <2> QED BY <2>1, <2>2, <2>3, <2>5
<1>5. ASSUME NEW s \in Server, Unmap(s) PROVE DelSeesNone'
  <2> DEFINE v == clientConns[s][who[s]]
  <2>1. /\ pc[s] = "unmap" /\ at[s] \in v /\ who[s] \in Account /\ redis' = redis
    BY <1>0, <1>5 DEF Unmap, Reached, ThreadOK, HandlerRows
  <2>2. PICK p \in {"hdel", "del"} :
          /\ clientConns' = [clientConns EXCEPT ![s][who[s]] = v \ {at[s]}]
          /\ p = "del" => v \ {at[s]} = {}
          /\ Continue(s, p)
    BY <1>5, <2>1 DEF Unmap, Several, EntryWithout
  <2>3. \A t \in Server, j \in Account : clientConns'[t][j] =
          IF t = s /\ j = who[s] THEN v \ {at[s]} ELSE clientConns[t][j]
    BY <1>0, <2>1, <2>2, EntryLookup
  <2>4. pc' = [pc EXCEPT ![s] = p] /\ who' = who
    BY <2>2 DEF Continue
  <2> SUFFICES ASSUME NEW t \in Server, pc'[t] = "del", NEW a \in clientConns'[t][who'[t]]
               PROVE  [account |-> who'[t], addr |-> a] \notin redis'
    BY DEF DelSeesNone
  <2>5. CASE t = s
    BY <1>0, <2>1, <2>2, <2>3, <2>4, <2>5
  <2>6. CASE t # s
    <3>1. pc[t] = "del" /\ who[t] \in Account
      BY <1>0, <2>4, <2>6 DEF ThreadOK
    <3> QED BY <2>1, <2>3, <2>4, <2>6, <3>1 DEF DelSeesNone
  <2> QED BY <2>5, <2>6
<1>6. ASSUME NEW s \in Server, HLen(s) PROVE DelSeesNone'
  <2>1. /\ UNCHANGED <<clientConns, redis>>
        /\ \A t \in Server : t # s => pc'[t] = pc[t] /\ who'[t] = who[t]
    BY <1>0, <1>6 DEF HLen, Release, Return, Call, Continue
  <2>2. CASE pc'[s] # "del"
    BY <1>1, <2>1, <2>2
  <2>3. CASE pc'[s] = "del"
    <3>1. HashIsEmpty(redis, who[s]) /\ who'[s] = who[s]
      BY <1>0, <1>6, <2>3 DEF HLen, Release, Return, Call, Continue
    <3>2. \A a : [account |-> who[s], addr |-> a] \notin redis
      <4> SUFFICES ASSUME NEW a, [account |-> who[s], addr |-> a] \in redis PROVE FALSE
        OBVIOUS
      <4>1. [account |-> who[s], addr |-> a].account # who[s]
        BY <3>1 DEF HashIsEmpty
      <4> QED BY <4>1
    <3> QED BY <2>1, <3>1, <3>2 DEF DelSeesNone
  <2> QED BY <2>2, <2>3
<1>7. ASSUME NEW s \in Server, Throw(s) \/ (\E k \in Account : GetConnections(s, k))
      PROVE  DelSeesNone'
  BY <1>7 DEF Throw, GetConnections, DelSeesNone
<1>8. CASE Crash
  BY <1>8 DEF Crash, FreshMemory, DelSeesNone
<1>9. CASE Reset
  <2>1. UNCHANGED <<clientConns, pc, who>> /\ redis' \subseteq redis
    BY <1>9 DEF Reset, StartReset, ResetAccount, ResetRows, HashDel
  <2> QED BY <2>1 DEF DelSeesNone
<1>10. CASE UNCHANGED vars
  BY <1>10 DEF vars, DelSeesNone
<1> QED BY <1>2, <1>3, <1>4, <1>5, <1>6, <1>7, <1>8, <1>9, <1>10 DEF Next, HandlerStep

\* What a step of the managers may do to an address that has been covered.
CoverKept ==
  \A s \in Server, k \in Account : \A a \in clientConns'[s][k] :
    (a \in clientConns[s][k] => Covered(s, k, a)) =>
      Covered(s, k, a)' \/ (\E t \in Server \ {s} : who[t] = k /\ Del(t))

LEMMA StepCovers ==
  ASSUME OwnInv, DelSeesNone, Next
  PROVE  CoverKept
<1> USE DEF maps, peers, thread, stores, process
<1>0. /\ HandlerRows /\ HandlerHolds /\ ThreadOK /\ MappedIsOwned /\ DownIsEmpty
      /\ HandleInv /\ Unmapped
      /\ clientConns \in [Server -> [Account -> SUBSET Addr]]
      /\ pc \in [Server -> Steps] /\ at \in [Server -> Addr \cup {NoAddr}]
      /\ who \in [Server -> Account \cup {NoAccount}]
  BY DEF OwnInv, RowInv, HandleInv, TypeOK
\* Steps that add to no entry, and leave what is covered covered.
<1>1. ASSUME \A t \in Server, j \in Account : clientConns'[t][j] \subseteq clientConns[t][j],
             \A t \in Server, j \in Account : \A b \in clientConns'[t][j] :
               Covered(t, j, b) => Covered(t, j, b)'
      PROVE  CoverKept
  BY <1>1 DEF CoverKept
<1>2. ASSUME NEW s \in Server, NEW c \in Conn, NEW a \in Addr, Open(s, c, a) PROVE CoverKept
  <2>1. /\ UNCHANGED <<clientConns, redis>> /\ pc[s] = "idle"
        /\ \A t \in Server : t # s => pc'[t] = pc[t] /\ at'[t] = at[t] /\ who'[t] = who[t]
    BY <1>0, <1>2 DEF Open, Ready, Call
  <2> QED BY <1>1, <2>1 DEF Covered, AnnounceSteps
<1>3. ASSUME NEW s \in Server, NEW a \in Addr, Close(s, a) PROVE CoverKept
  <2>1. /\ UNCHANGED <<clientConns, redis>> /\ pc[s] = "idle"
        /\ \A t \in Server : t # s => pc'[t] = pc[t] /\ at'[t] = at[t] /\ who'[t] = who[t]
    BY <1>0, <1>3 DEF Close, Ready, Call
  <2> QED BY <1>1, <2>1 DEF Covered, AnnounceSteps
<1>4. ASSUME NEW s \in Server, NEW a \in Addr, NEW k \in Account, Announce(s, a, k)
      PROVE  CoverKept
  <2>1. pc[s] = "idle" /\ redis' = redis
    BY <1>4 DEF Announce, Ready
  <2>2. CASE UNCHANGED <<clientConns, thread>>
    BY <1>1, <2>1, <2>2 DEF Covered
  <2>3. CASE /\ clientConns' = [clientConns EXCEPT ![s][k] = @ \cup {a}]
             /\ Call(s, "update", a, k)
    <3>1. \A t \in Server, j \in Account : clientConns'[t][j] =
            IF t = s /\ j = k THEN clientConns[s][k] \cup {a} ELSE clientConns[t][j]
      BY <1>0, <2>3, EntryLookup
    <3> SUFFICES ASSUME NEW t \in Server, NEW j \in Account, NEW b \in clientConns'[t][j],
                        b \in clientConns[t][j] => Covered(t, j, b)
                 PROVE  Covered(t, j, b)'
      BY DEF CoverKept
    <3>2. CASE t = s /\ j = k /\ b = a
      BY <1>0, <2>3, <3>2 DEF Call, Covered, AnnounceSteps
    <3>3. CASE ~(t = s /\ j = k /\ b = a)
      <4>1. Covered(t, j, b)
        BY <3>1, <3>3
      <4> QED BY <1>0, <2>1, <2>3, <4>1 DEF Call, Covered, AnnounceSteps
    <3> QED BY <3>2, <3>3
  <2> QED BY <1>4, <2>2, <2>3 DEF Announce
<1>5. ASSUME NEW s \in Server,
             InsertRow(s) \/ UpdateRow(s) \/ LookupAccount(s) \/ DeleteRows(s) \/ HLen(s)
      PROVE  CoverKept
  <2>1. /\ UNCHANGED <<clientConns, redis>>
        /\ \A t \in Server : t # s => pc'[t] = pc[t] /\ at'[t] = at[t] /\ who'[t] = who[t]
        /\ \/ pc[s] \notin AnnounceSteps
           \/ pc'[s] \in AnnounceSteps /\ at' = at /\ who' = who
    BY <1>0, <1>5 DEF InsertRow, UpdateRow, LookupAccount, DeleteRows, HLen, Reached,
       Call, Continue, Return, Release, AnnounceSteps
  <2> QED BY <1>1, <2>1 DEF Covered
<1>6. ASSUME NEW s \in Server, SetConnMgnt(s) PROVE CoverKept
  <2>1. /\ redis' = redis \cup {[account |-> who[s], addr |-> at[s]]} /\ UNCHANGED clientConns
        /\ \A t \in Server : t # s => pc'[t] = pc[t] /\ at'[t] = at[t] /\ who'[t] = who[t]
    BY <1>0, <1>6 DEF SetConnMgnt, Reached, Return, Call, HashSet
  <2> QED BY <1>1, <2>1 DEF Covered
<1>7. ASSUME NEW s \in Server, Unmap(s) PROVE CoverKept
  <2>1. /\ pc[s] = "unmap" /\ redis' = redis /\ who[s] \in Account
        /\ at[s] \in clientConns[s][who[s]]
    BY <1>0, <1>7 DEF Unmap, Reached, ThreadOK, HandlerRows
  <2>2. /\ clientConns' = [clientConns EXCEPT ![s][who[s]] = @ \ {at[s]}]
        /\ at' = at /\ who' = who /\ \A t \in Server : t # s => pc'[t] = pc[t]
    BY <1>0, <1>7, <2>1 DEF Unmap, Several, EntryWithout, Continue
  <2>3. \A t \in Server, j \in Account : clientConns'[t][j] =
          IF t = s /\ j = who[s] THEN clientConns[s][who[s]] \ {at[s]} ELSE clientConns[t][j]
    BY <1>0, <2>1, <2>2, EntryLookup
  <2>4. \A t \in Server, j \in Account : clientConns'[t][j] \subseteq clientConns[t][j]
    BY <2>3
  <2> QED BY <1>1, <2>1, <2>2, <2>4 DEF Covered, AnnounceSteps
\* hdel takes a field of an address that no entry has.
<1>8. ASSUME NEW s \in Server, HDel(s) PROVE CoverKept
  <2>1. /\ redis' = redis \ {[account |-> who[s], addr |-> at[s]]} /\ UNCHANGED clientConns
        /\ pc[s] = "hdel" /\ at' = at /\ who' = who /\ who[s] \in Account
        /\ \A t \in Server : t # s => pc'[t] = pc[t]
    BY <1>0, <1>8 DEF HDel, Reached, Continue, HashDelField, ThreadOK
  <2>2. \A t \in Server, k \in Account : at[s] \notin clientConns[t][k]
    BY <1>0, <2>1 DEF Unmapped, HandlerHolds, MappedIsOwned, Held
  <2>3. ASSUME NEW t \in Server, NEW j \in Account, NEW b \in clientConns[t][j], Covered(t, j, b)
        PROVE  Covered(t, j, b)'
    <3>1. [account |-> j, addr |-> b] # [account |-> who[s], addr |-> at[s]]
      BY <2>2
    <3> QED BY <2>1, <2>3, <3>1 DEF Covered, AnnounceSteps
  <2> QED BY <1>1, <2>1, <2>3
\* del takes none of its own manager's addresses.
<1>9. ASSUME NEW s \in Server, Del(s) PROVE CoverKept
  <2>1. /\ redis' = {f \in redis : f.account # who[s]} /\ UNCHANGED clientConns
        /\ pc[s] = "del"
        /\ \A t \in Server : t # s => pc'[t] = pc[t] /\ at'[t] = at[t] /\ who'[t] = who[t]
    BY <1>0, <1>9 DEF Del, Reached, Return, Call, Release, HashDel
  <2> SUFFICES ASSUME NEW t \in Server, NEW j \in Account, NEW b \in clientConns[t][j],
                      Covered(t, j, b), j # who[s] \/ t = s
               PROVE  Covered(t, j, b)'
    BY <1>9, <2>1 DEF CoverKept
  <2>2. CASE j = who[s]
    <3>1. [account |-> j, addr |-> b] \notin redis /\ t = s
      BY <2>1, <2>2 DEF DelSeesNone
    <3> QED BY <2>1, <3>1 DEF Covered, AnnounceSteps
  <2>3. CASE j # who[s]
    BY <2>1, <2>3 DEF Covered, AnnounceSteps
  <2> QED BY <2>2, <2>3
<1>10. ASSUME NEW s \in Server, Throw(s) \/ (\E k \in Account : GetConnections(s, k))
       PROVE  CoverKept
  <2>1. UNCHANGED <<clientConns, redis, thread>>
    BY <1>10 DEF Throw, GetConnections
  <2> QED BY <1>1, <2>1 DEF Covered
<1>11. CASE Crash
  BY <1>11 DEF Crash, FreshMemory, CoverKept
<1>12. CASE Reset
  <2>1. clientConns' = clientConns /\ \A t \in Server, k \in Account : clientConns[t][k] = {}
    BY <1>0, <1>12 DEF Reset, StartReset, ResetAccount, ResetRows, DownIsEmpty
  <2> QED BY <2>1 DEF CoverKept
<1> QED BY <1>2, <1>3, <1>4, <1>5, <1>6, <1>7, <1>8, <1>9, <1>10, <1>11, <1>12
        DEF Next, Event, HandlerStep

\* OnlyOthersUncover, for every instance, accounts that connect to several servers
\* included: with one account per peer, an address stays in Redis from its connect
\* message on, unless the close handler of another server deletes the hash of its
\* account.  No order of its own server's handlers, no reuse of an address, no
\* failing call and no crash makes Redis lose it.
THEOREM OnlyOthersTakeFromRedis ==
  ASSUME Rename = FALSE
  PROVE  Spec => OnlyOthersUncover
<1>1. Init => OwnInv /\ DelSeesNone
  BY MappedInitially DEF MappedInv, Init, FreshMemory, DelSeesNone
<1>2. OwnInv /\ DelSeesNone /\ [Next]_vars => (OwnInv /\ DelSeesNone)'
  <2> SUFFICES ASSUME OwnInv, DelSeesNone, [Next]_vars PROVE OwnInv' /\ DelSeesNone'
    OBVIOUS
  <2>1. RowInv /\ HandleInv /\ TypeOK /\ ThreadOK /\ DownIsEmpty
    BY DEF OwnInv, RowInv, HandleInv
  <2>2. RowInv'
    BY <2>1, HandleNext, NextTypeOK, RowNext DEF RowInv, HandleInv
  <2> QED BY <2>1, <2>2, DownNext, OwnNext, DelNext DEF OwnInv
<1>3. OwnInv /\ DelSeesNone /\ [Next]_vars => [CoverKept]_vars
  BY StepCovers
<1> QED BY <1>1, <1>2, <1>3, PTL DEF Spec, OnlyOthersUncover, CoverKept

-----------------------------------------------------------------------------
(* Redis lists nothing else *)

\* What Redis lists while the process is not up was left by a crash.
RedisStartsEmpty == proc # "up" => redis = {}

LEMMA ExactNext ==
  ASSUME RowInv, RedisStartsEmpty, RedisExact, "crash" \notin Faults, [Next]_vars
  PROVE  RedisStartsEmpty' /\ RedisExact'
<1> USE DEF maps, peers, thread, stores, process, RedisStartsEmpty, RedisExact
<1> DEFINE Listed(f, s) == \/ f.addr \in clientConns[s][f.account]
                           \/ pc[s] \in {"hdel", "del"} /\ at[s] = f.addr /\ who[s] = f.account
<1>0. /\ HandlerRows /\ ThreadOK /\ HandleInv
      /\ clientConns \in [Server -> [Account -> SUBSET Addr]]
      /\ pc \in [Server -> Steps] /\ at \in [Server -> Addr \cup {NoAddr}]
      /\ who \in [Server -> Account \cup {NoAccount}] /\ redis \subseteq Field
  BY DEF RowInv, HandleInv, TypeOK
<1>1. ASSUME NEW s \in Server, NEW a \in Addr, NEW k \in Account, Announce(s, a, k)
      PROVE  RedisStartsEmpty' /\ RedisExact'
  <2>1. /\ UNCHANGED <<redis, proc>> /\ pc[s] = "idle"
        /\ \A t \in Server, j \in Account : clientConns[t][j] \subseteq clientConns'[t][j]
        /\ \A t \in Server : t # s => pc'[t] = pc[t] /\ at'[t] = at[t] /\ who'[t] = who[t]
    BY <1>0, <1>1, AnnounceAdds DEF Announce, Call, Ready, HandleInv
  <2>2. \A f \in redis, t \in Server : Listed(f, t) => Listed(f, t)'
    BY <1>0, <2>1 DEF Field
  <2> QED BY <2>1, <2>2
<1>2. ASSUME NEW s \in Server,
             \/ \E c \in Conn, a \in Addr : Open(s, c, a)
             \/ \E a \in Addr : Close(s, a)
             \/ InsertRow(s) \/ UpdateRow(s) \/ LookupAccount(s) \/ DeleteRows(s)
      PROVE  RedisStartsEmpty' /\ RedisExact'
  <2>1. /\ UNCHANGED <<redis, proc, clientConns>> /\ pc[s] \notin {"hdel", "del"}
        /\ \A t \in Server : t # s => pc'[t] = pc[t] /\ at'[t] = at[t] /\ who'[t] = who[t]
    BY <1>0, <1>2 DEF Open, Close, InsertRow, UpdateRow, LookupAccount, DeleteRows, Ready,
       Reached, Call, Continue, Return, Release
  <2>2. \A f \in redis, t \in Server : Listed(f, t) => Listed(f, t)'
    BY <2>1
  <2> QED BY <2>1, <2>2
<1>3. ASSUME NEW s \in Server, SetConnMgnt(s) PROVE RedisStartsEmpty' /\ RedisExact'
  <2>1. /\ proc = "up" /\ UNCHANGED <<proc, clientConns>> /\ pc[s] = "hset"
        /\ redis' = redis \cup {[account |-> who[s], addr |-> at[s]]}
        /\ at[s] \in clientConns[s][who[s]]
        /\ \A t \in Server : t # s => pc'[t] = pc[t] /\ at'[t] = at[t] /\ who'[t] = who[t]
    BY <1>0, <1>3 DEF SetConnMgnt, Reached, Return, Call, HashSet, HandlerRows
  <2>2. \A f \in redis, t \in Server : Listed(f, t) => Listed(f, t)'
    BY <2>1
  <2>3. \A f \in redis' : f \in redis \/ f.addr \in clientConns'[s][f.account]
    BY <2>1
  <2> QED BY <2>1, <2>2, <2>3
<1>4. ASSUME NEW s \in Server, Unmap(s) PROVE RedisStartsEmpty' /\ RedisExact'
  <2>1. /\ proc = "up" /\ UNCHANGED <<proc, redis>> /\ pc[s] = "unmap" /\ who[s] \in Account
        /\ at[s] \in clientConns[s][who[s]]
    BY <1>0, <1>4 DEF Unmap, Reached, HandlerRows, ThreadOK
  <2>2. clientConns' = [clientConns EXCEPT ![s][who[s]] = @ \ {at[s]}]
    BY <1>4, <2>1 DEF Unmap, Several, EntryWithout
  <2>3. \A t \in Server, j \in Account :
          clientConns'[t][j] = IF t = s /\ j = who[s] THEN clientConns[s][who[s]] \ {at[s]}
                               ELSE clientConns[t][j]
    BY <1>0, <2>1, <2>2, EntryLookup
  <2>4. /\ pc'[s] \in {"hdel", "del"} /\ at'[s] = at[s] /\ who'[s] = who[s]
        /\ \A t \in Server : t # s => pc'[t] = pc[t] /\ at'[t] = at[t] /\ who'[t] = who[t]
    BY <1>0, <1>4, <2>1 DEF Unmap, Continue
  <2>5. ASSUME NEW f \in redis, NEW t \in Server, Listed(f, t) PROVE Listed(f, t)' \/ Listed(f, s)'
    <3>1. f.account \in Account
      BY <1>0 DEF Field
    <3> QED BY <2>1, <2>3, <2>4, <2>5, <3>1
  <2> QED BY <2>1, <2>5
<1>5. ASSUME NEW s \in Server, HDel(s) \/ HLen(s) \/ Del(s) PROVE RedisStartsEmpty' /\ RedisExact'
  <2>1. /\ proc = "up" /\ UNCHANGED <<proc, clientConns>> /\ redis' \subseteq redis
        /\ pc[s] \in {"hdel", "hlen", "del"}
        /\ \A f \in redis' : pc[s] \in {"hdel", "del"} =>
             ~(at[s] = f.addr /\ who[s] = f.account)
        /\ \A t \in Server : t # s => pc'[t] = pc[t] /\ at'[t] = at[t] /\ who'[t] = who[t]
    <3>1. CASE HDel(s)
      BY <1>0, <3>1 DEF HDel, Reached, Continue, HashDelField, Field
    <3>2. CASE HLen(s)
      BY <1>0, <3>2 DEF HLen, Reached, Continue, Release, Return, Call
    <3>3. CASE Del(s)
      BY <1>0, <3>3 DEF Del, Reached, Release, Return, Call, HashDel
    <3> QED BY <1>5, <3>1, <3>2, <3>3
  <2>2. \A f \in redis', t \in Server : Listed(f, t) => Listed(f, t)'
    BY <2>1
  <2> QED BY <2>1, <2>2
<1>6. CASE Reset
  BY <1>6 DEF Reset, StartReset, ResetAccount, ResetRows, HashDel
<1>7. CASE UNCHANGED <<proc, redis, clientConns, thread>>
  BY <1>7
<1>8. ~Crash
  BY DEF Crash
<1> QED BY <1>1, <1>2, <1>3, <1>4, <1>5, <1>6, <1>7, <1>8
        DEF Next, Event, HandlerStep, Throw, GetConnections, vars

\* RedisExact, for every instance: unless the process crashes, Redis lists no
\* address that no manager has, except one whose close handler is about to delete
\* it; several accounts per peer and failing calls included.
THEOREM RedisListsNothingElse ==
  ASSUME "crash" \notin Faults
  PROVE  Spec => []RedisExact
<1>1. Init => RedisStartsEmpty /\ RedisExact
  BY DEF Init, RedisStartsEmpty, RedisExact
<1>2. RowInv /\ RedisStartsEmpty /\ RedisExact /\ [Next]_vars => (RedisStartsEmpty /\ RedisExact)'
  BY ExactNext
<1> QED BY <1>1, <1>2, RowInvariance, PTL DEF Spec

-----------------------------------------------------------------------------
(* What is left of a connection that has gone *)

\* FreeIsForgotten, for every instance: with one account per peer and no crash, an
\* address that is free for another connection has no connection's handle in a map,
\* is under no account in the maps or the table and in no field of Redis
\* (connection_manager.cpp:53-78), failing calls, abandoned handlers and lookups in
\* other threads' handlers included.  Left may be an empty handle and anonymous rows.
THEOREM FreeAddressesAreForgotten ==
  ASSUME Rename = FALSE, "crash" \notin Faults
  PROVE  Spec => []FreeIsForgotten
<1>1. ASSUME RowInv, MappedIsOwned, RedisExact
      PROVE  FreeIsForgotten
  <2> SUFFICES ASSUME proc = "up", NEW a \in Addr, heap[a] = NoConn
               PROVE  /\ \A s \in Server : conns[s][a] \in {Absent, NoHdl}
                      /\ \A s \in Server, k \in Account : a \notin clientConns[s][k]
                      /\ \A r \in table : r.addr = a => r.account = NoAccount
                      /\ \A f \in redis : f.addr # a
    BY DEF FreeIsForgotten
  <2>0. /\ HandlerHolds /\ HandleIsCurrent /\ RowIsMapped
        /\ redis \subseteq [account : Account, addr : Addr]
    BY <1>1 DEF RowInv, HandleInv, TypeOK, Field
  <2>1. \A s \in Server : ~Held(s, a)
    BY ManagerAssumption DEF Held
  <2>2. \A s \in Server : conns[s][a] \in {Absent, NoHdl}
    BY <1>1, <2>0, <2>1 DEF HandleIsCurrent, Held, RowInv, HandleInv, TypeOK
  <2>3. \A s \in Server, k \in Account : a \notin clientConns[s][k]
    BY <1>1, <2>1 DEF MappedIsOwned
  <2>4. \A r \in table : r.addr = a => r.account = NoAccount
    BY <2>0, ManagerAssumption DEF RowIsMapped
  <2>5. ASSUME NEW f \in redis, f.addr = a PROVE FALSE
    <3>1. f.account \in Account
      BY <2>0
    <3>2. PICK s \in Server :
            \/ a \in clientConns[s][f.account]
            \/ pc[s] \in {"hdel", "del"} /\ at[s] = a
      BY <1>1, <2>5 DEF RedisExact
    <3> QED BY <2>0, <2>1, <2>3, <3>1, <3>2 DEF HandlerHolds
  <2> QED BY <2>2, <2>3, <2>4, <2>5
<1> QED BY <1>1, RowInvariance, EntriesAreOwned, RedisListsNothingElse, PTL

=============================================================================
