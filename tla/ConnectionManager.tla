-------------------------- MODULE ConnectionManager --------------------------
(***************************************************************************)
(* The connection managers of one process.  Each websocket server has its  *)
(* own manager and its own io thread, which runs the open, message and     *)
(* close handlers one after the other; all managers share the table and    *)
(* the Redis hashes of ConnectionStore.  A handler is a sequence of steps, *)
(* one per call that leaves the process, so another server, a crash or a   *)
(* failing call can come between any two of them.                          *)
(*                                                                         *)
(* The maps' keys are (int) of pointers.  C++ has no such conversion to an *)
(* int narrower than a pointer (compilers refuse it unless told otherwise, *)
(* g++ -fpermissive): in the builds modelled objects that exist at one     *)
(* time have different keys, and an Addr is both, pointer and key.         *)
(***************************************************************************)
EXTENDS ConnectionStore

CONSTANTS
  Server,         \* the listening servers: client, waiter, dispatcher
  Conn,           \* websocket connection objects; each is opened at most once
  ServerOf,       \* the server a connection is made to
  Serves,         \* the accounts whose peers connect to a server
  NoConn,         \* a free address
  NoAddr,         \* no handler is running
  Absent,         \* no entry in m_connections
  NoHdl,          \* a default constructed connection_hdl
  Rename,         \* may a peer announce a second account on its connection?
  ForeignLookup,  \* do other threads call get_connections during a handler?
  Faults          \* which of "crash" and "throw" can happen

ASSUME ManagerAssumption ==
  /\ ServerOf \in [Conn -> Server]
  /\ Serves \in [Server -> SUBSET Account]
  /\ NoConn \notin Conn /\ NoAddr \notin Addr
  /\ Absent \notin Conn /\ NoHdl \notin Conn /\ Absent # NoHdl
  /\ Rename \in BOOLEAN /\ ForeignLookup \in BOOLEAN
  /\ Faults \subseteq {"crash", "throw"}

VARIABLES
  proc,         \* "down", "reset" (clearing the stores at start-up) or "up"
  todo,         \* accounts whose hash the reset has still to delete
  heap,         \* which connection object lives at an address
  used,         \* connections that have been opened
  names,        \* accounts a connection has announced (history)
  conns,        \* m_connections of each manager
  clientConns,  \* m_client_connections of each manager, {} for no entry
  pc,           \* the statement an io thread has reached
  at,           \* conn_addr of the running handler
  who,          \* client_id of the running handler
  loop,         \* is the server's run loop still running?
  table,        \* the table connection_manager
  redis         \* the fields of the Redis hashes

maps    == <<conns, clientConns>>
thread  == <<pc, at, who>>
peers   == <<heap, used, names>>
stores  == <<table, redis>>
process == <<proc, todo, loop>>
vars    == <<process, peers, maps, thread, stores>>

\* The calls of on_open, of a connect message and of on_close, in order.
AnnounceSteps == {"update", "hset"}
CloseSteps    == {"lookup", "delete", "unmap", "hdel", "hlen", "del"}
Steps         == {"idle", "insert"} \cup AnnounceSteps \cup CloseSteps

TypeOK ==
  /\ proc \in {"down", "reset", "up"}
  /\ todo \in SUBSET Account
  /\ heap \in [Addr -> Conn \cup {NoConn}]
  /\ used \in SUBSET Conn
  /\ names \in [Conn -> SUBSET Account]
  /\ conns \in [Server -> [Addr -> Conn \cup {Absent, NoHdl}]]
  /\ clientConns \in [Server -> [Account -> SUBSET Addr]]
  /\ pc \in [Server -> Steps]
  /\ at \in [Server -> Addr \cup {NoAddr}]
  /\ who \in [Server -> Account \cup {NoAccount}]
  /\ loop \in [Server -> BOOLEAN]
  /\ table \in SUBSET Row
  /\ redis \in SUBSET Field

\* The memory of a process that has just started: three empty managers.
FreshMemory(newHeap, newConns, newClientConns, newPc, newAt, newWho, newLoop) ==
  /\ newHeap = [a \in Addr |-> NoConn]
  /\ newConns = [s \in Server |-> [a \in Addr |-> Absent]]
  /\ newClientConns = [s \in Server |-> [k \in Account |-> {}]]
  /\ newPc = [s \in Server |-> "idle"]
  /\ newAt = [s \in Server |-> NoAddr]
  /\ newWho = [s \in Server |-> NoAccount]
  /\ newLoop = [s \in Server |-> TRUE]

Init ==
  /\ proc = "down" /\ todo = {}
  /\ FreshMemory(heap, conns, clientConns, pc, at, who, loop)
  /\ used = {} /\ names = [c \in Conn |-> {}]
  /\ table = {} /\ redis = {}

-----------------------------------------------------------------------------
(* The io thread of a server *)

\* The thread waits for the next event.
Ready(s) == proc = "up" /\ loop[s] /\ pc[s] = "idle"

\* It is about to make the call p of its handler.
Reached(s, p) == proc = "up" /\ loop[s] /\ pc[s] = p

\* A connection of server s lives at address a.
Held(s, a) == heap[a] \in Conn /\ ServerOf[heap[a]] = s

Call(s, p, a, k) ==
  /\ pc'  = [pc EXCEPT ![s] = p]
  /\ at'  = [at EXCEPT ![s] = a]
  /\ who' = [who EXCEPT ![s] = k]

Continue(s, p) ==
  /\ pc' = [pc EXCEPT ![s] = p]
  /\ UNCHANGED <<at, who>>

Return(s) == Call(s, "idle", NoAddr, NoAccount)

\* on_close returns and the last reference to the connection object goes away,
\* so the next connection may be allocated at its address.
Release(s) ==
  /\ heap' = [heap EXCEPT ![at[s]] = NoConn]
  /\ Return(s)

-----------------------------------------------------------------------------
(* on_open: add_connection *)

\* m_connections.insert keeps an entry the map already has; conn_addr is the
\* pointer, an int being wide enough for it.
Open(s, c, a) ==
  /\ Ready(s)
  /\ ServerOf[c] = s /\ c \notin used /\ heap[a] = NoConn
  /\ heap' = [heap EXCEPT ![a] = c]
  /\ used' = used \cup {c}
  /\ conns' = [conns EXCEPT ![s][a] = IF @ = Absent THEN c ELSE @]
  /\ Call(s, "insert", a, NoAccount)
  /\ UNCHANGED <<process, names, clientConns, stores>>

InsertRow(s) ==
  /\ Reached(s, "insert")
  /\ table' = AddRow(table, at[s])
  /\ Return(s)
  /\ UNCHANGED <<process, peers, maps, redis>>

-----------------------------------------------------------------------------
(* on_message of a connect message: update_connection *)

\* has_addr: an address the account already has is written nowhere again.
Announce(s, a, k) ==
  /\ Ready(s) /\ Held(s, a) /\ k \in Serves[s]
  /\ Rename \/ names[heap[a]] \subseteq {k}
  /\ names' = [names EXCEPT ![heap[a]] = @ \cup {k}]
  /\ \/ /\ a \in clientConns[s][k]
        /\ UNCHANGED <<clientConns, thread>>
     \/ /\ a \notin clientConns[s][k]
        /\ clientConns' = [clientConns EXCEPT ![s][k] = @ \cup {a}]
        /\ Call(s, "update", a, k)
  /\ UNCHANGED <<process, heap, used, conns, stores>>

UpdateRow(s) ==
  /\ Reached(s, "update")
  /\ table' = UpdateRows(table, at[s], who[s])
  /\ Continue(s, "hset")
  /\ UNCHANGED <<process, peers, maps, redis>>

SetConnMgnt(s) ==
  /\ Reached(s, "hset")
  /\ redis' = HashSet(redis, who[s], at[s])
  /\ Return(s)
  /\ UNCHANGED <<process, peers, maps, table>>

-----------------------------------------------------------------------------
(* on_close: remove_connection *)

\* (mutant: the entry of m_connections is not erased)
HandleKept(s, a) == conns

\* m_connections.erase
HandleErased(s, a) == [conns EXCEPT ![s][a] = Absent]

Close(s, a) ==
  /\ Ready(s) /\ Held(s, a)
  /\ conns' = HandleErased(s, a)
  /\ Call(s, "lookup", a, NoAccount)
  /\ UNCHANGED <<process, peers, clientConns, stores>>

\* The account comes from the table, not from the manager's own map; a
\* connection that never announced itself leaves its row behind.
LookupAccount(s) ==
  /\ Reached(s, "lookup")
  /\ \E k \in AccountsAt(table, at[s]) :
       \/ /\ k = NoAccount
          /\ Release(s)
       \/ /\ k # NoAccount
          /\ Call(s, "delete", at[s], k)
          /\ UNCHANGED heap
  /\ UNCHANGED <<process, used, names, maps, stores>>

DeleteRows(s) ==
  /\ Reached(s, "delete")
  /\ table' = RowsWithout(table, at[s])
  /\ Continue(s, "unmap")
  /\ UNCHANGED <<process, peers, maps, redis>>

Several(S) == \E a, b \in S : a # b

\* (mutants: the size is not looked at; no address is removed)
EntryDropped(v, a) == {}
EntryKept(v, a) == v

\* With one address left the account's entry goes, whichever address that is.
EntryWithout(v, a) == IF Several(v) THEN v \ {a} ELSE {}

Unmap(s) ==
  /\ Reached(s, "unmap")
  /\ LET v == clientConns[s][who[s]]
     IN  IF v = {}
           THEN Release(s) /\ UNCHANGED clientConns
           ELSE /\ clientConns' = [clientConns EXCEPT ![s][who[s]] = EntryWithout(v, at[s])]
                /\ Continue(s, IF Several(v) THEN "hdel" ELSE "del")
                /\ UNCHANGED heap
  /\ UNCHANGED <<process, used, names, conns, stores>>

\* remove_conn_mngt(key, hkey): hdel, and then del when hlen is zero
HDel(s) ==
  /\ Reached(s, "hdel")
  /\ redis' = HashDelField(redis, who[s], at[s])
  /\ Continue(s, "hlen")
  /\ UNCHANGED <<process, peers, maps, table>>

HLen(s) ==
  /\ Reached(s, "hlen")
  /\ IF HashIsEmpty(redis, who[s])
       THEN Continue(s, "del") /\ UNCHANGED heap
       ELSE Release(s)
  /\ UNCHANGED <<process, used, names, maps, stores>>

\* remove_conn_mngt(key), and the last call of remove_conn_mngt(key, hkey)
Del(s) ==
  /\ Reached(s, "del")
  /\ redis' = HashDel(redis, who[s])
  /\ Release(s)
  /\ UNCHANGED <<process, used, names, maps, table>>

-----------------------------------------------------------------------------
(* get_connections, for a message to account k or to disconnect it: the     *)
(* subscript m_connections[addr] puts an empty handle where it finds none.  *)
GetConnections(s, k) ==
  /\ proc = "up" /\ clientConns[s][k] # {}
  /\ ForeignLookup \/ Ready(s)
  /\ conns' = [conns EXCEPT ![s] =
       [a \in Addr |-> IF a \in clientConns[s][k] /\ @[a] = Absent
                       THEN NoHdl ELSE @[a]]]
  /\ UNCHANGED <<process, peers, clientConns, thread, stores>>

-----------------------------------------------------------------------------
(* Failures and start-up *)

\* A call to MySQL or Redis throws, or the next message is no package: the
\* exception leaves the handler where it is and ends the run loop, which nothing
\* starts again.
Throw(s) ==
  /\ "throw" \in Faults
  /\ proc = "up" /\ loop[s] /\ pc[s] # "unmap"
  /\ loop' = [loop EXCEPT ![s] = FALSE]
  /\ UNCHANGED <<proc, todo, peers, maps, thread, stores>>

\* The process dies, by a signal or because conn is NULL in mysql_handler.
Crash ==
  /\ "crash" \in Faults
  /\ proc # "down" /\ proc' = "down"
  /\ todo' = {}
  /\ FreshMemory(heap', conns', clientConns', pc', at', who', loop')
  /\ UNCHANGED <<used, names, stores>>

\* main: remove_connections_by_machine reads the accounts, deletes the hash of
\* each, deletes the rows, and the servers start.
StartReset ==
  /\ proc = "down" /\ proc' = "reset"
  /\ todo' = AccountsOfMachine(table)
  /\ UNCHANGED <<peers, maps, thread, loop, stores>>

ResetAccount(k) ==
  /\ proc = "reset" /\ k \in todo
  /\ todo' = todo \ {k}
  /\ redis' = HashDel(redis, k)
  /\ UNCHANGED <<proc, loop, peers, maps, thread, table>>

ResetRows ==
  /\ proc = "reset" /\ todo = {}
  /\ proc' = "up"
  /\ table' = {}
  /\ UNCHANGED <<todo, loop, peers, maps, thread, redis>>

-----------------------------------------------------------------------------
Event(s) ==
  \/ \E c \in Conn, a \in Addr : Open(s, c, a)
  \/ \E a \in Addr, k \in Account : Announce(s, a, k)
  \/ \E a \in Addr : Close(s, a)

HandlerStep(s) ==
  \/ InsertRow(s)
  \/ UpdateRow(s) \/ SetConnMgnt(s)
  \/ LookupAccount(s) \/ DeleteRows(s) \/ Unmap(s)
  \/ HDel(s) \/ HLen(s) \/ Del(s)

Reset == StartReset \/ (\E k \in Account : ResetAccount(k)) \/ ResetRows

Next ==
  \/ \E s \in Server : Event(s) \/ HandlerStep(s) \/ Throw(s)
  \/ \E s \in Server, k \in Account : GetConnections(s, k)
  \/ Crash
  \/ Reset

Spec == Init /\ [][Next]_vars

\* An io thread that has begun a handler runs it to its end, and main starts
\* the servers; peers, and other threads' lookups, owe nothing.
FairSpec == Spec /\ (\A s \in Server : WF_vars(HandlerStep(s))) /\ WF_vars(Reset)

-----------------------------------------------------------------------------
(* Properties of every manager *)

\* A handle found in m_connections is that of the connection which now lives at
\* its address: an address is never left pointing at a closed connection.
HandleIsCurrent ==
  \A s \in Server, a \in Addr :
    conns[s][a] \in Conn => heap[a] = conns[s][a] /\ ServerOf[heap[a]] = s

\* The table names an account for an address only while the manager of the
\* connection living there has that address under that account.  on_close trusts
\* the table to choose the entry it removes.
RowIsMapped ==
  proc = "up" =>
    \A r \in table : r.account # NoAccount =>
      /\ heap[r.addr] \in Conn
      /\ r.addr \in clientConns[ServerOf[heap[r.addr]]][r.account]

\* An address leaves an account's entry only in the close handler of the
\* connection at that address: closing one connection never makes the manager
\* forget another, although the last address is dropped without looking at it.
UnmapsOnlyOwn ==
  [][\A s \in Server, k \in Account :
       \A a \in clientConns[s][k] \ clientConns'[s][k] :
         proc' = "down" \/ (pc[s] = "unmap" /\ at[s] = a)]_vars

\* Redis has the address, or the handler that adds it has still to write it.
Covered(s, k, a) ==
  \/ [account |-> k, addr |-> a] \in redis
  \/ pc[s] \in AnnounceSteps /\ at[s] = a /\ who[s] = k

\* Redis lists every address a manager has under an account, for other machines
\* to find, except while the connect message that adds it is being handled.
\* (Needs an account to be served by one server; without, OnlyOthersUncover.)
RedisCovers ==
  proc = "up" =>
    \A s \in Server, k \in Account : \A a \in clientConns[s][k] : Covered(s, k, a)

-----------------------------------------------------------------------------
(* Properties that need each peer to announce one account (Rename = FALSE) *)

\* What is sent to an account can reach only connections that announced it.
MappedIsOwned ==
  \A s \in Server, k \in Account : \A a \in clientConns[s][k] :
    Held(s, a) /\ names[heap[a]] = {k}

\* An address under an account is in Redis from its connect message on, until
\* another server's manager deletes the account's whole hash: the last address
\* there, or an hlen of zero before this manager's hset (cache.cpp:100-103).  A
\* manager itself never takes out an address it has.
OnlyOthersUncover ==
  [][\A s \in Server, k \in Account : \A a \in clientConns'[s][k] :
       (a \in clientConns[s][k] => Covered(s, k, a)) =>
         Covered(s, k, a)' \/ (\E t \in Server \ {s} : who[t] = k /\ Del(t))]_vars

\* Without crashes Redis lists nothing else: a field is an address a manager
\* has, or one whose close handler is about to delete it.
RedisExact ==
  proc = "up" =>
    \A f \in redis : \E s \in Server :
      \/ f.addr \in clientConns[s][f.account]
      \/ pc[s] \in {"hdel", "del"} /\ at[s] = f.addr /\ who[s] = f.account

\* A connection that has announced an account and is not closing is under it in
\* its manager's maps, and no other handle is in its place: at worst the empty one
\* another thread's lookup left for it to inherit (run foreign_lookup).
OnlineIsMapped ==
  \A s \in Server, a \in Addr, k \in Account :
    (Held(s, a) /\ k \in names[heap[a]] /\ ~(at[s] = a /\ pc[s] \in CloseSteps))
      => a \in clientConns[s][k] /\ conns[s][a] \in {heap[a], NoHdl}

\* get_connections finds every connection of an account, with its handle, from
\* the connect message until the connection closes.
\* (Needs get_connections to stay out of the other threads' handlers.)
OnlineIsReachable ==
  \A s \in Server, a \in Addr, k \in Account :
    (Held(s, a) /\ k \in names[heap[a]] /\ ~(at[s] = a /\ pc[s] \in CloseSteps))
      => a \in clientConns[s][k] /\ conns[s][a] = heap[a]

\* A connection that closes is eventually out of the maps and of Redis, and its
\* address free, all at once.  The table has then no row of the address either if
\* the connection had announced an account; one that had not leaves an anonymous
\* row (connection_manager.cpp:59-60), which no later close but only one of a
\* connection that has its address again and announces itself, or the reset, deletes.
CloseForgets ==
  \A s \in Server, a \in Addr, c \in Conn :
    (pc[s] = "lookup" /\ at[s] = a /\ heap[a] = c) ~>
      /\ heap[a] = NoConn
      /\ conns[s][a] = Absent
      /\ \A k \in Account : a \notin clientConns[s][k]
      /\ \A f \in redis : f.addr # a
      /\ {r.account : r \in {x \in table : x.addr = a}} =
           IF names[c] = {} THEN {NoAccount} ELSE {}

\* An address is free for another connection only when no map has a connection's
\* handle for it, no account has it in the maps or in the table, and Redis has no
\* field of it (connection_manager.cpp:53-78).  What may be left is an empty handle
\* that another thread's lookup put there, and anonymous rows of connections that
\* never announced themselves.  (Needs a process that does not crash.)
FreeIsForgotten ==
  proc = "up" =>
    \A a \in Addr : heap[a] = NoConn =>
      /\ \A s \in Server : conns[s][a] \in {Absent, NoHdl}
      /\ \A s \in Server, k \in Account : a \notin clientConns[s][k]
      /\ \A r \in table : r.addr = a => r.account = NoAccount
      /\ \A f \in redis : f.addr # a

\* "socket connections were cleared": with no connection there is nothing left
\* of any in Redis.
ClearedWhenEmpty ==
  (proc = "up" /\ \A a \in Addr : heap[a] = NoConn) => redis = {}

-----------------------------------------------------------------------------
(* What a lookup may return, as the abstract registry sees it *)

Closing(a) == \E s \in Server : at[s] = a /\ pc[s] \in CloseSteps

OpenConns == {heap[a] : a \in {b \in Addr : heap[b] \in Conn /\ ~Closing(b)}}

\* Lookups return the handles found in m_connections; an empty one is nobody.
OnlinePairs ==
  {p \in Conn \X Account :
     \E s \in Server : \E a \in clientConns[s][p[2]] : conns[s][a] = p[1]}

Registry == INSTANCE ConnectionRegistry
              WITH known <- used, open <- OpenConns, online <- OnlinePairs

\* The managers implement the registry: a lookup never returns a connection that
\* did not announce the account, nor one that has begun to close, however
\* addresses are reused, also across restarts and abandoned handlers.
ImplementsRegistry == Registry!RegistrySpec

=============================================================================
