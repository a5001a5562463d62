# adBusiness: a model of its connection handling

adBusiness is a C++ instant-messaging service. Visitors of a web site ("clients") and the
people who answer them ("waiters") hold websocket connections to it; it keeps track of who
is connected, in memory, in MySQL and in Redis, and forwards messages. This directory models
the parts where order, concurrency and failure decide whether it is right, checks the models
with TLC and proves their main invariants with TLAPS. Paths below are relative to the
repository (`src/src/...`).

## 1. The system

`main` (`adBusiness.cpp:46`) selects the Redis cache, deletes what an earlier process left
in Redis and in the table `connection_manager` (`reset_socket_connection_in_db`), and calls
`run_wspp_server`, which starts three websocket servers, each with its own io thread:
client (6688, on the main thread), waiter (6689) and dispatcher (6690), and three
`process_messages` threads that wait for actions nobody produces.

| component | state | operations | who calls it |
|---|---|---|---|
| connection managers, `business/connection_manager.cpp` | per server `m_connections` (address -> handle) and `m_client_connections` (account -> addresses); table `connection_manager`; Redis hashes account -> {address: machine} | `add_connection`, `update_connection`, `remove_connection` (handle; account), `get_connections`, `remove_connections_by_machine` | the io thread of the server; `get_connections` also from the two other io threads; `main` |
| table and hashes, `database/connection_manager.cpp`, `business/cache.cpp` | the stores | one SQL statement or Redis command per call, a new connection each time | connection managers |
| message processor, `business/mesage_processor.cpp` | none (four global functions: send to client, to waiter, to dispatcher, disconnect) | parse and format packages, dispatch on the message type | websocket servers |
| websocket servers and `main`, `socket/websocket.cpp`, `adBusiness.cpp` | sockets, six threads, an unused action queue | `on_open`, `on_close`, `on_message`, `send_message`, `disconnect_client`, `run`, `process_messages` | websocketpp, the other servers through the global functions |
| broadcast server, `socket/wspp_broadcast.cpp` | action queue, set of handles, two mutexes, a condition variable | three producers on the io thread, `process_messages` as consumer | its own (commented) `main` |
| demo server, `socket/wspp_demo.cpp` | set of handles | open, close, message | nobody |
| echo server, `socket/server.cpp` | acceptor, buffer per session | accept, read, write | nobody |
| automatic assignment, `business/auto_assign.cpp` | its own class registry, list of class names from `strategy.xml`, one `context` per run | register, read, run the chain of processors | commented out in `main` |
| reflection registry, `utility/reflection.cpp`, `include/reflection.h` | map from the address of a name to a class object | `regist`, `for_name`, `new_instance` | a test |
| client records, `business/client.cpp`, `database/client.cpp`, `business/cache.cpp` | row of table `client`, Redis hash with 240 s to live | `init`, `remove` | `test_client`, commented out |
| site manager, `business/site_manager.cpp` | map of sites | add, remove, get | nobody |
| utilities, `utility/utility.cpp` | none | uuid, sha1, base64, json | message formatting |
| logging, tests, SQL dump | | | |

What is hard about it:

* **Reuse of addresses.** The key of everything is the address of a connection object.
  Whatever a closed connection leaves behind belongs to whoever is allocated there next.
* **Four copies.** Two maps, a table and Redis are written one after the other in a handler;
  each call can fail, ending the handler and (because `run` catches outside the loop) the
  server's io loop, which nobody restarts; the process can die between any two.
* **Closing trusts the table.** `remove_connection` asks the table which account the address
  belongs to, then removes "the last" address of that account without looking at it.
* **Threads without locks.** The dispatcher's thread calls the client and the waiter
  manager's `get_connections` while their own threads change the maps, and the lookup itself
  inserts (`m_connections[*it]`).
* **Foreign failures.** A send to, or a close of, a connection that is no longer open throws
  in the thread of the server that asked for it.
* **Start and end.** `run` opens its port outside the try block around the loop; five threads
  are started before `main` opens its own port, and `main` ends by waiting for a thread that
  never ends.
* **Blocking in the only thread.** The echo server reads, and asks its operator, inside the
  accept handler.
* **Pointers handed out.** The site manager and the class registries give out what they own.

The properties that make each component right:

* connection managers: a handle is that of the connection living at its address; what is
  found under an account are connections that announced it; every announced connection is
  found until it closes; a close forgets exactly one connection, everywhere; Redis lists what
  the managers have; a restart starts clean.
* websocket servers: a dispatched message reaches all the recipients that stay connected and
  nobody else; one server's peers cannot stop another server; disconnecting is idempotent.
* broadcast: actions take effect in order; no wake-up is lost; every message queued is
  eventually sent.
* `main`: no handler runs before the stores are cleared and the functions are bound; the
  process opens all three ports or ends, and after that only a handler ends it.
* echo server: a peer that comes and goes does not stop the accept loop; a request that
  arrives whole reaches the operator.
* automatic assignment: whom the draw assigns was offered, and survived every policy before
  the draw.
* client records: what is read is what was last written or absent; a removed client is gone.
* site manager, reflection registry: a pointer is good until its own object is removed; a
  class is found under the name it was registered with (at the same address: more the code
  does not ensure).
* utilities: sha1, base64 and package formatting agree with their definitions.

## 2. Modules

| module | what it is |
|---|---|
| `ConnectionStore` | the table and the Redis hashes as sets, one operator per SQL statement or Redis command |
| `ConnectionManager` | the managers of one process: servers, handlers step by step, foreign lookups, failures, crash and reset; its properties; the mapping to the registry |
| `ConnectionRegistry` | the abstract specification: which open connection may be reached under which account |
| `MCConnectionManager`, `MCRouting` | definitions for the instances of TLC |
| `Routing` | composes the managers with the dispatcher's thread and disconnect messages: who is sent to, who is closed, which thread an exception stops |
| `ServerThreads` | `main` and `run_wspp_server`: set-up, the six threads, ports, the end of loops |
| `BroadcastService` | the abstract specification of a broadcast server |
| `Broadcast` | the broadcast server's queue, mutex, condition variable and two threads; the mapping to the service |
| `DemoServer` | the broadcast server with one thread; the mapping to the same service |
| `ClientRecord` | a visitor's record in Redis and in the table, command by command |
| `AutoAssign` | the chain of processors that draws a waiter |
| `PackageCodec` | what becomes of a package that is parsed, written and parsed again |
| `Encoding` | base64 |
| `Sha1` | sha1: padding, the 80 words, the 80 rounds, the sums |
| `SiteManager` | the map of sites, and callers that keep pointers |
| `ClassRegistry` | the registry of `reflection.h`, keyed by the addresses of names |
| `AcceptLoop` | the echo server: backlog, accept handler, peers, operator |
| `MCHelpers` | the last seven with `DemoServer` and `ServerThreads`, one per behaviour, in one instance of TLC |
| `ConnectionManagerProofs`, `RoutingProofs`, `BroadcastProofs`, `DemoServerProofs`, `ClientRecordProofs`, `SiteManagerProofs`, `AutoAssignProofs` | theorems about the module of that name |
| `HelperProofs` | theorems about `ServerThreads`, `ClassRegistry`, `AcceptLoop`, `PackageCodec`, `Encoding`, the padding and the rounds of `Sha1`, the composition `MCHelpers`; induction |

### How ConnectionManager corresponds to the code

`conns[s]` is `m_connections` and `clientConns[s]` is `m_client_connections` of the manager
of server `s` (a missing entry and an empty vector are both `{}`: the code never leaves an
empty vector). `heap` says which connection object lives at an address, `names` (history)
what it has announced. `pc`, `at`, `who` are the statement, `conn_addr` and `cm.client_id`
of the handler an io thread is running; `loop` is FALSE once an exception has left
`m_server.run()`. `table` and `redis` are the stores; `proc` and `todo` are `main`'s start-up.

| action | code |
|---|---|
| `Open`, `InsertRow` | `add_connection`, 20-26 |
| `Announce`, `UpdateRow`, `SetConnMgnt` | `update_connection`, 28-51 |
| `Close`, `LookupAccount`, `DeleteRows`, `Unmap`, `HDel`, `HLen`, `Del` | `remove_connection`, 53-78, with `cache.cpp:96-111` |
| `GetConnections` | `get_connections`, 97-108 |
| `StartReset`, `ResetAccount`, `ResetRows` | `remove_connections_by_machine`, 110-119 |
| `Throw`, `Crash` | `websocket.cpp:38-46`; a signal, or the null connection of `handler.cpp:31-46` |

One action is what a thread does between two calls that leave the process. An io thread runs
one handler at a time; handlers of different servers, lookups, crashes and failing calls
interleave with its steps. A handler that throws stops where it is: `pc` keeps its value, the
connection object stays allocated, and the server takes no further event.

Abstractions:

* machine and site ids are left out: the stores are on localhost and `MACHINE_ID` is a
  constant, so every row is this machine's; nobody reads `site_id` back.
* the table is a set of rows: its schema is not in the repository's dump, and no statement
  distinguishes equal rows. The first row of a select is any row.
* the vector of an account's addresses is a set: `update_connection` counts before it adds,
  and only `size() > 1` and membership matter. The exact place in the vector where a lookup
  runs does not.
* account ids are not empty (an empty one is the `""` of a connection that has announced
  nothing). The three singletons are one record per server.
* `(int) hdl.lock().get()`, the key of the maps, is the address itself: right where a pointer
  has 32 bits. Where it has 64, two connections whose addresses agree in the lower half are one
  key, which is not modelled.
* a lookup by another thread happens between the calls of a handler, not in the middle of a
  map operation. A lookup inside one is a data race, whose outcome the model does not
  enumerate beyond `Crash`.

Switches (CONSTANTS): `Rename` lets a peer announce several accounts on one connection;
`ForeignLookup` lets other threads look up in the middle of a handler; `Faults` selects
crashes and failing calls; `Serves` says which accounts connect to which server.

### How Routing corresponds to the code

`Routing` extends `ConnectionManager`: each of its actions is an action of the managers (or
leaves them alone) together with what it does to `session`, the state websocketpp keeps for a
connection, and to the loops over handles. A thread in such a loop (`Free` is false) takes no
event; the other threads go on.

| action | code |
|---|---|
| `Accept`, `Connect`, `Ended`, `Proceed`, `Fail`, `Start`, `Die` | the handlers, failures and start-up of `ConnectionManager`, on a free thread; messages only of open sessions |
| `PeerCloses` | websocketpp: the session leaves the open state, the close handler comes later |
| `Dispatch`, `LookupRecipient`, `Send`, `SendThrows` | `wspp_server_dispatcher::on_message` (121-147) with `wspp_server::send_message` (76-82) of the recipients' server, on the dispatcher's thread |
| `Write` | websocketpp: the io loop of a server writes a frame that was queued for one of its connections |
| `Disconnect`, `CloseNext`, `CloseThrows` | `message_dispatcher` (201-203) with `disconnect_client` (84-88) of the client server, on the thread that read the message |

`send` and `close` throw unless the handle is that of a connection whose session is open
(from websocketpp's interface: bad connection, invalid state); the exception ends the run loop
of the thread it is thrown on and leaves the loop over handles where it is. A `send` that
returns has only queued the frame (`sent`): the io loop of the recipient's server writes it
later (`Write`, `written`), or never, when that loop has ended. The order of the
handles in a lookup is left open. A dispatch package with `dispatcher_connect` is `Connect` on
the dispatcher's server. A chat message changes nothing: `message_dispatcher` hands it to
`wspp_server_dispatcher::send_message`, whose body is empty.

### How ServerThreads corresponds to the code

`main` follows `adBusiness.cpp:46-62` and `run_wspp_server` (`websocket.cpp:161-178`):
`ClearStores` and `BindFunctions` are what happens before the first thread, `StartThread` the
five threads in their order, `RunClientServer` `main`'s own `run`. `Listen` is the opening of
the port in `run` (34-37); `PortTaken` is its failure, which is not caught: on a thread it
calls `terminate`, on `main`'s it ends `main`. `LoopEnds` is an exception that the try block
catches: on a thread of its own the thread ends, on `main`'s `main` goes on to `t1.join()`.
`SetUpFails` is a store that is away, a server that cannot be made, or a thread that cannot be
had; `HandlerCrashes` is the null connection of `handler.cpp:31-46`, which any handler that logs
to a database out of reach uses, and which ends the process (`Crash` of `ConnectionManager`).
The three `process_messages` threads wait on a condition variable nobody notifies and for a
queue nobody fills, so they are started and never seen again. What a running loop does is
`Routing`; that no handler runs before `ClearStores` is the `proc = "up"` of
`ConnectionManager`.

### How Broadcast corresponds to the code

`log` is every action ever pushed and `taken` how many have been popped, so `m_actions` is
`log` from `taken + 1` on; `members` is `m_connections`; `holder` is who has `m_action_lock`.
The io thread's handlers `on_open`, `on_message`, `on_close` (80-104) are `OnOpen`,
`OnMessage`, `OnClose` followed by `Push`, `Unlock`, `Notify`; `process_messages` (106-137) is
`Lock`, `Wait`, `Pop`, `Release`, then `Insert`, `Erase`, or `StartSending`, `Send`, `Sent`.
`WakeUp` is a return from `wait` without notification. `SendThrows` ends the process: the
exception leaves the function of a thread. A handle is compared by the object it refers to and
never reused, as the weak pointers keep their control block, so a connection is its handle.

`Service` maps this to `BroadcastService`: those connected are those whose session is open or
closing, `audience` is who was connected when a message came, `got` what was sent. The queue,
the threads and the lag of the members behind the connections disappear.

### How DemoServer corresponds to the code

`Opens`, `Closes`, `Posts` are the three handlers of `wspp_demo.cpp:23-38`; the loop over the
members is `SendTo` until `left` is empty, on the thread that runs everything, so nothing else
happens meanwhile. `SendFails` is a member whose session has begun to close: the exception
leaves `run`. It is mapped to the same `BroadcastService`.

### How ClientRecord corresponds to the code

`StartInit` is a call of `business::client::init`; `HSet` and `Expire` are `set_client` of
`cache.cpp`, field by field, `AddClient` the insert, `Exists` and `HGet` `get_client`;
`Remove` is `business::client::remove`, one statement; `TimeOut` is Redis. Every command is an
action, and `Fail` is one that throws, or a process that dies. A field holds the number of the
call that wrote it, so that an old value can be told from a new one. The callers are any
threads: in the repository only a test calls `init`, and that call is commented out. Left out:
the values of the fields (an unset `track_path`, counts nobody initialises), the empty
class `cache_local`, `db_client::get_client`, which nobody calls, and the two functions of
`business/client.cpp` that print a sample (`process_message`, `set_package`).

### How AutoAssign corresponds to the code

`RegistClasses` is `regist_classes`, `ReadStrategy` the reading of `strategy.xml`, any list of
names; `ExecuteClient` starts `execute_client`, each processor is an action, `Return` ends the
loop. The class objects are owned twice: `execute_client` gives the registry's pointer to a
`shared_ptr`, which deletes it, and the registry keeps it (`classMap`). A second use of a
deleted object may go on as if it were there, or the behaviour ends (`BadClass`). A null
pointer, or an index outside the candidates, ends it too; `undefined` says why. `Final` takes
any value of `rand()`; the index is past the end only for `RAND_MAX`. A policy may also stand
behind the draw: it takes a waiter from the candidates and leaves `final_assigner` as it is.

### How PackageCodec corresponds to the code

One package is received, parsed, written into a dispatch package and parsed by a dispatcher.
The text `message_dispatcher` writes goes to the dispatcher server's `send_message`, whose body
is empty (`websocket.cpp:149-152`), so none reaches a dispatcher from there: `Arrive` is the
same text sent by a peer of the dispatcher's port. `Throw` is a key that is missing. `WriteOut` and `ReadBack` are the two functions of
`utility.cpp` that write a package and read one: the first pops the messages off the package
it is given. `message_dispatcher` dispatches to a fixed pair; the model
takes any list of recipients. A number that is assigned to a `std::string` becomes the
character of that code (`OneCharacter`): that is what happens to a session id. What the JSON
library does with a text is left to it.

### How Encoding and Sha1 correspond to the code

`Base64` is the loop and the switch of `get_base64_encode`, compared with its definition.
In `Sha1` a word, an `unsigned long`, is the set of its bits, which makes shifts, rotations and
the logical functions set operations and the sum one formula; the standard's own operations
(a rotation, an addition column by column, a vote of three bits) are written beside them. No build file says how wide it
is, so `width` is 32 or 64. `Blocks` and `Data` are the padding, with the sign extension of `char` in the shift of
line 45; `BlockBegins`, `WordComputed`, `RoundDone`, `BlockEnds` are the loops. The data is
compared with the standard's for every size, the digest with published ones.

### How SiteManager and ClassRegistry correspond to the code

`AddSite`, `RemoveSite`, `GetSite` are the three functions; an object is its address and the
id it was made for, and the allocator may give a free address again. A caller keeps what
`get_site` returned. In `ClassRegistry` the map has `char*` keys, compared as addresses: `Regist`
inserts, `ForName` looks up, and the text that stands at an address does not count. The test
(`test/reflection.cpp:32-35`) finds its classes by name where its equal literals are pooled.

### How AcceptLoop corresponds to the code

`Accepted`, then `Address`, `ReadsPiece`, `TypeKey` are `accept_handler` (`server.cpp:83-109`)
up to the next `start`; each of its blocking calls is a step that may never come. `Throws` is
`remote_endpoint` or `receive` on a peer that has gone; it is caught and the loop goes on.
`AcceptFails` is the early return on an error, after which nobody accepts. `wire` is what a
peer has sent and nobody has read, piece by piece: a peer sends before its turn, in it and after
it. The one `receive` returns what is there, or as much as fits (`Receives`); whether it is JSON
its first byte says, and the word may stand in any piece. What comes later is never read. Text
that fills the buffer is ended one byte past it; the process may go on or not. The answer is sent
with `async_send` from a local string, and the socket goes with the handler, so it may be lost.

## 3. What the runs show

| run | instance | shows |
|---|---|---|
| `any_peer` | client and waiter server, 3 connections, 2 addresses, 3 accounts, several per peer; everything allowed | types; no stale handle; the table never names an account the manager does not have; Redis lists every address of every manager; a close makes a manager forget only the closing connection |
| `one_name_peer` | 2 servers sharing 2 accounts, 3 addresses, one account per peer; everything allowed | an account's entry holds its own connections only, and all of them until they close, with their handle or an empty one; Redis loses an address only by another server's `del` of the account's hash, the race of `hlen` and `del`; lookups refine `ConnectionRegistry` |
| `no_faults` | 1 server, fair, no failures, no lookup inside another thread's handler | every announced connection is found with its handle until it closes; Redis lists nothing else; a closed connection is eventually out of the maps and of Redis, and out of the table if it had announced an account; one that had not leaves an anonymous row |
| `crash_in_close` (violated) | crashes only | after a crash between the delete of the row and of the hash field, Redis keeps the field for ever: the reset finds the hashes through the rows |
| `foreign_lookup` (violated) | no failures | a lookup during a close leaves an empty handle that `insert` later keeps: the next connection at that address is announced but unreachable |
| `dispatching` | 3 servers, 2 visitors, a waiter, a dispatching peer, 3 addresses (symmetric); failing calls | nobody gets a message not addressed to it, or more copies; a dispatch that completes has queued every copy for all who stayed; a disconnect that completes has closed all it was about |
| `routing_fair` | the same with one visitor, crashes, an account addressed twice, fair | a dispatch ends or stops the dispatcher; what a completed dispatch queued is written, unless the connection begins to close, or its server's loop has ended; a closing connection is forgotten or its server has stopped |
| `online_waiters` (violated) | 2 waiters, a dispatching peer, no failures | a waiter that closes during a dispatch makes the send throw: the other waiter, online all the time, gets nothing, and the dispatcher has stopped |
| `broadcasting` | 2 connections, 3 messages, fair | no lost wake-up; a message goes to exactly those connected when it came; the server implements `BroadcastService`, so each gets its messages in order and without a gap; a message is handled unless the process is terminated |
| `broadcast_closing` (violated) | 2 connections, 1 message, fair | a send to a connection that is closing terminates the process; the message is never sent |
| `client_records` | 2 threads, 2 visitors, 2 fields, 3 calls of `init`, fair; failing commands | what is read back is not older than the call; a record in the cache that one call alone has written since the hash was last dropped (no other call at work beside it, none failed) is that call's, but for first fields an older time to live took: mixtures of concurrent or failed calls are excluded, not ruled out; what is cached is stored, or about to be, or its call failed, or its row was removed; a record no longer in use leaves the cache unless a call failed before `expire` |
| `helpers` | nine parts, one per behaviour | see below |

`helpers` runs the parts that share nothing with the chat servers:

| part | instance | shows |
|---|---|---|
| `AutoAssign` | every strategy of up to 5 names | the assignee was offered and not rejected before the draw, and each such waiter can be drawn; a policy behind the draw changes nothing; of all values of `rand()` the largest alone points past the candidates |
| `PackageCodec` | accounts of up to 2 parts, up to 2 recipients and messages | packages arrive as sent but for the session id, recipients if none holds a semicolon; a package written once and read back has its ids and all its messages (written twice it has none the second time) |
| `Encoding` | texts of up to 5 bytes | base64 is right and fits the buffer |
| `Sha1` | every size up to 130 bytes, bytes above 127 among the first two | the padded data is the standard's if the text leaves nine bytes of its last block and no byte above 127 follows another byte of its word; digests of 0, 3, 26 and 70 letters are the published ones where `unsigned long` has 32 bits, and all wrong where it has 64 (as on 64-bit Unix; the rest of the project is modelled for 32-bit builds, see `ConnectionManager`; the one use of `get_sha1`, `server.cpp:75`, is commented out) |
| `SiteManager` | 2 ids, 3 addresses, 2 callers | a pointer is good until its own site is removed |
| `ClassRegistry` | 2 addresses, 2 types | types only: the map compares addresses, so of equal names it promises nothing |
| `DemoServer` | 3 connections, 3 messages | it implements `BroadcastService` |
| `ServerThreads` | the 3 servers, 6 threads of the code, fair | no handler before the set-up is complete; all ports are opened or the process ends; with the ports open it ends in a handler only, never with a loop |
| `AcceptLoop` | 2 peers, up to 2 unread pieces each (a request, JSON that names one, a head without the word, one that fills the buffer), fair | a waiting peer is accepted, and a request that arrived whole and first is put before the operator, unless an accept failed, the process ended, or one peer or the operator holds the handler for ever |

The hypotheses of the passing runs are needed: when a peer announces several accounts an
address stays under its first account after the connection has closed (`MappedIsOwned` fails);
with accounts shared between servers a `del` after `hlen` can delete another server's field
(`RedisCovers` fails); with lookups inside handlers a connection may have an empty handle
(`OnlineIsReachable` fails), so `StayersAreSent` says nothing of a dispatch that meets one.
`OnlyOthersUncover` and `OnlineIsMapped` say what is left without the last two hypotheses.

Some properties stop short of a hazard next to them, on purpose: the code has it, and the
property says what holds all the same. `DisconnectCloses` and `DisconnectForgets` accept that a
second disconnect stops a server; `ReadBackNotStale` lets a read-back be a mixture of calls that
were writing; `CachedIsStored` exempts the records of calls that failed and of removed clients,
`CacheForgets` those a call failed for before `expire`; `HeldIsGood` exempts pointers to sites
that were removed; `DemoIsService` allows the server to stop.

Bounds. Each connection object is opened once, so the number of connections bounds a
behaviour; announcements, lookups, dispatches, crashes and restarts are not bounded. With
fewer addresses than connections one of them is reused while another connection is alive; two
accounts let a connection have a wrong one; with two servers three addresses let both be
connected while one is reused. In `dispatching` neither the waiter nor the dispatching peer
announces an account: they are there to send messages. Addresses are interchangeable in it.
In `broadcasting` `MaxMessages` bounds the messages; three of them let the queue hold several
between the subscriptions of two connections. Deadlock is not checked: a process whose servers
have thrown and whose connections are used up stops. In `client_records` two fields are enough
for a hash that is written in part or loses its first field; with three calls of `init` two can
write beside each other and a third follow. In `helpers` a class object serves once, so a
sixth name adds no new processor, unless the deleted object still works; `RandMax` is 25, as five
names make five offers of five candidates at most; 130 bytes pass
two block boundaries and both edges at 56 bytes, and 70 letters take two blocks through the
rounds; three addresses for two sites let one be used again while the other is alive; two
peers let one wait while the other is served, and two unread pieces let a request be followed, or
be split, before it is read.

Fairness. `FairSpec` (`no_faults`): weak fairness of each io thread's handler steps and of the
reset; a handler is straight-line code on its own thread, and `main` runs the reset before
anything else. `RoutingFairSpec`: also of the loops over handles, and strong fairness of
`Ended`: websocketpp ends a closing handshake by its timer when the peer does not, and the io
service gets to a queued event although others come in between; and weak fairness of `Write`: a
running loop writes what is queued, from each of its connections. `FairSpec` of `Broadcast`:
weak fairness of both threads and strong fairness of the io thread's acquisition of the mutex,
which spurious wake-ups of the other thread cannot postpone for ever. `FairSpec` of
`ClientRecord`: weak fairness of each caller's straight-line code and of Redis' clock. `ServerThreads`: weak
fairness of `main` and of each thread's opening of its port, as the scheduler runs a thread that
can go on. `AcceptLoop`: weak fairness of the io thread where it is not blocked. Peers, the
operator, lookups, failures, crashes and spurious wake-ups are never forced.

## 4. What is proved

`ConnectionManagerProofs`, for any number of servers, connections, addresses and accounts,
from the assumptions on the constants only:

| theorem | states |
|---|---|
| `TypeCorrect` | `TypeOK`, and a running handler has its address and account |
| `HandlesAreCurrent` | `HandleIsCurrent` |
| `RowsAreMapped` | `RowIsMapped` |
| `ClosesUnmapOnlyOwn` | the action property `UnmapsOnlyOwn` |
| `OnlyOthersTakeFromRedis` | the action property `OnlyOthersUncover`, if `Rename = FALSE`, accounts shared by servers included |
| `EntriesAreOwned` | `MappedIsOwned`, if `Rename = FALSE` |
| `LookupsAreRegistered` | `ImplementsRegistry` (refinement of `ConnectionRegistry`), if `Rename = FALSE` |
| `OnlineStaysMapped` | `OnlineIsMapped`, if `Rename = FALSE`, lookups inside any handler, failing calls and crashes included |
| `RedisListsNothingElse` | `RedisExact`, if the process does not crash |
| `FreeAddressesAreForgotten` | `FreeIsForgotten`, if `Rename = FALSE` and the process does not crash: an address a new connection may get has no connection's handle in a map, is under no account in the maps or the table and in no field of Redis; empty handles and anonymous rows may be left |

The argument, in layers, each using the ones before:

1. `HandleInv`. A handler runs at an address held by a connection of its own server, hence
   no two handlers at one address; a close handler has erased the handle first. So when the
   address is freed nobody has a handle for it.
2. `RowInv`. All rows of an address name one account; before its insert a connection has
   only anonymous rows, after the delete none; the account in the table is mapped. So the
   account a close reads is one whose entry holds the address, and with one address left that
   one is it.
3. `DelSeesNone`. A close handler has taken its address out of the entry before it deletes the
   field, and its own server's entry is empty when it deletes the hash; so only another server's
   `del` takes out an address a manager has (`OnlyOthersTakeFromRedis`, with `OwnInv`).
4. `OwnInv`. Every mapped address has its row (except between two writes of its handler), so
   a connection whose row names no account is in no entry and may be freed without removing it.
5. The refinement: with one account per peer an address is under one account at most, and what
   a lookup finds are connections that are open and announced, so a step of the managers is a
   step of the registry or leaves what it sees alone (`RegistrySteps`, `AddressNext`).
6. `MappedInv`, for one account per peer: every announced connection that is not closing is
   mapped, and the handle at a mapped address is its connection's or an empty one.
7. `ExactNext`: every field in Redis has its mapped address or a close handler that is about to
   delete it; only the end of a process between the two breaks this.
8. `FreeIsForgotten` combines three of them: an address no connection has is under no account
   (`OwnInv`) and its handle, if there is one, is empty (`HandleInv`), so no row of it names an
   account (`RowInv`) and Redis, which lists no more than the maps do, has no field for it
   (`ExactNext`).

`RoutingProofs`, for any number of servers, connections, addresses, accounts and recipients;
the first four for one account per peer (`Rename = FALSE`), the next three if calls may fail
(`"throw" \in Faults`), the last as it stands:

| theorem | states |
|---|---|
| `RoutingTypeCorrect` | `RoutingTypeOK`; no connection is sent more copies than there are recipients |
| `SendsAsAddressed` | `SentAsAddressed` |
| `StayersAreQueued` | `StayersAreSent`: whoever stayed has every copy in its queue, or written |
| `DisconnectsClose` | `DisconnectCloses` |
| `RoutingImplementsManagers` | `RoutingSpec => Spec`: every step of the servers is one of the managers, or leaves them alone |
| `ManagersHoldUnderRouting` | `HandleIsCurrent`, `RowIsMapped` and `UnmapsOnlyOwn` with the loops over handles running |
| `RoutingImplementsRegistry` | `ImplementsRegistry`, if also `Rename = FALSE`: the refinement down to `ConnectionRegistry`, through the managers |
| `ManagersFollowSessions` | `SessionsAgree`: the connections the managers have and are not closing are those whose session the library has not ended; no hypothesis |

The first four follow from one invariant, `RoutingInv`:

1. `MappedInv` of the managers, for these servers: what a lookup returns are open connections
   that announced the account, all of them, and perhaps an empty handle.
2. `SessionInv`: a connection whose session is open lives at an address and is not closing, so
   it is mapped when it has announced an account.
3. `SentInv`: what a connection has been sent and the copy it is still to be sent are together
   at most its share, the number of recipients looked up so far that name one of its accounts.
   An account addressed twice is two recipients, so this counts and is not a set. A connection that closes
   during the loop keeps its names, and one that takes over its address is another connection.
4. `StayInv`: for one that has been online since the dispatch began the two are equal, unless
   the loop has met an empty handle; then it cannot end but by an exception.
5. `MarkInv`: a connection a disconnect found is open only while its handle is still in the
   loop; no session opens twice.

The refinement has an invariant of its own (`BusyInv`: a thread whose loop over handles is not
over is in no handler), for an exception in such a loop must be one the managers allow: it
stops an io loop whose handler is idle. Through it every theorem of `ConnectionManagerProofs`
holds of the servers under its own hypotheses; `ManagersHoldUnderRouting` states three of them,
`RoutingImplementsRegistry` the refinement. `ManagersFollowSessions` needs no account: a close
handler begins just when the library ends the session, and no connection is opened twice
(`AgreeInv`).

`BroadcastProofs`, for any set of connections and any number of messages:

| theorem | states |
|---|---|
| `BroadcastTypes` | `TypeOK`; with it, an empty queue is never popped |
| `NoWakeUpIsLost` | `NoLostWakeUp` |
| `ThreadsNeverBlock` | `NoDeadlock`: with an action to push or to carry out, one of the two threads can go on |
| `AudiencesAreSent` | `SentToAudience` |
| `MessagesAreInOrder` | the action property `SentInOrder` (no run checks it: the refinement says more) |
| `BroadcastIsService` | `ImplementsService` (refinement of `BroadcastService`) |

1. `LockInv`: the mutex is held exactly in the two critical sections. So between the test of
   the queue and the wait nothing is pushed, and no wake-up is lost. Nor do the threads block
   each other: one of them is in its critical section, or the mutex is free.
2. `QueueInv`: what is in the queue for a connection follows the state of its session, a
   subscription stands before the unsubscription, messages stand in the order of their
   numbers, and those subscribed where a message stands are those connected when it came.
3. `SentInv`: the members are what the actions carried out make them; all that was sent stands
   before the message being sent; the connections that message still has to go to are its
   audience without those that have it.

4. The refinement: what a connection still has to get stands in the queue or in the loop that
   sends, in the order of the numbers, so each send is the delivery of the first message due.

`DemoServerProofs` (`DemoServes`: `DemoIsService`): the invariant says that outside the loop
nothing is due, and inside it the last message is, to those in `left`; the members are those
connected.

`SiteManagerProofs` (`PointersStayGood`: `HeldIsGood`): map and heap are inverse to each other,
and a pointer that is kept is in the map until the site it was asked for is removed.

`ClientRecordProofs`, for any callers, clients, fields, calls and times:

| theorem | states |
|---|---|
| `RecordTypes` | `TypeOK`; a hash that is not there has no time to live |
| `ReadBacksAreFresh` | `ReadBackNotStale` |
| `CacheIsStored` | `CachedIsStored` |
| `CacheHoldsTails` | `CachedIsTail` |
| `HashesAreGivenTime` | `HashesExpire`: a hash has a time to live, or a call that will give it one, or one failed before it did |

A field was written by a call that had begun, and a call that has written all its fields before
a read-back began leaves in each its own number or that of one that wrote later; a hash that one
call alone has written is missing exactly the fields before the one an earlier time-out hit.

`AutoAssignProofs`, for any strategy:

| theorem | states |
|---|---|
| `DrawsRight` | `DrawIsRight`, if `RandMax >= 5 * MaxClasses`: the language guarantees 32767, enough for a list of 6553 names |

A deleted object may still work, so nothing bounds the offers but the list: there are at most five
candidates for each place passed (`OfferInv`). At each place the candidates are exactly the
waiters offered and not rejected before it (`CandidatesInv`), a chain that goes on without
candidates has offered nobody (`NobodyYet`), and whoever was drawn was one of them (`SinceInv`
says where).

`HelperProofs`, for every value of the constants:

| theorem | states |
|---|---|
| `ServersAreSetUp` | `ServesAfterSetup` |
| `EndsWhileServing` | `EndsServing`: a process that has ended with its three ports open ended in a handler, while a server ran |
| `LoopIsNeverStuck` | `LoopGoesOn`: while a peer waits the loop can go on, unless an accept failed or the peer it serves, or the operator, holds it; for any number of peers and pieces |
| `PackagesComeBack` | `PackageComesBack` |
| `PackagesArrive` | `ArrivesAsSent`, for objects with any number of messages and any number of recipients |
| `EncodesAllTexts` | `Base64Correct`, for ASCII texts of any length |
| `PaddingIsStandard` | `DataIsStandard`, the half of `Sha1IsStandard` about the data, for texts of any bytes and any size whose number of bits is an `int` |
| `BlocksAreStandard` | `StepsAreStandard`, for any text: where `unsigned long` has 32 bits every word, every round and every sum of a block is the standard's |
| `HelpersTypesCorrect` | `HelpersTypeOK`, of the composition with its constants left open |
| `HelpersImplementParts` | `HelpersSpec` implements the specification of every part, fairness aside |
| `HelpersHold` | every safety property the run of the helpers checks but `KnownDigests`, the safety half of `StartsOrEnds`, `LoopGoesOn` and `DemoIsService`, of the composition itself; `RandMax` as above |

How far `main` is says what has been done (`SetUpInv`); the client server comes last, on
`main`'s own thread, so while `main` can still fail not all three ports are open, and when they
are what throws is caught in a thread of its own or leaves `main` waiting (`EndsInv`). In
`AcceptInv` a peer waits at most once, and not when it is served or has been, and a handler that
runs has a peer whose link is there. `RelayInv` says at each stage which of object,
text and package are the same thing. That the recipients come back rests on what the fold behind
`Join` returns for every list (`Flattened`, `Joined`: the text is as long as the list just if
each name has one part), an induction over the naturals stated for a set (`InductiveSet`), which
comes from the least element of a well-founded order and needs no operator as a parameter.

The types of the composition (`HelpersInv`) are the invariants of its parts side by side: a step
of one part is a step of it and leaves the others alone. `HashInv` has the words: sets of bit
numbers below the width, which the sums and rotations cut off, and the data and the constants
fit, by a table of the powers of two that `Bits` tests with.

For base64 each character of the loop, and of the case of the switch that ends it, is shown to
have the six bits of the definition as its index, from the bits of the bytes it is made of.

For the padding each byte has its bits in its place of its word, and one above 127 sets every bit
of the places above its own (`PlacedBits`). So a word is the standard's just if the bytes in
front of such a byte, in the word, have all their bits set, which only 255 has (`WordsAgree`);
and the last word, the number of bits, is at the place the standard gives it just if the numbers
of blocks agree (`BlocksAgree`).

For the rounds the sum is argued from its carries. The model's formula, a carry where a lower bit
makes one and every bit between passes it on, is a ripple: a bit gets a carry just if two of the
three of the column below are set (`CarriesRipple`). Numbers defined by that recursion are
unique, so the carries of the addition column by column are these (`CarriesAreColumns`), and the
two sums are one (`PlusAdds`). That sum is the one of numbers modulo 2 to the width
(`SumsAreModular`, for any function that gives words their values). In 32 bits the two shifts
are a rotation (`ShiftsRotate`), and the functions of the rounds are the standard's bit by bit.
`PaddingIsStandard` and `BlocksAreStandard` together say of `get_sha1` there: it departs from the
standard in the data of long ends and of bytes above 127 alone.

Only model-checked:

* liveness: `CloseForgets`, `DispatchEnds`, `StayersGetIt`, `DisconnectForgets`,
  `HandledOrTerminated`, `CacheForgets`, the first half of `StartsOrEnds`,
  `AcceptedUnlessBlocked`, `RequestsReachOperator`. They hold under fairness, which is
  out of the prover's reach. What they need besides fairness is proved for some of them:
  `FreeIsForgotten` (what is over leaves nothing a lookup returns), `StayersAreSent` (all that is
  to be written is queued), `NoDeadlock` and `LoopGoesOn` (something can go on), `HashesExpire`
  (a clock runs, or never will). TLC found these, `SessionsAgree` and `StepsAreStandard` true on the instances above too;
  that what "can go on" means there is that the actions are enabled, TLC compared as well.
* `RedisCovers` and `OnlineIsReachable`, which hold only under what the code does not ensure (no
  account on two servers; no lookup inside another thread's handler): what holds without that is
  proved, `OnlyOthersUncover` and `OnlineIsMapped`.
* `KnownDigests`, the other half of `Sha1IsStandard`: what 80 rounds make of the four texts is
  computed, not argued. That 64 bits give other digests is known of those texts only.

## 5. Not modelled, and the plan

Next: `remove_connection(client_id)` in `ConnectionManager`, if it is taken into use: its call
(`websocket.cpp:90-92`) is commented out, so no state of the program comes from it.

Not modelled, with the reason:

* data races inside the maps (a lookup by another thread in the middle of an insertion): what
  the build does then is any damage; the model has the lookup between the calls.
* values of a client record (two counts nobody assigns): no property tells them apart.
* `gen_uuid`, which prints memory nobody has set; the two functions on people, a sample in the
  form of the package functions; `process_message` and `set_package`, samples that are printed.
* statements nobody runs: `get_connection_managers`, deletes by site and by client,
  `db_client::get_client`; the empty `cache_local`.
* logging, the tests of libraries, the SQL dump (which has no table `connection_manager`), the
  wire formats of MySQL, Redis and websocket.
