------------------------------- MODULE Routing -------------------------------
(***************************************************************************)
(* The websocket servers on top of their connection managers: a dispatched *)
(* message is sent by the dispatcher's thread to connections that belong   *)
(* to another server, and a disconnect message makes the thread that read  *)
(* it close connections of the client server.  Both look the handles up    *)
(* first and use them one by one, while the threads that own the           *)
(* connections go on.                                                      *)
(*                                                                         *)
(* From the library: send and close throw unless the handle is that of a   *)
(* connection whose session is open.  Send only puts a copy in the queue   *)
(* of the connection: the io loop of the connection's own server writes    *)
(* it.  An exception ends the run loop of the thread it is thrown on; what *)
(* is queued for the connections of that server is never written.          *)
(***************************************************************************)
EXTENDS ConnectionManager, Sequences, Naturals, FiniteSets

CONSTANTS
  ClientServer,   \* the server whose connections a disconnect message closes
  Dispatcher,     \* the server that dispatch packages are sent to
  Dispatches,     \* dispatch packages: the recipients' server and accounts
  Disconnected    \* accounts that disconnect messages name

ASSUME RoutingAssumption ==
  /\ ClientServer \in Server /\ Dispatcher \in Server /\ ClientServer # Dispatcher
  /\ Dispatches \subseteq [side : Server, to : Seq(Account)]
  /\ Disconnected \subseteq Account

VARIABLES
  session,   \* "new", "open", "closing" or "closed", for each connection
  dispatch,  \* the dispatch package the dispatcher has read last
  next,      \* the recipient to be looked up next
  hdls,      \* handles of the last one looked up, still to be sent to
  sent,      \* copies given to send for a connection, in this dispatch (history)
  written,   \* how many of them its server's loop has written (history)
  since,     \* recipients open ever since the dispatch began (history)
  closing,   \* handles the disconnect message of a thread has still to close
  marked     \* the connections that message was about (history)

sending == <<dispatch, next, hdls, sent>>
jobs    == <<sending, written, since, closing, marked>>
allVars == <<vars, session, jobs>>

NoDispatch == [side |-> ClientServer, to |-> <<>>]

RoutingTypeOK ==
  /\ session \in [Conn -> {"new", "open", "closing", "closed"}]
  /\ dispatch \in Dispatches \cup {NoDispatch}
  /\ next \in 1 .. Len(dispatch.to) + 1
  /\ hdls \in SUBSET (Conn \cup {NoHdl})
  /\ sent \in [Conn -> 0 .. Len(dispatch.to)]
  /\ written \in [Conn -> 0 .. Len(dispatch.to)] /\ \A c \in Conn : written[c] <= sent[c]
  /\ since \in SUBSET Conn
  /\ closing \in [Server -> SUBSET (Conn \cup {NoHdl})]
  /\ marked \in [Server -> SUBSET Conn]

NoJobs(newDispatch, newNext, newHdls, newSent, newWritten, newSince, newClosing, newMarked) ==
  /\ newDispatch = NoDispatch /\ newNext = 1 /\ newHdls = {}
  /\ newSent = [c \in Conn |-> 0] /\ newWritten = [c \in Conn |-> 0] /\ newSince = {}
  /\ newClosing = [s \in Server |-> {}] /\ newMarked = [s \in Server |-> {}]

RoutingInit ==
  /\ Init
  /\ session = [c \in Conn |-> "new"]
  /\ NoJobs(dispatch, next, hdls, sent, written, since, closing, marked)

Dispatching == next <= Len(dispatch.to) \/ hdls # {}

\* The thread of server s is in no loop over handles.
Free(s) == closing[s] = {} /\ (s = Dispatcher => ~Dispatching)

-----------------------------------------------------------------------------
(* The handlers of the managers, on a thread that is free *)

Accept(s) ==
  /\ Free(s)
  /\ \E c \in Conn, a \in Addr :
       /\ Open(s, c, a)
       /\ session' = [session EXCEPT ![c] = "open"]
  /\ UNCHANGED jobs

\* Messages are read while the session is open.
Connect(s) ==
  /\ Free(s)
  /\ \E a \in Addr, k \in Account : Announce(s, a, k) /\ session[heap[a]] = "open"
  /\ UNCHANGED <<session, jobs>>

\* A peer closes, or its connection breaks.
PeerCloses(s) ==
  /\ Ready(s) /\ Free(s)
  /\ \E c \in Conn :
       /\ ServerOf[c] = s /\ session[c] = "open"
       /\ session' = [session EXCEPT ![c] = "closing"]
       /\ since' = since \ {c}
  /\ UNCHANGED <<vars, sending, written, closing, marked>>

\* The closing handshake is over, or has timed out.
Ended(s) ==
  /\ Free(s)
  /\ \E a \in Addr :
       /\ Close(s, a) /\ session[heap[a]] = "closing"
       /\ session' = [session EXCEPT ![heap[a]] = "closed"]
  /\ UNCHANGED jobs

Proceed(s) == HandlerStep(s) /\ UNCHANGED <<session, jobs>>

Fail(s) == Free(s) /\ Throw(s) /\ UNCHANGED <<session, jobs>>

Die ==
  /\ Crash
  /\ session' = [c \in Conn |-> IF c \in used THEN "closed" ELSE "new"]
  /\ NoJobs(dispatch', next', hdls', sent', written', since', closing', marked')

Start == Reset /\ UNCHANGED <<session, jobs>>

-----------------------------------------------------------------------------
(* Lookups and the library *)

\* A peer of server s has sent a message.
MessageFrom(s) ==
  /\ Ready(s) /\ Free(s)
  /\ \E a \in Addr : Held(s, a) /\ session[heap[a]] = "open"

Usable(h) == h \in Conn /\ session[h] = "open"

\* (mutants: handles that cannot be sent to are skipped; the entries are read
\* before the subscript fills them)
FoundOfOpen(s, k) == {h \in {conns'[s][a] : a \in clientConns[s][k]} : Usable(h)}
FoundBefore(s, k) == {conns[s][a] : a \in clientConns[s][k]}

\* What get_connections returns.
Found(s, k) == {conns'[s][a] : a \in clientConns[s][k]}

Lookup(s, k) ==
  IF clientConns[s][k] = {} THEN UNCHANGED vars ELSE GetConnections(s, k)

\* Connections of server s that have announced account k and can be sent to.
Online(s, k) == {c \in Conn : ServerOf[c] = s /\ k \in names[c] /\ session[c] = "open"}

\* An exception ends the loop of server s; what it had still to do is left.
Abandon(s) ==
  /\ loop' = [loop EXCEPT ![s] = FALSE]
  /\ UNCHANGED <<proc, todo, peers, maps, thread, stores, session, jobs>>

-----------------------------------------------------------------------------
(* on_message of the dispatcher, and send_message of the recipients' server *)

Dispatch(d) ==
  /\ MessageFrom(Dispatcher)
  /\ dispatch' = d /\ next' = 1
  /\ sent' = [c \in Conn |-> 0] /\ written' = [c \in Conn |-> 0]
  /\ since' = UNION {Online(d.side, d.to[i]) : i \in 1 .. Len(d.to)}
  /\ UNCHANGED <<vars, session, hdls, closing, marked>>

LookupRecipient ==
  /\ proc = "up" /\ loop[Dispatcher]
  /\ hdls = {} /\ next <= Len(dispatch.to)
  /\ Lookup(dispatch.side, dispatch.to[next])
  /\ hdls' = Found(dispatch.side, dispatch.to[next])
  /\ next' = next + 1
  /\ UNCHANGED <<session, dispatch, sent, written, since, closing, marked>>

\* (mutant: a connection that has been sent the message is not sent it again)
SendOnce ==
  /\ proc = "up" /\ loop[Dispatcher]
  /\ \E h \in hdls :
       /\ Usable(h)
       /\ sent' = [sent EXCEPT ![h] = 1]
       /\ hdls' = hdls \ {h}
  /\ UNCHANGED <<vars, session, dispatch, next, written, since, closing, marked>>

Send ==
  /\ proc = "up" /\ loop[Dispatcher]
  /\ \E h \in hdls :
       /\ Usable(h)
       /\ sent' = [sent EXCEPT ![h] = @ + 1]
       /\ hdls' = hdls \ {h}
  /\ UNCHANGED <<vars, session, dispatch, next, written, since, closing, marked>>

\* (mutant: it is caught and the send tried again)
SendAgain ==
  /\ proc = "up" /\ loop[Dispatcher]
  /\ \E h \in hdls : ~Usable(h)
  /\ UNCHANGED allVars

SendThrows ==
  /\ proc = "up" /\ loop[Dispatcher]
  /\ \E h \in hdls : ~Usable(h)
  /\ Abandon(Dispatcher)

\* The loop of server s, between two handlers, writes the next copy that is queued
\* for one of its connections; a connection that is closing writes what was queued.
Write(s) ==
  /\ Ready(s) /\ Free(s)
  /\ \E c \in Conn :
       /\ ServerOf[c] = s /\ session[c] \in {"open", "closing"}
       /\ written[c] < sent[c]
       /\ written' = [written EXCEPT ![c] = @ + 1]
  /\ UNCHANGED <<vars, session, sending, since, closing, marked>>

-----------------------------------------------------------------------------
(* A disconnect message, read by the thread of server s: disconnect_client *)

Disconnect(s, k) ==
  /\ s # Dispatcher /\ MessageFrom(s)
  /\ Lookup(ClientServer, k)
  /\ closing' = [closing EXCEPT ![s] = Found(ClientServer, k)]
  /\ marked' = [marked EXCEPT ![s] = Online(ClientServer, k)]
  /\ UNCHANGED <<session, sending, written, since>>

\* (mutant: only one handle is closed)
CloseOne(s) ==
  /\ proc = "up" /\ loop[s]
  /\ \E h \in closing[s] :
       /\ Usable(h)
       /\ session' = [session EXCEPT ![h] = "closing"]
       /\ since' = since \ {h}
       /\ closing' = [closing EXCEPT ![s] = {}]
  /\ UNCHANGED <<vars, sending, written, marked>>

CloseNext(s) ==
  /\ proc = "up" /\ loop[s]
  /\ \E h \in closing[s] :
       /\ Usable(h)
       /\ session' = [session EXCEPT ![h] = "closing"]
       /\ since' = since \ {h}
       /\ closing' = [closing EXCEPT ![s] = @ \ {h}]
  /\ UNCHANGED <<vars, sending, written, marked>>

\* (mutant: it is caught and the close tried again)
CloseAgain(s) ==
  /\ proc = "up" /\ loop[s]
  /\ \E h \in closing[s] : ~Usable(h)
  /\ UNCHANGED allVars

CloseThrows(s) ==
  /\ proc = "up" /\ loop[s]
  /\ \E h \in closing[s] : ~Usable(h)
  /\ Abandon(s)

-----------------------------------------------------------------------------
JobStep(s) ==
  \/ s = Dispatcher /\ (LookupRecipient \/ Send \/ SendThrows)
  \/ CloseNext(s) \/ CloseThrows(s)

RoutingNext ==
  \/ \E s \in Server :
       \/ Accept(s) \/ Connect(s) \/ PeerCloses(s) \/ Ended(s)
       \/ Proceed(s) \/ Fail(s) \/ Write(s)
       \/ JobStep(s)
       \/ \E k \in Disconnected : Disconnect(s, k)
  \/ \E d \in Dispatches : Dispatch(d)
  \/ Die \/ Start

RoutingSpec == RoutingInit /\ [][RoutingNext]_allVars

\* A thread goes on with the handler it is in; the library writes what is queued and
\* ends every closing handshake, by a timer if the peer does not, and gets to it
\* although other events come in between.
RoutingFairSpec ==
  /\ RoutingSpec
  /\ \A s \in Server : /\ WF_allVars(Proceed(s)) /\ WF_allVars(JobStep(s))
                       /\ SF_allVars(Ended(s)) /\ WF_allVars(Write(s))
  /\ WF_allVars(Start)

-----------------------------------------------------------------------------
(* Properties; each peer announces one account (Rename = FALSE) *)

\* How often the dispatched message is addressed to a connection.
Copies(c) ==
  IF ServerOf[c] # dispatch.side THEN 0
  ELSE Cardinality({i \in 1 .. Len(dispatch.to) : dispatch.to[i] \in names[c]})

\* A message is sent only to connections of the right server that announced an
\* account it is addressed to, and not more often than it is addressed to them,
\* although the handles are used after the lookup and addresses are reused.
SentAsAddressed == \A c \in Conn : sent[c] <= Copies(c)

\* When the dispatcher has gone through all recipients, each of those that have been
\* online all the time has its copies in its queue or has them written, and no
\* lookup has missed one.  (Queued is not yet written: see StayersGetIt.)
StayersAreSent ==
  (loop[Dispatcher] /\ ~Dispatching) => \A c \in since : sent[c] = Copies(c)

\* Then their servers write them, all of them, unless a connection begins to close
\* first or the loop of its server ends: send succeeds on a connection of a stopped
\* server, and nobody ever writes what it queued (websocket.cpp:80, 38-47).  When the
\* next dispatch begins the count begins anew.
StayersGetIt ==
  (loop[Dispatcher] /\ ~Dispatching) ~>
    \/ Dispatching
    \/ \A c \in since : written[c] = Copies(c) \/ ~loop[ServerOf[c]]

\* "if to client_to_waiter, to all online waiters": when the dispatcher works on
\* a message no more, every recipient that stayed online has been sent it.
OnlineGetIt ==
  ~(loop[Dispatcher] /\ Dispatching) => \A c \in since : sent[c] = Copies(c)

\* When a disconnect message has been carried out none of the connections it was
\* about is open any more.
DisconnectCloses ==
  \A s \in Server : (loop[s] /\ closing[s] = {}) =>
    \A c \in marked[s] : session[c] # "open"

\* The connections the managers have and are not closing are those whose session
\* the library has not ended, whoever closes whom (websocket.cpp:54-88).
SessionsAgree == OpenConns = {c \in Conn : session[c] \in {"open", "closing"}}

\* A dispatch comes to an end, or takes the dispatcher down.
DispatchEnds == Dispatching ~> (~Dispatching \/ ~loop[Dispatcher])

\* A connection that is disconnected is forgotten, unless its server has stopped.
DisconnectForgets ==
  \A c \in Conn : session[c] = "closing" ~>
    \/ ~loop[ServerOf[c]]
    \/ \A a \in Addr : heap[a] # c

=============================================================================
