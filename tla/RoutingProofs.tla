---------------------------- MODULE RoutingProofs ----------------------------
(***************************************************************************)
(* Theorems about Routing, for every number of servers, of connections, of *)
(* addresses, of accounts and of recipients.                               *)
(***************************************************************************)
EXTENDS Routing, ConnectionManagerProofs, FiniteSetTheorems

-----------------------------------------------------------------------------
(* Definitions of the inductive invariant *)

\* A connection is new until it is opened, and lives at an address, with no
\* close handler there, as long as its session is open.
SessionInv ==
  /\ session \in [Conn -> {"new", "open", "closing", "closed"}]
  /\ \A c \in Conn : session[c] = "new" <=> c \notin used
  /\ \A c \in Conn : session[c] = "open" =>
       \E a \in Addr : heap[a] = c /\ ~ClosingAt(ServerOf[c], a)

\* The loops over handles, without what they have done.
JobTypes ==
  /\ dispatch \in Dispatches \cup {NoDispatch}
  /\ next \in 1 .. Len(dispatch.to) + 1
  /\ hdls \subseteq Conn \cup {NoHdl}
  /\ sent \in [Conn -> Nat]
  /\ written \in [Conn -> Nat] /\ \A c \in Conn : written[c] <= sent[c]
  /\ since \subseteq Conn
  /\ closing \in [Server -> SUBSET (Conn \cup {NoHdl})]
  /\ marked \in [Server -> SUBSET Conn]

\* How many of the first n accounts of a list are among the names.
Among(to, n, accounts) == Cardinality({i \in 1 .. n : to[i] \in accounts})

\* What the recipients looked up so far address to a connection.
Share(c) == Among(dispatch.to, next - 1, names[c])

\* The copy that is still to be sent for the recipient looked up last.
Pending(c) == IF c \in hdls THEN 1 ELSE 0

\* A connection has been sent, and has still to be sent, at most what the
\* recipients looked up so far address to it.
SentInv ==
  \A c \in Conn :
    /\ ServerOf[c] # dispatch.side => sent[c] = 0 /\ c \notin hdls
    /\ sent[c] + Pending(c) <= Share(c)

\* One that stays open exactly that, unless the loop has met an empty handle,
\* and then it does not end.
StayInv ==
  loop[Dispatcher] =>
    \A c \in since :
      /\ session[c] = "open" /\ names[c] # {} /\ ServerOf[c] = dispatch.side
      /\ NoHdl \in hdls \/ sent[c] + Pending(c) = Share(c)

\* What a disconnect message is about is open only while its handle, or an empty
\* one, has still to be closed.
MarkInv ==
  \A s \in Server : \A c \in marked[s] :
    /\ session[c] # "new"
    /\ loop[s] /\ session[c] = "open" => c \in closing[s] \/ NoHdl \in closing[s]

RoutingInv == /\ MappedInv /\ SessionInv /\ JobTypes
              /\ SentInv /\ StayInv /\ MarkInv

-----------------------------------------------------------------------------
(* Counting recipients *)

LEMMA AmongType ==
  ASSUME NEW to, NEW n \in Nat, NEW A
  PROVE  /\ IsFiniteSet({i \in 1 .. n : to[i] \in A})
         /\ Among(to, n, A) \in 0 .. n
<1> DEFINE S == {i \in 1 .. n : to[i] \in A}
<1>1. IsFiniteSet(1 .. n) /\ Cardinality(1 .. n) = n
  BY FS_Interval
<1>2. IsFiniteSet(S) /\ Cardinality(S) <= n
  BY <1>1, FS_Subset
<1>3. Cardinality(S) \in Nat
  BY <1>2, FS_CardinalityType
<1> QED BY <1>2, <1>3 DEF Among

LEMMA AmongNone ==
  ASSUME NEW to, NEW A
  PROVE  Among(to, 0, A) = 0
<1>1. Among(to, 0, A) \in 0 .. 0
  BY AmongType, Zenon
<1> QED BY <1>1

\* One more of the list.
LEMMA AmongNext ==
  ASSUME NEW to, NEW n \in Nat, NEW A
  PROVE  Among(to, n + 1, A) = Among(to, n, A) + (IF to[n + 1] \in A THEN 1 ELSE 0)
<1> DEFINE S == {i \in 1 .. n : to[i] \in A}
           T == {i \in 1 .. n + 1 : to[i] \in A}
<1>1. IsFiniteSet(S) /\ n + 1 \notin S
  BY AmongType
<1>2. CASE to[n + 1] \in A
  <2>1. T = S \cup {n + 1}
    BY <1>2
  <2>2. Cardinality(S \cup {n + 1}) = Cardinality(S) + 1
    BY <1>1, FS_AddElement
  <2> QED BY <1>2, <2>1, <2>2 DEF Among
<1>3. CASE to[n + 1] \notin A
  <2>1. T = S
    BY <1>3
  <2>2. Among(to, n, A) \in 0 .. n
    BY AmongType, Zenon
  <2>3. Among(to, n + 1, A) = Among(to, n, A)
    BY <2>1 DEF Among
  <2> QED BY <1>3, <2>2, <2>3
<1> QED BY <1>2, <1>3

\* More names, or more of the list, are not fewer.
LEMMA AmongMonotonic ==
  ASSUME NEW to, NEW m \in Nat, NEW n \in Nat, m <= n, NEW A, NEW B, A \subseteq B
  PROVE  Among(to, m, A) <= Among(to, n, B)
<1> DEFINE S == {i \in 1 .. m : to[i] \in A}
           T == {i \in 1 .. n : to[i] \in B}
<1>1. S \subseteq T /\ IsFiniteSet(T)
  BY AmongType
<1> QED BY <1>1, FS_Subset DEF Among
-----------------------------------------------------------------------------
(* The managers under the loops over handles *)

\* An exception in a loop over handles ends the run loop, and nothing else.
EndsLoop(s) ==
  /\ loop' = [loop EXCEPT ![s] = FALSE]
  /\ UNCHANGED <<proc, todo, peers, maps, thread, stores>>

LEMMA RecipientKnown ==
  ASSUME JobTypes
  PROVE  /\ dispatch.side \in Server /\ dispatch.to \in Seq(Account)
         /\ Len(dispatch.to) \in Nat /\ next \in Nat \ {0}
         /\ next <= Len(dispatch.to) => dispatch.to[next] \in Account
<1>1. dispatch \in [side : Server, to : Seq(Account)]
  <2>1. CASE dispatch \in Dispatches
    BY <2>1, RoutingAssumption
  <2>2. CASE dispatch = [side |-> ClientServer, to |-> <<>>]
    <3>1. <<>> \in Seq(Account)
      OBVIOUS
    <3> QED BY <2>2, <3>1, RoutingAssumption
  <2> QED BY <2>1, <2>2 DEF JobTypes, NoDispatch
<1>2. dispatch.side \in Server /\ dispatch.to \in Seq(Account)
  BY <1>1
<1>3. Len(dispatch.to) \in Nat /\ next \in Nat \ {0}
  BY <1>2 DEF JobTypes
<1> QED BY <1>2, <1>3

\* A lookup is a step of the managers, or finds nothing to look at.
LEMMA LookupIsStep ==
  ASSUME NEW s \in Server, NEW k \in Account, Lookup(s, k)
  PROVE  [Next]_vars
BY DEF Lookup, Next

\* The steps of the routing leave the managers alone, or are theirs, or end a loop.
LEMMA ManagersGoOn ==
  ASSUME JobTypes, [RoutingNext]_allVars
  PROVE  [Next]_vars \/ \E s \in Server : EndsLoop(s)
<1>1. ASSUME NEW s \in Server,
             Accept(s) \/ Connect(s) \/ PeerCloses(s) \/ Ended(s) \/ Proceed(s) \/ Fail(s)
      PROVE  [Next]_vars
  BY <1>1 DEF Accept, Connect, PeerCloses, Ended, Proceed, Fail, Next, Event
<1>2. ASSUME NEW s \in Server, JobStep(s)
      PROVE  [Next]_vars \/ EndsLoop(s)
  <2>1. CASE s = Dispatcher /\ LookupRecipient
    BY <2>1, RecipientKnown, LookupIsStep DEF LookupRecipient
  <2>2. CASE Send \/ CloseNext(s)
    BY <2>2 DEF Send, CloseNext
  <2>3. CASE (s = Dispatcher /\ SendThrows) \/ CloseThrows(s)
    BY <2>3 DEF SendThrows, CloseThrows, Abandon, EndsLoop
  <2> QED BY <1>2, <2>1, <2>2, <2>3 DEF JobStep
<1>3. ASSUME NEW s \in Server, NEW k \in Disconnected, Disconnect(s, k)
      PROVE  [Next]_vars
  BY <1>3, RoutingAssumption, LookupIsStep DEF Disconnect
<1>4. ASSUME NEW d \in Dispatches, Dispatch(d) PROVE [Next]_vars
  BY <1>4 DEF Dispatch
<1>5. CASE Die \/ Start
  BY <1>5 DEF Die, Start, Next
<1>6. CASE UNCHANGED allVars \/ \E s \in Server : Write(s)
  BY <1>6 DEF allVars, Write
<1> QED BY <1>1, <1>2, <1>3, <1>4, <1>5, <1>6 DEF RoutingNext

LEMMA MappedKept ==
  ASSUME MappedInv, JobTypes, Rename = FALSE, [RoutingNext]_allVars
  PROVE  MappedInv'
<1>1. CASE [Next]_vars
  BY <1>1, MappedStep
<1>2. ASSUME NEW s \in Server, EndsLoop(s) PROVE MappedInv'
  <2>1. /\ UNCHANGED <<proc, todo, heap, used, names, conns, clientConns, pc, at, who, table, redis>>
        /\ loop' = [loop EXCEPT ![s] = FALSE]
    BY <1>2 DEF EndsLoop, peers, maps, thread, stores
  <2>2. HandleInv'
    BY <2>1 DEF MappedInv, OwnInv, RowInv, HandleInv, TypeOK, ThreadOK, HandlerHolds,
       HandleIsCurrent, Held
  <2>3. RowsAgree' /\ HandlerRows' /\ RowIsMapped' /\ DownIsEmpty'
    BY <2>1 DEF MappedInv, OwnInv, RowInv, RowsAgree, HandlerRows, RowIsMapped, DownIsEmpty
  <2>4. MappedIsOwned' /\ EntryHasRow' /\ ConnHasRow' /\ Unmapped' /\ OneAddress'
    BY <2>1 DEF MappedInv, OwnInv, MappedIsOwned, EntryHasRow, ConnHasRow, Unmapped,
       OneAddress, Held
  <2>5. HandlesThere' /\ AnnouncedIsMapped'
    BY <2>1 DEF MappedInv, HandlesThere, AnnouncedIsMapped, Held, ClosingAt
  <2> QED BY <2>2, <2>3, <2>4, <2>5 DEF MappedInv, OwnInv, RowInv
<1> QED BY <1>1, <1>2, ManagersGoOn

-----------------------------------------------------------------------------
(* What a lookup finds *)

\* The handles found, whether or not there was anything to look at.
LEMMA LookupEntry ==
  ASSUME TypeOK, NEW s \in Server, NEW k \in Account, Lookup(s, k),
         NEW a \in clientConns[s][k]
  PROVE  /\ a \in Addr
         /\ conns'[s][a] = IF conns[s][a] = Absent THEN NoHdl ELSE conns[s][a]
<1>1. /\ conns \in [Server -> [Addr -> Conn \cup {Absent, NoHdl}]]
      /\ clientConns \in [Server -> [Account -> SUBSET Addr]]
  BY DEF TypeOK
<1>2. a \in Addr
  BY <1>1
<1>3. conns' = [conns EXCEPT ![s] =
        [b \in Addr |-> IF b \in clientConns[s][k] /\ @[b] = Absent THEN NoHdl ELSE @[b]]]
  BY DEF Lookup, GetConnections
<1>4. conns'[s] =
        [b \in Addr |-> IF b \in clientConns[s][k] /\ conns[s][b] = Absent
                        THEN NoHdl ELSE conns[s][b]]
  BY <1>1, <1>3
<1> QED BY <1>2, <1>4

LEMMA FoundType ==
  ASSUME TypeOK, NEW s \in Server, NEW k \in Account, Lookup(s, k)
  PROVE  Found(s, k) \subseteq Conn \cup {NoHdl}
<1> SUFFICES ASSUME NEW a \in clientConns[s][k] PROVE conns'[s][a] \in Conn \cup {NoHdl}
  BY DEF Found
<1>1. a \in Addr /\ conns'[s][a] = IF conns[s][a] = Absent THEN NoHdl ELSE conns[s][a]
  BY LookupEntry
<1>2. conns[s][a] \in Conn \cup {Absent, NoHdl}
  BY <1>1 DEF TypeOK
<1> QED BY <1>1, <1>2

\* A lookup finds connections of that server that announced that account, and
\* nothing else but empty handles.
LEMMA FoundIsOwned ==
  ASSUME MappedInv, NEW s \in Server, NEW k \in Account, Lookup(s, k)
  PROVE  \A h \in Found(s, k) :
           \/ h = NoHdl
           \/ h \in Conn /\ ServerOf[h] = s /\ names[h] = {k}
<1> SUFFICES ASSUME NEW a \in clientConns[s][k]
             PROVE  LET h == conns'[s][a]
                    IN  \/ h = NoHdl
                        \/ h \in Conn /\ ServerOf[h] = s /\ names[h] = {k}
  BY DEF Found
<1>0. TypeOK
  BY DEF MappedInv, OwnInv, RowInv, HandleInv
<1>1. /\ conns \in [Server -> [Addr -> Conn \cup {Absent, NoHdl}]]
      /\ HandleIsCurrent /\ MappedIsOwned
  BY DEF MappedInv, OwnInv, RowInv, HandleInv, TypeOK
<1>2. a \in Addr /\ conns'[s][a] = IF conns[s][a] = Absent THEN NoHdl ELSE conns[s][a]
  BY <1>0, LookupEntry
<1>3. conns[s][a] \in Conn => /\ heap[a] = conns[s][a] /\ ServerOf[heap[a]] = s
                              /\ names[heap[a]] = {k}
  BY <1>1, <1>2 DEF HandleIsCurrent, MappedIsOwned
<1>4. conns[s][a] \in Conn \cup {Absent, NoHdl}
  BY <1>1, <1>2
<1> QED BY <1>2, <1>3, <1>4

\* It finds every connection that is online, unless it finds an empty handle.
LEMMA FoundIsAll ==
  ASSUME MappedInv, SessionInv, NEW s \in Server, NEW k \in Account, Lookup(s, k),
         NEW c \in Online(s, k)
  PROVE  c \in Found(s, k) \/ NoHdl \in Found(s, k)
<1>1. c \in Conn /\ ServerOf[c] = s /\ k \in names[c] /\ session[c] = "open"
  BY DEF Online
<1>2. PICK a \in Addr : heap[a] = c /\ ~ClosingAt(s, a)
  BY <1>1 DEF SessionInv
<1>3. Held(s, a)
  BY <1>1, <1>2 DEF Held
<1>4. a \in clientConns[s][k]
  BY <1>1, <1>2, <1>3 DEF MappedInv, AnnouncedIsMapped
<1>5. conns[s][a] \in {c, NoHdl}
  BY <1>2, <1>3 DEF MappedInv, HandlesThere
<1>6. conns'[s][a] \in {c, NoHdl}
  <2>1. TypeOK
    BY DEF MappedInv, OwnInv, RowInv, HandleInv
  <2> QED BY <1>1, <1>4, <1>5, <2>1, LookupEntry, ManagerAssumption
<1> QED BY <1>4, <1>6 DEF Found

\* A lookup changes m_connections and nothing else.
LEMMA LookupFrame ==
  ASSUME NEW s \in Server, NEW k \in Account, Lookup(s, k)
  PROVE  UNCHANGED <<process, peers, clientConns, thread, stores>>
BY DEF Lookup, GetConnections, vars, maps

-----------------------------------------------------------------------------
(* Sessions *)

\* Nothing that the sessions depend on has changed.
LEMMA SessionFrame ==
  ASSUME SessionInv, UNCHANGED <<session, heap, used, pc, at>>
  PROVE  SessionInv'
BY DEF SessionInv, ClosingAt

\* An open session begins to close.
LEMMA SessionCloses ==
  ASSUME SessionInv, NEW c \in Conn, session[c] = "open",
         session' = [session EXCEPT ![c] = "closing"], UNCHANGED <<heap, used, pc, at>>
  PROVE  SessionInv'
<1>1. session \in [Conn -> {"new", "open", "closing", "closed"}]
  BY DEF SessionInv
<1>2. \A d \in Conn : session'[d] = IF d = c THEN "closing" ELSE session[d]
  BY <1>1
<1>3. session' \in [Conn -> {"new", "open", "closing", "closed"}]
  BY <1>1
<1>4. \A d \in Conn : session'[d] = "new" <=> d \notin used'
  BY <1>2 DEF SessionInv
<1>5. \A d \in Conn : session'[d] = "open" =>
        \E a \in Addr : heap'[a] = d /\ ~ClosingAt(ServerOf[d], a)'
  BY <1>2 DEF SessionInv, ClosingAt
<1> QED BY <1>3, <1>4, <1>5 DEF SessionInv

LEMMA SessionNext ==
  ASSUME MappedInv, SessionInv, JobTypes, [RoutingNext]_allVars
  PROVE  SessionInv'
<1> USE ManagerAssumption DEF process, peers, thread
<1>0. /\ heap \in [Addr -> Conn \cup {NoConn}] /\ HandleInv
      /\ pc \in [Server -> Steps] /\ at \in [Server -> Addr \cup {NoAddr}]
      /\ session \in [Conn -> {"new", "open", "closing", "closed"}]
  BY DEF MappedInv, OwnInv, RowInv, HandleInv, TypeOK, SessionInv
<1>1. ASSUME NEW s \in Server, Accept(s) PROVE SessionInv'
  <2>1. PICK c \in Conn, a \in Addr :
          Open(s, c, a) /\ session' = [session EXCEPT ![c] = "open"]
    BY <1>1 DEF Accept
  <2>2. /\ ServerOf[c] = s /\ heap[a] = NoConn /\ used' = used \cup {c} /\ pc[s] = "idle"
        /\ heap' = [heap EXCEPT ![a] = c]
        /\ pc' = [pc EXCEPT ![s] = "insert"] /\ at' = [at EXCEPT ![s] = a]
    BY <2>1 DEF Open, Ready, Call
  <2>3. \A t \in Server, b \in Addr : ClosingAt(t, b)' => ClosingAt(t, b)
    BY <1>0, <2>2 DEF ClosingAt, CloseSteps
  <2>4. ~ClosingAt(s, a)'
    BY <1>0, <2>2 DEF ClosingAt, CloseSteps
  <2>5. \A d \in Conn : session'[d] = IF d = c THEN "open" ELSE session[d]
    BY <1>0, <2>1
  <2>6. \A b \in Addr : heap'[b] = IF b = a THEN c ELSE heap[b]
    BY <1>0, <2>2
  <2>7. session' \in [Conn -> {"new", "open", "closing", "closed"}]
    BY <1>0, <2>1
  <2>8. \A d \in Conn : session'[d] = "new" <=> d \notin used'
    BY <2>2, <2>5 DEF SessionInv
  <2>9. ASSUME NEW d \in Conn, session'[d] = "open"
        PROVE  \E b \in Addr : heap'[b] = d /\ ~ClosingAt(ServerOf[d], b)'
    <3>1. CASE d = c
      BY <2>2, <2>4, <2>6, <3>1
    <3>2. CASE d # c
      <4>1. PICK b \in Addr : heap[b] = d /\ ~ClosingAt(ServerOf[d], b)
        BY <2>5, <2>9, <3>2 DEF SessionInv
      <4>2. b # a /\ ServerOf[d] \in Server
        BY <2>2, <4>1
      <4> QED BY <2>3, <2>6, <4>1, <4>2
    <3> QED BY <3>1, <3>2
  <2> QED BY <2>7, <2>8, <2>9 DEF SessionInv
<1>2. ASSUME NEW s \in Server, Connect(s) PROVE SessionInv'
  <2>1. PICK a \in Addr, k \in Account : Announce(s, a, k)
    BY <1>2 DEF Connect
  <2>2. pc[s] = "idle" /\ UNCHANGED <<heap, used, session>>
    BY <1>2, <2>1 DEF Announce, Ready, Connect
  <2>3. UNCHANGED <<pc, at>> \/ Call(s, "update", a, k)
    BY <2>1 DEF Announce
  <2>4. \A t \in Server, b \in Addr : ClosingAt(t, b)' => ClosingAt(t, b)
    BY <1>0, <2>2, <2>3 DEF ClosingAt, CloseSteps, Call
  <2> QED BY <2>2, <2>4 DEF SessionInv
<1>3. ASSUME NEW s \in Server, PeerCloses(s) PROVE SessionInv'
  BY <1>3, SessionCloses DEF PeerCloses, vars
<1>4. ASSUME NEW s \in Server, Ended(s) PROVE SessionInv'
  <2>1. PICK a \in Addr : /\ Close(s, a) /\ session[heap[a]] = "closing"
                          /\ session' = [session EXCEPT ![heap[a]] = "closed"]
    BY <1>4 DEF Ended
  <2>2. /\ heap[a] \in Conn /\ ServerOf[heap[a]] = s /\ UNCHANGED <<heap, used>>
        /\ pc' = [pc EXCEPT ![s] = "lookup"] /\ at' = [at EXCEPT ![s] = a]
    BY <2>1 DEF Close, Held, Call
  <2>3. \A t \in Server, b \in Addr : ClosingAt(t, b)' => ClosingAt(t, b) \/ b = a
    BY <1>0, <2>2 DEF ClosingAt
  <2>4. \A d \in Conn : session'[d] = IF d = heap[a] THEN "closed" ELSE session[d]
    BY <1>0, <2>1, <2>2
  <2>5. session' \in [Conn -> {"new", "open", "closing", "closed"}]
    BY <1>0, <2>1
  <2>6. \A d \in Conn : session'[d] = "new" <=> d \notin used'
    BY <2>1, <2>2, <2>4 DEF SessionInv
  <2>7. ASSUME NEW d \in Conn, session'[d] = "open"
        PROVE  \E b \in Addr : heap'[b] = d /\ ~ClosingAt(ServerOf[d], b)'
    <3>1. d # heap[a] /\ session[d] = "open"
      BY <2>4, <2>7
    <3>2. PICK b \in Addr : heap[b] = d /\ ~ClosingAt(ServerOf[d], b)
      BY <3>1 DEF SessionInv
    <3> QED BY <2>2, <2>3, <3>1, <3>2
  <2> QED BY <2>5, <2>6, <2>7 DEF SessionInv
<1>5. ASSUME NEW s \in Server, Proceed(s) PROVE SessionInv'
  <2>1. HandlerStep(s) /\ session' = session
    BY <1>5 DEF Proceed
  <2>2. used' = used
    BY <2>1 DEF HandlerStep, InsertRow, UpdateRow, SetConnMgnt,
       LookupAccount, DeleteRows, Unmap, HDel, HLen, Del
  <2>3. \A d \in Conn : session'[d] = "new" <=> d \notin used'
    BY <2>1, <2>2 DEF SessionInv
  <2>4. ASSUME NEW d \in Conn, session'[d] = "open"
        PROVE  \E b \in Addr : heap'[b] = d /\ ~ClosingAt(ServerOf[d], b)'
    <3>1. PICK b \in Addr : heap[b] = d /\ ~ClosingAt(ServerOf[d], b)
      BY <2>1, <2>4 DEF SessionInv
    <3>2. ServerOf[d] \in Server /\ Held(ServerOf[d], b)
      BY <3>1 DEF Held
    <3>3. (Held(ServerOf[d], b) /\ ~ClosingAt(ServerOf[d], b))'
      BY <1>0, <2>1, <3>1, <3>2, HandlerAt
    <3>4. heap'[b] = heap[b] \/ heap'[b] = NoConn
      BY <1>0, <2>1, HandlerKinds DEF HandleInv
    <3>5. heap'[b] \in Conn
      BY <3>3 DEF Held
    <3> QED BY <3>1, <3>3, <3>4, <3>5
  <2> QED BY <1>0, <2>1, <2>3, <2>4 DEF SessionInv
<1>6. ASSUME NEW s \in Server, Fail(s) PROVE SessionInv'
  BY <1>6, SessionFrame DEF Fail, Throw
<1>7. ASSUME NEW s \in Server, JobStep(s) PROVE SessionInv'
  <2>1. CASE LookupRecipient
    <3>1. UNCHANGED session /\ hdls = {} /\ next <= Len(dispatch.to)
      BY <2>1 DEF LookupRecipient
    <3>2. dispatch.side \in Server /\ dispatch.to[next] \in Account
      BY <3>1, RecipientKnown
    <3> QED BY <2>1, <3>1, <3>2, LookupFrame, SessionFrame DEF LookupRecipient
  <2>2. CASE Send
    BY <2>2, SessionFrame DEF Send, vars
  <2>3. CASE CloseNext(s)
    BY <2>3, SessionCloses DEF CloseNext, Usable, vars
  <2>4. CASE SendThrows \/ CloseThrows(s)
    BY <2>4, SessionFrame DEF SendThrows, CloseThrows, Abandon
  <2> QED BY <1>7, <2>1, <2>2, <2>3, <2>4 DEF JobStep
<1>8. ASSUME NEW s \in Server, NEW k \in Disconnected, Disconnect(s, k) PROVE SessionInv'
  BY <1>8, RoutingAssumption, LookupFrame, SessionFrame DEF Disconnect
<1>9. ASSUME NEW d \in Dispatches, Dispatch(d) PROVE SessionInv'
  BY <1>9, SessionFrame DEF Dispatch, vars
<1>10. CASE Die
  <2>1. used' = used /\ session' = [c \in Conn |-> IF c \in used THEN "closed" ELSE "new"]
    BY <1>10 DEF Die, Crash
  <2> QED BY <2>1 DEF SessionInv
<1>11. CASE Start
  BY <1>11, SessionFrame DEF Start, Reset, StartReset, ResetAccount, ResetRows
<1>12. CASE UNCHANGED allVars \/ \E s \in Server : Write(s)
  BY <1>12, SessionFrame DEF allVars, Write, vars
<1> QED BY <1>1, <1>2, <1>3, <1>4, <1>5, <1>6, <1>7, <1>8, <1>9, <1>10, <1>11, <1>12
        DEF RoutingNext

-----------------------------------------------------------------------------
(* The loops over handles *)

\* Peers announce accounts and take none back; one is all that most may announce.
LEMMA NamesGrow ==
  ASSUME MappedInv, JobTypes, [RoutingNext]_allVars, NEW c \in Conn
  PROVE  /\ names[c] \subseteq names'[c]
         /\ Rename = FALSE /\ names[c] # {} => names'[c] = names[c]
<1> USE DEF peers, process, stores
<1>0. names \in [Conn -> SUBSET Account] /\ heap \in [Addr -> Conn \cup {NoConn}]
  BY DEF MappedInv, OwnInv, RowInv, HandleInv, TypeOK
<1>1. ASSUME NEW s \in Server, NEW a \in Addr, NEW k \in Account, Announce(s, a, k)
      PROVE  /\ names[c] \subseteq names'[c]
             /\ Rename = FALSE /\ names[c] # {} => names'[c] = names[c]
  <2>1. /\ heap[a] \in Conn /\ names' = [names EXCEPT ![heap[a]] = @ \cup {k}]
        /\ Rename = FALSE => names[heap[a]] \subseteq {k}
    BY <1>1 DEF Announce, Held
  <2>2. names'[c] = IF c = heap[a] THEN names[c] \cup {k} ELSE names[c]
    BY <1>0, <2>1
  <2> QED BY <2>1, <2>2
<1>2. CASE UNCHANGED names
  BY <1>2
<1>3. CASE [Next]_vars
  <2>1. ASSUME NEW s \in Server, HandlerStep(s) PROVE UNCHANGED names
    BY <2>1 DEF HandlerStep, InsertRow, UpdateRow, SetConnMgnt,
       LookupAccount, DeleteRows, Unmap, HDel, HLen, Del
  <2>2. UNCHANGED names \/ \E s \in Server, a \in Addr, k \in Account : Announce(s, a, k)
    BY <1>3, <2>1 DEF Next, Event, Open, Close, Throw, GetConnections, Crash, Reset,
       StartReset, ResetAccount, ResetRows, vars
  <2> QED BY <1>1, <1>2, <2>2
<1>4. CASE \E s \in Server : EndsLoop(s)
  BY <1>2, <1>4 DEF EndsLoop
<1> QED BY <1>3, <1>4, ManagersGoOn

\* The loops' variables keep their types.
LEMMA JobTypesNext ==
  ASSUME TypeOK, JobTypes, [RoutingNext]_allVars
  PROVE  JobTypes'
<1> USE DEF JobTypes, sending, jobs
<1>1. ASSUME NEW s \in Server, Accept(s) \/ Connect(s) \/ Ended(s) \/ Proceed(s) \/ Fail(s)
      PROVE  JobTypes'
  BY <1>1 DEF Accept, Connect, Ended, Proceed, Fail
<1>2. ASSUME NEW s \in Server, PeerCloses(s) PROVE JobTypes'
  BY <1>2 DEF PeerCloses
<1>3. ASSUME NEW s \in Server, JobStep(s) PROVE JobTypes'
  <2>1. CASE LookupRecipient
    <3>1. /\ next <= Len(dispatch.to) /\ next' = next + 1
          /\ hdls' = Found(dispatch.side, dispatch.to[next])
          /\ Lookup(dispatch.side, dispatch.to[next])
          /\ UNCHANGED <<dispatch, sent, written, since, closing, marked>>
      BY <2>1 DEF LookupRecipient
    <3>2. /\ dispatch.side \in Server /\ dispatch.to[next] \in Account
          /\ Len(dispatch.to) \in Nat /\ next \in Nat
      BY <3>1, RecipientKnown
    <3>3. hdls' \subseteq Conn \cup {NoHdl}
      BY <3>1, <3>2, FoundType
    <3>4. next' \in 1 .. Len(dispatch'.to) + 1
      BY <3>1, <3>2
    <3> QED BY <3>1, <3>3, <3>4
  <2>2. CASE Send
    <3>1. PICK h \in hdls : h \in Conn /\ sent' = [sent EXCEPT ![h] = @ + 1] /\ hdls' = hdls \ {h}
      BY <2>2 DEF Send, Usable
    <3>2. sent' \in [Conn -> Nat] /\ \A c \in Conn : sent[c] <= sent'[c]
      BY <3>1
    <3>3. \A c \in Conn : written[c] <= sent'[c]
      BY <3>2
    <3> QED BY <2>2, <3>1, <3>2, <3>3 DEF Send
  <2>3. CASE CloseNext(s)
    BY <2>3 DEF CloseNext
  <2>4. CASE SendThrows \/ CloseThrows(s)
    BY <2>4 DEF SendThrows, CloseThrows, Abandon
  <2> QED BY <1>3, <2>1, <2>2, <2>3, <2>4 DEF JobStep
<1>4. ASSUME NEW s \in Server, NEW k \in Disconnected, Disconnect(s, k) PROVE JobTypes'
  <2>1. Found(ClientServer, k) \subseteq Conn \cup {NoHdl}
    BY <1>4, RoutingAssumption, FoundType DEF Disconnect
  <2>2. Online(ClientServer, k) \subseteq Conn
    BY DEF Online
  <2> QED BY <1>4, <2>1, <2>2 DEF Disconnect
<1>5. ASSUME NEW d \in Dispatches, Dispatch(d) PROVE JobTypes'
  <2>1. /\ dispatch' = d /\ next' = 1 /\ sent' = [c \in Conn |-> 0]
        /\ written' = [c \in Conn |-> 0]
        /\ since' = UNION {Online(d.side, d.to[i]) : i \in 1 .. Len(d.to)}
        /\ UNCHANGED <<hdls, closing, marked>>
    BY <1>5 DEF Dispatch
  <2>2. since' \subseteq Conn
    BY <2>1 DEF Online
  <2>3. Len(d.to) \in Nat
    BY RoutingAssumption
  <2>4. next' \in 1 .. Len(dispatch'.to) + 1
    BY <2>1, <2>3
  <2> QED BY <2>1, <2>2, <2>4
<1>6. CASE Die
  <2>1. NoJobs(dispatch', next', hdls', sent', written', since', closing', marked')
    BY <1>6 DEF Die
  <2>2. Len(NoDispatch.to) = 0
    BY DEF NoDispatch
  <2> QED BY <2>1, <2>2 DEF NoJobs
<1>7. CASE Start
  BY <1>7 DEF Start
<1>8. ASSUME NEW s \in Server, Write(s) PROVE JobTypes'
  <2>1. PICK c \in Conn : written[c] < sent[c] /\ written' = [written EXCEPT ![c] = @ + 1]
    BY <1>8 DEF Write
  <2>2. UNCHANGED <<dispatch, next, hdls, sent, since, closing, marked>>
    BY <1>8 DEF Write
  <2>3. written' \in [Conn -> Nat] /\ \A d \in Conn : written'[d] <= sent[d]
    BY <2>1
  <2> QED BY <2>2, <2>3
<1>9. CASE UNCHANGED allVars
  BY <1>9 DEF allVars
<1> QED BY <1>1, <1>2, <1>3, <1>4, <1>5, <1>6, <1>7, <1>8, <1>9 DEF RoutingNext

\* Copies are numbers, and there are at most as many as recipients so far.
LEMMA ShareType ==
  ASSUME JobTypes, NEW c \in Conn
  PROVE  /\ next - 1 \in Nat /\ next - 1 <= Len(dispatch.to) /\ Len(dispatch.to) \in Nat
         /\ Share(c) \in 0 .. next - 1
         /\ sent[c] \in Nat /\ Pending(c) \in 0 .. 1
<1>1. next - 1 \in Nat /\ next - 1 <= Len(dispatch.to) /\ Len(dispatch.to) \in Nat
  BY RecipientKnown DEF JobTypes
<1>2. Share(c) \in 0 .. next - 1
  BY <1>1, AmongType, Zenon DEF Share
<1>3. sent[c] \in Nat /\ Pending(c) \in 0 .. 1
  BY DEF JobTypes, Pending
<1> QED BY <1>1, <1>2, <1>3

\* A step that is none of the dispatch's leaves what is addressed to a connection,
\* and what is sent to it, as they are, or addresses more to it.
LEMMA SendingFrame ==
  ASSUME MappedInv, JobTypes, [RoutingNext]_allVars, UNCHANGED sending, NEW c \in Conn
  PROVE  /\ Share(c) <= Share(c)'
         /\ Rename = FALSE /\ names[c] # {} => Share(c)' = Share(c)
         /\ Pending(c)' = Pending(c)
<1>1. UNCHANGED <<dispatch, next, hdls, sent>>
  BY DEF sending
<1>2. /\ names[c] \subseteq names'[c]
      /\ Rename = FALSE /\ names[c] # {} => names'[c] = names[c]
  BY NamesGrow
<1>3. next - 1 \in Nat
  BY ShareType
<1>4. Share(c)' = Among(dispatch.to, next - 1, names'[c])
  BY <1>1 DEF Share, Among
<1>5. Among(dispatch.to, next - 1, names[c]) <= Among(dispatch.to, next - 1, names'[c])
  BY <1>2, <1>3, AmongMonotonic
<1>6. Pending(c)' = Pending(c)
  BY <1>1 DEF Pending
<1> QED BY <1>2, <1>4, <1>5, <1>6 DEF Share

\* Looking up the next recipient addresses one more copy to a connection, or none.
LEMMA ShareNext ==
  ASSUME MappedInv, JobTypes, LookupRecipient, NEW c \in Conn
  PROVE  Share(c)' = Share(c) + (IF dispatch.to[next] \in names[c] THEN 1 ELSE 0)
<1>1. next' = next + 1 /\ UNCHANGED <<dispatch, names>>
  <2>1. next <= Len(dispatch.to) /\ Lookup(dispatch.side, dispatch.to[next])
    BY DEF LookupRecipient
  <2>2. dispatch.side \in Server /\ dispatch.to[next] \in Account
    BY <2>1, RecipientKnown
  <2>3. UNCHANGED names
    BY <2>1, <2>2, LookupFrame DEF peers
  <2> QED BY <2>3 DEF LookupRecipient
<1>2. next - 1 \in Nat /\ next = (next - 1) + 1 /\ next' - 1 = next
  BY <1>1, RecipientKnown
<1>3. Share(c)' = Among(dispatch.to, next, names[c])
  BY <1>1, <1>2 DEF Share, Among
<1>4. Among(dispatch.to, (next - 1) + 1, names[c])
        = Among(dispatch.to, next - 1, names[c])
            + (IF dispatch.to[(next - 1) + 1] \in names[c] THEN 1 ELSE 0)
  BY <1>2, AmongNext
<1> QED BY <1>2, <1>3, <1>4 DEF Share

\* Which steps are those of the dispatch.
LEMMA SendingSteps ==
  ASSUME [RoutingNext]_allVars
  PROVE  \/ UNCHANGED sending
         \/ \E d \in Dispatches : Dispatch(d)
         \/ LookupRecipient
         \/ Send
         \/ Die
BY DEF RoutingNext, allVars, jobs, Accept, Connect, PeerCloses, Ended, Proceed, Fail,
   JobStep, SendThrows, CloseNext, CloseThrows, Abandon, Disconnect, Start, Write

\* A dispatch begins when the last one is over: nothing of it is left to be sent.
LEMMA DispatchStarts ==
  ASSUME NEW d \in Dispatches, Dispatch(d)
  PROVE  /\ hdls = {} /\ hdls' = {} /\ dispatch' = d /\ next' = 1
         /\ sent' = [c \in Conn |-> 0]
         /\ \A c \in Conn : Share(c)' = 0 /\ Pending(c)' = 0
<1>1. /\ hdls = {} /\ hdls' = {} /\ dispatch' = d /\ next' = 1
      /\ sent' = [c \in Conn |-> 0]
  BY DEF Dispatch, MessageFrom, Free, Dispatching
<1>2. \A c \in Conn : Pending(c)' = 0
  BY <1>1 DEF Pending
<1>3. ASSUME NEW c \in Conn PROVE Share(c)' = 0
  <2>1. next' - 1 = 0
    BY <1>1
  <2>2. Share(c)' = Among(d.to, 0, names'[c])
    BY <1>1, <2>1 DEF Share, Among
  <2> QED BY <2>2, AmongNone
<1> QED BY <1>1, <1>2, <1>3

LEMMA SentNext ==
  ASSUME MappedInv, SessionInv, JobTypes, JobTypes', SentInv, [RoutingNext]_allVars
  PROVE  SentInv'
<1> SUFFICES ASSUME NEW c \in Conn
             PROVE  /\ ServerOf[c] # dispatch'.side => sent'[c] = 0 /\ c \notin hdls'
                    /\ sent'[c] + Pending(c)' <= Share(c)'
  BY DEF SentInv, Pending, Share, Among
<1>0. /\ ServerOf[c] # dispatch.side => sent[c] = 0 /\ c \notin hdls
      /\ sent[c] + Pending(c) <= Share(c)
      /\ sent[c] \in Nat /\ Pending(c) \in 0 .. 1 /\ Share(c) \in Nat
  BY ShareType DEF SentInv
<1>1. CASE UNCHANGED sending
  <2>1. Share(c)' \in Nat
    <3>1. next' - 1 \in Nat
      BY <1>1, ShareType DEF sending
    <3>2. Share(c)' \in 0 .. next' - 1
      BY <3>1, AmongType, Zenon DEF Share
    <3> QED BY <3>1, <3>2
  <2>2. Share(c) <= Share(c)' /\ Pending(c)' = Pending(c)
    BY <1>1, SendingFrame, Zenon
  <2>3. UNCHANGED <<dispatch, hdls, sent>>
    BY <1>1 DEF sending
  <2> QED BY <1>0, <2>1, <2>2, <2>3
<1>2. ASSUME NEW d \in Dispatches, Dispatch(d)
      PROVE  /\ ServerOf[c] # dispatch'.side => sent'[c] = 0 /\ c \notin hdls'
             /\ sent'[c] + Pending(c)' <= Share(c)'
  BY <1>2, DispatchStarts
<1>3. CASE LookupRecipient
  <2> DEFINE k == dispatch.to[next]
  <2>1. /\ next <= Len(dispatch.to) /\ hdls = {}
        /\ Lookup(dispatch.side, k) /\ hdls' = Found(dispatch.side, k)
        /\ UNCHANGED <<dispatch, sent>>
    BY <1>3 DEF LookupRecipient
  <2>2. dispatch.side \in Server /\ k \in Account
    BY <2>1, RecipientKnown
  <2>3. c \in hdls' => ServerOf[c] = dispatch.side /\ k \in names[c]
    BY <2>1, <2>2, FoundIsOwned, ManagerAssumption
  <2>4. Share(c)' = Share(c) + (IF k \in names[c] THEN 1 ELSE 0)
    BY <1>3, ShareNext
  <2>5. Pending(c) = 0 /\ Pending(c)' = IF c \in hdls' THEN 1 ELSE 0
    BY <2>1 DEF Pending
  <2> HIDE DEF k
  <2> QED BY <1>0, <2>1, <2>3, <2>4, <2>5
<1>4. CASE Send
  <2>1. PICK h \in hdls : h \in Conn /\ sent' = [sent EXCEPT ![h] = @ + 1] /\ hdls' = hdls \ {h}
    BY <1>4 DEF Send, Usable
  <2>2. sent'[c] = IF c = h THEN sent[c] + 1 ELSE sent[c]
    BY <2>1 DEF JobTypes
  <2>3. Pending(c)' = IF c = h THEN 0 ELSE Pending(c)
    BY <2>1 DEF Pending
  <2>4. c = h => Pending(c) = 1
    BY DEF Pending
  <2>5. UNCHANGED <<dispatch, next, names>>
    BY <1>4 DEF Send, vars, peers
  <2>6. Share(c)' = Share(c)
    BY <2>5 DEF Share, Among
  <2> QED BY <1>0, <2>1, <2>2, <2>3, <2>4, <2>5, <2>6
<1>5. CASE Die
  <2>1. sent' = [d \in Conn |-> 0] /\ hdls' = {} /\ next' = 1 /\ dispatch' = NoDispatch
    BY <1>5 DEF Die, NoJobs
  <2>2. Share(c)' = Among(dispatch'.to, 0, names'[c])
    BY <2>1 DEF Share, Among
  <2>3. Share(c)' = 0
    BY <2>2, AmongNone
  <2> QED BY <2>1, <2>3 DEF Pending
<1> QED BY <1>1, <1>2, <1>3, <1>4, <1>5, SendingSteps

\* No other step puts a connection among those that have been online all the time,
\* or leaves one there that begins to close.
LEMMA StayersStay ==
  ASSUME MappedInv, SessionInv, JobTypes, StayInv, Rename = FALSE, [RoutingNext]_allVars,
         UNCHANGED sending, \A d \in Dispatches : ~Dispatch(d),
         loop'[Dispatcher], NEW c \in since'
  PROVE  /\ loop[Dispatcher] /\ c \in since
         /\ session'[c] = "open"
<1> USE DEF sending, jobs, process
<1>0. /\ session \in [Conn -> {"new", "open", "closing", "closed"}] /\ since \subseteq Conn
      /\ loop \in [Server -> BOOLEAN] /\ heap \in [Addr -> Conn \cup {NoConn}]
      /\ loop[Dispatcher] => \A d \in since : session[d] = "open" /\ names[d] # {}
  BY DEF SessionInv, JobTypes, StayInv, MappedInv, OwnInv, RowInv, HandleInv, TypeOK
<1>1. ASSUME NEW s \in Server, Accept(s) PROVE loop[Dispatcher] /\ c \in since /\ session'[c] = "open"
  <2>1. PICK d \in Conn, a \in Addr :
          Open(s, d, a) /\ session' = [session EXCEPT ![d] = "open"]
    BY <1>1 DEF Accept
  <2>2. loop' = loop /\ since' = since
    BY <1>1, <2>1 DEF Accept, Open
  <2> QED BY <1>0, <2>1, <2>2
<1>2. ASSUME NEW s \in Server, Connect(s) \/ Proceed(s)
      PROVE  loop[Dispatcher] /\ c \in since /\ session'[c] = "open"
  BY <1>0, <1>2 DEF Connect, Announce, Proceed, HandlerStep, InsertRow, UpdateRow, SetConnMgnt,
       LookupAccount, DeleteRows, Unmap, HDel, HLen, Del
<1>3. ASSUME NEW s \in Server, PeerCloses(s) \/ CloseNext(s)
      PROVE  loop[Dispatcher] /\ c \in since /\ session'[c] = "open"
  <2>1. PICK h \in Conn : session' = [session EXCEPT ![h] = "closing"] /\ since' = since \ {h}
    BY <1>3 DEF PeerCloses, CloseNext, Usable
  <2>2. loop' = loop
    BY <1>3 DEF PeerCloses, CloseNext, vars
  <2> QED BY <1>0, <2>1, <2>2
<1>4. ASSUME NEW s \in Server, Ended(s)
      PROVE  loop[Dispatcher] /\ c \in since /\ session'[c] = "open"
  <2>1. PICK a \in Addr : /\ Close(s, a) /\ session[heap[a]] = "closing"
                          /\ session' = [session EXCEPT ![heap[a]] = "closed"]
    BY <1>4 DEF Ended
  <2>2. loop' = loop /\ since' = since
    BY <1>4, <2>1 DEF Ended, Close
  <2> QED BY <1>0, <2>1, <2>2
<1>5. ASSUME NEW s \in Server, Fail(s) \/ SendThrows \/ CloseThrows(s)
      PROVE  loop[Dispatcher] /\ c \in since /\ session'[c] = "open"
  <2>1. UNCHANGED <<session, since>> /\ \E t \in Server : loop' = [loop EXCEPT ![t] = FALSE]
    BY <1>5, RoutingAssumption DEF Fail, Throw, SendThrows, CloseThrows, Abandon
  <2>2. loop[Dispatcher]
    BY <1>0, <2>1
  <2> QED BY <1>0, <2>1, <2>2
<1>6. ASSUME NEW s \in Server, NEW k \in Disconnected, Disconnect(s, k)
      PROVE  loop[Dispatcher] /\ c \in since /\ session'[c] = "open"
  BY <1>0, <1>6, RoutingAssumption, LookupFrame DEF Disconnect
<1>7. CASE LookupRecipient \/ Send
  <2>1. next' = next /\ hdls' = hdls /\ next \in Nat
    BY RecipientKnown
  <2> QED BY <1>7, <2>1 DEF LookupRecipient, Send
<1>8. CASE Die
  BY <1>8 DEF Die, NoJobs
<1>9. CASE Start
  BY <1>0, <1>9 DEF Start, Reset, StartReset, ResetAccount, ResetRows
<1>10. CASE UNCHANGED allVars \/ \E s \in Server : Write(s)
  BY <1>0, <1>10 DEF allVars, Write, vars
<1> QED BY <1>1, <1>2, <1>3, <1>4, <1>5, <1>6, <1>7, <1>8, <1>9, <1>10
        DEF RoutingNext, JobStep

LEMMA StayNext ==
  ASSUME MappedInv, SessionInv, JobTypes, JobTypes', SentInv, StayInv, Rename = FALSE,
         [RoutingNext]_allVars
  PROVE  StayInv'
<1> SUFFICES ASSUME loop'[Dispatcher], NEW c \in since'
             PROVE  /\ session'[c] = "open" /\ names'[c] # {} /\ ServerOf[c] = dispatch'.side
                    /\ NoHdl \in hdls' \/ sent'[c] + Pending(c)' = Share(c)'
  BY DEF StayInv, Pending, Share, Among
<1>0. /\ c \in Conn
      /\ loop[Dispatcher] /\ c \in since =>
           /\ session[c] = "open" /\ names[c] # {} /\ ServerOf[c] = dispatch.side
           /\ NoHdl \in hdls \/ sent[c] + Pending(c) = Share(c)
      /\ sent[c] \in Nat /\ Pending(c) \in 0 .. 1 /\ Share(c) \in Nat
  <2>1. c \in Conn
    BY DEF JobTypes
  <2> QED BY <2>1, ShareType DEF StayInv
<1>1. ASSUME NEW d \in Dispatches, Dispatch(d)
      PROVE  /\ session'[c] = "open" /\ names'[c] # {} /\ ServerOf[c] = dispatch'.side
             /\ NoHdl \in hdls' \/ sent'[c] + Pending(c)' = Share(c)'
  <2>1. since' = UNION {Online(d.side, d.to[i]) : i \in 1 .. Len(d.to)}
    BY <1>1 DEF Dispatch
  <2>2. UNCHANGED <<session, names>>
    BY <1>1 DEF Dispatch, vars, peers
  <2>3. session[c] = "open" /\ names[c] # {} /\ ServerOf[c] = d.side
    BY <2>1 DEF Online
  <2>4. dispatch' = d /\ sent'[c] = 0 /\ Share(c)' = 0 /\ Pending(c)' = 0
    BY <1>0, <1>1, DispatchStarts
  <2> QED BY <2>2, <2>3, <2>4
<1>2. CASE UNCHANGED sending /\ \A d \in Dispatches : ~Dispatch(d)
  <2>1. loop[Dispatcher] /\ c \in since /\ session'[c] = "open"
    BY <1>2, StayersStay
  <2>2. Share(c)' = Share(c) /\ Pending(c)' = Pending(c)
    BY <1>0, <1>2, <2>1, SendingFrame, Zenon
  <2>3. names'[c] = names[c]
    BY <1>0, <2>1, NamesGrow
  <2>4. UNCHANGED <<dispatch, hdls, sent>>
    BY <1>2 DEF sending
  <2> QED BY <1>0, <2>1, <2>2, <2>3, <2>4
<1>3. CASE LookupRecipient
  <2> DEFINE k == dispatch.to[next]
  <2>1. /\ next <= Len(dispatch.to) /\ hdls = {} /\ loop[Dispatcher]
        /\ Lookup(dispatch.side, k) /\ hdls' = Found(dispatch.side, k)
        /\ UNCHANGED <<dispatch, sent, since, session>>
    BY <1>3 DEF LookupRecipient
  <2>2. dispatch.side \in Server /\ k \in Account
    BY <2>1, RecipientKnown
  <2>3. UNCHANGED names
    BY <2>1, <2>2, LookupFrame DEF peers
  <2>4. /\ session[c] = "open" /\ names[c] # {} /\ ServerOf[c] = dispatch.side
        /\ sent[c] = Share(c)
    BY <1>0, <2>1 DEF Pending
  <2>5. Share(c)' = Share(c) + (IF k \in names[c] THEN 1 ELSE 0)
    BY <1>0, <1>3, ShareNext
  <2>6. Pending(c)' = IF c \in hdls' THEN 1 ELSE 0
    BY DEF Pending
  <2>7. k \in names[c] => c \in hdls' \/ NoHdl \in hdls'
    <3> SUFFICES ASSUME k \in names[c] PROVE c \in hdls' \/ NoHdl \in hdls'
      OBVIOUS
    <3>1. c \in Online(dispatch.side, k)
      BY <1>0, <2>4 DEF Online
    <3> QED BY <2>1, <2>2, <3>1, FoundIsAll
  <2>8. c \in hdls' => k \in names[c]
    BY <1>0, <2>1, <2>2, FoundIsOwned, ManagerAssumption
  <2> HIDE DEF k
  <2> QED BY <1>0, <2>1, <2>3, <2>4, <2>5, <2>6, <2>7, <2>8
<1>4. CASE Send
  <2>1. PICK h \in hdls : h \in Conn /\ sent' = [sent EXCEPT ![h] = @ + 1] /\ hdls' = hdls \ {h}
    BY <1>4 DEF Send, Usable
  <2>2. sent'[c] = IF c = h THEN sent[c] + 1 ELSE sent[c]
    BY <1>0, <2>1 DEF JobTypes
  <2>3. Pending(c)' = IF c = h THEN 0 ELSE Pending(c)
    BY <2>1 DEF Pending
  <2>4. c = h => Pending(c) = 1
    BY DEF Pending
  <2>5. UNCHANGED <<dispatch, next, names, since, session>> /\ loop[Dispatcher]
    BY <1>4 DEF Send, vars, peers
  <2>6. Share(c)' = Share(c)
    BY <2>5 DEF Share, Among
  <2>7. NoHdl \in hdls => NoHdl \in hdls'
    BY <2>1, ManagerAssumption
  <2> QED BY <1>0, <2>2, <2>3, <2>4, <2>5, <2>6, <2>7
<1>5. CASE Die
  BY <1>5 DEF Die, NoJobs
<1> QED BY <1>1, <1>2, <1>3, <1>4, <1>5, SendingSteps

LEMMA MarkNext ==
  ASSUME MappedInv, SessionInv, JobTypes, MarkInv, [RoutingNext]_allVars
  PROVE  MarkInv'
<1> USE DEF jobs, process
<1>0. /\ session \in [Conn -> {"new", "open", "closing", "closed"}]
      /\ loop \in [Server -> BOOLEAN] /\ heap \in [Addr -> Conn \cup {NoConn}]
      /\ closing \in [Server -> SUBSET (Conn \cup {NoHdl})]
      /\ marked \in [Server -> SUBSET Conn]
  BY DEF SessionInv, JobTypes, MappedInv, OwnInv, RowInv, HandleInv, TypeOK
<1>1. ASSUME NEW s \in Server, Accept(s) PROVE MarkInv'
  <2>1. PICK d \in Conn, a \in Addr :
          Open(s, d, a) /\ session' = [session EXCEPT ![d] = "open"]
    BY <1>1 DEF Accept
  <2>2. d \notin used /\ UNCHANGED <<loop, closing, marked>>
    BY <1>1, <2>1 DEF Accept, Open
  <2>3. session[d] = "new"
    BY <2>2 DEF SessionInv
  <2> QED BY <1>0, <2>1, <2>2, <2>3 DEF MarkInv
<1>2. ASSUME NEW s \in Server, Connect(s) \/ Proceed(s) PROVE MarkInv'
  <2>1. UNCHANGED <<session, loop, closing, marked>>
    BY <1>2 DEF Connect, Announce, Proceed, HandlerStep, InsertRow, UpdateRow, SetConnMgnt,
       LookupAccount, DeleteRows, Unmap, HDel, HLen, Del
  <2> QED BY <2>1 DEF MarkInv
<1>3. ASSUME NEW s \in Server, PeerCloses(s) PROVE MarkInv'
  <2>1. /\ \E c \in Conn : session' = [session EXCEPT ![c] = "closing"]
        /\ UNCHANGED <<loop, closing, marked>>
    BY <1>3 DEF PeerCloses, vars
  <2> QED BY <1>0, <2>1 DEF MarkInv
<1>4. ASSUME NEW s \in Server, Ended(s) PROVE MarkInv'
  <2>1. PICK a \in Addr : Close(s, a) /\ session' = [session EXCEPT ![heap[a]] = "closed"]
    BY <1>4 DEF Ended
  <2>2. UNCHANGED <<loop, closing, marked>>
    BY <1>4, <2>1 DEF Ended, Close
  <2> QED BY <1>0, <2>1, <2>2 DEF MarkInv
<1>5. ASSUME NEW s \in Server, Fail(s) \/ SendThrows \/ CloseThrows(s) PROVE MarkInv'
  <2>1. UNCHANGED <<session, closing, marked>> /\ \E t \in Server : loop' = [loop EXCEPT ![t] = FALSE]
    BY <1>5, RoutingAssumption DEF Fail, Throw, SendThrows, CloseThrows, Abandon
  <2> QED BY <1>0, <2>1 DEF MarkInv
<1>6. CASE LookupRecipient
  <2>1. UNCHANGED <<session, closing, marked>> /\ next <= Len(dispatch.to)
    BY <1>6 DEF LookupRecipient
  <2>2. dispatch.side \in Server /\ dispatch.to[next] \in Account
    BY <2>1, RecipientKnown
  <2>3. loop' = loop
    BY <1>6, <2>2, LookupFrame DEF LookupRecipient
  <2> QED BY <2>1, <2>3 DEF MarkInv
<1>7. CASE Send
  BY <1>7 DEF Send, vars, MarkInv
<1>8. ASSUME NEW s \in Server, CloseNext(s) PROVE MarkInv'
  <2>1. PICK h \in closing[s] : /\ h \in Conn
                                /\ session' = [session EXCEPT ![h] = "closing"]
                                /\ closing' = [closing EXCEPT ![s] = @ \ {h}]
    BY <1>8 DEF CloseNext, Usable
  <2>2. UNCHANGED <<loop, marked>>
    BY <1>8 DEF CloseNext, vars
  <2>3. h # NoHdl
    BY <2>1, ManagerAssumption
  <2> SUFFICES ASSUME NEW t \in Server, NEW c \in marked[t]
               PROVE  /\ session'[c] # "new"
                      /\ loop[t] /\ session'[c] = "open" =>
                           c \in closing'[t] \/ NoHdl \in closing'[t]
    BY <2>2 DEF MarkInv
  <2>4. /\ session[c] # "new"
        /\ loop[t] /\ session[c] = "open" => c \in closing[t] \/ NoHdl \in closing[t]
    BY DEF MarkInv
  <2>5. session'[c] = IF c = h THEN "closing" ELSE session[c]
    BY <1>0, <2>1
  <2>6. closing'[t] = IF t = s THEN closing[s] \ {h} ELSE closing[t]
    BY <1>0, <2>1
  <2> QED BY <2>3, <2>4, <2>5, <2>6
<1>9. ASSUME NEW s \in Server, NEW k \in Disconnected, Disconnect(s, k) PROVE MarkInv'
  <2>1. /\ Lookup(ClientServer, k) /\ ClientServer \in Server /\ k \in Account
        /\ closing' = [closing EXCEPT ![s] = Found(ClientServer, k)]
        /\ marked' = [marked EXCEPT ![s] = Online(ClientServer, k)]
        /\ session' = session
    BY <1>9, RoutingAssumption DEF Disconnect
  <2>2. loop' = loop
    BY <2>1, LookupFrame
  <2> SUFFICES ASSUME NEW t \in Server, NEW c \in marked'[t]
               PROVE  /\ session[c] # "new"
                      /\ loop[t] /\ session[c] = "open" =>
                           c \in closing'[t] \/ NoHdl \in closing'[t]
    BY <2>1, <2>2 DEF MarkInv
  <2>3. CASE t = s
    <3>1. c \in Online(ClientServer, k) /\ closing'[t] = Found(ClientServer, k)
      BY <1>0, <2>1, <2>3
    <3>2. c \in Found(ClientServer, k) \/ NoHdl \in Found(ClientServer, k)
      BY <2>1, <3>1, FoundIsAll
    <3>3. session[c] = "open"
      BY <3>1 DEF Online
    <3> QED BY <3>1, <3>2, <3>3
  <2>4. CASE t # s
    <3>1. c \in marked[t] /\ closing'[t] = closing[t]
      BY <1>0, <2>1, <2>4
    <3> QED BY <3>1 DEF MarkInv
  <2> QED BY <2>3, <2>4
<1>10. ASSUME NEW d \in Dispatches, Dispatch(d) PROVE MarkInv'
  BY <1>10 DEF Dispatch, vars, MarkInv
<1>11. CASE Die
  BY <1>11 DEF Die, NoJobs, MarkInv
<1>12. CASE Start
  BY <1>12 DEF Start, Reset, StartReset, ResetAccount, ResetRows, MarkInv
<1>13. CASE UNCHANGED allVars \/ \E s \in Server : Write(s)
  BY <1>13 DEF allVars, Write, vars, MarkInv
<1> QED BY <1>1, <1>2, <1>3, <1>4, <1>5, <1>6, <1>7, <1>8, <1>9, <1>10, <1>11, <1>12, <1>13
        DEF RoutingNext, JobStep

-----------------------------------------------------------------------------
(* The theorems *)

LEMMA RoutingInvariance ==
  ASSUME Rename = FALSE
  PROVE  RoutingSpec => []RoutingInv
<1>1. RoutingInit => RoutingInv
  <2> SUFFICES ASSUME RoutingInit PROVE RoutingInv
    OBVIOUS
  <2>1. MappedInv
    BY MappedInitially DEF RoutingInit
  <2>2. /\ session = [c \in Conn |-> "new"] /\ used = {} /\ next = 1 /\ hdls = {}
        /\ dispatch = NoDispatch /\ sent = [c \in Conn |-> 0] /\ since = {}
        /\ written = [c \in Conn |-> 0] /\ closing = [s \in Server |-> {}] /\ marked = [s \in Server |-> {}]
    BY DEF RoutingInit, Init, NoJobs
  <2>3. SessionInv /\ StayInv /\ MarkInv
    BY <2>2 DEF SessionInv, StayInv, MarkInv
  <2>4. Len(NoDispatch.to) = 0
    BY DEF NoDispatch
  <2>5. JobTypes
    BY <2>2, <2>4 DEF JobTypes
  <2>6. \A c \in Conn : Share(c) = 0
    <3>1. next - 1 = 0
      BY <2>2
    <3> QED BY <3>1, AmongNone DEF Share
  <2>7. SentInv
    BY <2>2, <2>6 DEF SentInv, Pending
  <2> QED BY <2>1, <2>3, <2>5, <2>7 DEF RoutingInv
<1>2. RoutingInv /\ [RoutingNext]_allVars => RoutingInv'
  <2> SUFFICES ASSUME RoutingInv, [RoutingNext]_allVars PROVE RoutingInv'
    OBVIOUS
  <2>1. MappedInv' /\ JobTypes'
    BY MappedKept, JobTypesNext DEF RoutingInv, MappedInv, OwnInv, RowInv, HandleInv
  <2> QED BY <2>1, SessionNext, SentNext, StayNext, MarkNext DEF RoutingInv
<1> QED BY <1>1, <1>2, PTL DEF RoutingSpec

\* RoutingTypeOK, for every instance: also that no connection is sent more copies
\* than the message has recipients.
THEOREM RoutingTypeCorrect ==
  ASSUME Rename = FALSE
  PROVE  RoutingSpec => []RoutingTypeOK
<1>1. RoutingInv => RoutingTypeOK
  <2> SUFFICES ASSUME RoutingInv PROVE RoutingTypeOK
    OBVIOUS
  <2>1. SessionInv /\ JobTypes /\ SentInv
    BY DEF RoutingInv
  <2>2. \A c \in Conn : sent[c] \in 0 .. Len(dispatch.to)
    BY <2>1, ShareType DEF SentInv
  <2>3. sent \in [Conn -> 0 .. Len(dispatch.to)]
    BY <2>1, <2>2 DEF JobTypes
  <2>4. \A c \in Conn : written[c] \in Nat /\ sent[c] \in Nat /\ written[c] <= sent[c]
    BY <2>1 DEF JobTypes
  <2>5. \A c \in Conn : written[c] \in 0 .. Len(dispatch.to)
    BY <2>1, <2>2, <2>4, RecipientKnown
  <2>6. written \in [Conn -> 0 .. Len(dispatch.to)]
    BY <2>1, <2>5 DEF JobTypes
  <2> QED BY <2>1, <2>3, <2>4, <2>6 DEF SessionInv, JobTypes, RoutingTypeOK
<1> QED BY <1>1, RoutingInvariance, PTL

\* SentAsAddressed, for every instance: a handle that is used after the lookup
\* never carries a message to a connection it is not addressed to, nor twice.
THEOREM SendsAsAddressed ==
  ASSUME Rename = FALSE
  PROVE  RoutingSpec => []SentAsAddressed
<1>1. RoutingInv => SentAsAddressed
  <2> SUFFICES ASSUME RoutingInv, NEW c \in Conn PROVE sent[c] <= Copies(c)
    BY DEF SentAsAddressed
  <2>1. JobTypes /\ SentInv
    BY DEF RoutingInv
  <2>2. CASE ServerOf[c] # dispatch.side
    BY <2>1, <2>2 DEF SentInv, Copies
  <2>3. CASE ServerOf[c] = dispatch.side
    <3>1. Copies(c) = Among(dispatch.to, Len(dispatch.to), names[c])
      BY <2>3 DEF Copies, Among
    <3>2. next - 1 \in Nat /\ next - 1 <= Len(dispatch.to) /\ Len(dispatch.to) \in Nat
      BY <2>1, ShareType
    <3>3. Share(c) <= Copies(c)
      BY <3>1, <3>2, AmongMonotonic DEF Share
    <3>4. Copies(c) \in Nat
      <4>1. Among(dispatch.to, Len(dispatch.to), names[c]) \in 0 .. Len(dispatch.to)
        BY <3>2, AmongType, Zenon
      <4> QED BY <3>1, <3>2, <4>1
    <3>5. sent[c] + Pending(c) <= Share(c) /\ sent[c] \in Nat /\ Pending(c) \in 0 .. 1
      BY <2>1, ShareType DEF SentInv
    <3>6. Share(c) \in Nat
      BY <2>1, ShareType
    <3> QED BY <3>3, <3>4, <3>5, <3>6
  <2> QED BY <2>2, <2>3
<1> QED BY <1>1, RoutingInvariance, PTL

\* StayersAreSent, for every instance: for who is online from the dispatch to its end
\* every copy that is addressed to it has been given to send when the dispatcher goes
\* on (websocket.cpp:76-82, 128-136): no lookup missed it.  Whether its server's loop is
\* there to write them is StayersGetIt, which is checked and not proved.
THEOREM StayersAreQueued ==
  ASSUME Rename = FALSE
  PROVE  RoutingSpec => []StayersAreSent
<1>1. RoutingInv => StayersAreSent
  <2> SUFFICES ASSUME RoutingInv, loop[Dispatcher], ~Dispatching, NEW c \in since
               PROVE  sent[c] = Copies(c)
    BY DEF StayersAreSent
  <2>1. JobTypes /\ StayInv /\ c \in Conn
    BY DEF RoutingInv, JobTypes
  <2>2. hdls = {} /\ ~(next <= Len(dispatch.to))
    BY DEF Dispatching
  <2>3. next - 1 \in Nat /\ next - 1 <= Len(dispatch.to) /\ Len(dispatch.to) \in Nat
    BY <2>1, ShareType
  <2>4. next - 1 = Len(dispatch.to)
    <3>1. next \in Nat
      BY <2>1, RecipientKnown
    <3> QED BY <2>2, <2>3, <3>1
  <2>5. ServerOf[c] = dispatch.side /\ sent[c] + Pending(c) = Share(c)
    BY <2>1, <2>2 DEF StayInv
  <2>6. Share(c) = Copies(c)
    BY <2>4, <2>5 DEF Share, Among, Copies
  <2>7. Pending(c) = 0 /\ sent[c] \in Nat
    BY <2>1, <2>2 DEF Pending, JobTypes
  <2> QED BY <2>5, <2>6, <2>7
<1> QED BY <1>1, RoutingInvariance, PTL

\* DisconnectCloses, for every instance: a disconnect message leaves none of the
\* connections open that it found, whatever its owner's thread does meanwhile.
THEOREM DisconnectsClose ==
  ASSUME Rename = FALSE
  PROVE  RoutingSpec => []DisconnectCloses
<1>1. RoutingInv => DisconnectCloses
  BY DEF RoutingInv, MarkInv, DisconnectCloses
<1> QED BY <1>1, RoutingInvariance, PTL
-----------------------------------------------------------------------------
(* Routing implements the managers *)

\* A thread whose loop over handles is not over is in no handler of its manager.
BusyIsIdle == \A s \in Server : loop[s] /\ ~Free(s) => pc[s] = "idle"

BusyInv == TypeOK /\ ThreadOK /\ JobTypes /\ BusyIsIdle

\* An exception in a loop over handles is one of a manager's.
LEMMA LoopEndThrows ==
  ASSUME "throw" \in Faults, BusyIsIdle, NEW s \in Server, ~Free(s), proc = "up", loop[s],
         Abandon(s)
  PROVE  Throw(s)
BY DEF BusyIsIdle, Abandon, Throw

LEMMA RoutingStep ==
  ASSUME "throw" \in Faults, BusyInv, [RoutingNext]_allVars
  PROVE  [Next]_vars
<1> USE DEF BusyInv
<1>1. ASSUME NEW s \in Server,
             Accept(s) \/ Connect(s) \/ PeerCloses(s) \/ Ended(s) \/ Proceed(s) \/ Fail(s)
      PROVE  [Next]_vars
  BY <1>1 DEF Accept, Connect, PeerCloses, Ended, Proceed, Fail, Next, Event
<1>2. CASE LookupRecipient
  BY <1>2, RecipientKnown, LookupIsStep DEF LookupRecipient
<1>3. ASSUME NEW s \in Server, Send \/ CloseNext(s) PROVE [Next]_vars
  BY <1>3 DEF Send, CloseNext
<1>4. CASE SendThrows
  <2>1. Dispatcher \in Server /\ proc = "up" /\ loop[Dispatcher] /\ hdls # {} /\ Abandon(Dispatcher)
    BY <1>4, RoutingAssumption DEF SendThrows
  <2>2. ~Free(Dispatcher)
    BY <2>1 DEF Free, Dispatching
  <2>3. Throw(Dispatcher)
    BY <2>1, <2>2, LoopEndThrows
  <2> QED BY <2>1, <2>3 DEF Next
<1>5. ASSUME NEW s \in Server, CloseThrows(s) PROVE [Next]_vars
  <2>1. proc = "up" /\ loop[s] /\ closing[s] # {} /\ Abandon(s)
    BY <1>5 DEF CloseThrows
  <2>2. ~Free(s)
    BY <2>1 DEF Free
  <2>3. Throw(s)
    BY <2>1, <2>2, LoopEndThrows
  <2> QED BY <2>3 DEF Next
<1>6. ASSUME NEW s \in Server, NEW k \in Disconnected, Disconnect(s, k) PROVE [Next]_vars
  BY <1>6, RoutingAssumption, LookupIsStep DEF Disconnect
<1>7. ASSUME NEW d \in Dispatches, Dispatch(d) PROVE [Next]_vars
  BY <1>7 DEF Dispatch
<1>8. CASE Die \/ Start
  BY <1>8 DEF Die, Start, Next
<1>9. CASE UNCHANGED allVars \/ \E s \in Server : Write(s)
  BY <1>9 DEF allVars, Write
<1> QED BY <1>1, <1>2, <1>3, <1>4, <1>5, <1>6, <1>7, <1>8, <1>9 DEF RoutingNext, JobStep

\* A thread enters a handler, or a loop, only when it is in neither.
LEMMA BusyNext ==
  ASSUME BusyInv, [RoutingNext]_allVars
  PROVE  BusyIsIdle'
<1> USE RoutingAssumption DEF process, thread, sending, jobs
<1>0. /\ BusyIsIdle /\ loop \in [Server -> BOOLEAN] /\ pc \in [Server -> Steps]
      /\ closing \in [Server -> SUBSET (Conn \cup {NoHdl})]
  BY DEF BusyInv, TypeOK, JobTypes
<1>1. ASSUME UNCHANGED <<loop, pc>>, \A t \in Server : Free(t) => Free(t)'
      PROVE  BusyIsIdle'
  BY <1>0, <1>1 DEF BusyIsIdle
<1>2. ASSUME NEW s \in Server, UNCHANGED <<loop, jobs>>, loop[s] => Free(s),
             \A t \in Server \ {s} : pc'[t] = pc[t]
      PROVE  BusyIsIdle'
  <2>1. \A t \in Server : Free(t)' <=> Free(t)
    BY <1>2 DEF Free, Dispatching
  <2> QED BY <1>0, <1>2, <2>1 DEF BusyIsIdle
<1>3. ASSUME NEW s \in Server, pc[s] = "idle", UNCHANGED <<loop, pc>>,
             \A t \in Server \ {s} : Free(t)' <=> Free(t)
      PROVE  BusyIsIdle'
  BY <1>0, <1>3 DEF BusyIsIdle
<1>4. ASSUME NEW s \in Server, loop' = [loop EXCEPT ![s] = FALSE], UNCHANGED <<pc, jobs>>
      PROVE  BusyIsIdle'
  <2>1. \A t \in Server : (Free(t)' <=> Free(t)) /\ (loop'[t] => loop[t])
    BY <1>0, <1>4 DEF Free, Dispatching
  <2> QED BY <1>0, <1>4, <2>1 DEF BusyIsIdle
<1>5. ASSUME NEW s \in Server, Accept(s) PROVE BusyIsIdle'
  <2>1. PICK c \in Conn, a \in Addr : Open(s, c, a)
    BY <1>5 DEF Accept
  <2>2. UNCHANGED loop /\ \A t \in Server \ {s} : pc'[t] = pc[t]
    BY <1>0, <2>1 DEF Open, Call
  <2> QED BY <1>2, <1>5, <2>2 DEF Accept
<1>6. ASSUME NEW s \in Server, Connect(s) PROVE BusyIsIdle'
  <2>1. PICK a \in Addr, k \in Account : Announce(s, a, k)
    BY <1>6 DEF Connect
  <2>2. UNCHANGED loop /\ \A t \in Server \ {s} : pc'[t] = pc[t]
    BY <1>0, <2>1 DEF Announce, Call
  <2> QED BY <1>2, <1>6, <2>2 DEF Connect
<1>7. ASSUME NEW s \in Server, Ended(s) PROVE BusyIsIdle'
  <2>1. PICK a \in Addr : Close(s, a)
    BY <1>7 DEF Ended
  <2>2. UNCHANGED loop /\ \A t \in Server \ {s} : pc'[t] = pc[t]
    BY <1>0, <2>1 DEF Close, Call
  <2> QED BY <1>2, <1>7, <2>2 DEF Ended
<1>8. ASSUME NEW s \in Server, Proceed(s) PROVE BusyIsIdle'
  <2>1. loop[s] /\ pc[s] # "idle" /\ UNCHANGED <<loop, jobs>>
    BY <1>8 DEF Proceed, HandlerStep, InsertRow, UpdateRow, SetConnMgnt, LookupAccount,
       DeleteRows, Unmap, HDel, HLen, Del, Reached
  <2>2. \A t \in Server \ {s} : pc'[t] = pc[t]
    BY <1>0, <1>8 DEF Proceed, HandlerStep, InsertRow, UpdateRow, SetConnMgnt, LookupAccount,
       DeleteRows, Unmap, HDel, HLen, Del, Return, Release, Call, Continue
  <2>3. Free(s)
    BY <1>0, <2>1 DEF BusyIsIdle
  <2> QED BY <1>2, <2>1, <2>2, <2>3
<1>9. ASSUME NEW s \in Server, Fail(s) PROVE BusyIsIdle'
  BY <1>4, <1>9 DEF Fail, Throw
<1>10. ASSUME NEW s \in Server, PeerCloses(s) PROVE BusyIsIdle'
  BY <1>1, <1>10 DEF PeerCloses, vars, Free, Dispatching
<1>11. CASE LookupRecipient
  <2>1. /\ loop[Dispatcher] /\ next <= Len(dispatch.to) /\ UNCHANGED <<closing, dispatch>>
        /\ Lookup(dispatch.side, dispatch.to[next])
    BY <1>11 DEF LookupRecipient
  <2>2. UNCHANGED <<loop, pc>>
    BY <2>1, RecipientKnown, LookupFrame DEF BusyInv
  <2>3. pc[Dispatcher] = "idle"
    BY <1>0, <2>1 DEF BusyIsIdle, Free, Dispatching
  <2>4. \A t \in Server \ {Dispatcher} : Free(t)' <=> Free(t)
    BY <2>1 DEF Free
  <2> QED BY <1>3, <2>2, <2>3, <2>4
<1>12. CASE Send
  <2>1. loop[Dispatcher] /\ hdls # {} /\ UNCHANGED <<loop, pc, closing>>
    BY <1>12 DEF Send, vars
  <2>2. pc[Dispatcher] = "idle"
    BY <1>0, <2>1 DEF BusyIsIdle, Free, Dispatching
  <2>3. \A t \in Server \ {Dispatcher} : Free(t)' <=> Free(t)
    BY <2>1 DEF Free
  <2> QED BY <1>3, <2>1, <2>2, <2>3
<1>13. ASSUME NEW s \in Server, (s = Dispatcher /\ SendThrows) \/ CloseThrows(s) PROVE BusyIsIdle'
  BY <1>4, <1>13 DEF SendThrows, CloseThrows, Abandon
<1>14. ASSUME NEW s \in Server, CloseNext(s) PROVE BusyIsIdle'
  <2>1. /\ closing[s] # {} /\ UNCHANGED <<loop, pc, sending>>
        /\ \E h : closing' = [closing EXCEPT ![s] = @ \ {h}]
    BY <1>14 DEF CloseNext, vars
  <2>2. \A t \in Server : closing[t] = {} => closing'[t] = {}
    BY <1>0, <2>1
  <2>3. \A t \in Server : Free(t) => Free(t)'
    BY <2>1, <2>2 DEF Free, Dispatching
  <2> QED BY <1>1, <2>1, <2>3
<1>15. ASSUME NEW s \in Server, NEW k \in Disconnected, Disconnect(s, k) PROVE BusyIsIdle'
  <2>1. /\ pc[s] = "idle" /\ UNCHANGED sending
        /\ \E S : closing' = [closing EXCEPT ![s] = S]
        /\ Lookup(ClientServer, k)
    BY <1>15 DEF Disconnect, MessageFrom, Ready
  <2>2. UNCHANGED <<loop, pc>>
    BY <2>1, LookupFrame
  <2>3. \A t \in Server \ {s} : closing'[t] = closing[t]
    BY <1>0, <2>1
  <2>4. \A t \in Server \ {s} : Free(t)' <=> Free(t)
    BY <2>1, <2>3 DEF Free, Dispatching
  <2> QED BY <1>3, <2>1, <2>2, <2>4
<1>16. ASSUME NEW d \in Dispatches, Dispatch(d) PROVE BusyIsIdle'
  <2>1. pc[Dispatcher] = "idle" /\ UNCHANGED <<loop, pc, closing>>
    BY <1>16 DEF Dispatch, MessageFrom, Ready, vars
  <2>2. \A t \in Server \ {Dispatcher} : Free(t)' <=> Free(t)
    BY <2>1 DEF Free
  <2> QED BY <1>3, <2>1, <2>2
<1>17. CASE Die
  <2>1. /\ closing' = [s \in Server |-> {}] /\ hdls' = {} /\ next' = 1 /\ dispatch' = NoDispatch
    BY <1>17 DEF Die, NoJobs
  <2>2. Len(NoDispatch.to) = 0
    BY DEF NoDispatch
  <2>3. \A t \in Server : Free(t)'
    BY <2>1, <2>2 DEF Free, Dispatching
  <2> QED BY <2>3 DEF BusyIsIdle
<1>18. CASE Start
  BY <1>1, <1>18 DEF Start, Reset, StartReset, ResetAccount, ResetRows, Free, Dispatching
<1>19. CASE UNCHANGED allVars \/ \E s \in Server : Write(s)
  BY <1>1, <1>19 DEF allVars, Write, vars, Free, Dispatching
<1> QED BY <1>5, <1>6, <1>7, <1>8, <1>9, <1>10, <1>11, <1>12, <1>13, <1>14, <1>15, <1>16,
           <1>17, <1>18, <1>19 DEF RoutingNext, JobStep

\* Dispatching and disconnecting are, to the managers, lookups and exceptions:
\* what is proved of the managers holds of the servers on top of them.
THEOREM RoutingImplementsManagers ==
  ASSUME "throw" \in Faults
  PROVE  RoutingSpec => Spec
<1>1. RoutingInit => Init /\ BusyInv
  <2> SUFFICES ASSUME RoutingInit PROVE Init /\ BusyInv
    OBVIOUS
  <2>1. Init /\ next = 1 /\ hdls = {} /\ dispatch = NoDispatch /\ sent = [c \in Conn |-> 0]
        /\ written = [c \in Conn |-> 0] /\ since = {} /\ closing = [s \in Server |-> {}] /\ marked = [s \in Server |-> {}]
    BY DEF RoutingInit, NoJobs
  <2>2. TypeOK /\ ThreadOK
    BY <2>1, InitTypeOK DEF Init, FreshMemory, ThreadOK
  <2>3. Len(NoDispatch.to) = 0
    BY DEF NoDispatch
  <2>4. JobTypes
    BY <2>1, <2>3 DEF JobTypes
  <2>5. BusyIsIdle
    BY <2>1, <2>3 DEF BusyIsIdle, Free, Dispatching
  <2> QED BY <2>1, <2>2, <2>4, <2>5 DEF BusyInv
<1>2. BusyInv /\ [RoutingNext]_allVars => [Next]_vars /\ BusyInv'
  <2> SUFFICES ASSUME BusyInv, [RoutingNext]_allVars PROVE [Next]_vars /\ BusyInv'
    OBVIOUS
  <2>1. [Next]_vars
    BY RoutingStep
  <2>2. TypeOK' /\ ThreadOK'
    BY <2>1, NextTypeOK DEF BusyInv
  <2> QED BY <2>1, <2>2, JobTypesNext, BusyNext DEF BusyInv
<1> QED BY <1>1, <1>2, PTL DEF RoutingSpec, Spec

\* Handles stay current, rows mapped, and no close unmaps another connection,
\* with all the servers' work going on.
THEOREM ManagersHoldUnderRouting ==
  ASSUME "throw" \in Faults
  PROVE  RoutingSpec => [](HandleIsCurrent /\ RowIsMapped) /\ UnmapsOnlyOwn
<1>1. RoutingSpec => Spec
  BY RoutingImplementsManagers
<1> QED BY <1>1, HandlesAreCurrent, RowsAreMapped, ClosesUnmapOnlyOwn, PTL

\* And, as long as no peer announces two accounts, the servers implement the
\* registry: whatever is dispatched, only connections that announced the account
\* and have not begun to close are looked up.
THEOREM RoutingImplementsRegistry ==
  ASSUME "throw" \in Faults, Rename = FALSE
  PROVE  RoutingSpec => ImplementsRegistry
<1>1. RoutingSpec => Spec
  BY RoutingImplementsManagers
<1>2. Spec => ImplementsRegistry
  BY LookupsAreRegistered
<1> QED BY <1>1, <1>2

-----------------------------------------------------------------------------
(* The library and the managers agree on which connections there are *)

SessionTypes ==
  /\ session \in [Conn -> {"new", "open", "closing", "closed"}]
  /\ \A c \in Conn : session[c] = "new" <=> c \notin used

AgreeInv == HandleInv /\ OneAddress /\ JobTypes /\ SessionTypes /\ SessionsAgree

\* What the managers' steps preserve of the connections' addresses, an exception in
\* a loop over handles does too, whatever peers announce.
LEMMA HandlesKept ==
  ASSUME HandleInv, OneAddress, JobTypes, [RoutingNext]_allVars
  PROVE  HandleInv' /\ OneAddress' /\ JobTypes'
<1>1. CASE [Next]_vars
  <2>1. HandleInv'
    BY <1>1, HandleNext, NextTypeOK DEF HandleInv
  <2> QED BY <1>1, <2>1, AddressNext, JobTypesNext DEF HandleInv
<1>2. ASSUME NEW s \in Server, EndsLoop(s) PROVE HandleInv' /\ OneAddress'
  <2>1. /\ UNCHANGED <<proc, todo, heap, used, names, conns, clientConns, pc, at, who, table, redis>>
        /\ loop' = [loop EXCEPT ![s] = FALSE]
    BY <1>2 DEF EndsLoop, peers, maps, thread, stores
  <2>2. HandleInv'
    BY <2>1 DEF HandleInv, TypeOK, ThreadOK, HandlerHolds, HandleIsCurrent, Held
  <2> QED BY <2>1, <2>2 DEF OneAddress
<1> QED BY <1>1, <1>2, ManagersGoOn, JobTypesNext DEF HandleInv

LEMMA AgreeNext ==
  ASSUME AgreeInv, [RoutingNext]_allVars
  PROVE  AgreeInv'
<1> USE ManagerAssumption DEF process, peers, thread
<1> DEFINE Live == {c \in Conn : session[c] \in {"open", "closing"}}
<1>0. HandleInv /\ OneAddress /\ SessionTypes /\ OpenConns = Live
  BY DEF AgreeInv, SessionsAgree
\* Nothing opens or begins to close; sessions may, from the library's side.
<1>1. ASSUME UNCHANGED used, OpenConns' = OpenConns,
             \/ session' = session
             \/ \E c \in Conn : session[c] = "open" /\ session' = [session EXCEPT ![c] = "closing"]
      PROVE  SessionTypes' /\ OpenConns' = Live'
  <2>1. CASE session' = session
    BY <1>0, <1>1, <2>1 DEF SessionTypes
  <2>2. ASSUME NEW c \in Conn, session[c] = "open", session' = [session EXCEPT ![c] = "closing"]
        PROVE  SessionTypes' /\ OpenConns' = Live'
    <3>1. \A d \in Conn : session'[d] = IF d = c THEN "closing" ELSE session[d]
      BY <1>0, <2>2 DEF SessionTypes
    <3>2. Live' = Live
      BY <2>2, <3>1
    <3>3. SessionTypes'
      BY <1>0, <1>1, <2>2, <3>1 DEF SessionTypes
    <3> QED BY <1>0, <1>1, <3>2, <3>3
  <2> QED BY <1>1, <2>1, <2>2
<1>2. ASSUME NEW s \in Server, Accept(s) PROVE SessionTypes' /\ OpenConns' = Live'
  <2>1. PICK c \in Conn, a \in Addr :
          Open(s, c, a) /\ session' = [session EXCEPT ![c] = "open"]
    BY <1>2 DEF Accept
  <2>2. OpenConns' = OpenConns \cup {c} /\ used' = used \cup {c}
    BY <1>0, <2>1, OpenConnsNext DEF Open
  <2>3. \A d \in Conn : session'[d] = IF d = c THEN "open" ELSE session[d]
    BY <1>0, <2>1 DEF SessionTypes
  <2>4. Live' = Live \cup {c}
    BY <2>3
  <2>5. SessionTypes'
    BY <1>0, <2>1, <2>2, <2>3 DEF SessionTypes
  <2> QED BY <1>0, <2>2, <2>4, <2>5
<1>3. ASSUME NEW s \in Server, Ended(s) PROVE SessionTypes' /\ OpenConns' = Live'
  <2>1. PICK a \in Addr : /\ Close(s, a) /\ session[heap[a]] = "closing"
                          /\ session' = [session EXCEPT ![heap[a]] = "closed"]
    BY <1>3 DEF Ended
  <2>2. OpenConns' = OpenConns \ {heap[a]} /\ used' = used /\ heap[a] \in Conn
    BY <1>0, <2>1, OpenConnsNext DEF Close, Held
  <2>3. \A d \in Conn : session'[d] = IF d = heap[a] THEN "closed" ELSE session[d]
    BY <1>0, <2>1 DEF SessionTypes
  <2>4. Live' = Live \ {heap[a]}
    BY <2>3
  <2>5. SessionTypes'
    BY <1>0, <2>1, <2>2, <2>3 DEF SessionTypes
  <2> QED BY <1>0, <2>2, <2>4, <2>5
<1>4. ASSUME NEW s \in Server, Connect(s) \/ Proceed(s) PROVE SessionTypes' /\ OpenConns' = Live'
  <2>1. UNCHANGED <<used, session>>
    BY <1>0, <1>4, HandlerKinds DEF Connect, Announce, Proceed
  <2>2. OpenConns' = OpenConns
    BY <1>0, <1>4, OpenConnsNext DEF Connect, Proceed
  <2> QED BY <1>1, <2>1, <2>2
<1>5. ASSUME Die PROVE SessionTypes' /\ OpenConns' = Live'
  <2>1. /\ used' = used /\ heap' = [a \in Addr |-> NoConn]
        /\ session' = [c \in Conn |-> IF c \in used THEN "closed" ELSE "new"]
    BY <1>5 DEF Die, Crash, FreshMemory
  <2>2. OpenConns' = {}
    BY <2>1 DEF OpenConns
  <2>3. Live' = {}
    BY <2>1
  <2>4. SessionTypes'
    BY <2>1 DEF SessionTypes
  <2> QED BY <2>2, <2>3, <2>4
\* The others change neither handlers nor addresses.
<1>6. ASSUME UNCHANGED <<used, heap, pc, at>>,
             \/ session' = session
             \/ \E c \in Conn : session[c] = "open" /\ session' = [session EXCEPT ![c] = "closing"]
      PROVE  SessionTypes' /\ OpenConns' = Live'
  <2>1. OpenConns' = OpenConns
    BY <1>6 DEF OpenConns, Closing
  <2> QED BY <1>1, <1>6, <2>1
<1> HIDE DEF Live
<1>7. ASSUME NEW s \in Server, PeerCloses(s) \/ Fail(s) PROVE SessionTypes' /\ OpenConns' = Live'
  BY <1>6, <1>7 DEF PeerCloses, Fail, Throw, vars
<1>8. ASSUME NEW s \in Server, JobStep(s) PROVE SessionTypes' /\ OpenConns' = Live'
  <2>1. CASE LookupRecipient
    <3>1. UNCHANGED session /\ dispatch.side \in Server /\ dispatch.to[next] \in Account
          /\ Lookup(dispatch.side, dispatch.to[next])
      BY <2>1, RecipientKnown DEF LookupRecipient, AgreeInv
    <3>2. UNCHANGED <<used, heap, pc, at>>
      BY <3>1, LookupFrame
    <3> QED BY <1>6, <3>1, <3>2
  <2>2. CASE Send \/ SendThrows \/ CloseThrows(s)
    BY <1>6, <2>2 DEF Send, SendThrows, CloseThrows, Abandon, vars
  <2>3. CASE CloseNext(s)
    <3>1. UNCHANGED <<used, heap, pc, at>>
      BY <2>3 DEF CloseNext, vars
    <3>2. \E c \in Conn : session[c] = "open" /\ session' = [session EXCEPT ![c] = "closing"]
      BY <2>3 DEF CloseNext, Usable
    <3> QED BY <1>6, <3>1, <3>2
  <2> QED BY <1>8, <2>1, <2>2, <2>3 DEF JobStep
<1>9. ASSUME NEW s \in Server, NEW k \in Disconnected, Disconnect(s, k)
      PROVE  SessionTypes' /\ OpenConns' = Live'
  <2>1. UNCHANGED session /\ Lookup(ClientServer, k) /\ ClientServer \in Server /\ k \in Account
    BY <1>9, RoutingAssumption DEF Disconnect
  <2>2. UNCHANGED <<used, heap, pc, at>>
    BY <2>1, LookupFrame
  <2> QED BY <1>6, <2>1, <2>2
<1>10. ASSUME \/ (\E d \in Dispatches : Dispatch(d)) \/ Start \/ UNCHANGED allVars
              \/ \E s \in Server : Write(s)
       PROVE  SessionTypes' /\ OpenConns' = Live'
  <2>1. UNCHANGED <<used, heap, pc, at, session>>
    BY <1>10 DEF Dispatch, Write, Start, Reset, StartReset, ResetAccount, ResetRows, vars, allVars
  <2> QED BY <1>6, <2>1
<1>11. SessionTypes' /\ OpenConns' = Live'
  BY <1>2, <1>3, <1>4, <1>5, <1>7, <1>8, <1>9, <1>10 DEF RoutingNext
<1>12. HandleInv' /\ OneAddress' /\ JobTypes'
  BY HandlesKept DEF AgreeInv
<1> QED BY <1>11, <1>12 DEF AgreeInv, SessionsAgree, Live

\* SessionsAgree, for every instance, several accounts per peer, failing calls and
\* crashes included: the connections the managers have, and are not closing, are
\* those whose session the library has not ended (websocket.cpp:54-88).
THEOREM ManagersFollowSessions == RoutingSpec => []SessionsAgree
<1>1. RoutingInit => AgreeInv
  <2> SUFFICES ASSUME RoutingInit PROVE AgreeInv
    OBVIOUS
  <2>1. Init /\ next = 1 /\ hdls = {} /\ dispatch = NoDispatch /\ sent = [c \in Conn |-> 0]
        /\ written = [c \in Conn |-> 0] /\ since = {} /\ closing = [s \in Server |-> {}] /\ marked = [s \in Server |-> {}]
        /\ session = [c \in Conn |-> "new"]
    BY DEF RoutingInit, NoJobs
  <2>2. MappedInv
    BY <2>1, MappedInitially
  <2>3. HandleInv /\ OneAddress
    BY <2>2 DEF MappedInv, OwnInv, RowInv
  <2>4. Len(NoDispatch.to) = 0
    BY DEF NoDispatch
  <2>5. JobTypes
    BY <2>1, <2>4 DEF JobTypes
  <2>6. used = {} /\ heap = [a \in Addr |-> NoConn]
    BY <2>1 DEF Init, FreshMemory
  <2>7. SessionsAgree
    BY <2>1, <2>6, ManagerAssumption DEF SessionsAgree, OpenConns
  <2>8. SessionTypes
    BY <2>1, <2>6 DEF SessionTypes
  <2> QED BY <2>3, <2>5, <2>7, <2>8 DEF AgreeInv
<1>2. AgreeInv /\ [RoutingNext]_allVars => AgreeInv'
  BY AgreeNext
<1>3. AgreeInv => SessionsAgree
  BY DEF AgreeInv
<1> QED BY <1>1, <1>2, <1>3, PTL DEF RoutingSpec

=============================================================================
