----------------------------- MODULE AcceptLoop -----------------------------
(***************************************************************************)
(* The server of socket/server.cpp: its io thread accepts a peer, reads    *)
(* once from it, answers what looks like a websocket request, and only     *)
(* then accepts the next.  Meanwhile peers queue in the listening socket.  *)
(*                                                                         *)
(* The handler blocks twice: in receive, until the peer sends or closes,   *)
(* and for the operator, who types the key of an answer.  What one receive *)
(* returns decides: a request may arrive in pieces, and what arrives later *)
(* is lost.  Text that fills the buffer is ended by a byte past it: what   *)
(* is undefined goes unnoticed or ends the process.                        *)
(***************************************************************************)
EXTENDS Naturals, Sequences, SequencesExt

CONSTANTS
  Peer,      \* peers; each connects at most once
  BuffSize,  \* bytes of the buffer
  Pieces,    \* what may arrive at once: JSON or not, naming websocket or not
  MaxPieces  \* bound on the pieces a peer has sent and nobody has read

ASSUME AcceptAssumption ==
  /\ BuffSize \in Nat \ {0} /\ MaxPieces \in Nat \ {0}
  /\ Pieces \subseteq [json : BOOLEAN, websocket : BOOLEAN, bytes : 1 .. BuffSize]

VARIABLES
  backlog,   \* peers that wait to be accepted
  accept,    \* the accept: "pending", "served" (a handler runs) or "failed"
  step,      \* what the handler does next: "address", "receive" or "key"
  peer,      \* the peer of the handler that runs, or ran last, as a sequence
  wire,      \* the pieces a peer has sent and nobody has read
  link,      \* state of a peer: "new", "open", "broken" or "dropped"
  reply,     \* the answer to a peer: "none", "sent" or "lost"
  over       \* has the process ended?

acceptVars == <<backlog, accept, step, peer, wire, link, reply, over>>

AcceptTypeOK ==
  /\ backlog \in Seq(Peer) /\ peer \in BoundedSeq(Peer, 1)
  /\ accept \in {"pending", "served", "failed"}
  /\ step \in {"address", "receive", "key"}
  /\ wire \in [Peer -> Seq(Pieces)] /\ \A p \in Peer : Len(wire[p]) <= MaxPieces
  /\ link \in [Peer -> {"new", "open", "broken", "dropped"}]
  /\ reply \in [Peer -> {"none", "sent", "lost"}]
  /\ over \in BOOLEAN

\* The constructor has called start.
AcceptInit ==
  /\ backlog = <<>> /\ peer = <<>>
  /\ accept = "pending" /\ step = "address"
  /\ wire = [p \in Peer |-> <<>>]
  /\ link = [p \in Peer |-> "new"]
  /\ reply = [p \in Peer |-> "none"]
  /\ over = FALSE

-----------------------------------------------------------------------------
(* Peers *)

PeerConnects(p) ==
  /\ ~over /\ link[p] = "new"
  /\ link' = [link EXCEPT ![p] = "open"]
  /\ backlog' = Append(backlog, p)
  /\ UNCHANGED <<accept, step, peer, wire, reply, over>>

\* Also while the peer waits, is served, or has had its one receive.
PeerSends(p) ==
  /\ ~over /\ link[p] = "open" /\ Len(wire[p]) < MaxPieces
  /\ \E m \in Pieces : wire' = [wire EXCEPT ![p] = Append(@, m)]
  /\ UNCHANGED <<backlog, accept, step, peer, link, reply, over>>

\* A reset takes what is on the wire with it, an orderly end does not.
PeerBreaks(p) ==
  /\ ~over /\ link[p] = "open"
  /\ link' = [link EXCEPT ![p] = "broken"]
  /\ \E rest \in {wire[p], <<>>} : wire' = [wire EXCEPT ![p] = rest]
  /\ UNCHANGED <<backlog, accept, step, peer, reply, over>>

-----------------------------------------------------------------------------
(* The io thread *)

Accepted ==
  /\ ~over /\ accept = "pending" /\ backlog # <<>>
  /\ peer' = <<Head(backlog)>> /\ backlog' = Tail(backlog)
  /\ accept' = "served" /\ step' = "address"
  /\ UNCHANGED <<wire, link, reply, over>>

\* accept_handler returns on an error, without another start.
AcceptFails ==
  /\ ~over /\ accept = "pending"
  /\ accept' = "failed"
  /\ UNCHANGED <<backlog, step, peer, wire, link, reply, over>>

HandlerAt(s, p) == ~over /\ accept = "served" /\ step = s /\ peer = <<p>>

\* start, and the end of the handler: the last pointer to the socket goes.
StartAgain(p) ==
  /\ accept' = "pending"
  /\ link' = [link EXCEPT ![p] = "dropped"]
  /\ wire' = [wire EXCEPT ![p] = <<>>]
  /\ UNCHANGED <<backlog, step, peer>>

Address(p) ==
  /\ HandlerAt("address", p)
  /\ step' = "receive"
  /\ UNCHANGED <<backlog, accept, peer, wire, link, reply, over>>

\* (mutant: start is the last statement of the try block)
GivesUp(p) ==
  /\ HandlerAt("address", p) \/ (HandlerAt("receive", p) /\ wire[p] = <<>>)
  /\ link[p] = "broken"
  /\ step' = "receive"
  /\ link' = [link EXCEPT ![p] = "dropped"] /\ wire' = [wire EXCEPT ![p] = <<>>]
  /\ UNCHANGED <<backlog, accept, peer, reply, over>>

\* remote_endpoint or receive throws: the peer has gone.
Throws(p) ==
  /\ HandlerAt("address", p) \/ (HandlerAt("receive", p) /\ wire[p] = <<>>)
  /\ link[p] = "broken"
  /\ StartAgain(p)
  /\ UNCHANGED <<reply, over>>

FoundIn(q) == \E i \in DOMAIN q : q[i].websocket

Bytes(q) == FoldSeq(LAMBDA m, n : m.bytes + n, 0, q)

\* (mutant: receive is repeated, into the same buffer, until all has been read)
ReceivesLast(q) ==
  {[json |-> q[Len(q)].json, websocket |-> q[Len(q)].websocket,
    full |-> Bytes(q) >= BuffSize]}

\* What one receive may return of q: all there is, or as much as fits, which is
\* the first piece at least; nobody will read the rest.  (No piece ends within
\* the word.)
Receives(q) ==
  {[json |-> Head(q).json, websocket |-> w, full |-> Bytes(q) >= BuffSize] :
     w \in IF Bytes(q) > BuffSize THEN {Head(q).websocket, FoundIn(q)} ELSE {FoundIn(q)}}

\* buff[size] = 0, also with size = BuffSize, in a buffer of BuffSize bytes.
ReadsPiece(p) ==
  /\ HandlerAt("receive", p) /\ wire[p] # <<>>
  /\ \E buff \in Receives(wire[p]) :
       /\ over' \in (IF buff.full THEN BOOLEAN ELSE {FALSE})
       /\ IF ~buff.json /\ buff.websocket
            THEN /\ step' = "key" /\ wire' = [wire EXCEPT ![p] = <<>>]
                 /\ UNCHANGED <<backlog, accept, peer, link>>
            ELSE StartAgain(p)
  /\ UNCHANGED reply

\* The operator types the key.  The answer is sent later, from a string and by
\* way of a socket that are gone by then: that it arrives is luck.
TypeKey(p) ==
  /\ HandlerAt("key", p)
  /\ \E sent \in {"sent", "lost"} : reply' = [reply EXCEPT ![p] = sent]
  /\ StartAgain(p)
  /\ UNCHANGED over

AcceptNext ==
  \/ Accepted \/ AcceptFails
  \/ \E p \in Peer :
       \/ PeerConnects(p) \/ PeerSends(p) \/ PeerBreaks(p)
       \/ Address(p) \/ Throws(p) \/ ReadsPiece(p) \/ TypeKey(p)

\* The io thread goes on where it can; peers and the operator need not.
Goes == Accepted \/ \E p \in Peer : Address(p) \/ Throws(p) \/ ReadsPiece(p)

AcceptSpec == AcceptInit /\ [][AcceptNext]_acceptVars /\ WF_acceptVars(Goes)

-----------------------------------------------------------------------------
(* Properties *)

Blocked ==
  /\ accept = "served"
  /\ \E p \in ToSet(peer) :
       step = "key" \/ (step = "receive" /\ wire[p] = <<>> /\ link[p] = "open")

CanGo ==
  \/ accept = "pending" /\ backlog # <<>>
  \/ /\ accept = "served"
     /\ \E p \in ToSet(peer) :
          step = "address" \/ (step = "receive" /\ (wire[p] # <<>> \/ link[p] = "broken"))

\* While a peer waits the io thread can go on, unless an accept has failed or the
\* handler waits for the operator, or for a peer that could still send: one that
\* has broken off, or whose data was read, does not hold it (server.cpp:83-109).
LoopGoesOn == ~over /\ accept # "failed" /\ backlog # <<>> => CanGo \/ Blocked

\* A peer that waits is accepted, unless the process ends, an accept fails or
\* one peer or the operator holds the only handler for ever
\* (server.cpp:83-109): no peer that comes and goes stops the loop.
AcceptedUnlessBlocked ==
  \A p \in Peer :
    [](p \in ToSet(backlog) =>
         \/ <>(p \notin ToSet(backlog) \/ accept = "failed" \/ over)
         \/ <>[]Blocked)

\* p waits, and what it has sent begins with a whole request.
WaitsWithRequest(p) ==
  /\ p \in ToSet(backlog) /\ wire[p] # <<>>
  /\ ~Head(wire[p]).json /\ Head(wire[p]).websocket

\* A request that arrives whole and first, while its peer waits, is read and put
\* before the operator, whatever the peer and the others send, before its turn or
\* later, unless the peer breaks off, an accept fails, the process ends, or one peer
\* or the operator holds the only handler for ever (server.cpp:92-103).  What
\* comes in pieces has no such promise: a receive between them drops it.
RequestsReachOperator ==
  \A p \in Peer :
    [](WaitsWithRequest(p) =>
         \/ <>(HandlerAt("key", p) \/ link[p] = "broken" \/ accept = "failed" \/ over)
         \/ <>[]Blocked)
=============================================================================
