----------------------------- MODULE HelperProofs -----------------------------
(***************************************************************************)
(* Theorems about the parts that share no state with the chat servers or   *)
(* with each other: start-up of the servers, the registry of classes, the  *)
(* accept loop, packages as text, base64, the padding and the rounds of    *)
(* sha1, and their composition; for every value of their constants.        *)
(***************************************************************************)
EXTENDS MCHelpers, AutoAssignProofs, DemoServerProofs, SiteManagerProofs,
        SequenceTheorems, WellFoundedInduction, TLAPS

-----------------------------------------------------------------------------
(* Induction *)

\* A set of naturals that is not empty has a least element.
LEMMA Least ==
  ASSUME NEW T, T \subseteq Nat, T # {}
  PROVE  \E x \in T : \A y \in T : x <= y
<1> DEFINE R == OpToRel(<, Nat)
<1>1. IsWellFoundedOn(R, Nat)
  BY NatLessThanWellFounded
<1>2. \A x, y \in Nat : <<x, y>> \in R <=> x < y
  BY DEF OpToRel
<1> HIDE DEF R
<1>3. PICK x \in T : \A y \in T : <<y, x>> \notin R
  BY <1>1, WFMin
<1>4. ASSUME NEW y \in T PROVE x <= y
  <2>1. x \in Nat /\ y \in Nat
    OBVIOUS
  <2>2. ~(y < x)
    BY <1>2, <1>3, <2>1
  <2> QED BY <2>1, <2>2
<1> QED BY <1>4

\* Induction over the naturals, for a set.
LEMMA InductiveSet ==
  ASSUME NEW S, 0 \in S, \A n \in Nat : n \in S => n + 1 \in S
  PROVE  Nat \subseteq S
<1> SUFFICES ASSUME NEW n \in Nat, n \notin S PROVE FALSE
  OBVIOUS
<1>1. PICK x \in Nat \ S : \A y \in Nat \ S : x <= y
  BY Least
<1>2. x - 1 \in Nat /\ x - 1 \in S
  BY <1>1
<1> QED BY <1>1, <1>2

-----------------------------------------------------------------------------
(* Start-up (ServerThreads) *)

\* How far main is says what has been done; servers come last.
SetUpInv ==
  /\ ThreadsTypeOK
  /\ main # "clear" => cleared
  /\ main \notin {"clear", "bind"} => bound
  /\ main \in {"clear", "bind"} => \A s \in Servers : server[s] = "none"

LEMMA SetUpInitially == ThreadsInit => SetUpInv
<1> USE DEF Servers
<1>1. Len(Threads) = 5
  BY DEF Threads
<1> SUFFICES ASSUME ThreadsInit PROVE SetUpInv
  OBVIOUS
<1>2. server \in [Servers -> {"none", "listen", "serving", "stopped"}]
  BY DEF ThreadsInit
<1>3. started \in 0 .. Len(Threads)
  BY <1>1 DEF ThreadsInit
<1> QED BY <1>2, <1>3 DEF ThreadsInit, SetUpInv, ThreadsTypeOK

LEMMA SetUpStep == SetUpInv /\ [ThreadsNext]_threadVars => SetUpInv'
<1> USE DEF Servers
<1> SUFFICES ASSUME SetUpInv, [ThreadsNext]_threadVars PROVE SetUpInv'
  OBVIOUS
<1> USE DEF SetUpInv, ThreadsTypeOK
<1>0. Len(Threads) = 5 /\ \A i \in 1 .. 5 : Threads[i][2] \in Servers
  BY DEF Threads
<1>1. CASE ClearStores \/ BindFunctions
  BY <1>1 DEF ClearStores, BindFunctions, Doing
<1>2. CASE StartThread
  <2>1. /\ main = "start" /\ started' = started + 1 /\ started' \in 0 .. Len(Threads)
        /\ UNCHANGED <<main, cleared, bound, alive>>
    BY <1>0, <1>2 DEF StartThread, Doing
  <2>2. server' \in [Servers -> {"none", "listen", "serving", "stopped"}]
    BY <1>0, <1>2 DEF StartThread
  <2> QED BY <2>1, <2>2
<1>3. CASE RunClientServer
  BY <1>3 DEF RunClientServer, Doing
<1>4. CASE SetUpFails
  BY <1>4 DEF SetUpFails
<1>5. ASSUME NEW s \in Servers, OpensPort(s) \/ LoopEnds(s) \/ HandlerCrashes(s)
      PROVE  SetUpInv'
  <2>1. main \notin {"clear", "bind"}
    BY <1>5 DEF OpensPort, Listen, PortTaken, LoopEnds, HandlerCrashes
  <2>2. CASE OpensPort(s)
    <3>1. server' \in [Servers -> {"none", "listen", "serving", "stopped"}]
      BY <2>2 DEF OpensPort, Listen, PortTaken
    <3> QED BY <2>1, <2>2, <3>1 DEF OpensPort, Listen, PortTaken
  <2>3. CASE LoopEnds(s)
    <3>1. server' = [server EXCEPT ![s] = "stopped"] /\ UNCHANGED <<cleared, bound, started, alive>>
      BY <2>3 DEF LoopEnds
    <3>2. server' \in [Servers -> {"none", "listen", "serving", "stopped"}]
      BY <3>1
    <3>3. main' \in {main, "join"}
      BY <2>3 DEF LoopEnds
    <3> QED BY <2>1, <3>1, <3>2, <3>3
  <2>4. CASE HandlerCrashes(s)
    BY <2>4 DEF HandlerCrashes
  <2> QED BY <1>5, <2>2, <2>3, <2>4
<1>6. CASE UNCHANGED threadVars
  BY <1>6 DEF threadVars
<1> QED BY <1>1, <1>2, <1>3, <1>4, <1>5, <1>6 DEF ThreadsNext, MainSteps

\* ServesAfterSetup, whatever thread is scheduled when.
THEOREM ServersAreSetUp == ThreadsSpec => []ServesAfterSetup
<1>1. SetUpInv => ServesAfterSetup
  BY DEF SetUpInv, ThreadsTypeOK, ServesAfterSetup, Servers
<1> QED BY <1>1, SetUpInitially, SetUpStep, PTL DEF ThreadsSpec

\* The client server comes last: while main can fail, not all ports are open.
EndsInv ==
  /\ SetUpInv
  /\ main \in {"clear", "bind", "start"} => server["client"] = "none"
  /\ EndsServing

LEMMA EndsStep == EndsInv /\ [ThreadsNext]_threadVars => EndsInv'
<1> SUFFICES ASSUME EndsInv, [ThreadsNext]_threadVars PROVE EndsInv'
  OBVIOUS
<1> USE DEF EndsInv
<1>0. /\ server \in [Servers -> {"none", "listen", "serving", "stopped"}]
      /\ "client" \in Servers
      /\ main \in {"clear", "bind", "start"} => ~Settled
  BY DEF SetUpInv, ThreadsTypeOK, Servers, Settled
<1>1. SetUpInv'
  BY SetUpStep
<1>2. CASE ClearStores \/ BindFunctions
  <2>1. main \in {"clear", "bind"} /\ alive' /\ UNCHANGED server
    BY <1>2 DEF ClearStores, BindFunctions, Doing
  <2> QED BY <1>1, <2>1 DEF EndsServing
<1>3. CASE StartThread
  <2>1. main = "start" /\ alive' /\ started < Len(Threads) /\ started' = started + 1
    BY <1>3 DEF StartThread, Doing
  <2>2. started' \in 1 .. 5
    BY <2>1 DEF Threads, SetUpInv, ThreadsTypeOK
  <2>3. \A i \in 1 .. 5 : Threads[i][1] = "run" => Threads[i][2] # "client"
    BY DEF Threads
  <2>4. server'["client"] = server["client"]
    BY <1>0, <1>3, <2>2, <2>3 DEF StartThread
  <2> QED BY <1>1, <2>1, <2>4 DEF EndsServing
<1>4. CASE RunClientServer
  <2>1. main' = "run" /\ alive'
    BY <1>4 DEF RunClientServer, Doing
  <2> QED BY <1>1, <2>1 DEF EndsServing
<1>5. CASE SetUpFails
  <2>1. main \in {"clear", "bind", "start"} /\ UNCHANGED <<main, server>>
    BY <1>5 DEF SetUpFails
  <2>2. ~Settled'
    BY <1>0, <2>1 DEF Settled
  <2> QED BY <1>1, <2>1, <2>2 DEF EndsServing
<1>6. ASSUME NEW s \in Servers, PortTaken(s) PROVE EndsInv'
  <2>1. server[s] = "listen" /\ UNCHANGED <<main, server>>
    BY <1>6 DEF PortTaken
  <2>2. ~Settled'
    BY <2>1 DEF Settled
  <2> QED BY <1>1, <2>1, <2>2 DEF EndsServing
<1>7. ASSUME NEW s \in Servers, Listen(s) \/ LoopEnds(s) PROVE EndsInv'
  <2>1. /\ alive' /\ main' \in {main, "join"} /\ server[s] \in {"listen", "serving"}
        /\ \E x \in {"serving", "stopped"} : server' = [server EXCEPT ![s] = x]
    BY <1>7 DEF Listen, LoopEnds
  <2>2. main \in {"clear", "bind", "start"} => s # "client"
    BY <2>1
  <2> QED BY <1>0, <1>1, <2>1, <2>2 DEF EndsServing
<1>8. ASSUME NEW s \in Servers, HandlerCrashes(s) PROVE EndsInv'
  <2>1. server'[s] = "serving" /\ UNCHANGED <<main, server>>
    BY <1>8 DEF HandlerCrashes
  <2> QED BY <1>1, <2>1 DEF EndsServing
<1>9. CASE UNCHANGED threadVars
  BY <1>1, <1>9 DEF threadVars, EndsServing, Settled
<1> QED BY <1>2, <1>3, <1>4, <1>5, <1>6, <1>7, <1>8, <1>9 DEF ThreadsNext, MainSteps, OpensPort

\* EndsServing, part of StartsOrEnds: a process that has ended with its three
\* ports open ended in a handler, while a server ran; neither main's set-up nor
\* what a loop throws ends it then (websocket.cpp:34-46, 161-173).
THEOREM EndsWhileServing == ThreadsSpec => []EndsServing
<1>1. ThreadsInit => EndsInv
  BY SetUpInitially DEF ThreadsInit, EndsInv, EndsServing, Servers
<1>2. EndsInv => EndsServing
  BY DEF EndsInv
<1> QED BY <1>1, <1>2, EndsStep, PTL DEF ThreadsSpec

-----------------------------------------------------------------------------
(* The registry of classes (ClassRegistry) *)

LEMMA RegistryInitially == RegistryInit => RegistryTypeOK
BY DEF RegistryInit, RegistryTypeOK

LEMMA RegistryStep == RegistryTypeOK /\ [RegistryNext]_registryVars => RegistryTypeOK'
<1> SUFFICES ASSUME RegistryTypeOK, [RegistryNext]_registryVars PROVE RegistryTypeOK'
  OBVIOUS
<1> USE DEF RegistryTypeOK
<1>1. ASSUME NEW a \in NameAt, NEW m \in Made, Regist(a, m) PROVE RegistryTypeOK'
  BY <1>1 DEF Regist
<1>2. CASE UNCHANGED registryVars
  BY <1>2 DEF registryVars
<1> QED BY <1>1, <1>2 DEF RegistryNext

-----------------------------------------------------------------------------
(* The accept loop (AcceptLoop) *)

WireInv ==
  /\ accept \in {"pending", "served", "failed"}
  /\ step \in {"address", "receive", "key"}
  /\ backlog \in Seq(Peer)
  /\ peer \in {<<>>} \cup {<<p>> : p \in Peer}
  /\ wire \in [Peer -> Seq(Pieces)] /\ \A p \in Peer : Len(wire[p]) <= MaxPieces
  /\ link \in [Peer -> {"new", "open", "broken", "dropped"}]
  /\ reply \in [Peer -> {"none", "sent", "lost"}]
  /\ over \in BOOLEAN

Linked(p) == link[p] \in {"open", "broken"}

Served(p) == accept = "served" /\ peer = <<p>>

\* A peer waits once, and not any more when it is served or has been; a handler
\* that runs has its peer.
QueueInv ==
  /\ \A i \in 1 .. Len(backlog) : Linked(backlog[i]) /\ ~Served(backlog[i])
  /\ \A i, j \in 1 .. Len(backlog) : backlog[i] = backlog[j] => i = j
  /\ \A p \in Peer : Served(p) => Linked(p)
  /\ accept = "served" => \E p \in Peer : peer = <<p>>

AcceptInv == WireInv /\ QueueInv

LEMMA AcceptInitially == AcceptInit => AcceptInv
<1> SUFFICES ASSUME AcceptInit PROVE AcceptInv
  OBVIOUS
<1>1. backlog \in Seq(Peer) /\ <<>> \in Seq(Pieces) /\ Len(<<>>) <= MaxPieces
  BY AcceptAssumption DEF AcceptInit
<1>2. WireInv
  BY <1>1 DEF AcceptInit, WireInv
<1>3. QueueInv
  BY DEF AcceptInit, QueueInv, Served
<1> QED BY <1>2, <1>3 DEF AcceptInv

\* A peer that waits, or is served, stays linked when its link changes; no other
\* peer's link does.
LEMMA QueueFrame ==
  ASSUME WireInv, QueueInv, NEW p \in Peer, UNCHANGED <<accept, peer, backlog>>,
         \A q \in Peer \ {p} : link'[q] = link[q], Linked(p)'
  PROVE  QueueInv'
<1>1. \A q \in Peer : Linked(q) => Linked(q)'
  BY DEF Linked
<1>2. \A i \in 1 .. Len(backlog) : backlog[i] \in Peer
  BY DEF WireInv
<1>3. \A q : Served(q)' <=> Served(q)
  BY DEF Served
<1> QED BY <1>1, <1>2, <1>3 DEF QueueInv

\* The handler ends: nobody is served, and one peer is dropped.
LEMMA HandlerEnds ==
  ASSUME WireInv, QueueInv, NEW p \in Peer, Served(p), StartAgain(p),
         reply' \in [Peer -> {"none", "sent", "lost"}], over' \in BOOLEAN
  PROVE  WireInv' /\ QueueInv'
<1>1. /\ accept' = "pending" /\ link' = [link EXCEPT ![p] = "dropped"]
      /\ wire' = [wire EXCEPT ![p] = <<>>] /\ UNCHANGED <<backlog, step, peer>>
  BY DEF StartAgain
<1>2. \A q : ~Served(q)'
  BY <1>1 DEF Served
<1>3. \A q \in Peer : link'[q] = IF q = p THEN "dropped" ELSE link[q]
  BY <1>1 DEF WireInv
<1>4. \A i \in 1 .. Len(backlog) : backlog[i] \in Peer /\ backlog[i] # p
  BY DEF WireInv, QueueInv
<1>5. QueueInv'
  BY <1>1, <1>2, <1>3, <1>4 DEF QueueInv, Linked
<1>6. <<>> \in Seq(Pieces) /\ Len(<<>>) <= MaxPieces
  BY AcceptAssumption
<1>7. /\ wire' \in [Peer -> Seq(Pieces)] /\ \A q \in Peer : Len(wire'[q]) <= MaxPieces
      /\ link' \in [Peer -> {"new", "open", "broken", "dropped"}]
  BY <1>1, <1>6 DEF WireInv
<1> QED BY <1>1, <1>5, <1>7 DEF WireInv

\* A peer connects once, sends while there is room, and breaks off.
LEMMA PeersNext ==
  ASSUME AcceptInv, NEW p \in Peer, PeerConnects(p) \/ PeerSends(p) \/ PeerBreaks(p)
  PROVE  AcceptInv'
<1> USE DEF WireInv
<1>0. WireInv /\ QueueInv
  BY DEF AcceptInv
<1>1. /\ UNCHANGED <<accept, step, peer, reply, over>>
      /\ link[p] # "dropped" /\ link'[p] \in {"open", "broken"}
      /\ link' = [link EXCEPT ![p] = link'[p]]
  BY <1>0 DEF PeerConnects, PeerSends, PeerBreaks
<1>2. \A q \in Peer \ {p} : link'[q] = link[q]
  BY <1>0, <1>1
<1>3. Linked(p)'
  BY <1>1 DEF Linked
<1>4. /\ backlog' \in Seq(Peer) /\ wire' \in [Peer -> Seq(Pieces)]
      /\ \A q \in Peer : Len(wire'[q]) <= MaxPieces
  <2>1. CASE PeerConnects(p)
    BY <1>0, <2>1 DEF PeerConnects
  <2>2. CASE PeerSends(p)
    <3>1. PICK m \in Pieces : wire' = [wire EXCEPT ![p] = Append(@, m)]
      BY <2>2 DEF PeerSends
    <3>2. wire[p] \in Seq(Pieces) /\ Len(wire[p]) < MaxPieces /\ UNCHANGED backlog
      BY <1>0, <2>2 DEF PeerSends
    <3>3. /\ Append(wire[p], m) \in Seq(Pieces)
          /\ Len(Append(wire[p], m)) <= MaxPieces
      BY <3>2, AcceptAssumption
    <3> QED BY <1>0, <3>1, <3>2, <3>3
  <2>3. CASE PeerBreaks(p)
    <3>1. <<>> \in Seq(Pieces) /\ Len(<<>>) <= MaxPieces
      BY AcceptAssumption
    <3>2. PICK rest \in {wire[p], <<>>} : wire' = [wire EXCEPT ![p] = rest]
      BY <2>3 DEF PeerBreaks
    <3>3. rest \in Seq(Pieces) /\ Len(rest) <= MaxPieces
      BY <1>0, <3>1, <3>2
    <3>4. UNCHANGED backlog
      BY <2>3 DEF PeerBreaks
    <3> QED BY <1>0, <3>2, <3>3, <3>4
  <2> QED BY <2>1, <2>2, <2>3
<1>5. WireInv'
  BY <1>0, <1>1, <1>4
<1>6. QueueInv'
  <2>1. CASE UNCHANGED backlog
    BY <1>0, <1>1, <1>2, <1>3, <2>1, QueueFrame
  <2>2. CASE PeerConnects(p)
    <3>1. link[p] = "new" /\ backlog' = Append(backlog, p)
      BY <2>2 DEF PeerConnects
    <3>2. ~Served(p) /\ \A q : Served(q)' <=> Served(q)
      <4>1. QueueInv
        BY DEF AcceptInv
      <4>2. ~Served(p)
        BY <3>1, <4>1 DEF QueueInv, Linked
      <4> QED BY <1>1, <4>2 DEF Served
    <3>3. \A i \in 1 .. Len(backlog) : backlog[i] \in Peer /\ backlog[i] # p
      <4>1. QueueInv /\ backlog \in Seq(Peer)
        BY DEF AcceptInv
      <4>2. \A i \in 1 .. Len(backlog) : backlog[i] # p
        BY <3>1, <4>1 DEF QueueInv, Linked
      <4> QED BY <4>1, <4>2
    <3>4. \A q \in Peer : Linked(q) => Linked(q)'
      BY <1>2, <1>3 DEF Linked
    <3>5. /\ Len(backlog') = Len(backlog) + 1 /\ Len(backlog) \in Nat
          /\ \A i \in 1 .. Len(backlog) : backlog'[i] = backlog[i]
          /\ backlog'[Len(backlog) + 1] = p
      BY <1>0, <3>1
    <3>6. \A i \in 1 .. Len(backlog') : i \in 1 .. Len(backlog) \/ i = Len(backlog) + 1
      BY <3>5
    <3>7. ASSUME NEW i \in 1 .. Len(backlog')
          PROVE  /\ link'[backlog'[i]] \in {"open", "broken"}
                 /\ ~(accept = "served" /\ peer = <<backlog'[i]>>)
      <4>1. CASE i \in 1 .. Len(backlog)
        <5>1. backlog'[i] = backlog[i] /\ backlog[i] \in Peer
          BY <3>3, <3>5, <4>1
        <5>2. Linked(backlog[i]) /\ ~Served(backlog[i])
          BY <1>0, <4>1 DEF QueueInv
        <5>3. link'[backlog[i]] = link[backlog[i]]
          BY <1>2, <3>3, <4>1, <5>1
        <5> QED BY <5>1, <5>2, <5>3 DEF Linked, Served
      <4>2. CASE i = Len(backlog) + 1
        BY <1>3, <3>2, <3>5, <4>2 DEF Linked, Served
      <4> QED BY <3>6, <4>1, <4>2
    <3>8. \A i, j \in 1 .. Len(backlog') : backlog'[i] = backlog'[j] => i = j
      BY <1>0, <3>3, <3>5, <3>6 DEF QueueInv
    <3>9. \A q \in Peer : Served(q)' => Linked(q)'
      BY <1>0, <3>2, <3>4 DEF QueueInv
    <3>10. accept' = "served" => \E q \in Peer : peer' = <<q>>
      BY <1>0, <1>1 DEF QueueInv
    <3> QED BY <1>1, <3>7, <3>8, <3>9, <3>10 DEF QueueInv, Linked, Served
  <2> QED BY <2>1, <2>2 DEF PeerSends, PeerBreaks
<1> QED BY <1>5, <1>6 DEF AcceptInv

\* The next peer of the queue is served, and waits no more.
LEMMA AcceptedNext ==
  ASSUME AcceptInv, Accepted
  PROVE  AcceptInv'
<1> USE DEF WireInv
<1>0. WireInv /\ QueueInv
  BY DEF AcceptInv
<1>1. /\ accept = "pending" /\ backlog # <<>> /\ ~over
      /\ peer' = <<Head(backlog)>> /\ backlog' = Tail(backlog)
      /\ accept' = "served" /\ step' = "address"
      /\ UNCHANGED <<wire, link, reply, over>>
  BY DEF Accepted
<1>2. /\ Len(backlog) \in Nat \ {0} /\ Head(backlog) = backlog[1] /\ backlog[1] \in Peer
      /\ backlog' \in Seq(Peer) /\ Len(backlog') = Len(backlog) - 1
      /\ \A i \in 1 .. Len(backlog') : backlog'[i] = backlog[i + 1]
  BY <1>0, <1>1
<1>3. WireInv'
  BY <1>0, <1>1, <1>2
<1>4. \A q : ~Served(q)
  BY <1>1 DEF Served
<1>5. \A q : Served(q)' <=> q = backlog[1]
  BY <1>1, <1>2 DEF Served
<1>6. \A i \in 1 .. Len(backlog') : i + 1 \in 1 .. Len(backlog)
  BY <1>2
<1>7. Linked(backlog[1])
  BY <1>0, <1>2 DEF QueueInv
<1>8. QueueInv'
  <2>1. ASSUME NEW i \in 1 .. Len(backlog')
        PROVE  /\ link'[backlog'[i]] \in {"open", "broken"}
               /\ ~(accept' = "served" /\ peer' = <<backlog'[i]>>)
    <3>1. /\ i + 1 \in 1 .. Len(backlog) /\ 1 \in 1 .. Len(backlog) /\ i + 1 # 1
          /\ backlog'[i] = backlog[i + 1]
      BY <1>2, <1>6
    <3>2. Linked(backlog[i + 1])
      BY <1>0, <3>1 DEF QueueInv
    <3>3. backlog[i + 1] # backlog[1]
      BY <1>0, <3>1 DEF QueueInv
    <3> QED BY <1>1, <1>2, <3>1, <3>2, <3>3 DEF Linked
  <2>2. ASSUME NEW i \in 1 .. Len(backlog'), NEW j \in 1 .. Len(backlog'), backlog'[i] = backlog'[j]
        PROVE  i = j
    <3>1. i + 1 = j + 1
      <4>1. QueueInv
        BY DEF AcceptInv
      <4>2. backlog[i + 1] = backlog[j + 1]
        BY <1>2, <2>2
      <4> QED BY <1>6, <4>1, <4>2 DEF QueueInv
    <3> QED BY <3>1
  <2>3. \A q \in Peer : Served(q)' => Linked(q)'
    BY <1>1, <1>5, <1>7 DEF Linked
  <2>4. accept' = "served" => \E q \in Peer : peer' = <<q>>
    BY <1>1, <1>2
  <2> QED BY <2>1, <2>2, <2>3, <2>4 DEF QueueInv, Linked, Served
<1> QED BY <1>3, <1>8 DEF AcceptInv

\* The steps of the handler, and an accept that fails.
LEMMA HandlerNext ==
  ASSUME AcceptInv,
         AcceptFails \/ \E p \in Peer : Address(p) \/ Throws(p) \/ ReadsPiece(p) \/ TypeKey(p)
  PROVE  AcceptInv'
<1>0. WireInv /\ QueueInv
  BY DEF AcceptInv
<1>1. CASE AcceptFails
  <2>1. /\ accept = "pending" /\ accept' = "failed"
        /\ UNCHANGED <<backlog, step, peer, wire, link, reply, over>>
    BY <1>1 DEF AcceptFails
  <2>2. \A q : ~Served(q) /\ ~Served(q)'
    BY <2>1 DEF Served
  <2> QED BY <1>0, <2>1, <2>2 DEF AcceptInv, WireInv, QueueInv, Linked
<1>2. ASSUME NEW p \in Peer, Address(p) PROVE AcceptInv'
  <2>1. step' = "receive" /\ UNCHANGED <<backlog, accept, peer, wire, link, reply, over>>
    BY <1>2 DEF Address
  <2> QED BY <1>0, <2>1 DEF AcceptInv, WireInv, QueueInv, Linked, Served
<1>3. ASSUME NEW p \in Peer, Throws(p) PROVE AcceptInv'
  BY <1>0, <1>3, HandlerEnds DEF AcceptInv, Throws, HandlerAt, Served, WireInv
<1>4. ASSUME NEW p \in Peer, TypeKey(p) PROVE AcceptInv'
  <2>1. reply' \in [Peer -> {"none", "sent", "lost"}] /\ UNCHANGED over
    BY <1>0, <1>4 DEF TypeKey, WireInv
  <2> QED BY <1>0, <1>4, <2>1, HandlerEnds DEF AcceptInv, TypeKey, HandlerAt, Served, WireInv
<1>5. ASSUME NEW p \in Peer, ReadsPiece(p) PROVE AcceptInv'
  <2>1. /\ Served(p) /\ UNCHANGED reply /\ over' \in BOOLEAN
        /\ \/ StartAgain(p)
           \/ /\ step' = "key" /\ wire' = [wire EXCEPT ![p] = <<>>]
              /\ UNCHANGED <<backlog, accept, peer, link>>
    BY <1>5 DEF ReadsPiece, HandlerAt, Served
  <2>2. CASE StartAgain(p)
    BY <1>0, <2>1, <2>2, HandlerEnds DEF AcceptInv, WireInv
  <2>3. CASE /\ step' = "key" /\ wire' = [wire EXCEPT ![p] = <<>>]
             /\ UNCHANGED <<backlog, accept, peer, link>>
    <3>1. <<>> \in Seq(Pieces) /\ Len(<<>>) <= MaxPieces
      BY AcceptAssumption
    <3>2. /\ wire' \in [Peer -> Seq(Pieces)]
          /\ \A q \in Peer : Len(wire'[q]) <= MaxPieces
      BY <1>0, <2>3, <3>1 DEF WireInv
    <3>3. WireInv'
      BY <1>0, <2>1, <2>3, <3>2 DEF WireInv
    <3>4. QueueInv'
      BY <1>0, <2>3 DEF QueueInv, Linked, Served
    <3> QED BY <3>3, <3>4 DEF AcceptInv
  <2> QED BY <2>1, <2>2, <2>3
<1> QED BY <1>1, <1>2, <1>3, <1>4, <1>5

LEMMA AcceptStep == AcceptInv /\ [AcceptNext]_acceptVars => AcceptInv'
<1> SUFFICES ASSUME AcceptInv, [AcceptNext]_acceptVars PROVE AcceptInv'
  OBVIOUS
<1>1. CASE Accepted
  BY <1>1, AcceptedNext
<1>2. CASE AcceptFails \/ \E p \in Peer : Address(p) \/ Throws(p) \/ ReadsPiece(p) \/ TypeKey(p)
  BY <1>2, HandlerNext
<1>3. ASSUME NEW p \in Peer, PeerConnects(p) \/ PeerSends(p) \/ PeerBreaks(p) PROVE AcceptInv'
  BY <1>3, PeersNext
<1>4. CASE UNCHANGED acceptVars
  BY <1>4 DEF acceptVars, AcceptInv, WireInv, QueueInv, Linked, Served
<1> QED BY <1>1, <1>2, <1>3, <1>4 DEF AcceptNext

LEMMA AcceptGoesOn == AcceptInv => LoopGoesOn
<1> SUFFICES ASSUME AcceptInv, accept # "failed", backlog # <<>> PROVE CanGo \/ Blocked
  BY DEF LoopGoesOn
<1>0. /\ accept \in {"pending", "served", "failed"} /\ step \in {"address", "receive", "key"}
      /\ \A p \in Peer : Served(p) => Linked(p)
      /\ accept = "served" => \E p \in Peer : peer = <<p>>
  BY DEF AcceptInv, WireInv, QueueInv
<1>1. CASE accept = "pending"
  BY <1>1 DEF CanGo
<1>2. CASE accept = "served"
  <2>1. PICK p \in Peer : peer = <<p>>
    BY <1>0, <1>2
  <2>2. p \in ToSet(peer)
    BY <2>1 DEF ToSet
  <2>3. link[p] \in {"open", "broken"}
    BY <1>0, <1>2, <2>1 DEF Served, Linked
  <2>4. CASE step \in {"address", "key"}
    BY <1>2, <2>2, <2>4 DEF CanGo, Blocked
  <2>5. CASE step = "receive" /\ (wire[p] # <<>> \/ link[p] = "broken")
    BY <1>2, <2>2, <2>5 DEF CanGo
  <2>6. CASE step = "receive" /\ wire[p] = <<>> /\ link[p] = "open"
    BY <1>2, <2>2, <2>6 DEF Blocked
  <2> QED BY <1>0, <2>3, <2>4, <2>5, <2>6
<1> QED BY <1>0, <1>1, <1>2

\* LoopGoesOn, the safety half of AcceptedUnlessBlocked, for any number of peers
\* and pieces: while one waits, the io thread can go on or its handler is held by
\* a peer that could still send or by the operator, and by nothing else
\* (server.cpp:83-109).
THEOREM LoopIsNeverStuck == AcceptSpec => []LoopGoesOn
BY AcceptInitially, AcceptStep, AcceptGoesOn, PTL DEF AcceptSpec

-----------------------------------------------------------------------------
(* Packages as text (PackageCodec) *)

\* What is left of a package when its messages have been taken out.
Emptied(p) == [p EXCEPT !.messages = <<>>]

\* Where the object, its text and the package are the same thing, and what was
\* asked for is on the way.
RelayInv ==
  /\ stage \in {"received", "parsed", "dispatched", "arrived", "dropped", "thrown",
                "written", "reread"}
  /\ original \in Object /\ asked \in BoundedSeq(Account, MaxTo) /\ writes \in 0 .. 2
  /\ stage = "received" => writes = 0 /\ (DOMAIN text = Key => text = original)
  /\ stage = "parsed" => writes = 0 /\ pack = Parse(original)
  /\ stage \in {"dispatched", "dropped"} => pack = Parse(original)
  /\ stage \in {"dispatched", "arrived"} => asked # <<>>
  /\ stage = "dispatched" => /\ IsChat(Parse(original))
                             /\ text = [to |-> Join(asked), msg |-> Write(Parse(original))]
  /\ stage = "arrived" => /\ IsChat(Parse(original)) /\ pack = Parse(Write(Parse(original)))
                          /\ to = Split(Join(asked))
  /\ stage = "written" => writes \in {1, 2} /\ pack = Emptied(Parse(original))
  /\ stage \in {"written", "reread"} =>
       text = Write(IF writes = 1 THEN Parse(original) ELSE Emptied(Parse(original)))
  /\ stage = "reread" => pack = Parse(text)

\* A number comes back from its text, whatever the number.
LEMMA NumeralIsRead == ASSUME NEW n PROVE Atoi(Numeral(n)) = n
  BY DEF Atoi, Numeral

\* A single character is read as a digit.
LEMMA CharacterIsRead == ASSUME NEW c PROVE Atoi(Character(c)) \in 0 .. 9
<1> DEFINE one == Character(c)
<1>1. one.kind = "character" /\ one.value = c
  BY DEF Character
<1> HIDE DEF one
<1>2. Atoi(one) = IF IsDigit(c) THEN c - 48 ELSE 0
  BY <1>1 DEF Atoi
<1>3. (IF IsDigit(c) THEN c - 48 ELSE 0) \in 0 .. 9
  BY DEF IsDigit
<1>4. Atoi(one) \in 0 .. 9
  BY <1>2, <1>3
<1> QED BY <1>4 DEF one

\* What a message says is not touched by reading and writing.
LEMMA MessagesComeBack ==
  ASSUME NEW o \in Object
  PROVE  ReadMessages(WriteMessages(ReadMessages(o.messages))) = Sent(o.messages)
<1> DEFINE m == o.messages
           r == ReadMessages(m)
           w == WriteMessages(r)
<1>1. \A i \in DOMAIN m : \E n \in Time : m[i] = Message(Numeral(n))
  BY DEF Object, BoundedSeq, SeqOf
<1>2. /\ DOMAIN r = DOMAIN m
      /\ \A i \in DOMAIN m : r[i] = [text |-> m[i].text, time |-> Atoi(m[i].time)]
  BY DEF ReadMessages
<1>3. /\ DOMAIN w = DOMAIN m
      /\ \A i \in DOMAIN m : w[i] = [text |-> r[i].text, time |-> Numeral(r[i].time)]
  BY <1>2 DEF WriteMessages
<1>4. \A i \in DOMAIN m : Atoi(w[i].time) = Atoi(m[i].time) /\ w[i].text = m[i].text
  <2> HIDE DEF r, w
  <2> SUFFICES ASSUME NEW i \in DOMAIN m
               PROVE  Atoi(w[i].time) = Atoi(m[i].time) /\ w[i].text = m[i].text
    OBVIOUS
  <2>1. r[i] = [text |-> m[i].text, time |-> Atoi(m[i].time)]
    BY <1>2
  <2>2. w[i] = [text |-> r[i].text, time |-> Numeral(r[i].time)]
    BY <1>3
  <2>3. w[i] = [text |-> m[i].text, time |-> Numeral(Atoi(m[i].time))]
    BY <2>1, <2>2
  <2>4. Atoi(Numeral(Atoi(m[i].time))) = Atoi(m[i].time)
    BY NumeralIsRead
  <2> QED BY <2>3, <2>4
<1>5. \A i \in DOMAIN m : m[i].text = "text" /\ Atoi(m[i].time) = m[i].time.value
  <2> SUFFICES ASSUME NEW i \in DOMAIN m
               PROVE  m[i].text = "text" /\ Atoi(m[i].time) = m[i].time.value
    OBVIOUS
  <2>1. PICK n \in Time : m[i] = Message(Numeral(n))
    BY <1>1
  <2>2. m[i].text = "text" /\ m[i].time = Numeral(n) /\ Numeral(n).value = n
    BY <2>1 DEF Message, Numeral
  <2> QED BY <2>2, NumeralIsRead
<1>6. ReadMessages(w) = [i \in DOMAIN m |-> [text |-> w[i].text, time |-> Atoi(w[i].time)]]
  BY <1>3 DEF ReadMessages
<1>7. ReadMessages(w) = [i \in DOMAIN m |-> [text |-> "text", time |-> m[i].time.value]]
  BY <1>4, <1>5, <1>6
<1> QED BY <1>7 DEF Sent, Message

\* What FlattenSeq returns is the last of the texts it puts together.
LEMMA Flattened ==
  ASSUME NEW q, Len(q) \in Nat \ {0}
  PROVE  \E f : /\ FlattenSeq(q) = f[Len(q)]
                /\ \A i \in 1 .. Len(q) : f[i] = IF i = 1 THEN q[i] ELSE f[i - 1] \o q[i]
<1> DEFINE Built(f, n) == f = [i \in 1 .. n |-> IF i = 1 THEN q[i] ELSE f[i - 1] \o q[i]]
           S == {n \in Nat : \E f : Built(f, n)}
<1>1. 0 \in S
  <2>1. Built(<<>>, 0)
    OBVIOUS
  <2> QED BY <2>1
<1>2. ASSUME NEW n \in Nat, n \in S PROVE n + 1 \in S
  <2>1. PICK f : Built(f, n)
    BY <1>2
  <2>2. \A i \in 1 .. n : f[i] = IF i = 1 THEN q[i] ELSE f[i - 1] \o q[i]
    BY <2>1
  <2> DEFINE g == [i \in 1 .. n + 1 |-> IF i <= n THEN f[i]
                                         ELSE IF i = 1 THEN q[i] ELSE f[i - 1] \o q[i]]
  <2>3. ASSUME NEW i \in 1 .. n + 1
        PROVE  g[i] = IF i = 1 THEN q[i] ELSE g[i - 1] \o q[i]
    <3>1. i # 1 => i - 1 \in 1 .. n /\ g[i - 1] = f[i - 1]
      OBVIOUS
    <3>2. CASE i <= n
      <4>1. i \in 1 .. n /\ g[i] = f[i]
        BY <3>2
      <4> QED BY <4>1, <3>1, <2>2
    <3>3. CASE ~(i <= n)
      BY <3>1, <3>3
    <3> QED BY <3>2, <3>3
  <2>4. Built(g, n + 1)
    <3>1. g = [i \in 1 .. n + 1 |-> g[i]]
      OBVIOUS
    <3> HIDE DEF g
    <3> QED BY <2>3, <3>1
  <2>5. \E h : Built(h, n + 1)
    <3> HIDE DEF g, Built
    <3> QED BY <2>4
  <2> HIDE DEF Built
  <2> QED BY <2>5
<1>3. Len(q) \in S
  <2> HIDE DEF S
  <2> QED BY <1>1, <1>2, InductiveSet
<1>4. \E f : Built(f, Len(q))
  BY <1>3
<1> DEFINE F == CHOOSE f : Built(f, Len(q))
<1>5. Built(F, Len(q))
  BY <1>4, Zenon
<1>6. FlattenSeq(q) = F[Len(q)]
  BY DEF FlattenSeq
<1>7. \A i \in 1 .. Len(q) : F[i] = IF i = 1 THEN q[i] ELSE F[i - 1] \o q[i]
  <2> HIDE DEF F
  <2> QED BY <1>5
<1> QED BY <1>6, <1>7

\* Recipients put together: each gives one part or more, so as many parts as
\* recipients come back just if each gives one.
LEMMA Joined ==
  ASSUME NEW q, Len(q) \in Nat \ {0},
         \A i \in 1 .. Len(q) : q[i] \in Seq(Part) /\ Len(q[i]) >= 1
  PROVE  LET list == Join(q)
             Single == \A i \in 1 .. Len(q) : Len(q[i]) = 1
         IN /\ list \in Seq(Part) /\ Len(list) >= Len(q)
            /\ Len(list) = Len(q) <=> Single
            /\ Single => \A i \in 1 .. Len(q) : list[i] = q[i][1]
<1>1. PICK f : /\ Join(q) = f[Len(q)]
               /\ \A i \in 1 .. Len(q) : f[i] = IF i = 1 THEN q[i] ELSE f[i - 1] \o q[i]
  BY Flattened DEF Join
<1> DEFINE Single(n) == \A i \in 1 .. n : Len(q[i]) = 1
           Good(n) == /\ f[n] \in Seq(Part) /\ Len(f[n]) >= n
                      /\ Len(f[n]) = n <=> Single(n)
                      /\ Single(n) => \A i \in 1 .. n : f[n][i] = q[i][1]
           S == {n \in Nat : n + 1 <= Len(q) => Good(n + 1)}
<1>2. 0 \in S
  <2>1. f[1] = q[1] /\ q[1] \in Seq(Part) /\ Len(q[1]) >= 1
    BY <1>1
  <2>2. Single(1) <=> Len(q[1]) = 1
    OBVIOUS
  <2>3. Good(1)
    BY <2>1, <2>2
  <2> QED BY <2>3
<1>3. ASSUME NEW n \in Nat, n \in S PROVE n + 1 \in S
  <2> SUFFICES ASSUME n + 2 <= Len(q) PROVE Good(n + 2)
    OBVIOUS
  <2> DEFINE m == n + 1
             p == f[m]
             r == q[m + 1]
  <2>1. m \in 1 .. Len(q) /\ m + 1 \in 1 .. Len(q) /\ n + 2 = m + 1 /\ m \in Nat
    OBVIOUS
  <2>2. Good(m)
    BY <1>3, <2>1
  <2>3. f[m + 1] = p \o r
    <3>1. (m + 1) - 1 = m /\ m + 1 # 1
      OBVIOUS
    <3> HIDE DEF m
    <3> QED BY <1>1, <2>1, <3>1
  <2>4. r \in Seq(Part) /\ Len(r) >= 1 /\ Len(r) \in Nat
    BY <2>1
  <2>5. p \in Seq(Part) /\ Len(p) >= m /\ Len(p) \in Nat
    BY <2>2
  <2>6. Single(m + 1) <=> Single(m) /\ Len(r) = 1
    BY <2>1
  <2>7. Len(p) = m <=> Single(m)
    BY <2>2
  <2>8. Single(m) => \A i \in 1 .. m : p[i] = q[i][1]
    BY <2>2
  <2> HIDE DEF m, p, r, Single
  <2>9. p \o r \in Seq(Part) /\ Len(p \o r) = Len(p) + Len(r)
    BY <2>4, <2>5
  <2>10. Len(p \o r) >= m + 1 /\ (Len(p \o r) = m + 1 <=> Single(m + 1))
    <3>1. \A a, b \in Nat : a >= m /\ b >= 1 =>
            a + b >= m + 1 /\ (a + b = m + 1 <=> a = m /\ b = 1)
      BY <2>1
    <3>2. Len(p) + Len(r) >= m + 1 /\ (Len(p) + Len(r) = m + 1 <=> Len(p) = m /\ Len(r) = 1)
      BY <2>4, <2>5, <3>1
    <3> QED BY <2>6, <2>7, <2>9, <3>2
  <2>11. ASSUME Single(m + 1), NEW i \in 1 .. m + 1 PROVE (p \o r)[i] = q[i][1]
    <3>1. Len(p) = m /\ Len(r) = 1
      BY <2>6, <2>7, <2>11
    <3>2. CASE i <= m
      <4>1. (p \o r)[i] = p[i]
        BY <2>1, <2>4, <2>5, <3>1, <3>2
      <4> QED BY <4>1, <2>1, <2>6, <2>8, <2>11, <3>2
    <3>3. CASE i = m + 1
      <4>1. (p \o r)[i] = r[1]
        <5>1. Len(p) + 1 \in 1 .. Len(p) + Len(r) /\ i = Len(p) + 1 /\ ~(i <= Len(p))
              /\ i - Len(p) = 1
          BY <2>1, <2>4, <2>5, <3>1, <3>3
        <5> QED BY <2>4, <2>5, <5>1, ConcatProperties
      <4> QED BY <4>1, <3>3 DEF r
    <3>4. i <= m \/ i = m + 1
      BY <2>1
    <3> QED BY <3>2, <3>3, <3>4
  <2> QED BY <2>1, <2>3, <2>9, <2>10, <2>11
<1>4. Good(Len(q))
  <2>1. Len(q) - 1 \in S
    <3> HIDE DEF S
    <3>1. Nat \subseteq S
      BY <1>2, <1>3, InductiveSet
    <3> QED BY <3>1
  <2> QED BY <2>1
<1> QED BY <1>1, <1>4

\* A package that is written and parsed again.
LEMMA ComesBack ==
  ASSUME NEW o \in Object, NEW p, p \in {Parse(o), Emptied(Parse(o))}
  PROVE  LET b == Parse(Write(p))
         IN /\ b.from = o.from /\ b.to = o.to /\ b.site_id = o.site_id.value
            /\ b.message_type = Short(o.message_type.value)
            /\ b.session_id = OneCharacter(Atoi(OneCharacter(Atoi(o.session_id))))
            /\ b.messages = IF p = Parse(o) THEN Sent(o.messages) ELSE <<>>
<1> DEFINE b == Parse(Write(p))
<1>1. /\ p.from = o.from /\ p.to = o.to /\ p.site_id = Atoi(o.site_id)
      /\ p.message_type = Atoi(o.message_type)
      /\ p.session_id = OneCharacter(Atoi(o.session_id))
      /\ p.messages = ReadMessages(o.messages) \/ p.messages = <<>>
      /\ p = Parse(o) => p.messages = ReadMessages(o.messages)
      /\ p # Parse(o) => p.messages = <<>>
  BY DEF Parse, Emptied
<1>2. /\ b.from = p.from /\ b.to = p.to /\ b.site_id = Atoi(Numeral(p.site_id))
      /\ b.message_type = Atoi(Numeral(Short(p.message_type)))
      /\ b.session_id = OneCharacter(Atoi(p.session_id))
      /\ b.messages = ReadMessages(WriteMessages(p.messages))
  BY DEF Parse, Write
<1>3. Atoi(o.site_id) = o.site_id.value /\ Atoi(o.message_type) = o.message_type.value
  BY DEF Object, Atoi, Numeral
<1>4. /\ Atoi(Numeral(p.site_id)) = p.site_id
      /\ Atoi(Numeral(Short(p.message_type))) = Short(p.message_type)
  BY NumeralIsRead
<1>5. ReadMessages(WriteMessages(<<>>)) = <<>>
  BY DEF ReadMessages, WriteMessages
<1>6. b.messages = IF p = Parse(o) THEN Sent(o.messages) ELSE <<>>
  BY <1>1, <1>2, <1>5, MessagesComeBack
<1> QED BY <1>1, <1>2, <1>3, <1>4, <1>6

LEMMA RelayNextStep == RelayInv /\ [RelayNext]_relayVars => RelayInv'
<1> SUFFICES ASSUME RelayInv, [RelayNext]_relayVars PROVE RelayInv'
  OBVIOUS
<1>0. original' = original /\ asked' = asked
  BY DEF RelayNext, Throw, Receive, Dispatch, Drop, Arrive, WriteOut, ReadBack, relayVars
<1>1. original' \in Object /\ asked' \in BoundedSeq(Account, MaxTo)
  BY <1>0 DEF RelayInv
<1>2. CASE Throw \/ Drop
  BY <1>0, <1>1, <1>2 DEF RelayInv, Throw, Drop
<1>3. CASE Receive
  BY <1>0, <1>1, <1>3 DEF RelayInv, Receive
<1>4. CASE Dispatch
  BY <1>0, <1>1, <1>4 DEF RelayInv, Dispatch
<1>5. CASE Arrive
  <2>1. /\ stage = "dispatched" /\ stage' = "arrived" /\ pack' = Parse(text.msg)
        /\ to' = Split(text.to) /\ UNCHANGED <<text, writes>>
    BY <1>5 DEF Arrive
  <2>2. text.msg = Write(Parse(original)) /\ text.to = Join(asked) /\ asked # <<>>
        /\ IsChat(Parse(original)) /\ writes \in 0 .. 2
    BY <2>1 DEF RelayInv
  <2>3. Split(Join(asked))' = Split(Join(asked))
    BY <1>0
  <2> QED BY <1>0, <1>1, <2>1, <2>2, <2>3 DEF RelayInv
<1>6. CASE WriteOut
  <2>1. /\ stage \in {"parsed", "written"} /\ stage' = "written" /\ writes < 2
        /\ text' = Write(pack) /\ pack' = Emptied(pack) /\ writes' = writes + 1
    BY <1>6 DEF WriteOut, Emptied
  <2>2. CASE stage = "parsed"
    <3>1. writes = 0 /\ writes' = 1 /\ pack = Parse(original)
      BY <2>1, <2>2 DEF RelayInv
    <3> QED BY <1>0, <1>1, <2>1, <3>1 DEF RelayInv
  <2>3. CASE stage = "written"
    <3>1. writes = 1 /\ writes' = 2 /\ pack = Emptied(Parse(original))
      BY <2>1, <2>3 DEF RelayInv
    <3>2. Emptied(Emptied(Parse(original))) = Emptied(Parse(original))
      BY DEF Emptied, Parse
    <3> QED BY <1>0, <1>1, <2>1, <3>1, <3>2 DEF RelayInv
  <2> QED BY <2>1, <2>2, <2>3
<1>7. CASE ReadBack
  <2>1. /\ stage = "written" /\ stage' = "reread" /\ pack' = Parse(text)
        /\ UNCHANGED <<text, writes>>
    BY <1>7 DEF ReadBack
  <2> QED BY <1>0, <1>1, <2>1 DEF RelayInv
<1>8. CASE UNCHANGED relayVars
  BY <1>8 DEF RelayInv, relayVars
<1> QED BY <1>2, <1>3, <1>4, <1>5, <1>6, <1>7, <1>8 DEF RelayNext

LEMMA RelayInitially == RelayInit => RelayInv
<1> SUFFICES ASSUME RelayInit PROVE RelayInv
  OBVIOUS
<1>1. /\ original \in Object /\ asked \in BoundedSeq(Account, MaxTo)
      /\ stage = "received" /\ writes = 0
  BY DEF RelayInit
<1>2. DOMAIN text = Key => text = original
  BY DEF RelayInit
<1> QED BY <1>1, <1>2 DEF RelayInv

LEMMA RelaySteps == RelaySpec => []RelayInv
BY RelayInitially, RelayNextStep, PTL DEF RelaySpec

\* PackageComesBack, for all objects and any number of messages.
THEOREM PackagesComeBack == RelaySpec => []PackageComesBack
<1>1. RelayInv => PackageComesBack
  <2> SUFFICES ASSUME RelayInv, stage = "reread", writes = 1 PROVE PackageComesBack
    BY DEF PackageComesBack
  <2> DEFINE b == Parse(Write(Parse(original)))
  <2>1. pack = b /\ original \in Object
    BY DEF RelayInv
  <2>2. /\ b["from"] = original["from"] /\ b["to"] = original["to"]
        /\ b.site_id = original.site_id.value
        /\ b.messages = Sent(original.messages)
    BY <2>1, ComesBack
  <2> HIDE DEF b
  <2> QED BY <2>1, <2>2 DEF PackageComesBack
<1> QED BY <1>1, RelaySteps, PTL

\* Recipients put into one text and taken apart again.
LEMMA Rejoined ==
  ASSUME NEW q \in BoundedSeq(Account, MaxTo), q # <<>>
  PROVE  LET back == Split(Join(q))
         IN /\ back # <<>> /\ \A i \in DOMAIN back : Len(back[i]) = 1
            /\ back = q <=> \A i \in DOMAIN q : Len(q[i]) = 1
<1> DEFINE list == Join(q)
           back == Split(list)
           Single == \A i \in 1 .. Len(q) : Len(q[i]) = 1
<1>1. PICK n \in 0 .. MaxTo : q \in [1 .. n -> Account]
  BY DEF BoundedSeq, SeqOf
<1>2. n \in Nat \ {0} /\ DOMAIN q = 1 .. n /\ Len(q) = n
  <2>1. n \in Nat
    BY <1>1, PackageAssumption
  <2>2. n # 0
    BY <1>1
  <2> QED BY <1>1, <2>1, <2>2
<1>3. ASSUME NEW i \in 1 .. n PROVE q[i] \in Seq(Part) /\ Len(q[i]) >= 1
  <2>1. PICK m \in 1 .. MaxParts : q[i] \in [1 .. m -> Part]
    <3>1. q[i] \in Account
      BY <1>1, Zenon
    <3> QED BY <3>1, Zenon DEF Account
  <2>2. m \in Nat /\ m >= 1
    BY PackageAssumption
  <2> QED BY <2>1, <2>2
<1>4. /\ list \in Seq(Part) /\ Len(list) >= n
      /\ Len(list) = n <=> Single
      /\ Single => \A i \in 1 .. n : list[i] = q[i][1]
  BY <1>2, <1>3, Joined
<1> HIDE DEF list
<1>5. DOMAIN list = 1 .. Len(list) /\ Len(list) \in Nat
  BY <1>4
<1>6. back = [i \in 1 .. Len(list) |-> <<list[i]>>]
  BY <1>5 DEF Split
<1>7. back # <<>> /\ \A i \in DOMAIN back : Len(back[i]) = 1
  <2>1. DOMAIN back = 1 .. Len(list) /\ 1 \in 1 .. Len(list)
    <3>1. DOMAIN back = 1 .. Len(list)
      BY <1>6
    <3> DEFINE l == Len(list)
    <3>2. l \in Nat /\ l >= n
      BY <1>4, <1>5, Zenon
    <3> HIDE DEF l
    <3>3. 1 \in 1 .. l
      BY <1>2, <3>2
    <3> QED BY <3>1, <3>3, Zenon DEF l
  <2>2. \A i \in DOMAIN back : back[i] = <<list[i]>>
    BY <1>6
  <2> HIDE DEF back
  <2>3. \A i \in DOMAIN back : Len(back[i]) = 1
    BY <2>2
  <2>4. DOMAIN <<>> = {}
    OBVIOUS
  <2> QED BY <2>1, <2>3, <2>4
<1>8. ASSUME Single PROVE back = q
  <2>1. Len(list) = n /\ \A i \in 1 .. n : list[i] = q[i][1]
    BY <1>4, <1>8
  <2>2. \A i \in 1 .. n : q[i] = <<q[i][1]>>
    BY <1>2, <1>3, <1>8
  <2>3. q = [i \in 1 .. n |-> q[i]]
    BY <1>1
  <2> QED BY <1>6, <2>1, <2>2, <2>3
<1>9. ASSUME back = q PROVE Single
  BY <1>2, <1>7, <1>9
<1>10. Single <=> \A i \in DOMAIN q : Len(q[i]) = 1
  BY <1>2
<1>11. back = q <=> \A i \in DOMAIN q : Len(q[i]) = 1
  <2> HIDE DEF back, Single
  <2> QED BY <1>8, <1>9, <1>10
<1> QED BY <1>7, <1>11 DEF list

\* ArrivesAsSent, for all objects, and any number of messages and of recipients:
\* what the dispatcher parses is what the peer sent (mesage_processor.cpp:77-123).
THEOREM PackagesArrive == RelaySpec => []ArrivesAsSent
<1>1. RelayInv => ArrivesAsSent
  <2> SUFFICES ASSUME RelayInv, stage = "arrived" PROVE ArrivesAsSent
    BY DEF ArrivesAsSent
  <2> DEFINE b == Parse(Write(Parse(original)))
             id == Atoi(OneCharacter(Atoi(original.session_id)))
  <2>1. pack = b /\ original \in Object /\ IsChat(Parse(original))
    BY DEF RelayInv
  <2>2. /\ b.from = original.from /\ b.to = original.to
        /\ b.site_id = original.site_id.value
        /\ b.message_type = Short(original.message_type.value)
        /\ b.session_id = OneCharacter(id)
        /\ b.messages = Sent(original.messages)
    BY <2>1, ComesBack
  <2>3. original.message_type.value \in {1, 2}
    <3>1. Atoi(original.message_type) = original.message_type.value
      BY <2>1 DEF Object, Atoi, Numeral
    <3>2. Parse(original).message_type = Atoi(original.message_type)
      BY DEF Parse
    <3> QED BY <2>1, <3>1, <3>2 DEF IsChat, waiter_to_client, client_to_waiter
  <2>4. Short(original.message_type.value) = original.message_type.value
    BY <2>3 DEF Short
  <2>5. id \in 0 .. 9
    <3>1. PICK c : OneCharacter(Atoi(original.session_id)) = Character(c)
      BY DEF OneCharacter
    <3>2. Atoi(Character(c)) \in 0 .. 9
      BY CharacterIsRead
    <3> QED BY <3>1, <3>2
  <2>6. OneCharacter(id).value \in 0 .. 9
    <3> HIDE DEF id
    <3> QED BY <2>5 DEF OneCharacter, Character
  <2>7. b["from"] = original["from"] /\ b["to"] = original["to"]
    BY <2>2
  <2>8. to = asked <=> \A i \in DOMAIN asked : Len(asked[i]) = 1
    <3>1. to = Split(Join(asked)) /\ asked # <<>> /\ asked \in BoundedSeq(Account, MaxTo)
      BY DEF RelayInv
    <3> QED BY <3>1, Rejoined
  <2> HIDE DEF b, id
  <2> QED BY <2>1, <2>2, <2>4, <2>6, <2>7, <2>8 DEF ArrivesAsSent
<1> QED BY <1>1, RelaySteps, PTL

-----------------------------------------------------------------------------
(* base64 (Encoding) *)

ASCII == 0 .. 127

\* The pieces of a byte that go into an index, from its bits; the highest bit is 0.
LEMMA BitsOfByte ==
  ASSUME NEW a \in ASCII
  PROVE  /\ 32 * ((a \div 128) % 2) + 16 * ((a \div 64) % 2) + 8 * ((a \div 32) % 2)
             + 4 * ((a \div 16) % 2) + 2 * ((a \div 8) % 2) + ((a \div 4) % 2) = a \div 4
         /\ 32 * ((a \div 2) % 2) + 16 * (a % 2) = (a % 4) * 16
         /\ 8 * ((a \div 128) % 2) + 4 * ((a \div 64) % 2) + 2 * ((a \div 32) % 2)
             + ((a \div 16) % 2) = a \div 16
         /\ 32 * ((a \div 8) % 2) + 16 * ((a \div 4) % 2) + 8 * ((a \div 2) % 2)
             + 4 * (a % 2) = (a % 16) * 4
         /\ 2 * ((a \div 128) % 2) + ((a \div 64) % 2) = a \div 64
         /\ 32 * ((a \div 32) % 2) + 16 * ((a \div 16) % 2) + 8 * ((a \div 8) % 2)
             + 4 * ((a \div 4) % 2) + 2 * ((a \div 2) % 2) + (a % 2) = a % 64
  BY DEF ASCII

LEMMA AtIsByte == ASSUME NEW s \in Seq(ASCII), NEW i \in Nat PROVE At(s, i) \in ASCII
<1>1. CASE i < Len(s)
  <2>1. i + 1 \in 1 .. Len(s) /\ At(s, i) = s[i + 1]
    BY <1>1 DEF At
  <2>2. s[i + 1] \in ASCII
    BY <2>1
  <2> QED BY <2>1, <2>2
<1>2. CASE ~(i < Len(s))
  BY <1>2 DEF At, ASCII
<1> QED BY <1>1, <1>2

\* The bits of one byte.
LEMMA BitsAre ==
  ASSUME NEW s \in Seq(ASCII), NEW i \in Nat
  PROVE  LET a == At(s, i)
         IN /\ Bit(s, 8 * i) = (a \div 128) % 2 /\ Bit(s, 8 * i + 1) = (a \div 64) % 2
            /\ Bit(s, 8 * i + 2) = (a \div 32) % 2 /\ Bit(s, 8 * i + 3) = (a \div 16) % 2
            /\ Bit(s, 8 * i + 4) = (a \div 8) % 2 /\ Bit(s, 8 * i + 5) = (a \div 4) % 2
            /\ Bit(s, 8 * i + 6) = (a \div 2) % 2 /\ Bit(s, 8 * i + 7) = a % 2
<1>1. /\ Weight[1] = 128 /\ Weight[2] = 64 /\ Weight[3] = 32 /\ Weight[4] = 16
      /\ Weight[5] = 8 /\ Weight[6] = 4 /\ Weight[7] = 2 /\ Weight[8] = 1
  BY DEF Weight
<1>2. /\ (8 * i) \div 8 = i /\ ((8 * i) % 8) + 1 = 1
      /\ (8 * i + 1) \div 8 = i /\ ((8 * i + 1) % 8) + 1 = 2
      /\ (8 * i + 2) \div 8 = i /\ ((8 * i + 2) % 8) + 1 = 3
      /\ (8 * i + 3) \div 8 = i /\ ((8 * i + 3) % 8) + 1 = 4
      /\ (8 * i + 4) \div 8 = i /\ ((8 * i + 4) % 8) + 1 = 5
      /\ (8 * i + 5) \div 8 = i /\ ((8 * i + 5) % 8) + 1 = 6
      /\ (8 * i + 6) \div 8 = i /\ ((8 * i + 6) % 8) + 1 = 7
      /\ (8 * i + 7) \div 8 = i /\ ((8 * i + 7) % 8) + 1 = 8
  OBVIOUS
<1> DEFINE a == At(s, i)
<1>3. a \in 0 .. 127
  BY AtIsByte DEF ASCII
<1>4. Bit(s, 8 * i) = (a \div 128) % 2 /\ Bit(s, 8 * i + 1) = (a \div 64) % 2
  BY <1>1, <1>2, Zenon DEF Bit
<1>5. Bit(s, 8 * i + 2) = (a \div 32) % 2 /\ Bit(s, 8 * i + 3) = (a \div 16) % 2
  BY <1>1, <1>2, Zenon DEF Bit
<1>6. Bit(s, 8 * i + 4) = (a \div 8) % 2 /\ Bit(s, 8 * i + 5) = (a \div 4) % 2
  BY <1>1, <1>2, Zenon DEF Bit
<1>7. Bit(s, 8 * i + 6) = (a \div 2) % 2 /\ Bit(s, 8 * i + 7) = (a \div 1) % 2
  BY <1>1, <1>2, Zenon DEF Bit
<1>8. a \div 1 = a
  <2> HIDE DEF a
  <2> QED BY <1>3
<1> QED BY <1>4, <1>5, <1>6, <1>7, <1>8

\* Four indices at a time.
LEMMA SextetsAre ==
  ASSUME NEW s \in Seq(ASCII), NEW k \in Nat
  PROVE  /\ Sextet(s, 4 * k) = At(s, 3 * k) \div 4
         /\ Sextet(s, 4 * k + 1) = (At(s, 3 * k) % 4) * 16 + At(s, 3 * k + 1) \div 16
         /\ Sextet(s, 4 * k + 2) = (At(s, 3 * k + 1) % 16) * 4 + At(s, 3 * k + 2) \div 64
         /\ Sextet(s, 4 * k + 3) = At(s, 3 * k + 2) % 64
<1> DEFINE a == At(s, 3 * k)
           b == At(s, 3 * k + 1)
           c == At(s, 3 * k + 2)
<1>1. a \in ASCII /\ b \in ASCII /\ c \in ASCII
  BY AtIsByte
<1>2. /\ Bit(s, 24 * k) = (a \div 128) % 2 /\ Bit(s, 24 * k + 1) = (a \div 64) % 2
      /\ Bit(s, 24 * k + 2) = (a \div 32) % 2 /\ Bit(s, 24 * k + 3) = (a \div 16) % 2
      /\ Bit(s, 24 * k + 4) = (a \div 8) % 2 /\ Bit(s, 24 * k + 5) = (a \div 4) % 2
      /\ Bit(s, 24 * k + 6) = (a \div 2) % 2 /\ Bit(s, 24 * k + 7) = a % 2
  <2> DEFINE i == 3 * k
  <2>1. i \in Nat /\ 8 * i = 24 * k
    OBVIOUS
  <2> HIDE DEF i
  <2>2. a = At(s, i)
    BY DEF i
  <2> QED BY <2>1, <2>2, BitsAre
<1>3. /\ Bit(s, 24 * k + 8) = (b \div 128) % 2 /\ Bit(s, 24 * k + 9) = (b \div 64) % 2
      /\ Bit(s, 24 * k + 10) = (b \div 32) % 2 /\ Bit(s, 24 * k + 11) = (b \div 16) % 2
      /\ Bit(s, 24 * k + 12) = (b \div 8) % 2 /\ Bit(s, 24 * k + 13) = (b \div 4) % 2
      /\ Bit(s, 24 * k + 14) = (b \div 2) % 2 /\ Bit(s, 24 * k + 15) = b % 2
  <2> DEFINE i == 3 * k + 1
  <2>1. /\ i \in Nat /\ 8 * i = 24 * k + 8 /\ 8 * i + 1 = 24 * k + 9 /\ 8 * i + 2 = 24 * k + 10
        /\ 8 * i + 3 = 24 * k + 11 /\ 8 * i + 4 = 24 * k + 12 /\ 8 * i + 5 = 24 * k + 13
        /\ 8 * i + 6 = 24 * k + 14 /\ 8 * i + 7 = 24 * k + 15
    OBVIOUS
  <2> HIDE DEF i
  <2>2. b = At(s, i)
    BY DEF i
  <2> QED BY <2>1, <2>2, BitsAre
<1>4. /\ Bit(s, 24 * k + 16) = (c \div 128) % 2 /\ Bit(s, 24 * k + 17) = (c \div 64) % 2
      /\ Bit(s, 24 * k + 18) = (c \div 32) % 2 /\ Bit(s, 24 * k + 19) = (c \div 16) % 2
      /\ Bit(s, 24 * k + 20) = (c \div 8) % 2 /\ Bit(s, 24 * k + 21) = (c \div 4) % 2
      /\ Bit(s, 24 * k + 22) = (c \div 2) % 2 /\ Bit(s, 24 * k + 23) = c % 2
  <2> DEFINE i == 3 * k + 2
  <2>1. /\ i \in Nat /\ 8 * i = 24 * k + 16 /\ 8 * i + 1 = 24 * k + 17 /\ 8 * i + 2 = 24 * k + 18
        /\ 8 * i + 3 = 24 * k + 19 /\ 8 * i + 4 = 24 * k + 20 /\ 8 * i + 5 = 24 * k + 21
        /\ 8 * i + 6 = 24 * k + 22 /\ 8 * i + 7 = 24 * k + 23
    OBVIOUS
  <2> HIDE DEF i
  <2>2. c = At(s, i)
    BY DEF i
  <2> QED BY <2>1, <2>2, BitsAre
<1> HIDE DEF a, b, c
<1>5. Sextet(s, 4 * k) = a \div 4
  <2>1. 6 * (4 * k) = 24 * k
    OBVIOUS
  <2> QED BY <1>1, <1>2, <2>1, BitsOfByte DEF Sextet
<1>6. Sextet(s, 4 * k + 1) = (a % 4) * 16 + b \div 16
  <2> DEFINE j == 4 * k + 1
  <2>1. /\ 6 * j = 24 * k + 6 /\ 6 * j + 1 = 24 * k + 7 /\ 6 * j + 2 = 24 * k + 8
        /\ 6 * j + 3 = 24 * k + 9 /\ 6 * j + 4 = 24 * k + 10 /\ 6 * j + 5 = 24 * k + 11
    OBVIOUS
  <2> HIDE DEF j
  <2>2. Sextet(s, j) = 32 * ((a \div 2) % 2) + 16 * (a % 2) + 8 * ((b \div 128) % 2)
                        + 4 * ((b \div 64) % 2) + 2 * ((b \div 32) % 2) + ((b \div 16) % 2)
    BY <1>2, <1>3, <2>1 DEF Sextet
  <2>3. /\ 32 * ((a \div 2) % 2) + 16 * (a % 2) = (a % 4) * 16
        /\ 8 * ((b \div 128) % 2) + 4 * ((b \div 64) % 2) + 2 * ((b \div 32) % 2)
             + ((b \div 16) % 2) = b \div 16
    BY <1>1, BitsOfByte
  <2>4. Sextet(s, j) = (a % 4) * 16 + b \div 16
    BY <1>1, <2>2, <2>3 DEF ASCII
  <2> QED BY <2>4 DEF j
<1>7. Sextet(s, 4 * k + 2) = (b % 16) * 4 + c \div 64
  <2> DEFINE j == 4 * k + 2
  <2>1. /\ 6 * j = 24 * k + 12 /\ 6 * j + 1 = 24 * k + 13 /\ 6 * j + 2 = 24 * k + 14
        /\ 6 * j + 3 = 24 * k + 15 /\ 6 * j + 4 = 24 * k + 16 /\ 6 * j + 5 = 24 * k + 17
    OBVIOUS
  <2> HIDE DEF j
  <2>2. Sextet(s, j) = 32 * ((b \div 8) % 2) + 16 * ((b \div 4) % 2) + 8 * ((b \div 2) % 2)
                        + 4 * (b % 2) + 2 * ((c \div 128) % 2) + ((c \div 64) % 2)
    BY <1>3, <1>4, <2>1 DEF Sextet
  <2>3. /\ 32 * ((b \div 8) % 2) + 16 * ((b \div 4) % 2) + 8 * ((b \div 2) % 2)
             + 4 * (b % 2) = (b % 16) * 4
        /\ 2 * ((c \div 128) % 2) + ((c \div 64) % 2) = c \div 64
    BY <1>1, BitsOfByte
  <2>4. Sextet(s, j) = (b % 16) * 4 + c \div 64
    BY <1>1, <2>2, <2>3 DEF ASCII
  <2> QED BY <2>4 DEF j
<1>8. Sextet(s, 4 * k + 3) = c % 64
  <2> DEFINE j == 4 * k + 3
  <2>1. /\ 6 * j = 24 * k + 18 /\ 6 * j + 1 = 24 * k + 19 /\ 6 * j + 2 = 24 * k + 20
        /\ 6 * j + 3 = 24 * k + 21 /\ 6 * j + 4 = 24 * k + 22 /\ 6 * j + 5 = 24 * k + 23
    OBVIOUS
  <2> HIDE DEF j
  <2>2. Sextet(s, j) = 32 * ((c \div 32) % 2) + 16 * ((c \div 16) % 2) + 8 * ((c \div 8) % 2)
                        + 4 * ((c \div 4) % 2) + 2 * ((c \div 2) % 2) + (c % 2)
    BY <1>4, <2>1 DEF Sextet
  <2>3. Sextet(s, j) = c % 64
    BY <1>1, <2>2, BitsOfByte
  <2> QED BY <2>3 DEF j
<1> QED BY <1>5, <1>6, <1>7, <1>8 DEF a, b, c

\* What the index into enkey is, is the next six bits.
LEMMA IndexIsSextet ==
  ASSUME NEW s \in Seq(ASCII), NEW j \in Nat
  PROVE  /\ Four(s, 3 * (j \div 4))[(j % 4) + 1] = Sextet(s, j)
         /\ Sextet(s, j) \in Int
<1> DEFINE k == j \div 4
<1>1. /\ k \in Nat /\ j % 4 \in 0 .. 3 /\ j = 4 * k + (j % 4)
      /\ 3 * k \in Nat /\ 3 * k + 1 \in Nat /\ 3 * k + 2 \in Nat
  OBVIOUS
<1> HIDE DEF k
<1>2. /\ At(s, 3 * k) \in ASCII /\ At(s, 3 * k + 1) \in ASCII /\ At(s, 3 * k + 2) \in ASCII
  BY <1>1, AtIsByte
<1>3. /\ Four(s, 3 * k)[1] = Sextet(s, 4 * k) /\ Four(s, 3 * k)[2] = Sextet(s, 4 * k + 1)
      /\ Four(s, 3 * k)[3] = Sextet(s, 4 * k + 2) /\ Four(s, 3 * k)[4] = Sextet(s, 4 * k + 3)
  BY <1>1, SextetsAre DEF Four
<1>4. /\ Sextet(s, 4 * k) \in Int /\ Sextet(s, 4 * k + 1) \in Int
      /\ Sextet(s, 4 * k + 2) \in Int /\ Sextet(s, 4 * k + 3) \in Int
  <2> DEFINE a == At(s, 3 * k)
             b == At(s, 3 * k + 1)
             c == At(s, 3 * k + 2)
  <2>1. a \in 0 .. 127 /\ b \in 0 .. 127 /\ c \in 0 .. 127
    BY <1>2 DEF ASCII
  <2>2. /\ Sextet(s, 4 * k) = a \div 4 /\ Sextet(s, 4 * k + 1) = (a % 4) * 16 + b \div 16
        /\ Sextet(s, 4 * k + 2) = (b % 16) * 4 + c \div 64 /\ Sextet(s, 4 * k + 3) = c % 64
    BY <1>1, SextetsAre
  <2> HIDE DEF a, b, c
  <2>3. /\ a \div 4 \in Int /\ (a % 4) * 16 + b \div 16 \in Int
        /\ (b % 16) * 4 + c \div 64 \in Int /\ c % 64 \in Int
    BY <2>1
  <2> QED BY <2>2, <2>3
<1>5. CASE j % 4 = 0
  <2>1. (j % 4) + 1 = 1 /\ j = 4 * k
    BY <1>1, <1>5
  <2> QED BY <1>3, <1>4, <2>1 DEF k
<1>6. CASE j % 4 = 1
  <2>1. (j % 4) + 1 = 2 /\ j = 4 * k + 1
    BY <1>1, <1>6
  <2> QED BY <1>3, <1>4, <2>1 DEF k
<1>7. CASE j % 4 = 2
  <2>1. (j % 4) + 1 = 3 /\ j = 4 * k + 2
    BY <1>1, <1>7
  <2> QED BY <1>3, <1>4, <2>1 DEF k
<1>8. CASE j % 4 = 3
  <2>1. (j % 4) + 1 = 4 /\ j = 4 * k + 3
    BY <1>1, <1>8
  <2> QED BY <1>3, <1>4, <2>1 DEF k
<1> QED BY <1>1, <1>5, <1>6, <1>7, <1>8

\* The rounds are the whole groups of three bytes, for all lengths.
LEMMA RoundsAre ==
  ASSUME NEW n \in Nat
  PROVE  /\ Rounds(n) = n \div 3
         /\ Ceil(n, 3) = n \div 3 + (IF n % 3 = 0 THEN 0 ELSE 1)
         /\ Ceil(8 * n, 6) = 4 * (n \div 3) + (IF n % 3 = 0 THEN 0 ELSE (n % 3) + 1)
<1>1. CASE n % 3 = 0
  BY <1>1 DEF Rounds, Loop, Ceil
<1>2. CASE n % 3 = 1
  BY <1>2 DEF Rounds, Loop, Ceil
<1>3. CASE n % 3 = 2
  BY <1>3 DEF Rounds, Loop, Ceil
<1> QED BY <1>1, <1>2, <1>3

\* A text of any length, and its four cases: the rounds, and what the switch adds.
LEMMA EncodesText ==
  ASSUME NEW s \in Seq(ASCII)
  PROVE  Base64(s) = Standard(s) /\ Len(Standard(s)) + 1 <= Buffer(Len(s))
<1> DEFINE n == Len(s)
           q == n \div 3
           X(j) == Sextet(s, j)
           whole == [j \in 1 .. 4 * q |-> X(j - 1)]
           last == Four(s, 3 * q)
<1>1. n \in Nat /\ q \in Nat /\ n % 3 \in 0 .. 2 /\ n = 3 * q + (n % 3)
  OBVIOUS
<1>2. /\ Rounds(n) = q
      /\ Ceil(n, 3) = q + (IF n % 3 = 0 THEN 0 ELSE 1)
      /\ Ceil(8 * n, 6) = 4 * q + (IF n % 3 = 0 THEN 0 ELSE (n % 3) + 1)
  BY <1>1, RoundsAre
<1>3. \A j \in Nat : X(j) \in Int /\ Four(s, 3 * (j \div 4))[(j % 4) + 1] = X(j)
  BY IndexIsSextet
<1>4. /\ last[1] = X(4 * q) /\ last[2] = X(4 * q + 1) /\ last[3] = X(4 * q + 2)
  BY <1>1, SextetsAre DEF Four
<1> HIDE DEF n, q, X
<1>5. whole = [j \in 1 .. 4 * q |-> Four(s, 3 * ((j - 1) \div 4))[((j - 1) % 4) + 1]]
  <2>1. \A j \in 1 .. 4 * q : j - 1 \in Nat
    BY <1>1
  <2>2. \A j \in 1 .. 4 * q : Four(s, 3 * ((j - 1) \div 4))[((j - 1) % 4) + 1] = X(j - 1)
    BY <1>3, <2>1
  <2> QED BY <2>2
<1>6. Base64(s) = whole \o Rest(s)
  BY <1>2, <1>5 DEF Base64, n
<1>7. whole \in Seq(Int) /\ Len(whole) = 4 * q
  <2>1. \A j \in 1 .. 4 * q : X(j - 1) \in Int
    BY <1>1, <1>3
  <2> QED BY <1>1, <2>1
<1> HIDE DEF whole
<1>8. \A j \in 1 .. 4 * q : whole[j] = X(j - 1)
  BY DEF whole
<1>9. Standard(s) = [j \in 1 .. 4 * Ceil(n, 3) |-> IF j <= Ceil(8 * n, 6) THEN X(j - 1) ELSE 64]
  BY DEF Standard, Equals, n, X
<1>10. Rest(s) = CASE n % 3 = 0 -> <<>>
                   [] n % 3 = 1 -> <<last[1], last[2], 64, 64>>
                   [] n % 3 = 2 -> <<last[1], last[2], last[3], 64>>
  BY <1>2 DEF Rest, Equals, n
<1>11. X(4 * q) \in Int /\ X(4 * q + 1) \in Int /\ X(4 * q + 2) \in Int
  <2>1. 4 * q \in Nat /\ 4 * q + 1 \in Nat /\ 4 * q + 2 \in Nat
    BY <1>1
  <2> QED BY <1>3, <2>1
<1> HIDE DEF last
<1> DEFINE WithLast(a, b, c, d) == whole \o <<a, b, c, d>>
           Ends(e, a, b, c, d) ==
             /\ e \in Seq(Int) /\ Len(e) = 4 * q + 4
             /\ \A i \in 1 .. 4 * q : e[i] = whole[i]
             /\ e[4 * q + 1] = a /\ e[4 * q + 2] = b /\ e[4 * q + 3] = c /\ e[4 * q + 4] = d
<1>12. \A a, b, c, d \in Int : Ends(WithLast(a, b, c, d), a, b, c, d)
  <2> SUFFICES ASSUME NEW a \in Int, NEW b \in Int, NEW c \in Int, NEW d \in Int
               PROVE  Ends(WithLast(a, b, c, d), a, b, c, d)
    OBVIOUS
  <2> DEFINE e == WithLast(a, b, c, d)
  <2> DEFINE four == <<a, b, c, d>>
  <2>1. four \in Seq(Int) /\ Len(four) = 4 /\ four[1] = a /\ four[2] = b /\ four[3] = c /\ four[4] = d
    OBVIOUS
  <2>2. e = whole \o four
    OBVIOUS
  <2> HIDE DEF four, e
  <2>3. /\ e \in Seq(Int) /\ Len(e) = 4 * q + 4
        /\ \A i \in 1 .. 4 * q + 4 : e[i] = IF i <= 4 * q THEN whole[i] ELSE four[i - 4 * q]
    <3>1. /\ e \in Seq(Int) /\ Len(e) = Len(whole) + Len(four)
          /\ \A i \in 1 .. Len(whole) + Len(four) :
               e[i] = IF i <= Len(whole) THEN whole[i] ELSE four[i - Len(whole)]
      BY <1>7, <2>1, <2>2, ConcatProperties
    <3> QED BY <1>7, <2>1, <3>1
  <2>4. \A i \in 1 .. 4 * q : i \in 1 .. 4 * q + 4 /\ i <= 4 * q
    BY <1>1
  <2>5. /\ e[4 * q + 1] = four[1] /\ e[4 * q + 2] = four[2] /\ e[4 * q + 3] = four[3]
        /\ e[4 * q + 4] = four[4]
    BY <1>1, <2>3
  <2>6. Ends(e, a, b, c, d)
    BY <2>1, <2>3, <2>4, <2>5
  <2> QED BY <2>6 DEF e
<1> HIDE DEF WithLast
<1>13. CASE n % 3 = 0
  <2>1. Standard(s) = [j \in 1 .. 4 * q |-> IF j <= 4 * q THEN X(j - 1) ELSE 64]
    BY <1>1, <1>2, <1>9, <1>13
  <2>2. Standard(s) = whole
    BY <1>1, <2>1 DEF whole
  <2>3. Base64(s) = whole
    BY <1>6, <1>7, <1>10, <1>13
  <2>4. 4 * q + 1 <= Buffer(n)
    BY <1>1, <1>13 DEF Buffer
  <2> QED BY <1>7, <2>2, <2>3, <2>4 DEF n
<1>14. CASE n % 3 = 1
  <2>1. Standard(s) = [j \in 1 .. 4 * q + 4 |-> IF j <= 4 * q + 2 THEN X(j - 1) ELSE 64]
    BY <1>1, <1>2, <1>9, <1>14
  <2>2. Base64(s) = WithLast(X(4 * q), X(4 * q + 1), 64, 64)
    BY <1>4, <1>6, <1>10, <1>14 DEF WithLast
  <2>3. /\ Base64(s) \in Seq(Int) /\ Len(Base64(s)) = 4 * q + 4
        /\ \A i \in 1 .. 4 * q : Base64(s)[i] = whole[i]
        /\ Base64(s)[4 * q + 1] = X(4 * q) /\ Base64(s)[4 * q + 2] = X(4 * q + 1)
        /\ Base64(s)[4 * q + 3] = 64 /\ Base64(s)[4 * q + 4] = 64
    <3>1. Ends(Base64(s), X(4 * q), X(4 * q + 1), 64, 64)
      <4> HIDE DEF Ends
      <4>1. 64 \in Int
        OBVIOUS
      <4> QED BY <1>11, <1>12, <2>2, <4>1
    <3> QED BY <3>1
  <2>4. Base64(s) = Standard(s)
    <3>1. \A j \in 1 .. 4 * q + 4 : Base64(s)[j] = IF j <= 4 * q + 2 THEN X(j - 1) ELSE 64
      <4> SUFFICES ASSUME NEW j \in 1 .. 4 * q + 4
                   PROVE  Base64(s)[j] = IF j <= 4 * q + 2 THEN X(j - 1) ELSE 64
        OBVIOUS
      <4>1. CASE j \in 1 .. 4 * q
        BY <1>1, <1>8, <2>3, <4>1
      <4>2. CASE j \in {4 * q + 1, 4 * q + 2, 4 * q + 3, 4 * q + 4}
        <5>1. /\ (4 * q + 1) - 1 = 4 * q /\ (4 * q + 2) - 1 = 4 * q + 1
              /\ (4 * q + 3) - 1 = 4 * q + 2
          BY <1>1
        <5>2. CASE j = 4 * q + 1
          BY <1>1, <2>3, <5>1, <5>2
        <5>3. CASE j = 4 * q + 2
          BY <1>1, <2>3, <5>1, <5>3
        <5>4. CASE j = 4 * q + 3
          BY <1>1, <2>3, <5>1, <5>4
        <5>5. CASE j = 4 * q + 4
          BY <1>1, <2>3, <5>5
        <5> QED BY <4>2, <5>2, <5>3, <5>4, <5>5
      <4> QED BY <1>1, <4>1, <4>2
    <3>2. Base64(s) = [j \in 1 .. 4 * q + 4 |-> Base64(s)[j]]
      BY <2>3
    <3> QED BY <2>1, <3>1, <3>2
  <2>5. Len(Standard(s)) = 4 * q + 4
    BY <1>1, <2>1
  <2>6. 4 * q + 5 <= Buffer(n)
    BY <1>1, <1>14 DEF Buffer
  <2> QED BY <2>4, <2>5, <2>6, <1>1 DEF n
<1>15. CASE n % 3 = 2
  <2>1. Standard(s) = [j \in 1 .. 4 * q + 4 |-> IF j <= 4 * q + 3 THEN X(j - 1) ELSE 64]
    BY <1>1, <1>2, <1>9, <1>15
  <2>2. Base64(s) = WithLast(X(4 * q), X(4 * q + 1), X(4 * q + 2), 64)
    BY <1>4, <1>6, <1>10, <1>15 DEF WithLast
  <2>3. /\ Base64(s) \in Seq(Int) /\ Len(Base64(s)) = 4 * q + 4
        /\ \A i \in 1 .. 4 * q : Base64(s)[i] = whole[i]
        /\ Base64(s)[4 * q + 1] = X(4 * q) /\ Base64(s)[4 * q + 2] = X(4 * q + 1)
        /\ Base64(s)[4 * q + 3] = X(4 * q + 2) /\ Base64(s)[4 * q + 4] = 64
    <3>1. Ends(Base64(s), X(4 * q), X(4 * q + 1), X(4 * q + 2), 64)
      <4> HIDE DEF Ends
      <4>1. 64 \in Int
        OBVIOUS
      <4> QED BY <1>11, <1>12, <2>2, <4>1
    <3> QED BY <3>1
  <2>4. Base64(s) = Standard(s)
    <3>1. \A j \in 1 .. 4 * q + 4 : Base64(s)[j] = IF j <= 4 * q + 3 THEN X(j - 1) ELSE 64
      <4> SUFFICES ASSUME NEW j \in 1 .. 4 * q + 4
                   PROVE  Base64(s)[j] = IF j <= 4 * q + 3 THEN X(j - 1) ELSE 64
        OBVIOUS
      <4>1. CASE j \in 1 .. 4 * q
        BY <1>1, <1>8, <2>3, <4>1
      <4>2. CASE j \in {4 * q + 1, 4 * q + 2, 4 * q + 3, 4 * q + 4}
        <5>1. /\ (4 * q + 1) - 1 = 4 * q /\ (4 * q + 2) - 1 = 4 * q + 1
              /\ (4 * q + 3) - 1 = 4 * q + 2
          BY <1>1
        <5>2. CASE j = 4 * q + 1
          BY <1>1, <2>3, <5>1, <5>2
        <5>3. CASE j = 4 * q + 2
          BY <1>1, <2>3, <5>1, <5>3
        <5>4. CASE j = 4 * q + 3
          BY <1>1, <2>3, <5>1, <5>4
        <5>5. CASE j = 4 * q + 4
          BY <1>1, <2>3, <5>5
        <5> QED BY <4>2, <5>2, <5>3, <5>4, <5>5
      <4> QED BY <1>1, <4>1, <4>2
    <3>2. Base64(s) = [j \in 1 .. 4 * q + 4 |-> Base64(s)[j]]
      BY <2>3
    <3> QED BY <2>1, <3>1, <3>2
  <2>5. Len(Standard(s)) = 4 * q + 4
    BY <1>1, <2>1
  <2>6. 4 * q + 5 <= Buffer(n)
    BY <1>1, <1>15 DEF Buffer
  <2> QED BY <2>4, <2>5, <2>6, <1>1 DEF n
<1> QED BY <1>1, <1>13, <1>14, <1>15

PlainInv == plain \in Seq(ASCII)

\* Base64Correct, for texts of any length.
THEOREM EncodesAllTexts == EncodeSpec => []Base64Correct
<1>1. EncodeInit => PlainInv
  BY DEF EncodeInit, PlainInv
<1>2. PlainInv /\ [Encode]_plain => PlainInv'
  <2> SUFFICES ASSUME plain \in Seq(ASCII), [Encode]_plain PROVE plain' \in Seq(ASCII)
    BY DEF PlainInv
  <2>1. ASSUME NEW b \in Byte, plain' = Append(plain, b) PROVE plain' \in Seq(ASCII)
    <3>1. b \in ASCII
      BY EncodingAssumption DEF ASCII
    <3> QED BY <2>1, <3>1
  <2> QED BY <2>1 DEF Encode, PlainInv
<1>3. PlainInv => Base64Correct
  <2> SUFFICES ASSUME plain \in Seq(ASCII) PROVE Base64Correct
    BY DEF PlainInv
  <2>1. Base64(plain) = Standard(plain) /\ Len(Standard(plain)) + 1 <= Buffer(Len(plain))
    BY EncodesText
  <2> QED BY <2>1 DEF Base64Correct
<1> QED BY <1>1, <1>2, <1>3, PTL DEF EncodeSpec
-----------------------------------------------------------------------------
(* sha1 (Sha1) *)

\* Words of the width of the build.
Words == SUBSET BitNo

\* The types, with the words spelt out.
HashInv ==
  /\ width \in {32, 64} /\ width \in Width
  /\ hashed \in Seq(0 .. 255) /\ Len(hashed) <= MaxHashed
  /\ begun \in 0 .. Blocks(Len(hashed))
  /\ t \in 0 .. 80
  /\ W \in Seq(Words) /\ Len(W) \in {0} \cup (16 .. 80)
  /\ H \in Seq(Words) /\ Len(H) = 5
  /\ G \in Seq(Words) /\ Len(G) = 5

\* A power of two of bit 16 or above is past what 16 bits hold.
LEMMA HighPowers ==
  ASSUME NEW i \in 16 .. 30
  PROVE  Power[i + 1] \in Nat /\ Power[i + 1] >= 65536
<1>1. i \in {16, 17, 18, 19, 20, 21, 22, 23, 24, 25, 26, 27, 28, 29, 30}
  OBVIOUS
<1> QED BY <1>1 DEF Power

\* A number of 16 bits has none above.
LEMMA LowBits ==
  ASSUME NEW n \in Nat, n < 65536
  PROVE  Bits(n) \subseteq 0 .. 15
<1>1. ASSUME NEW i \in 0 .. 30, i \notin 0 .. 15 PROVE (n \div Power[i + 1]) % 2 = 0
  <2> DEFINE p == Power[i + 1]
  <2>1. i \in 16 .. 30
    BY <1>1
  <2>2. p \in Nat /\ p >= 65536
    BY <2>1, HighPowers
  <2> HIDE DEF p
  <2>3. n \div p = 0
    BY <2>2
  <2> QED BY <2>3 DEF p
<1> QED BY <1>1 DEF Bits

\* Two halves of 16 bits make a word of 32.
LEMMA WordsFit ==
  ASSUME NEW hi \in Nat, hi < 65536, NEW lo \in Nat, lo < 65536
  PROVE  Word(hi, lo) \subseteq 0 .. 31
<1> DEFINE b == Bits(hi)
           c == Bits(lo)
<1>1. b \subseteq 0 .. 15 /\ c \subseteq 0 .. 15
  BY LowBits
<1>2. Word(hi, lo) = {i + 16 : i \in b} \cup c
  BY DEF Word
<1> HIDE DEF b, c
<1>3. {i + 16 : i \in b} \cup c \subseteq 0 .. 31
  <2>1. \A i \in b : i \in 0 .. 15
    BY <1>1
  <2>2. \A i \in b : i + 16 \in 0 .. 31
    BY <2>1
  <2>3. \A i \in c : i \in 0 .. 31
    BY <1>1
  <2> QED BY <2>2, <2>3
<1> QED BY <1>2, <1>3

\* The constants of the rounds, and the five words a sum starts with.
LEMMA ConstantsFit ==
  /\ \A q \in 1 .. 4 : K[q] \subseteq 0 .. 31
  /\ Start \in Seq(SUBSET (0 .. 31)) /\ Len(Start) = 5
<1>1. /\ Word(\h5A82, \h7999) \subseteq 0 .. 31 /\ Word(\h6ED9, \hEBA1) \subseteq 0 .. 31
      /\ Word(\h8F1B, \hBCDC) \subseteq 0 .. 31 /\ Word(\hCA62, \hC1D6) \subseteq 0 .. 31
  BY WordsFit
<1>2. /\ Word(\h6745, \h2301) \subseteq 0 .. 31 /\ Word(\hEFCD, \hAB89) \subseteq 0 .. 31
      /\ Word(\h98BA, \hDCFE) \subseteq 0 .. 31 /\ Word(\h1032, \h5476) \subseteq 0 .. 31
      /\ Word(\hC3D2, \hE1F0) \subseteq 0 .. 31
  BY WordsFit
<1>3. \A q \in 1 .. 4 : K[q] \subseteq 0 .. 31
  BY <1>1 DEF K
<1>4. Start \in Seq(SUBSET (0 .. 31)) /\ Len(Start) = 5
  BY <1>2 DEF Start
<1> QED BY <1>3, <1>4

\* Sums and rotations stay in the width; what a rotation is asked for does not matter.
LEMMA OperationsFit ==
  /\ \A v, w \in Words : Plus(v, w) \in Words
  /\ \A w, n : Rotate(w, n) \in Words
  BY DEF Words, Plus, Xor, Carries, Rotate, Shl, Shr

\* The words of every block, whatever the bytes of the text.
LEMMA DataFits ==
  ASSUME width \in {32, 64}, NEW s \in Seq(0 .. 255)
  PROVE  /\ Blocks(Len(s)) \in Nat
         /\ \A w \in 0 .. 16 * Blocks(Len(s)) - 1 : Data(s)[w] \in Words
<1>1. 0 .. 31 \subseteq BitNo
  BY DEF BitNo
<1>2. Blocks(Len(s)) \in Nat
  BY DEF Blocks
<1>3. \A i : Placed(s, i) \subseteq BitNo
  BY <1>1 DEF Placed, Shifted
<1>4. Bits(8 * Len(s)) \subseteq BitNo
  <2>1. Bits(8 * Len(s)) \subseteq 0 .. 30
    BY Zenon DEF Bits
  <2>2. 0 .. 30 \subseteq 0 .. 31
    OBVIOUS
  <2> QED BY <1>1, <2>1, <2>2, Zenon
<1> SUFFICES ASSUME NEW w \in 0 .. 16 * Blocks(Len(s)) - 1 PROVE Data(s)[w] \subseteq BitNo
  BY <1>2 DEF Words
<1>5. Data(s)[w] = IF w = 16 * Blocks(Len(s)) - 1 THEN Bits(8 * Len(s))
                   ELSE UNION {Placed(s, i) : i \in 4 * w .. 4 * w + 3}
  BY DEF Data
<1> QED BY <1>3, <1>4, <1>5

\* The constants are words of 32 bits, so words of any width.
LEMMA ConstantsAreWords ==
  ASSUME width \in {32, 64}
  PROVE  /\ \A q \in 1 .. 4 : K[q] \in Words
         /\ Start \in Seq(Words) /\ Len(Start) = 5
<1>1. 0 .. 31 \subseteq BitNo
  BY DEF BitNo
<1>2. SUBSET (0 .. 31) \subseteq Words
  BY <1>1 DEF Words
<1>3. \A q \in 1 .. 4 : K[q] \in Words
  BY <1>1, ConstantsFit DEF Words
<1>4. Start \in Seq(Words)
  <2> DEFINE S == SUBSET (0 .. 31)
  <2>1. Start \in Seq(S) /\ S \subseteq Words
    BY <1>2, ConstantsFit
  <2> HIDE DEF S
  <2> QED BY <2>1
<1> QED BY <1>3, <1>4, ConstantsFit

\* Five words, one by one.
LEMMA Elements ==
  \A q \in Seq(Words) : Len(q) = 5 =>
     /\ \A i \in 1 .. 5 : q[i] \in Words
     /\ q[1] \in Words /\ q[2] \in Words /\ q[3] \in Words /\ q[4] \in Words /\ q[5] \in Words
<1> SUFFICES ASSUME NEW q \in Seq(Words), Len(q) = 5
             PROVE  /\ \A i \in 1 .. 5 : q[i] \in Words
                    /\ q[1] \in Words /\ q[2] \in Words /\ q[3] \in Words /\ q[4] \in Words
                    /\ q[5] \in Words
  OBVIOUS
<1>1. \A i \in 1 .. Len(q) : q[i] \in Words
  BY ElementOfSeq
<1>2. \A i \in 1 .. 5 : q[i] \in Words
  BY <1>1
<1>3. 1 \in 1 .. 5 /\ 2 \in 1 .. 5 /\ 3 \in 1 .. 5 /\ 4 \in 1 .. 5 /\ 5 \in 1 .. 5
  OBVIOUS
<1> QED BY <1>2, <1>3

LEMMA HashInitially == HashInit => HashInv
<1> SUFFICES ASSUME HashInit PROVE HashInv
  OBVIOUS
<1>1. width \in {32, 64} /\ MaxHashed \in Nat
  BY Sha1Assumption DEF HashInit
<1>2. Start \in Seq(Words) /\ Len(Start) = 5
  BY <1>1, ConstantsAreWords
<1>3. hashed \in Seq(0 .. 255) /\ Len(hashed) = 0
  BY DEF HashInit
<1>4. W \in Seq(Words) /\ Len(W) = 0
  BY DEF HashInit
<1>5. begun \in 0 .. Blocks(Len(hashed))
  BY <1>3 DEF HashInit, Blocks
<1> QED BY <1>1, <1>2, <1>3, <1>4, <1>5 DEF HashInit, HashInv

\* A step of the sum; the text gets longer before it begins.
LEMMA HashStep == HashInv /\ [HashNext]_hashVars => HashInv'
<1> SUFFICES ASSUME HashInv, [HashNext]_hashVars PROVE HashInv'
  OBVIOUS
<1>1. width' = width
  BY DEF HashNext, HashLonger, BlockBegins, WordComputed, RoundDone, BlockEnds, hashVars
<1>2. Words' = Words /\ width' \in {32, 64} /\ width' \in Width
  BY <1>1 DEF Words, BitNo, HashInv
<1>3. width \in {32, 64} /\ hashed \in Seq(0 .. 255) /\ Len(hashed) \in Nat
  BY DEF HashInv
<1>4. Blocks(Len(hashed)) \in Nat /\ begun \in 0 .. Blocks(Len(hashed))
  BY <1>3, DataFits DEF HashInv
<1>5. /\ H \in Seq(Words) /\ Len(H) = 5 /\ G \in Seq(Words) /\ Len(G) = 5
      /\ W \in Seq(Words) /\ t \in 0 .. 80
  BY DEF HashInv
<1>6. CASE HashLonger
  <2>1. PICK b : hashed' = Append(hashed, b) /\
                 b \in {Letter(Len(hashed) + 1)} \cup (IF Len(hashed) < 2 THEN HashByte ELSE {})
    BY <1>6 DEF HashLonger
  <2>2. /\ begun = 0 /\ Len(hashed) < MaxHashed
        /\ UNCHANGED <<width, begun, W, t, H, G>>
    BY <1>6 DEF HashLonger
  <2>3. \A n \in Nat : Letter(n + 1) \in 0 .. 255
    <3> SUFFICES ASSUME NEW n \in Nat PROVE Letter(n + 1) \in 0 .. 255
      OBVIOUS
    <3>1. Letter(n + 1) = 97 + n - 26 * (n \div 26)
      BY DEF Letter
    <3>2. n - 26 * (n \div 26) \in 0 .. 25
      OBVIOUS
    <3> QED BY <3>1, <3>2
  <2>4. b \in 0 .. 255
    BY <1>3, <2>1, <2>3, Sha1Assumption
  <2>5. hashed' \in Seq(0 .. 255) /\ Len(hashed') = Len(hashed) + 1
    BY <1>3, <2>1, <2>4
  <2>6. Len(hashed') <= MaxHashed
    BY <1>3, <2>2, <2>5, Sha1Assumption
  <2>7. begun' \in 0 .. Blocks(Len(hashed))'
    BY <1>3, <2>2, <2>5 DEF Blocks
  <2> QED BY <1>2, <2>2, <2>5, <2>6, <2>7 DEF HashInv
<1>7. CASE BlockBegins
  <2>1. /\ begun < Blocks(Len(hashed)) /\ begun' = begun + 1
        /\ W' = [i \in 1 .. 16 |-> Data(hashed)[16 * begun + i - 1]]
        /\ H' = G /\ t' = 0 /\ UNCHANGED <<width, hashed, G>>
    BY <1>7 DEF BlockBegins
  <2>2. \A i \in 1 .. 16 : 16 * begun + i - 1 \in 0 .. 16 * Blocks(Len(hashed)) - 1
    BY <1>4, <2>1
  <2>3. \A i \in 1 .. 16 : Data(hashed)[16 * begun + i - 1] \in Words
    BY <1>3, <2>2, DataFits
  <2>4. W' \in Seq(Words) /\ Len(W') = 16
    BY <2>1, <2>3
  <2>5. begun' \in 0 .. Blocks(Len(hashed))'
    BY <1>4, <2>1
  <2> QED BY <1>2, <1>5, <2>1, <2>4, <2>5 DEF HashInv
<1>8. CASE WordComputed
  <2> DEFINE n == Len(W) + 1
             w == Rotate(Xor(Xor(W[n - 3], W[n - 8]), Xor(W[n - 14], W[n - 16])), 1)
  <2>1. /\ Len(W) \in 16 .. 79 /\ W' = Append(W, w)
        /\ UNCHANGED <<width, hashed, begun, t, H, G>>
    BY <1>8 DEF WordComputed
  <2>2. w \in Words
    BY OperationsFit
  <2> HIDE DEF w
  <2>3. W' \in Seq(Words) /\ Len(W') = Len(W) + 1
    <3>1. W \in Seq(Words)
      BY <1>5
    <3>2. Append(W, w) \in Seq(Words) /\ Len(Append(W, w)) = Len(W) + 1
      BY <2>2, <3>1, AppendProperties
    <3> QED BY <2>1, <3>2
  <2>4. Len(W') \in 16 .. 80
    <3> DEFINE k == Len(W)
               l == Len(W')
    <3>1. k \in 16 .. 79 /\ l = k + 1
      BY <2>1, <2>3
    <3> HIDE DEF k, l
    <3>2. l \in 16 .. 80
      BY <3>1
    <3> QED BY <3>2 DEF l
  <2> QED BY <1>2, <2>1, <2>3, <2>4 DEF HashInv
<1>9. CASE RoundDone
  <2> DEFINE q == t \div 20 + 1
             tmp == Plus(Plus(Plus(Plus(Rotate(H[1], 5), Mixed(q)), H[5]), W[t + 1]), K[q])
             turned == Rotate(H[2], 30)
  <2>1. /\ Len(W) = 80 /\ t < 80 /\ t' = t + 1
        /\ H' = <<tmp, H[1], turned, H[3], H[4]>>
        /\ UNCHANGED <<width, hashed, begun, W, G>>
    BY <1>9 DEF RoundDone
  <2> HIDE DEF tmp, turned
  <2>2. q \in 1 .. 4 /\ t' \in 0 .. 80 /\ t + 1 \in 1 .. 80
    <3>1. t \in 0 .. 79
      BY <1>5, <2>1
    <3>2. t \div 20 \in 0 .. 3
      BY <3>1
    <3> QED BY <2>1, <3>1, <3>2
  <2>3. H[1] \in Words /\ H[2] \in Words /\ H[3] \in Words /\ H[4] \in Words /\ H[5] \in Words
    BY <1>5, Elements
  <2>4. W[t + 1] \in Words
    <3>1. \A i \in 1 .. Len(W) : W[i] \in Words
      BY <1>5, ElementOfSeq
    <3> QED BY <2>1, <2>2, <3>1
  <2>5. Mixed(q) \in Words
    BY <2>2, <2>3 DEF Mixed, Xor, Words
  <2>6. K[q] \in Words
    BY <1>3, <2>2, ConstantsAreWords
  <2> HIDE DEF q
  <2>7. tmp \in Words /\ turned \in Words
    BY <2>3, <2>4, <2>5, <2>6, OperationsFit DEF tmp, turned
  <2>8. H' \in Seq(Words) /\ Len(H') = 5
    BY <2>1, <2>3, <2>7
  <2> QED BY <1>2, <2>1, <2>2, <2>8 DEF HashInv
<1>10. CASE BlockEnds
  <2>1. /\ W' = <<>> /\ G' = [i \in 1 .. 5 |-> Plus(G[i], H[i])]
        /\ UNCHANGED <<width, hashed, begun, t, H>>
    BY <1>10 DEF BlockEnds
  <2>2. \A i \in 1 .. 5 : Plus(G[i], H[i]) \in Words
    <3>1. \A i \in 1 .. 5 : G[i] \in Words /\ H[i] \in Words
      BY <1>5, Elements
    <3> QED BY <3>1, OperationsFit
  <2>3. G' \in Seq(Words) /\ Len(G') = 5
    BY <2>1, <2>2
  <2>4. W' \in Seq(Words) /\ Len(W') = 0
    BY <2>1
  <2> QED BY <1>2, <2>1, <2>3, <2>4 DEF HashInv
<1>11. CASE UNCHANGED hashVars
  BY <1>2, <1>11 DEF hashVars, HashInv
<1> QED BY <1>6, <1>7, <1>8, <1>9, <1>10, <1>11 DEF HashNext

\* Of the words of a block, and of the five in it and after the last.
LEMMA HashTypes == HashInv => HashTypeOK
<1> SUFFICES ASSUME HashInv PROVE HashTypeOK
  OBVIOUS
<1> DEFINE q == W \o H \o G
<1>1. q \in Seq(Words)
  BY DEF HashInv
<1> HIDE DEF q
<1>2. \A i \in DOMAIN q : q[i] \in Words
  BY <1>1
<1>3. \A w \in ToSet(q) : w \subseteq BitNo
  BY <1>2 DEF ToSet, Words
<1> QED BY <1>3 DEF HashInv, HashTypeOK, q

\* What a byte holds.
Octet == 0 .. 255

\* A power of two of bit 8 or above is past what a byte holds.
LEMMA BytePowers ==
  ASSUME NEW i \in 8 .. 30
  PROVE  Power[i + 1] \in Nat /\ Power[i + 1] >= 256
<1>1. i \in {8, 9, 10, 11, 12, 13, 14, 15, 16, 17, 18, 19, 20, 21, 22, 23, 24, 25, 26, 27, 28, 29, 30}
  OBVIOUS
<1> QED BY <1>1 DEF Power

\* The lower ones, and those of the byte above.
LEMMA LowPowers ==
  ASSUME NEW i \in 0 .. 7
  PROVE  /\ Power[i + 1] \in {1, 2, 4, 8, 16, 32, 64, 128}
         /\ Power[i + 8 + 1] = 256 * Power[i + 1]
<1>1. i \in {0, 1, 2, 3, 4, 5, 6, 7}
  OBVIOUS
<1> QED BY <1>1 DEF Power

\* The bits of a byte, and the byte that has them all.
LEMMA ByteBits ==
  ASSUME NEW b \in Octet
  PROVE  Bits(b) \subseteq 0 .. 7 /\ (Bits(b) = 0 .. 7 <=> b = 255)
<1>1. ASSUME NEW i \in 0 .. 30, i \notin 0 .. 7 PROVE (b \div Power[i + 1]) % 2 = 0
  <2> DEFINE p == Power[i + 1]
  <2>1. p \in Nat /\ p >= 256
    BY <1>1, BytePowers
  <2> HIDE DEF p
  <2>2. b \div p = 0
    BY <2>1 DEF Octet
  <2> QED BY <2>2 DEF p
<1>2. Bits(b) \subseteq 0 .. 7
  BY <1>1 DEF Bits
<1>3. b = 255 => 0 .. 7 \subseteq Bits(b)
  <2> SUFFICES ASSUME b = 255, NEW i \in 0 .. 7 PROVE i \in Bits(b)
    OBVIOUS
  <2> DEFINE p == Power[i + 1]
  <2>1. p \in {1, 2, 4, 8, 16, 32, 64, 128}
    BY LowPowers
  <2> HIDE DEF p
  <2>2. (255 \div p) % 2 = 1
    BY <2>1
  <2>3. i \in 0 .. 30
    OBVIOUS
  <2> QED BY <2>2, <2>3 DEF Bits, p
<1>4. Bits(b) = 0 .. 7 => b = 255
  <2> SUFFICES ASSUME Bits(b) = 0 .. 7 PROVE b = 255
    OBVIOUS
  <2>1. \A i \in 0 .. 7 : (b \div Power[i + 1]) % 2 = 1
    BY DEF Bits
  <2>2. /\ Power[0 + 1] = 1 /\ Power[1 + 1] = 2 /\ Power[2 + 1] = 4 /\ Power[3 + 1] = 8
        /\ Power[4 + 1] = 16 /\ Power[5 + 1] = 32 /\ Power[6 + 1] = 64 /\ Power[7 + 1] = 128
    BY DEF Power
  <2>3. /\ 0 \in 0 .. 7 /\ 1 \in 0 .. 7 /\ 2 \in 0 .. 7 /\ 3 \in 0 .. 7
        /\ 4 \in 0 .. 7 /\ 5 \in 0 .. 7 /\ 6 \in 0 .. 7 /\ 7 \in 0 .. 7
    OBVIOUS
  <2>4. /\ (b \div 1) % 2 = 1 /\ (b \div 2) % 2 = 1 /\ (b \div 4) % 2 = 1 /\ (b \div 8) % 2 = 1
        /\ (b \div 16) % 2 = 1 /\ (b \div 32) % 2 = 1 /\ (b \div 64) % 2 = 1
        /\ (b \div 128) % 2 = 1
    BY <2>1, <2>2, <2>3
  <2> QED BY <2>4 DEF Octet
<1> QED BY <1>2, <1>3, <1>4

\* A number of 16 bits.
IsHalf(n) == n \in Nat /\ n < 65536

\* Two bytes, one after the other.
Pair(b, c) == 256 * b + c

\* The bits of each.
LEMMA TwoBytes ==
  ASSUME NEW b \in Octet, NEW c \in Octet
  PROVE  /\ IsHalf(Pair(b, c))
         /\ \A i \in 0 .. 7 : /\ i \in Bits(Pair(b, c)) <=> i \in Bits(c)
                              /\ i + 8 \in Bits(Pair(b, c)) <=> i \in Bits(b)
<1> DEFINE n == 256 * b + c
<1>1. n \in Nat /\ IsHalf(n)
  BY DEF IsHalf, Octet
<1>2. ASSUME NEW i \in 0 .. 7
      PROVE  /\ i \in Bits(n) <=> i \in Bits(c)
             /\ i + 8 \in Bits(n) <=> i \in Bits(b)
  <2> DEFINE p == Power[i + 1]
  <2>1. p \in {1, 2, 4, 8, 16, 32, 64, 128} /\ Power[i + 8 + 1] = 256 * p
    BY LowPowers
  <2>2. i \in 0 .. 30 /\ i + 8 \in 0 .. 30
    OBVIOUS
  <2>3. /\ i \in Bits(n) <=> (n \div p) % 2 = 1
        /\ i \in Bits(c) <=> (c \div p) % 2 = 1
        /\ i \in Bits(b) <=> (b \div p) % 2 = 1
        /\ i + 8 \in Bits(n) <=> (n \div (256 * p)) % 2 = 1
    BY <2>1, <2>2 DEF Bits
  <2> HIDE DEF p
  <2>4. (n \div p) % 2 = (c \div p) % 2
    <3>1. CASE p = 1
      BY <3>1 DEF Octet
    <3>2. CASE p = 2
      BY <3>2 DEF Octet
    <3>3. CASE p = 4
      BY <3>3 DEF Octet
    <3>4. CASE p = 8
      BY <3>4 DEF Octet
    <3>5. CASE p = 16
      BY <3>5 DEF Octet
    <3>6. CASE p = 32
      BY <3>6 DEF Octet
    <3>7. CASE p = 64
      BY <3>7 DEF Octet
    <3>8. CASE p = 128
      BY <3>8 DEF Octet
    <3> QED BY <2>1, <3>1, <3>2, <3>3, <3>4, <3>5, <3>6, <3>7, <3>8
  <2>5. n \div (256 * p) = b \div p
    <3>1. CASE p = 1
      BY <3>1 DEF Octet
    <3>2. CASE p = 2
      BY <3>2 DEF Octet
    <3>3. CASE p = 4
      BY <3>3 DEF Octet
    <3>4. CASE p = 8
      BY <3>4 DEF Octet
    <3>5. CASE p = 16
      BY <3>5 DEF Octet
    <3>6. CASE p = 32
      BY <3>6 DEF Octet
    <3>7. CASE p = 64
      BY <3>7 DEF Octet
    <3>8. CASE p = 128
      BY <3>8 DEF Octet
    <3> QED BY <2>1, <3>1, <3>2, <3>3, <3>4, <3>5, <3>6, <3>7, <3>8
  <2> HIDE DEF n
  <2> QED BY <2>3, <2>4, <2>5
<1> HIDE DEF n
<1>3. n = Pair(b, c)
  BY DEF n, Pair
<1> QED BY <1>1, <1>2, <1>3

\* Four bytes in a word.
FourBytes(a, b, c, d) == Word(Pair(a, b), Pair(c, d))

\* Bit by bit, the first byte highest.
LEMMA WordOfBytes ==
  ASSUME NEW a \in Octet, NEW b \in Octet, NEW c \in Octet, NEW d \in Octet
  PROVE  /\ FourBytes(a, b, c, d) \subseteq 0 .. 31
         /\ \A k \in 0 .. 7 : /\ k \in FourBytes(a, b, c, d) <=> k \in Bits(d)
                              /\ 8 + k \in FourBytes(a, b, c, d) <=> k \in Bits(c)
                              /\ 16 + k \in FourBytes(a, b, c, d) <=> k \in Bits(b)
                              /\ 24 + k \in FourBytes(a, b, c, d) <=> k \in Bits(a)
<1> DEFINE v == FourBytes(a, b, c, d)
<1> DEFINE hi == Pair(a, b)
           lo == Pair(c, d)
           x == Bits(hi)
           y == Bits(lo)
<1>1. /\ IsHalf(hi) /\ IsHalf(lo)
      /\ \A k \in 0 .. 7 : /\ k \in x <=> k \in Bits(b)
                           /\ k + 8 \in x <=> k \in Bits(a)
                           /\ k \in y <=> k \in Bits(d)
                           /\ k + 8 \in y <=> k \in Bits(c)
  <2>1. /\ IsHalf(Pair(a, b))
        /\ \A k \in 0 .. 7 : /\ k \in Bits(Pair(a, b)) <=> k \in Bits(b)
                             /\ k + 8 \in Bits(Pair(a, b)) <=> k \in Bits(a)
    BY TwoBytes
  <2>2. /\ IsHalf(Pair(c, d))
        /\ \A k \in 0 .. 7 : /\ k \in Bits(Pair(c, d)) <=> k \in Bits(d)
                             /\ k + 8 \in Bits(Pair(c, d)) <=> k \in Bits(c)
    BY TwoBytes
  <2> QED BY <2>1, <2>2
<1> HIDE DEF hi, lo, v
<1>2. v \subseteq 0 .. 31 /\ x \subseteq 0 .. 15 /\ y \subseteq 0 .. 15
  <2>1. v = Word(hi, lo)
    BY DEF hi, lo, v, FourBytes
  <2>2. hi \in Nat /\ hi < 65536 /\ lo \in Nat /\ lo < 65536
    BY <1>1 DEF IsHalf
  <2> QED BY <2>1, <2>2, WordsFit, LowBits
<1>3. v = {i + 16 : i \in x} \cup y
  BY DEF Word, hi, lo, v, FourBytes
<1> HIDE DEF x, y, v
<1>4. ASSUME NEW k \in 0 .. 7
      PROVE  /\ k \in v <=> k \in y
             /\ 8 + k \in v <=> k + 8 \in y
             /\ 16 + k \in v <=> k \in x
             /\ 24 + k \in v <=> k + 8 \in x
  <2>1. \A i \in x : i \in 0 .. 15
    BY <1>2
  <2>2. \A i \in y : i \in 0 .. 15
    BY <1>2
  <2>3. 8 + k = k + 8 /\ 16 + k = k + 16 /\ 24 + k = (k + 8) + 16
    OBVIOUS
  <2>4. k \notin {i + 16 : i \in x} /\ 8 + k \notin {i + 16 : i \in x}
    BY <2>1
  <2>5. 16 + k \notin y /\ 24 + k \notin y
    BY <2>2
  <2>6. 16 + k \in {i + 16 : i \in x} <=> k \in x
    BY <2>1, <2>3
  <2>7. 24 + k \in {i + 16 : i \in x} <=> k + 8 \in x
    BY <2>1, <2>3
  <2> QED BY <1>3, <2>3, <2>4, <2>5, <2>6, <2>7
<1>5. \A k \in 0 .. 7 : /\ k \in v <=> k \in Bits(d)
                        /\ 8 + k \in v <=> k \in Bits(c)
                        /\ 16 + k \in v <=> k \in Bits(b)
                        /\ 24 + k \in v <=> k \in Bits(a)
  BY <1>1, <1>4
<1> QED BY <1>2, <1>5 DEF v

\* The lower half of an int that is shifted.
LEMMA ShiftedBits ==
  ASSUME NEW x, x \subseteq 0 .. 31, NEW n \in Nat, NEW q \in 0 .. 31
  PROVE  q \in Shifted(x, n) <=> q - n \in x
<1>1. q \in {i + n : i \in x} <=> q - n \in x
  <2>1. \A i \in x : i \in 0 .. 31
    OBVIOUS
  <2>2. ASSUME NEW i \in x, q = i + n PROVE q - n \in x
    <3>1. q - n = i
      BY <2>1, <2>2
    <3> QED BY <3>1
  <2>3. q = (q - n) + n
    OBVIOUS
  <2> QED BY <2>2, <2>3
<1> QED BY <1>1 DEF Shifted

\* The standard puts bytes into the data.
LEMMA BytesAre ==
  ASSUME NEW s \in Seq(Octet), NEW i \in Nat
  PROVE  StandardByte(s, i) \in Octet
<1>1. CASE i < Len(s)
  <2>1. i + 1 \in 1 .. Len(s)
    BY <1>1
  <2>2. s[i + 1] \in Octet
    BY <2>1, ElementOfSeq
  <2> QED BY <1>1, <2>2 DEF StandardByte
<1>2. CASE ~(i < Len(s))
  BY <1>2 DEF StandardByte, Octet
<1> QED BY <1>1, <1>2

\* Zero has no bits.
LEMMA NoBits == Bits(0) = {}
<1>1. ASSUME NEW i \in 0 .. 30 PROVE (0 \div Power[i + 1]) % 2 # 1
  <2> DEFINE p == Power[i + 1]
  <2>1. i \in 0 .. 7 \/ i \in 8 .. 30
    OBVIOUS
  <2>2. p \in Nat /\ p >= 1
    BY <2>1, LowPowers, BytePowers
  <2> HIDE DEF p
  <2>3. 0 \div p = 0
    BY <2>2
  <2>4. (0 \div p) % 2 # 1
    BY <2>3
  <2> QED BY <2>4 DEF p
<1> QED BY <1>1, Zenon DEF Bits

\* A char above 127, which is sign-extended.
High(s, i) == i < Len(s) /\ s[i + 1] > 127

\* Byte i has its bits in its place; if it is high it has all bits of the places above.
LEMMA PlacedBits ==
  ASSUME NEW s \in Seq(Octet), NEW i \in Nat, NEW m \in 0 .. 3, NEW k \in 0 .. 7
  PROVE  8 * m + k \in Placed(s, i) <=>
           \/ m = 3 - (i % 4) /\ k \in Bits(StandardByte(s, i))
           \/ m > 3 - (i % 4) /\ High(s, i)
<1> DEFINE r == i % 4
           n == 8 * (3 - r)
           q == 8 * m + k
           std == Bits(StandardByte(s, i))
           x == CASE i < Len(s) -> Extended(s[i + 1]) [] i = Len(s) -> Bits(128) [] i > Len(s) -> {}
<1>1. r \in 0 .. 3 /\ n \in Nat /\ q \in 0 .. 31 /\ Len(s) \in Nat
  OBVIOUS
<1>2. Placed(s, i) = Shifted(x, n)
  BY DEF Placed
<1>3. StandardByte(s, i) \in Octet
  BY BytesAre
<1>4. std \subseteq 0 .. 7
  BY <1>3, ByteBits
<1>5. x = std \cup (IF High(s, i) THEN 8 .. 31 ELSE {})
  <2>1. CASE i < Len(s)
    <3>1. StandardByte(s, i) = s[i + 1] /\ x = Extended(s[i + 1])
      BY <2>1 DEF StandardByte
    <3> QED BY <2>1, <3>1 DEF Extended, High
  <2>2. CASE i = Len(s)
    <3>1. StandardByte(s, i) = 128 /\ x = Bits(128)
      BY <2>2 DEF StandardByte
    <3> QED BY <1>1, <2>2, <3>1 DEF High
  <2>3. CASE i > Len(s)
    <3>1. StandardByte(s, i) = 0 /\ x = {}
      BY <1>1, <2>3 DEF StandardByte
    <3>2. std = {}
      BY <3>1, NoBits
    <3>3. ~High(s, i)
      BY <1>1, <2>3 DEF High
    <3> HIDE DEF x, std
    <3> QED BY <3>1, <3>2, <3>3
  <2> HIDE DEF x, std
  <2> QED BY <1>1, <2>1, <2>2, <2>3
<1> HIDE DEF x, std
<1>6. x \subseteq 0 .. 31
  <2>1. 0 .. 7 \subseteq 0 .. 31 /\ 8 .. 31 \subseteq 0 .. 31
    OBVIOUS
  <2> QED BY <1>4, <1>5, <2>1
<1>7. q \in Placed(s, i) <=> q - n \in x
  <2> HIDE DEF q, n, r
  <2>1. q \in Shifted(x, n) <=> q - n \in x
    BY <1>1, <1>6, ShiftedBits
  <2> QED BY <1>2, <2>1
<1>8. CASE m = 3 - r
  <2>1. q - n = k
    BY <1>1, <1>8
  <2>2. k \notin 8 .. 31 /\ ~(m > 3 - r)
    BY <1>1, <1>8
  <2> HIDE DEF q, n, r
  <2> QED BY <1>5, <1>7, <1>8, <2>1, <2>2 DEF std, r, q
<1>9. CASE m > 3 - r
  <2>1. q - n \in 8 .. 31
    BY <1>1, <1>9
  <2>2. q - n \notin 0 .. 7 /\ m # 3 - r
    BY <1>1, <1>9, <2>1
  <2> HIDE DEF q, n, r
  <2> QED BY <1>4, <1>5, <1>7, <1>9, <2>1, <2>2 DEF std, r, q
<1>10. CASE m < 3 - r
  <2>1. q - n \notin 0 .. 31
    BY <1>1, <1>10
  <2>2. m # 3 - r /\ ~(m > 3 - r)
    BY <1>1, <1>10
  <2> HIDE DEF q, n, r
  <2> QED BY <1>6, <1>7, <2>1, <2>2 DEF r, q
<1> QED BY <1>1, <1>8, <1>9, <1>10

\* The bytes of the standard in word w, as a word.
StandardWord(s, w) ==
  FourBytes(StandardByte(s, 4 * w), StandardByte(s, 4 * w + 1),
            StandardByte(s, 4 * w + 2), StandardByte(s, 4 * w + 3))

\* A word is the standard's just if in front of a high byte there are only bytes of 255.
LEMMA WordsAgree ==
  ASSUME NEW s \in Seq(Octet), NEW w \in Nat
  PROVE  (UNION {Placed(s, i) : i \in 4 * w .. 4 * w + 3}) \cap (0 .. 31) = StandardWord(s, w)
           <=> \A i, j \in 4 * w .. 4 * w + 3 :
                 j < i /\ High(s, i) => StandardByte(s, j) = 255
<1> DEFINE I == 4 * w .. 4 * w + 3
           D == (UNION {Placed(s, i) : i \in I}) \cap (0 .. 31)
           V == StandardWord(s, w)
           B(j) == Bits(StandardByte(s, j))
           All == \A i, j \in I : j < i /\ High(s, i) => StandardByte(s, j) = 255
<1>1. \A j \in Nat : StandardByte(s, j) \in Octet
  BY BytesAre
<1>2. ASSUME NEW j \in Nat
      PROVE  B(j) \subseteq 0 .. 7 /\ (StandardByte(s, j) = 255 <=> B(j) = 0 .. 7)
  <2> DEFINE b == StandardByte(s, j)
  <2>1. b \in Octet
    BY <1>1
  <2> HIDE DEF b
  <2>2. Bits(b) \subseteq 0 .. 7 /\ (Bits(b) = 0 .. 7 <=> b = 255)
    BY <2>1, ByteBits
  <2> QED BY <2>2 DEF b
<1>3. \A j \in Nat : B(j) \subseteq 0 .. 7
  BY <1>2
<1>4. /\ V \subseteq 0 .. 31
      /\ \A k \in 0 .. 7 : /\ k \in V <=> k \in B(4 * w + 3)
                           /\ 8 + k \in V <=> k \in B(4 * w + 2)
                           /\ 16 + k \in V <=> k \in B(4 * w + 1)
                           /\ 24 + k \in V <=> k \in B(4 * w)
  <2>1. 4 * w \in Nat /\ 4 * w + 1 \in Nat /\ 4 * w + 2 \in Nat /\ 4 * w + 3 \in Nat
    OBVIOUS
  <2>2. /\ StandardByte(s, 4 * w) \in Octet /\ StandardByte(s, 4 * w + 1) \in Octet
        /\ StandardByte(s, 4 * w + 2) \in Octet /\ StandardByte(s, 4 * w + 3) \in Octet
    BY <1>1, <2>1
  <2> DEFINE a == StandardByte(s, 4 * w)
             b == StandardByte(s, 4 * w + 1)
             c == StandardByte(s, 4 * w + 2)
             d == StandardByte(s, 4 * w + 3)
  <2>3. V = FourBytes(a, b, c, d)
    BY DEF StandardWord
  <2>4. a \in Octet /\ b \in Octet /\ c \in Octet /\ d \in Octet
    BY <2>2
  <2> HIDE DEF a, b, c, d, V
  <2>5. /\ FourBytes(a, b, c, d) \subseteq 0 .. 31
        /\ \A k \in 0 .. 7 : /\ k \in FourBytes(a, b, c, d) <=> k \in Bits(d)
                             /\ 8 + k \in FourBytes(a, b, c, d) <=> k \in Bits(c)
                             /\ 16 + k \in FourBytes(a, b, c, d) <=> k \in Bits(b)
                             /\ 24 + k \in FourBytes(a, b, c, d) <=> k \in Bits(a)
    BY <2>4, WordOfBytes
  <2> QED BY <2>3, <2>5 DEF a, b, c, d
<1>5. \A m \in 0 .. 3, k \in 0 .. 7 : 8 * m + k \in V <=> k \in B(4 * w + 3 - m)
  <2> SUFFICES ASSUME NEW m \in 0 .. 3, NEW k \in 0 .. 7
               PROVE  8 * m + k \in V <=> k \in B(4 * w + 3 - m)
    OBVIOUS
  <2> HIDE DEF V, B
  <2>3. CASE m = 0
    <3>1. 8 * m + k = k /\ 4 * w + 3 - m = 4 * w + 3
      BY <2>3
    <3> QED BY <1>4, <3>1
  <2>4. CASE m = 1
    <3>1. 8 * m + k = 8 + k /\ 4 * w + 3 - m = 4 * w + 2
      BY <2>4
    <3> QED BY <1>4, <3>1
  <2>5. CASE m = 2
    <3>1. 8 * m + k = 16 + k /\ 4 * w + 3 - m = 4 * w + 1
      BY <2>5
    <3> QED BY <1>4, <3>1
  <2>6. CASE m = 3
    <3>1. 8 * m + k = 24 + k /\ 4 * w + 3 - m = 4 * w
      BY <2>6
    <3> QED BY <1>4, <3>1
  <2> QED BY <2>3, <2>4, <2>5, <2>6
<1>6. \A m \in 0 .. 3, k \in 0 .. 7 :
        8 * m + k \in D <=> \/ k \in B(4 * w + 3 - m)
                            \/ \E i \in I : i > 4 * w + 3 - m /\ High(s, i)
  <2> SUFFICES ASSUME NEW m \in 0 .. 3, NEW k \in 0 .. 7
               PROVE  8 * m + k \in D <=> \/ k \in B(4 * w + 3 - m)
                                          \/ \E i \in I : i > 4 * w + 3 - m /\ High(s, i)
    OBVIOUS
  <2> DEFINE q == 8 * m + k
             a == 4 * w + 3 - m
  <2>1. q \in 0 .. 31 /\ a \in I
    OBVIOUS
  <2>2. ASSUME NEW i \in I
        PROVE  /\ i \in Nat /\ (m = 3 - (i % 4) <=> i = a) /\ (m > 3 - (i % 4) <=> i > a)
    <3>1. i \in Nat /\ i % 4 = i - 4 * w
      OBVIOUS
    <3> QED BY <3>1
  <2>3. ASSUME NEW i \in I
        PROVE  q \in Placed(s, i) <=> (i = a /\ k \in B(i)) \/ (i > a /\ High(s, i))
    <3>1. q \in Placed(s, i) <=> \/ m = 3 - (i % 4) /\ k \in B(i)
                                 \/ m > 3 - (i % 4) /\ High(s, i)
      BY <2>2, PlacedBits
    <3> HIDE DEF q, a, B, I
    <3> QED BY <2>2, <3>1
  <2>4. q \in D <=> \E i \in I : q \in Placed(s, i)
    <3> HIDE DEF q, I
    <3> QED BY <2>1
  <2> HIDE DEF q, a, B, I, D
  <2>5. q \in D <=> k \in B(a) \/ \E i \in I : i > a /\ High(s, i)
    BY <2>1, <2>3, <2>4
  <2> QED BY <2>5 DEF q, a
<1>7. \A q \in 0 .. 31 : \E m \in 0 .. 3, k \in 0 .. 7 : q = 8 * m + k
  <2> SUFFICES ASSUME NEW q \in 0 .. 31 PROVE \E m \in 0 .. 3, k \in 0 .. 7 : q = 8 * m + k
    OBVIOUS
  <2>1. q \div 8 \in 0 .. 3 /\ q % 8 \in 0 .. 7 /\ q = 8 * (q \div 8) + (q % 8)
    OBVIOUS
  <2> QED BY <2>1
<1>8. \A m \in 0 .. 3 : 4 * w + 3 - m \in I
  OBVIOUS
<1>9. \A j \in I : j \in Nat /\ 4 * w + 3 - j \in 0 .. 3 /\ 4 * w + 3 - (4 * w + 3 - j) = j
  OBVIOUS
<1>10. \A m \in 0 .. 3, k \in 0 .. 7 : 8 * m + k \in 0 .. 31
  OBVIOUS
<1>11. D \subseteq 0 .. 31
  BY Zenon
<1> HIDE DEF I, V, D, B
<1>12. ASSUME All PROVE D = V
  <2>1. ASSUME NEW m \in 0 .. 3, NEW k \in 0 .. 7 PROVE 8 * m + k \in D <=> 8 * m + k \in V
    <3> DEFINE a == 4 * w + 3 - m
    <3>1. a \in I /\ (8 * m + k \in D <=> k \in B(a) \/ \E i \in I : i > a /\ High(s, i))
      BY <1>6, <1>8
    <3>2. 8 * m + k \in V <=> k \in B(a)
      BY <1>5
    <3>3. a \in Nat
      OBVIOUS
    <3> HIDE DEF a
    <3>4. ASSUME NEW i \in I, i > a, High(s, i) PROVE k \in B(a)
      <4>1. a < i
        BY <1>9, <3>3, <3>4
      <4>2. StandardByte(s, a) = 255
        BY <1>12, <3>1, <3>4, <4>1
      <4>3. B(a) = 0 .. 7
        BY <1>2, <3>3, <4>2
      <4> QED BY <4>3
    <3> QED BY <3>1, <3>2, <3>4
  <2>2. \A q \in 0 .. 31 : q \in D <=> q \in V
    BY <1>7, <2>1, Zenon
  <2> QED BY <1>4, <1>11, <2>2
<1>13. ASSUME D = V PROVE All
  <2> SUFFICES ASSUME NEW i \in I, NEW j \in I, j < i, High(s, i) PROVE StandardByte(s, j) = 255
    OBVIOUS
  <2> DEFINE m == 4 * w + 3 - j
  <2>1. m \in 0 .. 3 /\ 4 * w + 3 - m = j /\ i > j
    BY <1>9
  <2> HIDE DEF m
  <2>2. ASSUME NEW k \in 0 .. 7 PROVE k \in B(j)
    <3>1. 8 * m + k \in D
      BY <1>6, <2>1
    <3> QED BY <1>5, <1>13, <2>1, <3>1
  <2>3. B(j) = 0 .. 7
    BY <1>3, <1>9, <2>2
  <2> QED BY <1>2, <1>9, <2>3
<1> HIDE DEF All
<1>14. D = V <=> All
  BY <1>12, <1>13
<1> QED BY <1>14 DEF D, V, All, I

\* The blocks are the standard's just if the last one has nine bytes free.
LEMMA BlocksAgree ==
  ASSUME NEW n \in Nat
  PROVE  /\ Blocks(n) = n \div 64 + 1
         /\ StandardBlocks(n) \in Nat \ {0}
         /\ Blocks(n) = StandardBlocks(n) <=> n % 64 < 56
<1>1. Blocks(n) = n \div 64 + 1
  BY DEF Blocks
<1>2. StandardBlocks(n) = n \div 64 + 1 + (IF n % 64 < 56 THEN 0 ELSE 1)
  BY DEF StandardBlocks
<1> QED BY <1>1, <1>2

\* The data of any text, of any size.
LEMMA DataAgree ==
  ASSUME NEW s \in Seq(Octet)
  PROVE  Low(Data(s)) = StandardData(s) <=>
           Len(s) % 64 < 56 /\ \A i \in DOMAIN s : ~Spoils(s, i)
<1> DEFINE n == Len(s)
           last == 16 * Blocks(n) - 1
           end == 16 * StandardBlocks(n) - 1
           X(w) == (UNION {Placed(s, i) : i \in 4 * w .. 4 * w + 3}) \cap (0 .. 31)
           Clean == \A i \in DOMAIN s : ~Spoils(s, i)
<1>1. n \in Nat /\ DOMAIN s = 1 .. n /\ \A i \in 1 .. n : s[i] \in Octet
  <2>1. \A i \in 1 .. Len(s) : s[i] \in Octet
    BY ElementOfSeq
  <2>2. Len(s) \in Nat /\ DOMAIN s = 1 .. Len(s)
    OBVIOUS
  <2> QED BY <2>1, <2>2, Zenon DEF n
<1>2. /\ last = 16 * (n \div 64) + 15 /\ end \in Nat /\ last \in Nat
      /\ last = end <=> n % 64 < 56
  <2> HIDE DEF n
  <2>1. /\ Blocks(n) = n \div 64 + 1 /\ StandardBlocks(n) \in Nat \ {0}
        /\ Blocks(n) = StandardBlocks(n) <=> n % 64 < 56
    BY <1>1, BlocksAgree
  <2> QED BY <1>1, <2>1
<1>3. Bits(8 * n) \cap (0 .. 31) = Bits(8 * n)
  <2>1. Bits(8 * n) \subseteq 0 .. 30
    BY Zenon DEF Bits
  <2>2. 0 .. 30 \subseteq 0 .. 31
    OBVIOUS
  <2> QED BY <2>1, <2>2, Zenon
<1>4. Low(Data(s)) = [w \in 0 .. last |-> IF w = last THEN Bits(8 * n) ELSE X(w)]
  <2>1. Low(Data(s)) = [w \in 0 .. last |-> Data(s)[w] \cap (0 .. 31)]
    BY DEF Low, Data
  <2>2. \A w \in 0 .. last : Data(s)[w] \cap (0 .. 31) = IF w = last THEN Bits(8 * n) ELSE X(w)
    BY <1>3 DEF Data
  <2> QED BY <2>1, <2>2
<1>5. StandardData(s) = [w \in 0 .. end |-> IF w = end THEN Bits(8 * n) ELSE StandardWord(s, w)]
  BY DEF StandardData, StandardWord, FourBytes, Pair
<1> DEFINE Same == \A w \in 0 .. last : w # last => X(w) = StandardWord(s, w)
<1>6. Low(Data(s)) = StandardData(s) <=> last = end /\ Same
  <2> HIDE DEF X, last, end
  <2>1. ASSUME Low(Data(s)) = StandardData(s) PROVE last = end /\ Same
    <3>1. 0 .. last = 0 .. end
      BY <1>4, <1>5, <2>1
    <3>2. last = end
      BY <1>2, <3>1
    <3> QED BY <1>4, <1>5, <2>1, <3>2
  <2>2. ASSUME last = end, Same PROVE Low(Data(s)) = StandardData(s)
    BY <1>4, <1>5, <2>2
  <2> QED BY <2>1, <2>2
<1> HIDE DEF n, last, end
<1>7. ASSUME Same, last = end PROVE Clean
  <2> SUFFICES ASSUME NEW i \in 1 .. n, Spoils(s, i) PROVE FALSE
    BY <1>1
  <2>1. PICK j \in i - ((i - 1) % 4) .. i - 1 : s[i] > 127 /\ s[j] # 255
    BY DEF Spoils
  <2> DEFINE w == (i - 1) \div 4
  <2>2. /\ w \in Nat /\ 4 * w <= i - 1 /\ i - 1 <= 4 * w + 3 /\ i - ((i - 1) % 4) = 4 * w + 1
    OBVIOUS
  <2> HIDE DEF w
  <2>3. /\ i - 1 \in 4 * w .. 4 * w + 3 /\ j - 1 \in 4 * w .. 4 * w + 3 /\ j - 1 < i - 1
        /\ j \in 1 .. n /\ j - 1 < n /\ i - 1 < n /\ (j - 1) + 1 = j /\ (i - 1) + 1 = i
    BY <1>1, <2>2
  <2>4. w \in 0 .. last /\ w # last
    BY <1>1, <1>2, <1>7, <2>2, <2>3
  <2>5. High(s, i - 1)
    BY <2>1, <2>3 DEF High, n
  <2>6. StandardByte(s, j - 1) = 255
    <3>1. X(w) = StandardWord(s, w)
      BY <1>7, <2>4
    <3>2. \A k, l \in 4 * w .. 4 * w + 3 : l < k /\ High(s, k) => StandardByte(s, l) = 255
      BY <2>2, <3>1, WordsAgree, Zenon
    <3> QED BY <2>3, <2>5, <3>2
  <2>7. StandardByte(s, j - 1) = s[j]
    BY <2>3 DEF StandardByte, n
  <2> QED BY <2>1, <2>6, <2>7
<1>8. ASSUME Clean PROVE Same
  <2> SUFFICES ASSUME NEW w \in Nat PROVE X(w) = StandardWord(s, w)
    BY <1>2
  <2>1. ASSUME NEW i \in 4 * w .. 4 * w + 3, NEW j \in 4 * w .. 4 * w + 3, j < i, High(s, i)
        PROVE  StandardByte(s, j) = 255
    <3>1. i \in Nat /\ j \in Nat /\ i < n /\ s[i + 1] > 127
      BY <2>1 DEF High, n
    <3>2. /\ i + 1 \in 1 .. n /\ j + 1 \in (i + 1) - (((i + 1) - 1) % 4) .. (i + 1) - 1
      <4>1. ((i + 1) - 1) % 4 = i - 4 * w
        OBVIOUS
      <4> QED BY <1>1, <2>1, <3>1, <4>1
    <3>3. s[j + 1] = 255
      <4> DEFINE e == i + 1
                 f == j + 1
      <4>1. e \in DOMAIN s /\ s[e] > 127 /\ f \in e - ((e - 1) % 4) .. e - 1
        BY <1>1, <3>1, <3>2
      <4> HIDE DEF e, f
      <4>2. ~Spoils(s, e)
        BY <1>8, <4>1
      <4>3. s[f] = 255
        BY <4>1, <4>2 DEF Spoils
      <4> QED BY <4>3 DEF f
    <3>4. j < n
      BY <1>1, <2>1, <3>1
    <3> QED BY <3>3, <3>4 DEF StandardByte, n
  <2> QED BY <2>1, WordsAgree
<1> QED BY <1>2, <1>6, <1>7, <1>8 DEF n

\* DataIsStandard, for texts of any size: the data is the standard's just if nine
\* bytes of the last block are free and no byte above 127 comes after one that is
\* not 255 in its word (utility.cpp:41-49).
THEOREM PaddingIsStandard == HashSpec => []DataIsStandard
<1>1. HashInv => DataIsStandard
  <2> SUFFICES ASSUME HashInv PROVE DataIsStandard
    OBVIOUS
  <2>1. hashed \in Seq(Octet)
    BY Zenon DEF HashInv, Octet
  <2> QED BY <2>1, DataAgree, Zenon DEF DataIsStandard
<1> QED BY <1>1, HashInitially, HashStep, PTL DEF HashSpec

-----------------------------------------------------------------------------
(* The rounds of sha1 (Sha1) *)

Two(i, u, v, w) == One(i, u) + One(i, v) + One(i, w) >= 2

\* A bit gets a carry just if two of the three of the column below are set: the
\* two bits, and the carry that column gets.
LEMMA CarriesRipple ==
  ASSUME width \in {32, 64}, NEW v \in Words, NEW w \in Words
  PROVE  /\ 0 \notin Carries(v, w)
         /\ \A i \in BitNo : i - 1 \in BitNo =>
              (i \in Carries(v, w) <=> Two(i - 1, v, w, Carries(v, w)))
<1> DEFINE c == Carries(v, w)
<1> USE DEF Words
<1>1. \A i : i \in c <=> i \in BitNo /\ \E j \in v \cap w : j < i /\ j + 1 .. i - 1 \subseteq v \cup w
  BY DEF Carries
<1> HIDE DEF c
<1>2. \A i \in BitNo : i \in Int /\ i >= 0
  BY DEF BitNo
<1>3. 0 \notin c
  BY <1>1, <1>2
<1>4. ASSUME NEW i \in BitNo, i - 1 \in BitNo
      PROVE  i \in c <=> Two(i - 1, v, w, c)
  <2> DEFINE k == i - 1
  <2>1. i \in Int /\ k \in BitNo /\ k \in Int /\ i = k + 1 /\ i >= 0
    BY <1>2, <1>4
  <2> HIDE DEF k
  <2>2. CASE k \in v /\ k \in w
    <3>1. k + 1 .. i - 1 = {}
      BY <2>1
    <3>2. i \in c
      BY <1>1, <2>1, <2>2, <3>1
    <3>3. Two(k, v, w, c)
      BY <2>2 DEF Two, One
    <3> QED BY <3>2, <3>3 DEF k
  <2>3. CASE ~(k \in v /\ k \in w)
    <3>1. ASSUME i \in c PROVE k \in c /\ k \in v \cup w
      <4>1. PICK j \in v \cap w : j < i /\ j + 1 .. i - 1 \subseteq v \cup w
        BY <1>1, <3>1
      <4>2. j \in BitNo /\ j \in Int /\ j # k
        BY <1>2, <2>3, <4>1
      <4>3. j < k /\ k \in j + 1 .. i - 1 /\ j + 1 .. k - 1 \subseteq j + 1 .. i - 1
        BY <2>1, <4>1, <4>2
      <4> QED BY <1>1, <2>1, <4>1, <4>3
    <3>2. ASSUME k \in c, k \in v \cup w PROVE i \in c
      <4>1. PICK j \in v \cap w : j < k /\ j + 1 .. k - 1 \subseteq v \cup w
        BY <1>1, <3>2
      <4>2. j \in Int
        BY <1>2
      <4>3. j < i /\ j + 1 .. i - 1 = (j + 1 .. k - 1) \cup {k}
        BY <2>1, <4>1, <4>2
      <4> QED BY <1>1, <3>2, <4>1, <4>3
    <3>3. Two(k, v, w, c) <=> k \in c /\ k \in v \cup w
      BY <2>3 DEF Two, One
    <3> QED BY <3>1, <3>2, <3>3 DEF k
  <2> QED BY <2>2, <2>3
<1> QED BY <1>3, <1>4 DEF c

\* The columns' carries are those, as numbers: the definition by recursion has
\* them for a solution, and no other.
LEMMA CarriesAreColumns ==
  ASSUME width \in {32, 64}, NEW v \in Words, NEW w \in Words
  PROVE  \A i \in BitNo : CarriedInto(v, w)[i] = One(i, Carries(v, w))
<1> DEFINE E(c, i) == IF i = 0 THEN 0 ELSE (One(i - 1, v) + One(i - 1, w) + c[i - 1]) \div 2
           F(c) == [i \in BitNo |-> E(c, i)]
           g == [i \in BitNo |-> One(i, Carries(v, w))]
           f == CarriedInto(v, w)
<1>1. \A i : i \in BitNo <=> i \in Nat /\ i < width
  BY DEF BitNo
<1>2. \A i \in BitNo : i # 0 => i - 1 \in BitNo
  BY <1>1
<1>3. ASSUME NEW i \in BitNo, i # 0
      PROVE  g[i] = (One(i - 1, v) + One(i - 1, w) + g[i - 1]) \div 2
  <2>1. i - 1 \in BitNo /\ g[i] = One(i, Carries(v, w)) /\ g[i - 1] = One(i - 1, Carries(v, w))
    BY <1>2, <1>3
  <2>2. i \in Carries(v, w) <=> Two(i - 1, v, w, Carries(v, w))
    BY <2>1, CarriesRipple
  <2> HIDE DEF g
  <2> QED BY <2>1, <2>2 DEF Two, One
<1>4. \A i \in BitNo : i = 0 => g[i] = 0
  BY CarriesRipple DEF One
<1>5. g = F(g)
  BY <1>3, <1>4
<1>6. f = CHOOSE c : c = F(c)
  BY DEF CarriedInto
<1>7. f = F(f)
  BY <1>5, <1>6
<1> HIDE DEF f, g
<1>8. \A i \in BitNo : f[i] = IF i = 0 THEN 0 ELSE (One(i - 1, v) + One(i - 1, w) + f[i - 1]) \div 2
  <2>1. \A i \in BitNo : F(f)[i] = E(f, i)
    OBVIOUS
  <2> HIDE DEF F
  <2> QED BY <1>7, <2>1
<1> DEFINE S == {i \in Nat : i \in BitNo => f[i] = g[i]}
<1>9. 0 \in S
  <2>1. 0 \in BitNo => f[0] = 0 /\ g[0] = 0
    BY <1>4, <1>8, Zenon
  <2> QED BY <2>1
<1>10. ASSUME NEW n \in Nat, n \in S PROVE n + 1 \in S
  <2> SUFFICES ASSUME n + 1 \in BitNo PROVE f[n + 1] = g[n + 1]
    OBVIOUS
  <2>1. n \in BitNo /\ n + 1 # 0 /\ n + 1 - 1 = n
    BY <1>1
  <2>2. f[n] = g[n]
    BY <1>10, <2>1
  <2> QED BY <1>3, <1>8, <2>1, <2>2
<1> HIDE DEF S
<1>11. Nat \subseteq S
  BY <1>9, <1>10, InductiveSet
<1>12. \A i \in BitNo : f[i] = g[i]
  BY <1>1, <1>11 DEF S
<1> QED BY <1>12 DEF f, g

\* The sum of the model is the sum column by column: what the machine does when it
\* adds, modulo 2 to the width.
LEMMA PlusAdds ==
  ASSUME width \in {32, 64}, NEW v \in Words, NEW w \in Words
  PROVE  Plus(v, w) = Added(v, w)
<1> DEFINE c == Carries(v, w)
<1>1. c \subseteq BitNo
  BY DEF Carries
<1>2. \A i \in BitNo : CarriedInto(v, w)[i] = One(i, c)
  BY CarriesAreColumns
<1> HIDE DEF c
<1>3. Added(v, w) = {i \in BitNo : (One(i, v) + One(i, w) + One(i, c)) % 2 = 1}
  BY <1>2 DEF Added
<1>4. \A i : (One(i, v) + One(i, w) + One(i, c)) % 2 = 1 <=> i \in Xor(Xor(v, w), c)
  BY DEF One, Xor
<1>5. Xor(Xor(v, w), c) \subseteq BitNo
  BY <1>1 DEF Xor, Words
<1> QED BY <1>3, <1>4, <1>5 DEF Plus, c

\* The powers of two, and the values of the low n bits of every word.
IsPowers(pow) == pow \in [Nat -> Nat] /\ pow[0] = 1 /\ \A n \in Nat : pow[n + 1] = 2 * pow[n]
IsValues(val, pow) ==
  /\ val \in [Words -> [Nat -> Nat]]
  /\ \A x \in Words : val[x][0] = 0
  /\ \A x \in Words, n \in Nat : val[x][n + 1] = val[x][n] + (IF n \in x THEN pow[n] ELSE 0)

\* A number below the modulus, and one that exceeds it once.
LEMMA Remainders ==
  ASSUME NEW m \in Nat, m > 0, NEW n \in 0 .. m - 1
  PROVE  n % m = n /\ (n + m) % m = n
OBVIOUS

\* As numbers: with the last carry left out, the sum of the values modulo 2 to the
\* width is the value of the sum.
LEMMA SumsAreModular ==
  ASSUME width \in {32, 64}, NEW v \in Words, NEW w \in Words,
         NEW pow, IsPowers(pow), NEW val, IsValues(val, pow)
  PROVE  /\ val[Plus(v, w)][width] \in 0 .. pow[width] - 1
         /\ val[Plus(v, w)][width] = (val[v][width] + val[w][width]) % pow[width]
<1> DEFINE c == CarriedInto(v, w)
           s == Plus(v, w)
           S == {n \in Nat : n \in BitNo =>
                   val[v][n] + val[w][n] = val[s][n] + (IF c[n] = 1 THEN pow[n] ELSE 0)}
           P == {n \in Nat : pow[n] > 0 /\ \A x \in Words : val[x][n] < pow[n]}
<1>1. \A i : i \in BitNo <=> i \in Nat /\ i < width
  BY DEF BitNo
<1>2. s = Added(v, w) /\ s \in Words
  BY PlusAdds, OperationsFit
<1>3. \A i \in BitNo : c[i] \in {0, 1}
  BY CarriesAreColumns DEF One
<1>4. \A i \in BitNo : i \in s <=> (One(i, v) + One(i, w) + c[i]) % 2 = 1
  BY <1>2 DEF Added
<1>5. c[0] = 0
  <2>1. 0 \in BitNo
    BY <1>1
  <2>2. c[0] = One(0, Carries(v, w)) /\ 0 \notin Carries(v, w)
    BY CarriesAreColumns, CarriesRipple, <2>1
  <2> HIDE DEF c
  <2> QED BY <2>2 DEF One
<1>6. \A i \in BitNo : i + 1 \in BitNo => c[i + 1] = (One(i, v) + One(i, w) + c[i]) \div 2
  <2> SUFFICES ASSUME NEW i \in BitNo, i + 1 \in BitNo
               PROVE  c[i + 1] = (One(i, v) + One(i, w) + c[i]) \div 2
    OBVIOUS
  <2>1. i \in Nat /\ i + 1 - 1 = i
    BY <1>1
  <2>2. c[i + 1] = One(i + 1, Carries(v, w)) /\ c[i] = One(i, Carries(v, w))
    BY CarriesAreColumns
  <2>3. i + 1 \in Carries(v, w) <=> Two(i, v, w, Carries(v, w))
    BY <2>1, CarriesRipple
  <2> HIDE DEF c
  <2> QED BY <2>2, <2>3 DEF Two, One
<1> HIDE DEF c, s
\* One column: what is in it, the carry into it, the bit of the sum, the carry on.
<1>7. ASSUME NEW n \in BitNo
      PROVE  /\ n \in Nat /\ pow[n] \in Nat
             /\ val[v][n] \in Nat /\ val[w][n] \in Nat /\ val[s][n] \in Nat
             /\ pow[n + 1] = 2 * pow[n]
             /\ val[v][n + 1] = val[v][n] + (IF n \in v THEN pow[n] ELSE 0)
             /\ val[w][n + 1] = val[w][n] + (IF n \in w THEN pow[n] ELSE 0)
             /\ val[s][n + 1] = val[s][n] + (IF n \in s THEN pow[n] ELSE 0)
  <2>1. n \in Nat
    BY <1>1
  <2>2. val[v] \in [Nat -> Nat] /\ val[w] \in [Nat -> Nat] /\ val[s] \in [Nat -> Nat]
    BY <1>2 DEF IsValues
  <2>3. pow \in [Nat -> Nat] /\ pow[n + 1] = 2 * pow[n]
    BY <2>1 DEF IsPowers
  <2>4. \A x \in Words : val[x][n + 1] = val[x][n] + (IF n \in x THEN pow[n] ELSE 0)
    BY <2>1 DEF IsValues
  <2> QED BY <1>2, <2>1, <2>2, <2>3, <2>4
<1> DEFINE On(n) == IF One(n, v) + One(n, w) + c[n] >= 2 THEN pow[n + 1] ELSE 0
<1>8. ASSUME NEW n \in BitNo,
             val[v][n] + val[w][n] = val[s][n] + (IF c[n] = 1 THEN pow[n] ELSE 0)
      PROVE  val[v][n + 1] + val[w][n + 1] = val[s][n + 1] + On(n)
  <2>1. c[n] \in {0, 1} /\ (n \in s <=> (One(n, v) + One(n, w) + c[n]) % 2 = 1)
    BY <1>3, <1>4
  <2> DEFINE a == val[v][n]
             b == val[w][n]
             r == val[s][n]
             p == pow[n]
  <2>2. /\ a \in Nat /\ b \in Nat /\ r \in Nat /\ p \in Nat /\ pow[n + 1] = 2 * p
        /\ val[v][n + 1] = a + (IF n \in v THEN p ELSE 0)
        /\ val[w][n + 1] = b + (IF n \in w THEN p ELSE 0)
        /\ val[s][n + 1] = r + (IF n \in s THEN p ELSE 0)
        /\ a + b = r + (IF c[n] = 1 THEN p ELSE 0)
    BY <1>7, <1>8
  <2> HIDE DEF a, b, r, p
  <2>3. CASE n \in v /\ n \in w
    BY <2>1, <2>2, <2>3 DEF One
  <2>4. CASE n \in v /\ n \notin w
    BY <2>1, <2>2, <2>4 DEF One
  <2>5. CASE n \notin v
    BY <2>1, <2>2, <2>5 DEF One
  <2> QED BY <2>3, <2>4, <2>5
<1>9. Nat \subseteq S
  <2>1. 0 \in S
    BY <1>2, <1>5 DEF IsValues
  <2>2. ASSUME NEW n \in Nat, n \in S PROVE n + 1 \in S
    <3> SUFFICES ASSUME n + 1 \in BitNo
                 PROVE  val[v][n + 1] + val[w][n + 1]
                          = val[s][n + 1] + (IF c[n + 1] = 1 THEN pow[n + 1] ELSE 0)
      OBVIOUS
    <3>1. n \in BitNo
      BY <1>1
    <3>2. val[v][n] + val[w][n] = val[s][n] + (IF c[n] = 1 THEN pow[n] ELSE 0)
      BY <2>2, <3>1
    <3>3. val[v][n + 1] + val[w][n + 1] = val[s][n + 1] + On(n)
      BY <1>8, <3>1, <3>2
    <3>4. c[n + 1] = 1 <=> One(n, v) + One(n, w) + c[n] >= 2
      <4>1. c[n] \in {0, 1} /\ c[n + 1] = (One(n, v) + One(n, w) + c[n]) \div 2
        BY <1>3, <1>6, <3>1
      <4> QED BY <4>1 DEF One
    <3> QED BY <3>3, <3>4
  <2> HIDE DEF S
  <2> QED BY <2>1, <2>2, InductiveSet
<1>10. Nat \subseteq P
  <2>1. 0 \in P
    BY DEF IsPowers, IsValues
  <2>2. ASSUME NEW n \in Nat, n \in P PROVE n + 1 \in P
    <3>1. pow[n] \in Nat /\ pow[n] > 0 /\ pow[n + 1] = 2 * pow[n]
      BY <2>2 DEF IsPowers
    <3>2. ASSUME NEW x \in Words PROVE val[x][n + 1] < pow[n + 1]
      <4>1. val[x][n] \in Nat /\ val[x][n] < pow[n]
        BY <2>2 DEF IsValues
      <4>2. val[x][n + 1] = val[x][n] + (IF n \in x THEN pow[n] ELSE 0)
        BY DEF IsValues
      <4> QED BY <3>1, <4>1, <4>2
    <3> QED BY <3>1, <3>2
  <2> HIDE DEF P
  <2> QED BY <2>1, <2>2, InductiveSet
\* The last column: its carry is left out.
<1> DEFINE top == width - 1
           all == val[v][width] + val[w][width]
           sum == val[s][width]
           m == pow[width]
<1>11. top \in BitNo /\ top + 1 = width /\ width \in Nat
  BY <1>1
<1>12. all = sum \/ all = sum + m
  <2>1. val[v][top] + val[w][top] = val[s][top] + (IF c[top] = 1 THEN pow[top] ELSE 0)
    BY <1>1, <1>9, <1>11
  <2>2. val[v][top + 1] + val[w][top + 1] = val[s][top + 1] + On(top)
    BY <1>8, <1>11, <2>1
  <2>3. val[s][top + 1] \in Nat /\ pow[top + 1] \in Nat
    BY <1>2, <1>11 DEF IsValues, IsPowers
  <2> QED BY <1>11, <2>2, <2>3
<1>13. m \in Nat /\ m > 0 /\ sum \in Nat /\ sum < m /\ all \in Nat
  <2>1. width \in P /\ val[s][width] \in Nat /\ val[v][width] \in Nat /\ val[w][width] \in Nat
    <3>1. val \in [Words -> [Nat -> Nat]]
      BY DEF IsValues
    <3> QED BY <1>2, <1>10, <1>11, <3>1
  <2>2. pow[width] \in Nat
    <3>1. pow \in [Nat -> Nat]
      BY DEF IsPowers
    <3> QED BY <1>11, <3>1
  <2> QED BY <1>2, <2>1, <2>2
<1> HIDE DEF all, sum, m
<1>14. sum \in 0 .. m - 1 /\ sum = all % m
  <2>1. sum \in 0 .. m - 1
    BY <1>13
  <2>2. sum % m = sum /\ (sum + m) % m = sum
    BY <1>13, <2>1, Remainders
  <2> QED BY <1>12, <2>1, <2>2
<1> QED BY <1>14 DEF all, sum, m, s

\* In 32 bits the two shifts are a rotation.
LEMMA ShiftsRotate ==
  ASSUME width = 32, NEW w \in Words, NEW n \in 1 .. 31
  PROVE  Rotate(w, n) = RotL(w, n)
<1>1. BitNo = 0 .. 31 /\ \A i \in w : i \in 0 .. 31
  BY DEF BitNo, Words
<1>2. Rotate(w, n) = ({i + n : i \in w} \cap BitNo) \cup ({i - (32 - n) : i \in w} \cap BitNo)
  BY DEF Rotate, Shl, Shr
<1>3. ASSUME NEW i \in w
      PROVE  (i + n) % 32 = IF i + n \in 0 .. 31 THEN i + n ELSE i - (32 - n)
  <2>1. i \in 0 .. 31
    BY <1>1
  <2> QED BY <2>1
<1>4. ASSUME NEW i \in w PROVE (i + n) % 32 \in Rotate(w, n)
  <2>1. i \in 0 .. 31 /\ (i + n) % 32 \in 0 .. 31
    BY <1>1
  <2>2. CASE i + n \in 0 .. 31
    BY <1>1, <1>2, <1>3, <2>2
  <2>3. CASE i + n \notin 0 .. 31
    <3>1. (i + n) % 32 = i - (32 - n)
      BY <1>3, <2>3
    <3> QED BY <1>1, <1>2, <2>1, <3>1
  <2> QED BY <2>2, <2>3
<1>5. ASSUME NEW k \in Rotate(w, n) PROVE k \in RotL(w, n)
  <2>1. k \in 0 .. 31 /\ \E i \in w : k = i + n \/ k = i - (32 - n)
    BY <1>1, <1>2
  <2>2. PICK i \in w : k = i + n \/ k = i - (32 - n)
    BY <2>1
  <2>3. (i + n) % 32 = k
    <3>1. i \in 0 .. 31
      BY <1>1
    <3> QED BY <2>1, <2>2, <3>1
  <2> QED BY <2>3 DEF RotL
<1> QED BY <1>4, <1>5 DEF RotL

LEMMA RotationsFit ==
  ASSUME width = 32, NEW w \in Words, NEW n \in 1 .. 31
  PROVE  RotL(w, n) \in Words
<1>1. Rotate(w, n) \in Words
  BY OperationsFit
<1>2. Rotate(w, n) = RotL(w, n)
  BY ShiftsRotate
<1> QED BY <1>1, <1>2

\* Four words, xored.
LEMMA FourWords ==
  \A a, b, c, d \in Words : Xor(Xor(a, b), Xor(c, d)) = Parity(<<a, b, c, d>>)
<1> SUFFICES ASSUME NEW a \in Words, NEW b \in Words, NEW c \in Words, NEW d \in Words
             PROVE  Xor(Xor(a, b), Xor(c, d)) = Parity(<<a, b, c, d>>)
  OBVIOUS
<1>1. Parity(<<a, b, c, d>>)
        = {i \in BitNo : (One(i, a) + One(i, b) + One(i, c) + One(i, d)) % 2 = 1}
  BY DEF Parity
<1>2. ASSUME NEW i
      PROVE  i \in Xor(Xor(a, b), Xor(c, d))
               <=> (One(i, a) + One(i, b) + One(i, c) + One(i, d)) % 2 = 1
  BY DEF Xor, One
<1>3. Xor(Xor(a, b), Xor(c, d)) \subseteq BitNo
  BY DEF Xor, Words
<1> QED BY <1>1, <1>2, <1>3

\* The functions of the rounds, bit by bit.
LEMMA BitwiseFunctions ==
  ASSUME NEW a \in Words, NEW b \in Words, NEW c \in Words
  PROVE  /\ Xor(Xor(a, b), c) = Parity(<<a, b, c, {}>>)
         /\ (a \cap b) \cup ((BitNo \ a) \cap c) = Choice(a, b, c)
         /\ (a \cap b) \cup (b \cap c) \cup (a \cap c) = Majority(a, b, c)
<1> USE DEF Words
<1>1. Xor(Xor(a, b), c) = Xor(Xor(a, b), Xor(c, {}))
  BY DEF Xor
<1>2. (a \cap b) \cup ((BitNo \ a) \cap c) = Choice(a, b, c)
  BY DEF Choice
<1>3. (a \cap b) \cup (b \cap c) \cup (a \cap c) = Majority(a, b, c)
  <2>1. ASSUME NEW i \in BitNo
        PROVE  i \in (a \cap b) \cup (b \cap c) \cup (a \cap c)
                 <=> One(i, a) + One(i, b) + One(i, c) >= 2
    BY DEF One
  <2> QED BY <2>1 DEF Majority
<1>4. Xor(Xor(a, b), Xor(c, {})) = Parity(<<a, b, c, {}>>)
  <2>1. {} \in Words
    OBVIOUS
  <2> QED BY <2>1, FourWords
<1> QED BY <1>1, <1>2, <1>3, <1>4

\* The function of a round is that of its twenty.
LEMMA MixesAreStandard ==
  ASSUME HashInv, t \in 0 .. 79
  PROVE  Mixed(t \div 20 + 1) = StandardMix /\ StandardMix \in Words
<1>1. H[2] \in Words /\ H[3] \in Words /\ H[4] \in Words
  BY Elements DEF HashInv
<1>2. /\ Xor(Xor(H[2], H[3]), H[4]) = Parity(<<H[2], H[3], H[4], {}>>)
      /\ (H[2] \cap H[3]) \cup ((BitNo \ H[2]) \cap H[4]) = Choice(H[2], H[3], H[4])
      /\ (H[2] \cap H[3]) \cup (H[3] \cap H[4]) \cup (H[2] \cap H[4]) = Majority(H[2], H[3], H[4])
  BY <1>1, BitwiseFunctions
<1>3. Parity(<<H[2], H[3], H[4], {}>>) \in Words /\ Choice(H[2], H[3], H[4]) \in Words
      /\ Majority(H[2], H[3], H[4]) \in Words
  BY DEF Words, Parity, Choice, Majority
<1>4. CASE t \in 0 .. 19
  <2>1. t \div 20 + 1 = 1 /\ t \notin (20 .. 39) \cup (60 .. 79) /\ t \notin 40 .. 59
    BY <1>4
  <2>2. Mixed(t \div 20 + 1) = (H[2] \cap H[3]) \cup ((BitNo \ H[2]) \cap H[4])
    BY <2>1 DEF Mixed
  <2>3. StandardMix = Choice(H[2], H[3], H[4])
    BY <1>4, <2>1 DEF StandardMix
  <2> QED BY <1>2, <1>3, <2>2, <2>3
<1>5. CASE t \in 20 .. 39
  <2>1. t \div 20 + 1 = 2 /\ t \notin 0 .. 19 /\ t \notin 40 .. 59
    BY <1>5
  <2>2. Mixed(t \div 20 + 1) = Xor(Xor(H[2], H[3]), H[4])
    BY <2>1 DEF Mixed
  <2>3. StandardMix = Parity(<<H[2], H[3], H[4], {}>>)
    BY <1>5, <2>1 DEF StandardMix
  <2> QED BY <1>2, <1>3, <2>2, <2>3
<1>6. CASE t \in 40 .. 59
  <2>1. t \div 20 + 1 = 3 /\ t \notin 0 .. 19 /\ t \notin (20 .. 39) \cup (60 .. 79)
    BY <1>6
  <2>2. Mixed(t \div 20 + 1) = (H[2] \cap H[3]) \cup (H[3] \cap H[4]) \cup (H[2] \cap H[4])
    BY <2>1 DEF Mixed
  <2>3. StandardMix = Majority(H[2], H[3], H[4])
    BY <1>6, <2>1 DEF StandardMix
  <2> QED BY <1>2, <1>3, <2>2, <2>3
<1>7. CASE t \in 60 .. 79
  <2>1. t \div 20 + 1 = 4 /\ t \notin 0 .. 19 /\ t \notin 40 .. 59
    BY <1>7
  <2>2. Mixed(t \div 20 + 1) = Xor(Xor(H[2], H[3]), H[4])
    BY <2>1 DEF Mixed
  <2>3. StandardMix = Parity(<<H[2], H[3], H[4], {}>>)
    BY <1>7, <2>1 DEF StandardMix
  <2> QED BY <1>2, <1>3, <2>2, <2>3
<1> QED BY <1>4, <1>5, <1>6, <1>7

\* The next of the eighty words.
LEMMA WordsAreStandard ==
  ASSUME HashInv, width = 32, WordComputed
  PROVE  W' = Append(W, NextWord)
<1> DEFINE n == Len(W) + 1
           x == Xor(Xor(W[n - 3], W[n - 8]), Xor(W[n - 14], W[n - 16]))
<1>1. Len(W) \in 16 .. 79 /\ W' = Append(W, Rotate(x, 1))
  BY DEF WordComputed
<1>2. W[n - 3] \in Words /\ W[n - 8] \in Words /\ W[n - 14] \in Words /\ W[n - 16] \in Words
  <2>1. \A i \in 1 .. Len(W) : W[i] \in Words
    BY ElementOfSeq DEF HashInv
  <2> DEFINE l == Len(W)
  <2>2. l \in 16 .. 79 /\ n = l + 1
    BY <1>1
  <2> HIDE DEF n, l
  <2>3. n - 3 \in 1 .. l /\ n - 8 \in 1 .. l /\ n - 14 \in 1 .. l /\ n - 16 \in 1 .. l
    BY <2>2
  <2> QED BY <2>1, <2>3 DEF l
<1>3. x = Parity(<<W[n - 3], W[n - 8], W[n - 14], W[n - 16]>>)
  <2> HIDE DEF n
  <2> QED BY <1>2, FourWords
<1>4. x \in Words
  BY <1>2 DEF Xor, Words
<1> HIDE DEF x
<1>5. Rotate(x, 1) = RotL(x, 1)
  <2>1. 1 \in 1 .. 31
    OBVIOUS
  <2> QED BY <1>4, <2>1, ShiftsRotate
<1> QED BY <1>1, <1>3, <1>5 DEF NextWord

\* A round: five terms, added one after the other, and two rotations.
LEMMA RoundsAreStandard ==
  ASSUME HashInv, width = 32, RoundDone
  PROVE  t' = t + 1 /\ H' = StandardRound
<1> DEFINE q  == t \div 20 + 1
           r  == RotL(H[1], 5)
           m  == StandardMix
           s1 == Plus(r, m)
           s2 == Plus(s1, H[5])
           s3 == Plus(s2, W[t + 1])
           s4 == Plus(s3, K[q])
<1>1. Len(W) = 80 /\ t \in 0 .. 79 /\ t' = t + 1
  BY DEF RoundDone, HashInv
<1>2. q \in 1 .. 4
  <2>1. t \div 20 \in 0 .. 3
    BY <1>1
  <2> QED BY <2>1
<1>3. H[1] \in Words /\ H[2] \in Words /\ H[5] \in Words
  BY Elements DEF HashInv
<1>4. W[t + 1] \in Words /\ K[q] \in Words
  <2>1. \A i \in 1 .. Len(W) : W[i] \in Words
    BY ElementOfSeq DEF HashInv
  <2>2. t + 1 \in 1 .. Len(W)
    BY <1>1
  <2>3. K[q] \in Words
    BY <1>2, ConstantsAreWords
  <2> QED BY <2>1, <2>2, <2>3
<1>5. /\ Rotate(H[1], 5) = r /\ r \in Words /\ Rotate(H[2], 30) = RotL(H[2], 30)
  <2>1. \A w \in Words, n \in 1 .. 31 : Rotate(w, n) = RotL(w, n) /\ RotL(w, n) \in Words
    BY ShiftsRotate, RotationsFit
  <2>2. 5 \in 1 .. 31 /\ 30 \in 1 .. 31
    OBVIOUS
  <2> QED BY <1>3, <2>1, <2>2, Zenon
<1>6. Mixed(q) = m /\ m \in Words
  BY <1>1, MixesAreStandard
<1>7. H' = <<s4, H[1], RotL(H[2], 30), H[3], H[4]>>
  BY <1>5, <1>6 DEF RoundDone
<1> HIDE DEF q, r, m
<1>8. s1 \in Words /\ s1 = Added(r, m)
  BY <1>5, <1>6, PlusAdds, OperationsFit
<1> HIDE DEF s1
<1>9. s2 \in Words /\ s2 = Added(s1, H[5])
  BY <1>3, <1>8, PlusAdds, OperationsFit
<1> HIDE DEF s2
<1>10. s3 \in Words /\ s3 = Added(s2, W[t + 1])
  BY <1>4, <1>9, PlusAdds, OperationsFit
<1> HIDE DEF s3
<1>11. s4 = Added(s3, K[q])
  BY <1>4, <1>10, PlusAdds
<1> HIDE DEF s4
<1>12. s4 = Added(Added(Added(Added(r, m), H[5]), W[t + 1]), K[q])
  BY <1>8, <1>9, <1>10, <1>11
<1> QED BY <1>1, <1>7, <1>12 DEF StandardRound, q, r, m

\* Where an unsigned long has 32 bits every step of every block is the standard's,
\* for any text: the words, the rounds and the sums at the end of a block; with
\* PaddingIsStandard, get_sha1 departs from the standard there in the data alone.
THEOREM BlocksAreStandard == HashSpec => StepsAreStandard
<1>1. HashInv /\ [HashNext]_hashVars => [width = 32 => StandardStep]_hashVars
  <2> SUFFICES ASSUME HashInv, [HashNext]_hashVars, width = 32
               PROVE  StandardStep \/ UNCHANGED hashVars
    OBVIOUS
  <2>1. CASE HashLonger
    BY <2>1 DEF HashLonger, StandardStep
  <2>2. CASE BlockBegins
    <3>1. W' = [i \in 1 .. 16 |-> Data(hashed)[16 * begun + i - 1]] /\ H' = G /\ t' = 0 /\ G' = G
      BY <2>2 DEF BlockBegins
    <3>2. Len(W') = 16
      BY <3>1
    <3> QED BY <3>1, <3>2 DEF StandardStep
  <2>3. CASE WordComputed
    <3>1. W' = Append(W, NextWord)
      BY <2>3, WordsAreStandard
    <3>2. UNCHANGED <<t, H, G>>
      BY <2>3 DEF WordComputed
    <3> QED BY <3>1, <3>2 DEF StandardStep
  <2>4. CASE RoundDone
    <3>1. t' = t + 1 /\ H' = StandardRound
      BY <2>4, RoundsAreStandard
    <3>2. UNCHANGED <<W, G>>
      BY <2>4 DEF RoundDone
    <3> QED BY <3>1, <3>2 DEF StandardStep
  <2>5. CASE BlockEnds
    <3>1. /\ t = 80 /\ G' = [i \in 1 .. 5 |-> Plus(G[i], H[i])] /\ W' = <<>>
          /\ UNCHANGED <<t, H>>
      BY <2>5 DEF BlockEnds
    <3>2. \A i \in 1 .. 5 : G[i] \in Words /\ H[i] \in Words
      BY Elements DEF HashInv
    <3>3. \A i \in 1 .. 5 : Plus(G[i], H[i]) = Added(G[i], H[i])
      BY <3>2, PlusAdds
    <3>4. G' = [i \in 1 .. 5 |-> Added(G[i], H[i])]
      BY <3>1, <3>3
    <3>5. ~(Len(W') > 16)
      BY <3>1
    <3> QED BY <3>1, <3>4, <3>5 DEF StandardStep
  <2> QED BY <2>1, <2>2, <2>3, <2>4, <2>5 DEF HashNext
<1> QED BY <1>1, HashInitially, HashStep, PTL DEF HashSpec, StepsAreStandard

-----------------------------------------------------------------------------
(* The types of all parts (MCHelpers) *)

\* What a parsed package is: its session id is one character.
LEMMA ParsedType ==
  ASSUME NEW o, Atoi(o.session_id) \in Int
  PROVE  \A p \in {Parse(o), Emptied(Parse(o))} :
           /\ DOMAIN p = Key
           /\ p.session_id.kind = "character" /\ p.session_id.value \in 0 .. 255
<1> SUFFICES ASSUME NEW p \in {Parse(o), Emptied(Parse(o))}
             PROVE  /\ DOMAIN p = Key
                    /\ p.session_id.kind = "character" /\ p.session_id.value \in 0 .. 255
  OBVIOUS
<1> DEFINE id == Atoi(o.session_id)
<1>1. DOMAIN p = Key /\ p.session_id = OneCharacter(id)
  BY DEF Parse, Emptied, Key
<1> HIDE DEF id
<1>2. id % 256 \in 0 .. 255
  BY DEF id
<1> QED BY <1>1, <1>2 DEF OneCharacter, Character

LEMMA RelayTypes == RelayInv => RelayTypeOK
<1> SUFFICES ASSUME RelayInv PROVE RelayTypeOK
  OBVIOUS
<1> DEFINE once == Parse(original)
           sent == Write(IF writes = 1 THEN once ELSE Emptied(once))
<1>1. Atoi(original.session_id) \in Int
  <2>1. PICK n \in Session : original.session_id = Numeral(n)
    BY DEF RelayInv, Object
  <2> QED BY <2>1, NumeralIsRead, PackageAssumption
<1>2. \A p \in {once, Emptied(once)} :
        Write(p).session_id = OneCharacter(Atoi(original.session_id))
  BY DEF Write, Parse, Emptied
<1>3. Atoi(OneCharacter(Atoi(original.session_id))) \in Int
  BY CharacterIsRead DEF OneCharacter
<1> DEFINE Typed(p) ==
             /\ DOMAIN p = Key
             /\ p.session_id.kind = "character" /\ p.session_id.value \in 0 .. 255
<1>4. Typed(once) /\ Typed(Emptied(once))
  BY <1>1, ParsedType
<1>5. Typed(Parse(Write(once))) /\ Typed(Parse(sent))
  BY <1>2, <1>3, ParsedType
<1>6. stage \in {"parsed", "dispatched", "dropped", "arrived", "written", "reread"} => Typed(pack)
  <2> HIDE DEF Typed, once, sent
  <2>1. stage \in {"parsed", "dispatched", "dropped"} => pack = once
    BY DEF RelayInv, once
  <2>2. stage = "arrived" => pack = Parse(Write(once))
    BY DEF RelayInv, once
  <2>3. stage = "written" => pack = Emptied(once)
    BY DEF RelayInv, once
  <2>4. stage = "reread" => pack = Parse(sent)
    BY DEF RelayInv, once, sent
  <2> QED BY <1>4, <1>5, <2>1, <2>2, <2>3, <2>4
<1>7. stage = "arrived" => to # <<>> /\ \A i \in DOMAIN to : Len(to[i]) = 1
  BY Rejoined DEF RelayInv
<1> HIDE DEF once, sent
<1> QED BY <1>6, <1>7 DEF RelayInv, RelayTypeOK

\* Nothing, or one thing, is a sequence of at most one.
LEMMA OneOrNone ==
  ASSUME NEW S
  PROVE  {<<>>} \cup {<<x>> : x \in S} \subseteq BoundedSeq(S, 1)
<1>1. <<>> \in [1 .. 0 -> S]
  OBVIOUS
<1>2. \A x \in S : <<x>> \in [1 .. 1 -> S]
  OBVIOUS
<1>3. 0 \in 0 .. 1 /\ 1 \in 0 .. 1
  OBVIOUS
<1> QED BY <1>1, <1>2, <1>3 DEF BoundedSeq, SeqOf

LEMMA AcceptTypes == AcceptInv => AcceptTypeOK
<1> SUFFICES ASSUME AcceptInv PROVE AcceptTypeOK
  OBVIOUS
<1>1. peer \in BoundedSeq(Peer, 1)
  BY OneOrNone DEF AcceptInv, WireInv
<1> QED BY <1>1 DEF AcceptInv, WireInv, AcceptTypeOK

\* Every part keeps what its own theorem needs.
HelpersInv ==
  /\ AssignTypeOK /\ RelayInv /\ HashInv /\ SitesInv
  /\ RegistryTypeOK /\ SetUpInv /\ AcceptInv

LEMMA HelpersInitially == HelpersInit => HelpersInv
<1> SUFFICES ASSUME HelpersInit PROVE HelpersInv
  OBVIOUS
<1>1. AssignInit /\ RelayInit /\ HashInit /\ SitesInit /\ RegistryInit /\ ThreadsInit /\ AcceptInit
  BY DEF HelpersInit, AssignIdle, RelayIdle, HashIdle
<1> QED BY <1>1, AssignTypeInitially, RelayInitially, HashInitially, SitesInitially,
           RegistryInitially, SetUpInitially, AcceptInitially DEF HelpersInv

\* A step of one part is a step of it, or leaves its variables alone, for every part.
LEMMA PartsStep ==
  ASSUME [HelpersNext]_helpersVars
  PROVE  /\ [AssignNext]_assignVars /\ [RelayNext]_relayVars /\ [HashNext]_hashVars
         /\ [SitesNext]_siteVars /\ [RegistryNext]_registryVars
         /\ [ThreadsNext]_threadVars /\ [AcceptNext]_acceptVars
<1>1. CASE UNCHANGED helpersVars
  BY <1>1 DEF helpersVars
<1>2. CASE HelpersNext
  BY <1>2 DEF HelpersNext, Only
<1> QED BY <1>1, <1>2

LEMMA HelpersStep == HelpersInv /\ [HelpersNext]_helpersVars => HelpersInv'
<1> SUFFICES ASSUME HelpersInv, [HelpersNext]_helpersVars PROVE HelpersInv'
  OBVIOUS
<1>1. AssignTypeOK' /\ RelayInv' /\ HashInv'
  BY PartsStep, AssignTypeNext, RelayNextStep, HashStep DEF HelpersInv
<1>2. SitesInv' /\ RegistryTypeOK' /\ SetUpInv'
  BY PartsStep, SitesStep, RegistryStep, SetUpStep DEF HelpersInv
<1>3. AcceptInv'
  BY PartsStep, AcceptStep DEF HelpersInv
<1> QED BY <1>1, <1>2, <1>3 DEF HelpersInv

\* HelpersTypeOK, for every value of the constants of the nine parts.
THEOREM HelpersTypesCorrect == HelpersSpec => []HelpersTypeOK
<1>1. HelpersInv => HelpersTypeOK
  BY RelayTypes, HashTypes, AcceptTypes
  DEF HelpersInv, HelpersTypeOK, SitesInv, SetUpInv
<1> QED BY <1>1, HelpersInitially, HelpersStep, PTL DEF HelpersSpec

\* The composition the runs check implements every part of it, but for the
\* fairness of the threads and of the loop, which it states of the part that runs.
THEOREM HelpersImplementParts ==
  HelpersSpec => /\ AssignSpec /\ RelaySpec /\ EncodeSpec /\ HashSpec /\ SitesSpec
                 /\ RegistrySpec /\ DemoSpec
                 /\ ThreadsInit /\ [][ThreadsNext]_threadVars
                 /\ AcceptInit /\ [][AcceptNext]_acceptVars
<1>1. HelpersInit => /\ AssignInit /\ RelayInit /\ EncodeInit /\ HashInit /\ SitesInit
                     /\ RegistryInit /\ DemoInit /\ ThreadsInit /\ AcceptInit
  BY DEF HelpersInit, AssignIdle, RelayIdle, HashIdle
<1>2. [HelpersNext]_helpersVars =>
        /\ [AssignNext]_assignVars /\ [RelayNext]_relayVars /\ [Encode]_plain
        /\ [HashNext]_hashVars /\ [SitesNext]_siteVars /\ [RegistryNext]_registryVars
        /\ [DemoNext]_demoVars /\ [ThreadsNext]_threadVars /\ [AcceptNext]_acceptVars
  <2>1. CASE UNCHANGED helpersVars
    BY <2>1 DEF helpersVars
  <2>2. CASE HelpersNext
    BY <2>2 DEF HelpersNext, Only
  <2> QED BY <2>1, <2>2
<1> QED BY <1>1, <1>2, PTL
        DEF HelpersSpec, AssignSpec, RelaySpec, EncodeSpec, HashSpec, SitesSpec, RegistrySpec,
            DemoSpec

\* So the composition has what is proved of its parts: all the run of the helpers
\* checks but the known digests and what needs fairness.
THEOREM HelpersHold ==
  ASSUME RandMax >= 5 * MaxClasses
  PROVE  HelpersSpec =>
           /\ [](DrawIsRight /\ ArrivesAsSent /\ PackageComesBack)
           /\ [](Base64Correct /\ DataIsStandard /\ HeldIsGood)
           /\ [](ServesAfterSetup /\ EndsServing /\ LoopGoesOn)
           /\ DemoIsService
<1>1. HelpersSpec => [](ServesAfterSetup /\ EndsServing)
  <2>1. ThreadsInit => EndsInv
    BY SetUpInitially DEF ThreadsInit, EndsInv, EndsServing, Servers
  <2>2. EndsInv => ServesAfterSetup /\ EndsServing
    BY DEF EndsInv, SetUpInv, ThreadsTypeOK, ServesAfterSetup, Servers
  <2> QED BY <2>1, <2>2, HelpersImplementParts, EndsStep, PTL
<1>2. HelpersSpec => []LoopGoesOn
  BY HelpersImplementParts, AcceptInitially, AcceptStep, AcceptGoesOn, PTL
<1> QED BY <1>1, <1>2, HelpersImplementParts, DrawsRight, PackagesArrive, PackagesComeBack,
           EncodesAllTexts, PaddingIsStandard, PointersStayGood, DemoServes, PTL
=============================================================================
