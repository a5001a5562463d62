------------------------------ MODULE MCHelpers ------------------------------
(***************************************************************************)
(* The parts that share no state with the chat servers or with each other, *)
(* for model checking: a behaviour runs one of them while the others stay  *)
(* in an initial state.                                                    *)
(***************************************************************************)
EXTENDS AutoAssign, PackageCodec, Encoding, Sha1, SiteManager, ClassRegistry,
        DemoServer, ServerThreads, AcceptLoop

VARIABLE part

\* A request, JSON that speaks of one, the head of one, and one that fills the buffer.
MCPieces ==
  {[json |-> FALSE, websocket |-> TRUE, bytes |-> 600],
   [json |-> TRUE, websocket |-> TRUE, bytes |-> 600],
   [json |-> FALSE, websocket |-> FALSE, bytes |-> 200],
   [json |-> FALSE, websocket |-> TRUE, bytes |-> BuffSize]}

AssignIdle   == strategy = <<>> /\ AssignInit
RelayIdle    == /\ original = CHOOSE o \in Object : TRUE
                /\ text = original /\ asked = <<>> /\ RelayInit
HashIdle     == width = 32 /\ HashInit

HelpersInit ==
  /\ EncodeInit /\ SitesInit /\ RegistryInit /\ DemoInit /\ ThreadsInit /\ AcceptInit
  /\ part \in {"assign", "relay", "encode", "hash", "sites", "classes", "demo", "threads", "accept"}
  /\ IF part = "assign"  THEN AssignInit ELSE AssignIdle
  /\ IF part = "relay"   THEN RelayInit ELSE RelayIdle
  /\ IF part = "hash"    THEN HashInit ELSE HashIdle

\* Only the variables of part p may change.
Only(p) ==
  /\ part = p /\ UNCHANGED part
  /\ p # "assign"  => UNCHANGED assignVars
  /\ p # "relay"   => UNCHANGED relayVars
  /\ p # "encode"  => UNCHANGED plain
  /\ p # "hash"    => UNCHANGED hashVars
  /\ p # "sites"   => UNCHANGED siteVars
  /\ p # "classes" => UNCHANGED registryVars
  /\ p # "demo"    => UNCHANGED demoVars
  /\ p # "threads" => UNCHANGED threadVars
  /\ p # "accept"  => UNCHANGED acceptVars

HelpersNext ==
  \/ Only("assign") /\ AssignNext
  \/ Only("relay") /\ RelayNext
  \/ Only("encode") /\ Encode
  \/ Only("hash") /\ HashNext
  \/ Only("sites") /\ SitesNext
  \/ Only("classes") /\ RegistryNext
  \/ Only("demo") /\ DemoNext
  \/ Only("threads") /\ ThreadsNext
  \/ Only("accept") /\ AcceptNext

helpersVars == <<assignVars, relayVars, plain, hashVars, siteVars, registryVars,
                 demoVars, threadVars, acceptVars, part>>

\* The fairness of ThreadsSpec and of AcceptSpec, for the part that runs.
HelpersSpec ==
  /\ HelpersInit /\ [][HelpersNext]_helpersVars
  /\ WF_threadVars(Only("threads") /\ MainSteps)
  /\ \A s \in Servers : WF_threadVars(Only("threads") /\ OpensPort(s))
  /\ WF_acceptVars(Only("accept") /\ Goes)

\* Every variable of every part has its type.
HelpersTypeOK ==
  /\ AssignTypeOK /\ RelayTypeOK /\ HashTypeOK /\ SitesTypeOK
  /\ RegistryTypeOK /\ ThreadsTypeOK /\ AcceptTypeOK
=============================================================================
