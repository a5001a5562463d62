-------------------------- MODULE DemoServerProofs --------------------------
(***************************************************************************)
(* The demo server implements the broadcast service, for any connections   *)
(* and any number of messages.                                             *)
(***************************************************************************)
EXTENDS DemoServer, TLAPS

DemoTypeOK ==
  /\ session \in [Conn -> {"new", "open", "closing", "closed"}]
  /\ members \in SUBSET Conn /\ left \in SUBSET Conn
  /\ posted \in 0 .. MaxPosts
  /\ audience \in [Number -> SUBSET Conn]
  /\ got \in [Conn -> SUBSET Number]

\* Who has not got a message that was for it is still to be sent it by the
\* handler that runs; so it is the last message that came.
LastIsLeft ==
  \A c \in Conn : \A m \in Number :
    m <= posted /\ c \in audience[m] /\ m \notin got[c] => m = posted /\ c \in left

\* Those the handler has still to send to are to get the last message.
LeftIsDue ==
  /\ left # {} => posted \in Number
  /\ \A c \in left : c \in audience[posted] /\ posted \notin got[c]

DemoInv ==
  /\ DemoTypeOK
  /\ members = Connected /\ left \subseteq members
  /\ \A c \in Conn : \A m \in got[c] : m <= posted
  /\ LastIsLeft /\ LeftIsDue

\* What the steps of the service say of this server's variables.
LEMMA ServiceSteps ==
  /\ DemoService!ServiceInit <=>
       /\ Connected = {} /\ posted = 0
       /\ audience = [m \in Number |-> {}] /\ got = [c \in Conn |-> {}]
  /\ \A c : DemoService!Join(c) <=>
       /\ c \notin Connected /\ Connected' = Connected \cup {c}
       /\ UNCHANGED <<posted, audience, got>>
  /\ \A c : DemoService!Leave(c) <=>
       /\ c \in Connected /\ Connected' = Connected \ {c}
       /\ UNCHANGED <<posted, audience, got>>
  /\ DemoService!Publish <=>
       /\ posted + 1 \in Number /\ posted' = posted + 1
       /\ audience' = [audience EXCEPT ![posted'] = Connected]
       /\ Connected' = Connected /\ got' = got
  /\ \A c : DemoService!Due(c) =
       {m \in Number : m <= posted /\ c \in audience[m] /\ m \notin got[c]}
  /\ \A c, m : DemoService!Deliver(c, m) <=>
       /\ c \in Connected
       /\ m \in DemoService!Due(c) /\ \A n \in DemoService!Due(c) : m <= n
       /\ got' = [got EXCEPT ![c] = @ \cup {m}]
       /\ Connected' = Connected /\ UNCHANGED <<posted, audience>>
  /\ UNCHANGED DemoService!serviceVars <=>
       Connected' = Connected /\ UNCHANGED <<posted, audience, got>>
BY DEF DemoService!ServiceInit, DemoService!Join, DemoService!Leave, DemoService!Publish,
       DemoService!Due, DemoService!Deliver, DemoService!serviceVars

LEMMA DemoInitially == DemoInit => DemoInv
BY DemoAssumption
DEF DemoInit, DemoInv, DemoTypeOK, Connected, LastIsLeft, LeftIsDue, Number

LEMMA DemoStep == DemoInv /\ [DemoNext]_demoVars => DemoInv'
<1> SUFFICES ASSUME DemoInv, [DemoNext]_demoVars PROVE DemoInv'
  OBVIOUS
<1> USE DemoAssumption
<1>1. ASSUME NEW c \in Conn, Opens(c) \/ StartsToClose(c) \/ Closes(c) PROVE DemoInv'
  <2>1. left = {} /\ UNCHANGED <<posted, audience, left, got>>
    BY <1>1 DEF Opens, StartsToClose, Closes, Quiet
  <2>2. DemoTypeOK'
    BY <1>1, <2>1 DEF Opens, StartsToClose, Closes, DemoInv, DemoTypeOK
  <2>3. members' = Connected'
    BY <1>1 DEF Opens, StartsToClose, Closes, DemoInv, DemoTypeOK, Connected
  <2>4. LastIsLeft' /\ LeftIsDue'
    BY <2>1 DEF DemoInv, LastIsLeft, LeftIsDue
  <2> QED BY <2>1, <2>2, <2>3, <2>4 DEF DemoInv
<1>2. ASSUME NEW c \in Conn, Posts(c) PROVE DemoInv'
  <2>1. /\ left = {} /\ posted \in Nat /\ posted < MaxPosts /\ posted' = posted + 1
        /\ posted' \in Number /\ ~(posted' <= posted)
        /\ audience' = [audience EXCEPT ![posted'] = Connected]
        /\ left' = members /\ UNCHANGED <<session, members, got>>
    BY <1>2 DEF Posts, Quiet, DemoInv, DemoTypeOK, Number
  <2>2. Connected' = Connected /\ members = Connected
    BY <2>1 DEF Connected, DemoInv
  <2>3. DemoTypeOK'
    BY <2>1, <2>2 DEF DemoInv, DemoTypeOK, Number
  <2>4. \A d \in Conn : \A m \in got[d] : m \in Number /\ m <= posted
    BY DEF DemoInv, DemoTypeOK
  <2>5. LastIsLeft'
    <3> SUFFICES ASSUME NEW d \in Conn, NEW m \in Number, m <= posted',
                        d \in audience'[m], m \notin got[d]
                 PROVE  m = posted' /\ d \in left'
      BY <2>1 DEF LastIsLeft
    <3>1. CASE m = posted'
      BY <3>1, <2>1, <2>2 DEF DemoInv, DemoTypeOK
    <3>2. CASE m # posted'
      <4>1. m <= posted /\ d \in audience[m]
        BY <3>2, <2>1 DEF DemoInv, DemoTypeOK, Number
      <4> QED BY <4>1, <2>1 DEF DemoInv, LastIsLeft
    <3> QED BY <3>1, <3>2
  <2>6. LeftIsDue'
    BY <2>1, <2>2, <2>4 DEF LeftIsDue, DemoInv, DemoTypeOK
  <2>7. \A d \in Conn : \A m \in got[d] : m <= posted'
    BY <2>1, <2>4 DEF Number
  <2> QED BY <2>1, <2>2, <2>3, <2>5, <2>6, <2>7 DEF DemoInv
<1>3. ASSUME NEW c \in Conn, SendTo(c) PROVE DemoInv'
  <2>1. /\ c \in left /\ got' = [got EXCEPT ![c] = @ \cup {posted}] /\ left' = left \ {c}
        /\ UNCHANGED <<session, members, posted, audience>>
        /\ posted \in Number /\ posted <= posted
    BY <1>3 DEF SendTo, DemoInv, LeftIsDue, Number
  <2>2. Connected' = Connected
    BY <2>1 DEF Connected
  <2>3. DemoTypeOK'
    BY <2>1 DEF DemoInv, DemoTypeOK
  <2>4. LastIsLeft' /\ LeftIsDue'
    BY <2>1 DEF DemoInv, DemoTypeOK, LastIsLeft, LeftIsDue
  <2>5. \A d \in Conn : \A m \in got'[d] : m <= posted
    BY <2>1 DEF DemoInv, DemoTypeOK
  <2> QED BY <2>1, <2>2, <2>3, <2>4, <2>5 DEF DemoInv
<1>4. CASE UNCHANGED <<session, members, posted, audience, left, got>>
  BY <1>4 DEF DemoInv, DemoTypeOK, Connected, LastIsLeft, LeftIsDue
<1> QED BY <1>1, <1>2, <1>3, <1>4 DEF DemoNext, SendFails, demoVars

\* A step of the server is a step of the service, or none.
LEMMA StepIsService ==
  DemoInv /\ [DemoNext]_demoVars => [DemoService!ServiceNext]_(DemoService!serviceVars)
<1> SUFFICES ASSUME DemoInv, [DemoNext]_demoVars
             PROVE  DemoService!ServiceNext \/ UNCHANGED DemoService!serviceVars
  OBVIOUS
<1>0. session \in [Conn -> {"new", "open", "closing", "closed"}]
  BY DEF DemoInv, DemoTypeOK
<1>1. ASSUME NEW c \in Conn, Opens(c) PROVE DemoService!Join(c)
  <2>1. c \notin Connected /\ Connected' = Connected \cup {c}
    BY <1>0, <1>1 DEF Opens, Connected
  <2> QED BY <1>1, <2>1, ServiceSteps DEF Opens
<1>2. ASSUME NEW c \in Conn, Closes(c) PROVE DemoService!Leave(c)
  <2>1. c \in Connected /\ Connected' = Connected \ {c}
    BY <1>0, <1>2 DEF Closes, Connected
  <2> QED BY <1>2, <2>1, ServiceSteps DEF Closes
<1>3. ASSUME NEW c \in Conn, Posts(c) PROVE DemoService!Publish
  <2>1. posted + 1 \in Number /\ Connected' = Connected
    BY <1>3, DemoAssumption DEF Posts, Connected, DemoInv, DemoTypeOK, Number
  <2> QED BY <1>3, <2>1, ServiceSteps DEF Posts
<1>4. ASSUME NEW c \in Conn, SendTo(c) PROVE DemoService!Deliver(c, posted) /\ posted \in Number
  <2>1. c \in left /\ c \in Connected /\ Connected' = Connected
    BY <1>4 DEF SendTo, Connected
  <2>2. posted \in Number /\ c \in audience[posted] /\ posted \notin got[c] /\ posted <= posted
    BY <2>1 DEF DemoInv, LeftIsDue, Number
  <2>3. posted \in DemoService!Due(c) /\ \A n \in DemoService!Due(c) : posted <= n
    BY <2>2, ServiceSteps DEF DemoInv, LastIsLeft
  <2> QED BY <1>4, <2>1, <2>2, <2>3, ServiceSteps DEF SendTo
<1>5. ASSUME NEW c \in Conn, StartsToClose(c) PROVE UNCHANGED DemoService!serviceVars
  <2>1. Connected' = Connected
    BY <1>0, <1>5 DEF StartsToClose, Connected
  <2> QED BY <1>5, <2>1, ServiceSteps DEF StartsToClose
<1>6. CASE UNCHANGED <<session, posted, audience, got>>
  <2>1. Connected' = Connected
    BY <1>6 DEF Connected
  <2> QED BY <1>6, <2>1, ServiceSteps
<1> QED BY <1>1, <1>2, <1>3, <1>4, <1>5, <1>6
        DEF DemoNext, SendFails, demoVars, DemoService!ServiceNext

\* Sending inside the handler (wspp_demo.cpp:32-38) keeps the promise of the
\* broadcast service, for any number of connections and messages.
THEOREM DemoServes == DemoSpec => DemoIsService
<1>1. DemoInit => DemoService!ServiceInit
  <2>1. DemoInit => Connected = {}
    BY DEF DemoInit, Connected
  <2> QED BY <2>1, ServiceSteps DEF DemoInit
<1>2. DemoInv /\ [DemoNext]_demoVars => [DemoService!ServiceNext]_(DemoService!serviceVars)
  BY StepIsService
<1> QED BY <1>1, <1>2, DemoInitially, DemoStep, PTL
        DEF DemoSpec, DemoIsService, DemoService!ServiceSpec
=============================================================================
