------------------------------ MODULE Broadcast ------------------------------
(***************************************************************************)
(* broadcast_server: the io thread turns every open, message and close     *)
(* into an action and pushes it on a queue; a second thread takes them off *)
(* and keeps the set of connections it sends every message to.  The queue  *)
(* is guarded by m_action_lock and announced by m_action_cond.             *)
(*                                                                         *)
(* m_actions is what remains of log after the first taken actions.         *)
(* m_connection_lock is left out: only the processing thread takes it.     *)
(***************************************************************************)
EXTENDS Naturals, Sequences

CONSTANTS
  Conn,         \* connections; each is opened at most once
  MaxMessages   \* bound: messages the peers send

ASSUME BroadcastAssumption == MaxMessages \in Nat

VARIABLES
  session,   \* state of a connection: "new", "open", "closing" or "closed"
  messages,  \* messages received; they are numbered as they come
  audience,  \* who was connected when a message came (history)
  log,       \* the actions pushed so far
  taken,     \* how many of them have been popped
  holder,    \* who has m_action_lock: "io", "worker" or "nobody"
  ioPc,      \* the io thread: "idle", "lock", "unlock" or "notify"
  pushing,   \* the action its handler pushes
  pc,        \* the processing thread
  members,   \* m_connections
  left,      \* members the message being sent has still to go to
  got,       \* messages sent to a connection (history)
  up         \* has the process not been terminated?

peers  == <<session, messages, audience>>
queue  == <<log, taken>>
io     == <<ioPc, pushing>>
worker == <<pc, members, left, got>>
vars   == <<peers, queue, holder, io, worker, up>>

Message == 1 .. MaxMessages

Action == [type : {"SUBSCRIBE", "UNSUBSCRIBE"}, conn : Conn]
            \cup [type : {"MESSAGE"}, msg : Message]

Subscribe(c)   == [type |-> "SUBSCRIBE", conn |-> c]
Unsubscribe(c) == [type |-> "UNSUBSCRIBE", conn |-> c]
Post(m)        == [type |-> "MESSAGE", msg |-> m]

TypeOK ==
  /\ session \in [Conn -> {"new", "open", "closing", "closed"}]
  /\ messages \in 0 .. MaxMessages
  /\ audience \in [Message -> SUBSET Conn]
  /\ log \in Seq(Action)
  /\ taken \in 0 .. Len(log)
  /\ holder \in {"nobody", "io", "worker"}
  /\ ioPc \in {"idle", "lock", "unlock", "notify"}
  /\ pushing \in Action \cup {<<>>}
  /\ pc \in {"lock", "test", "waiting", "unlock", "apply", "send"}
  /\ members \in SUBSET Conn
  /\ left \in SUBSET Conn
  /\ got \in [Conn -> SUBSET Message]
  /\ up \in BOOLEAN

Init ==
  /\ session = [c \in Conn |-> "new"]
  /\ messages = 0 /\ audience = [m \in Message |-> {}]
  /\ log = <<>> /\ taken = 0
  /\ holder = "nobody"
  /\ ioPc = "idle" /\ pushing = <<>>
  /\ pc = "lock" /\ members = {} /\ left = {}
  /\ got = [c \in Conn |-> {}]
  /\ up = TRUE

-----------------------------------------------------------------------------
(* The io thread *)

Handle(a) == ioPc' = "lock" /\ pushing' = a

OnOpen(c) ==
  /\ up /\ ioPc = "idle" /\ session[c] = "new"
  /\ session' = [session EXCEPT ![c] = "open"]
  /\ Handle(Subscribe(c))
  /\ UNCHANGED <<messages, audience, queue, holder, worker, up>>

\* Messages of a connection that has begun to close are dropped by the library.
OnMessage(c) ==
  /\ up /\ ioPc = "idle" /\ session[c] = "open"
  /\ messages < MaxMessages
  /\ messages' = messages + 1
  /\ audience' = [audience EXCEPT ![messages'] =
                    {d \in Conn : session[d] \in {"open", "closing"}}]
  /\ Handle(Post(messages'))
  /\ UNCHANGED <<session, queue, holder, worker, up>>

\* The closing handshake, or a broken connection: from here a send throws.
BeginClose(c) ==
  /\ up /\ ioPc = "idle" /\ session[c] = "open"
  /\ session' = [session EXCEPT ![c] = "closing"]
  /\ UNCHANGED <<messages, audience, queue, holder, io, worker, up>>

OnClose(c) ==
  /\ up /\ ioPc = "idle" /\ session[c] = "closing"
  /\ session' = [session EXCEPT ![c] = "closed"]
  /\ Handle(Unsubscribe(c))
  /\ UNCHANGED <<messages, audience, queue, holder, worker, up>>

\* (mutant: the action goes to the front of the queue)
PushFront ==
  /\ up /\ ioPc = "lock" /\ holder = "nobody"
  /\ holder' = "io"
  /\ log' = SubSeq(log, 1, taken) \o <<pushing>> \o SubSeq(log, taken + 1, Len(log))
  /\ ioPc' = "unlock"
  /\ UNCHANGED <<peers, taken, pushing, worker, up>>

Push ==
  /\ up /\ ioPc = "lock" /\ holder = "nobody"
  /\ holder' = "io"
  /\ log' = Append(log, pushing)
  /\ ioPc' = "unlock"
  /\ UNCHANGED <<peers, taken, pushing, worker, up>>

Unlock ==
  /\ up /\ ioPc = "unlock"
  /\ holder' = "nobody"
  /\ ioPc' = "notify"
  /\ UNCHANGED <<peers, queue, pushing, worker, up>>

\* (mutant: nobody is notified)
NotifyNobody ==
  /\ up /\ ioPc = "notify"
  /\ ioPc' = "idle" /\ pushing' = <<>>
  /\ UNCHANGED <<peers, queue, holder, worker, up>>

\* notify_one is lost unless the processing thread is waiting.
Notify ==
  /\ up /\ ioPc = "notify"
  /\ ioPc' = "idle" /\ pushing' = <<>>
  /\ pc' = IF pc = "waiting" THEN "lock" ELSE pc
  /\ UNCHANGED <<peers, queue, holder, members, left, got, up>>

-----------------------------------------------------------------------------
(* process_messages *)

Lock ==
  /\ up /\ pc = "lock" /\ holder = "nobody"
  /\ holder' = "worker"
  /\ pc' = "test"
  /\ UNCHANGED <<peers, queue, io, members, left, got, up>>

\* wait(lock) gives the mutex up and blocks in one step.
Wait ==
  /\ up /\ pc = "test" /\ taken = Len(log)
  /\ holder' = "nobody"
  /\ pc' = "waiting"
  /\ UNCHANGED <<peers, queue, io, members, left, got, up>>

\* A wait may return without a notification.
WakeUp ==
  /\ up /\ pc = "waiting"
  /\ pc' = "lock"
  /\ UNCHANGED <<peers, queue, holder, io, members, left, got, up>>

\* (mutant: after a wake-up the queue is not looked at again)
PopUnchecked ==
  /\ up /\ pc = "test"
  /\ taken' = taken + 1
  /\ pc' = "unlock"
  /\ UNCHANGED <<peers, log, holder, io, members, left, got, up>>

Pop ==
  /\ up /\ pc = "test" /\ taken < Len(log)
  /\ taken' = taken + 1
  /\ pc' = "unlock"
  /\ UNCHANGED <<peers, log, holder, io, members, left, got, up>>

Release ==
  /\ up /\ pc = "unlock"
  /\ holder' = "nobody"
  /\ pc' = "apply"
  /\ UNCHANGED <<peers, queue, io, members, left, got, up>>

\* The action popped last.
Current == log[taken]

Insert ==
  /\ up /\ pc = "apply" /\ Current.type = "SUBSCRIBE"
  /\ members' = members \cup {Current.conn}
  /\ pc' = "lock"
  /\ UNCHANGED <<peers, queue, holder, io, left, got, up>>

Erase ==
  /\ up /\ pc = "apply" /\ Current.type = "UNSUBSCRIBE"
  /\ members' = members \ {Current.conn}
  /\ pc' = "lock"
  /\ UNCHANGED <<peers, queue, holder, io, left, got, up>>

StartSending ==
  /\ up /\ pc = "apply" /\ Current.type = "MESSAGE"
  /\ left' = members
  /\ pc' = "send"
  /\ UNCHANGED <<peers, queue, holder, io, members, got, up>>

\* (mutant: the loop ends when one member is left)
SendToAllButOne(c) ==
  /\ up /\ pc = "send" /\ c \in left /\ session[c] = "open"
  /\ got' = [got EXCEPT ![c] = @ \cup {Current.msg}]
  /\ left' = IF \E d, e \in left : d # e THEN {} ELSE left \ {c}
  /\ UNCHANGED <<peers, queue, holder, io, pc, members, up>>

Send(c) ==
  /\ up /\ pc = "send" /\ c \in left /\ session[c] = "open"
  /\ got' = [got EXCEPT ![c] = @ \cup {Current.msg}]
  /\ left' = left \ {c}
  /\ UNCHANGED <<peers, queue, holder, io, pc, members, up>>

\* send throws on a connection that is not open any more; nobody catches it on
\* this thread, so it ends the process.
SendThrows(c) ==
  /\ up /\ pc = "send" /\ c \in left /\ session[c] # "open"
  /\ up' = FALSE
  /\ UNCHANGED <<peers, queue, holder, io, worker>>

Sent ==
  /\ up /\ pc = "send" /\ left = {}
  /\ pc' = "lock"
  /\ UNCHANGED <<peers, queue, holder, io, members, left, got, up>>

-----------------------------------------------------------------------------
Event(c) == OnOpen(c) \/ OnMessage(c) \/ BeginClose(c) \/ OnClose(c)

HandlerStep == Push \/ Unlock \/ Notify

WorkerStep ==
  \/ Lock \/ Wait \/ Pop \/ Release
  \/ Insert \/ Erase \/ StartSending \/ Sent
  \/ \E c \in Conn : Send(c) \/ SendThrows(c)

Next == (\E c \in Conn : Event(c)) \/ HandlerStep \/ WorkerStep \/ WakeUp

Spec == Init /\ [][Next]_vars

\* Two threads that run whenever they can.  Strong fairness of Push: spurious
\* wake-ups of the other thread do not keep the mutex from the io thread for
\* ever.  No wake-up is counted on, and peers owe nothing.
FairSpec ==
  /\ Spec
  /\ WF_vars(HandlerStep) /\ SF_vars(Push)
  /\ WF_vars(WorkerStep)

-----------------------------------------------------------------------------
(* Properties *)

\* No wake-up is lost: the processing thread waits on a queue that is not empty
\* only while the handler that pushed is about to notify it.
NoLostWakeUp ==
  (pc = "waiting" /\ taken < Len(log)) => ioPc \in {"unlock", "notify"}

IoCanGo     == ioPc \in {"unlock", "notify"} \/ (ioPc = "lock" /\ holder = "nobody")
WorkerCanGo == pc \in {"test", "unlock", "apply", "send"} \/ (pc = "lock" /\ holder = "nobody")

\* The mutex and the condition variable never leave both threads waiting while
\* there is an action to push or to carry out (wspp_broadcast.cpp:80-137).
NoDeadlock ==
  up /\ (ioPc # "idle" \/ taken < Len(log) \/ pc # "waiting") => IoCanGo \/ WorkerCanGo

\* How many actions have been carried out.
Applied == IF pc \in {"unlock", "apply", "send"} THEN taken - 1 ELSE taken

Handled(m) == \E i \in 1 .. Applied : log[i] = Post(m)

\* A message is sent only to those who were connected when it came, and once it
\* has been handled all of them have it, however much the set of members lags
\* behind the connections.
SentToAudience ==
  \A m \in Message :
    /\ \A c \in Conn : m \in got[c] => c \in audience[m]
    /\ Handled(m) => \A c \in audience[m] : m \in got[c]

\* Nobody is sent a message after a later one.
SentInOrder ==
  [][\A c \in Conn : \A m \in got'[c] \ got[c] : \A n \in got[c] : n < m]_vars

\* Every message is eventually handled, unless the process is terminated.
HandledOrTerminated ==
  \A m \in Message : (messages >= m) ~> (Handled(m) \/ ~up)

\* "on_message queue send to all channels": every message is eventually sent.
EveryMessageIsHandled ==
  \A m \in Message : (messages >= m) ~> Handled(m)

-----------------------------------------------------------------------------
Service == INSTANCE BroadcastService
             WITH Number <- Message, posted <- messages,
                  connected <- {c \in Conn : session[c] \in {"open", "closing"}}

\* The queue, the second thread and the set of members that lags behind
\* (wspp_broadcast.cpp:106-137) do what a server without them would: everybody
\* gets the messages of the time it was connected in order, without a gap.
ImplementsService == Service!ServiceSpec
=============================================================================
