--------------------------- MODULE BroadcastProofs ---------------------------
(***************************************************************************)
(* Proofs about Broadcast for any set of connections and any number of     *)
(* messages.  TypeOK comes first, then the mutex and the condition         *)
(* variable, then who is in the queue, then who has been sent what.        *)
(***************************************************************************)
EXTENDS Broadcast, TLAPS

\* The three kinds of action are different, and an action is one of them.
LEMMA Kinds ==
  /\ \A c, d : Subscribe(c) # Unsubscribe(d)
  /\ \A c, m : Subscribe(c) # Post(m) /\ Unsubscribe(c) # Post(m)
  /\ \A c, d : Subscribe(c) = Subscribe(d) => c = d
  /\ \A c, d : Unsubscribe(c) = Unsubscribe(d) => c = d
  /\ \A m, n : Post(m) = Post(n) => m = n
  /\ \A c \in Conn : Subscribe(c) \in Action /\ Unsubscribe(c) \in Action
  /\ \A m \in Message : Post(m) \in Action
<1> DEFINE S(c) == [type |-> "SUBSCRIBE", conn |-> c]
           U(c) == [type |-> "UNSUBSCRIBE", conn |-> c]
           P(m) == [type |-> "MESSAGE", msg |-> m]
<1>1. /\ \A c : S(c).type = "SUBSCRIBE" /\ S(c).conn = c
      /\ \A c : U(c).type = "UNSUBSCRIBE" /\ U(c).conn = c
      /\ \A m : P(m).type = "MESSAGE" /\ P(m).msg = m
  OBVIOUS
<1>2. /\ \A c \in Conn : S(c) \in Action /\ U(c) \in Action
      /\ \A m \in Message : P(m) \in Action
  BY DEF Action
<1>3. /\ \A c : Subscribe(c) = S(c) /\ Unsubscribe(c) = U(c)
      /\ \A m : Post(m) = P(m)
  BY DEF Subscribe, Unsubscribe, Post
<1> HIDE DEF S, U, P
<1>4. "SUBSCRIBE" # "UNSUBSCRIBE" /\ "SUBSCRIBE" # "MESSAGE" /\ "UNSUBSCRIBE" # "MESSAGE"
  OBVIOUS
<1> QED BY <1>1, <1>2, <1>3, <1>4

\* What a type field says of an action.
LEMMA ByType ==
  ASSUME NEW a \in Action
  PROVE  /\ a.type = "SUBSCRIBE" => a.conn \in Conn /\ a = Subscribe(a.conn)
         /\ a.type = "UNSUBSCRIBE" => a.conn \in Conn /\ a = Unsubscribe(a.conn)
         /\ a.type = "MESSAGE" => a.msg \in Message /\ a = Post(a.msg)
         /\ a.type \in {"SUBSCRIBE", "UNSUBSCRIBE", "MESSAGE"}
BY DEF Action, Subscribe, Unsubscribe, Post

\* Pushing leaves the actions already pushed where they are.
LEMMA Pushed ==
  ASSUME log \in Seq(Action), pushing \in Action, log' = Append(log, pushing)
  PROVE  /\ log' \in Seq(Action)
         /\ Len(log) \in Nat
         /\ Len(log') = Len(log) + 1
         /\ log'[Len(log')] = pushing
         /\ \A i \in 1 .. Len(log) : log'[i] = log[i]
OBVIOUS

-----------------------------------------------------------------------------
(* Types and the mutex *)

\* The mutex is held exactly in the two critical sections; a handler that has
\* not pushed yet has something to push; an action being carried out was pushed.
LockInv ==
  /\ holder = "io" <=> ioPc = "unlock"
  /\ holder = "worker" <=> pc \in {"test", "unlock"}
  /\ ioPc = "lock" => pushing \in Action
  /\ pc \in {"unlock", "apply", "send"} => taken >= 1
  /\ pc = "send" => Current.type = "MESSAGE"

BaseInv == TypeOK /\ LockInv

LEMMA InitBase == Init => BaseInv
<1> SUFFICES ASSUME Init PROVE BaseInv
  OBVIOUS
<1>1. <<>> \in Seq(Action) /\ Len(<<>>) = 0
  OBVIOUS
<1>2. MaxMessages \in Nat
  BY BroadcastAssumption
<1> QED BY <1>1, <1>2 DEF Init, BaseInv, TypeOK, LockInv, Message

LEMMA NextBase == BaseInv /\ [Next]_vars => BaseInv'
<1> SUFFICES ASSUME BaseInv, [Next]_vars PROVE BaseInv'
  OBVIOUS
<1> USE BroadcastAssumption DEF BaseInv, TypeOK
<1>1. ASSUME NEW c \in Conn, OnOpen(c) PROVE BaseInv'
  BY <1>1, Kinds DEF OnOpen, Handle, LockInv, Current, queue, worker, peers
<1>2. ASSUME NEW c \in Conn, OnMessage(c) PROVE BaseInv'
  <2>1. messages' \in Message /\ messages' \in 0 .. MaxMessages
    BY <1>2 DEF OnMessage, Message
  <2>2. audience' \in [Message -> SUBSET Conn]
    BY <1>2 DEF OnMessage
  <2>3. pushing' \in Action
    BY <1>2, <2>1, Kinds DEF OnMessage, Handle
  <2> QED BY <1>2, <2>1, <2>2, <2>3 DEF OnMessage, Handle, LockInv, Current, queue, worker
<1>3. ASSUME NEW c \in Conn, BeginClose(c) PROVE BaseInv'
  BY <1>3 DEF BeginClose, LockInv, Current, queue, worker, io
<1>4. ASSUME NEW c \in Conn, OnClose(c) PROVE BaseInv'
  BY <1>4, Kinds DEF OnClose, Handle, LockInv, Current, queue, worker
<1>5. CASE Push
  <2>1. pushing \in Action
    BY <1>5 DEF Push, LockInv
  <2>2. log' \in Seq(Action) /\ Len(log') = Len(log) + 1 /\ Len(log) \in Nat
        /\ \A i \in 1 .. Len(log) : log'[i] = log[i]
    BY <1>5, <2>1, Pushed DEF Push
  <2>3. pc = "send" => Current' = Current
    BY <1>5, <2>2 DEF Push, LockInv, Current
  <2> HIDE DEF Current
  <2> QED BY <1>5, <2>2, <2>3 DEF Push, LockInv, peers, worker
<1>6. CASE Unlock
  BY <1>6 DEF Unlock, LockInv, Current, queue, worker, peers
<1>7. CASE Notify
  BY <1>7 DEF Notify, LockInv, Current, queue, peers
<1>8. CASE Lock
  BY <1>8 DEF Lock, LockInv, Current, queue, peers, io
<1>9. CASE Wait
  BY <1>9 DEF Wait, LockInv, Current, queue, peers, io
<1>10. CASE Pop
  BY <1>10 DEF Pop, LockInv, Current, peers, io
<1>11. CASE Release
  BY <1>11 DEF Release, LockInv, Current, queue, peers, io
<1>12. CASE Insert
  <2>1. Current \in Action
    BY <1>12 DEF Insert, LockInv, Current
  <2> QED BY <1>12, <2>1, ByType DEF Insert, LockInv, queue, peers, io
<1>13. CASE Erase
  BY <1>13 DEF Erase, LockInv, queue, peers, io
<1>14. CASE StartSending
  BY <1>14 DEF StartSending, LockInv, Current, queue, peers, io
<1>15. ASSUME NEW c \in Conn, Send(c) PROVE BaseInv'
  <2>1. Current \in Action
    BY <1>15 DEF Send, LockInv, Current
  <2>2. Current.msg \in Message
    BY <1>15, <2>1, ByType DEF Send, LockInv
  <2> QED BY <1>15, <2>2 DEF Send, LockInv, Current, queue, peers, io
<1>16. ASSUME NEW c \in Conn, SendThrows(c) PROVE BaseInv'
  BY <1>16 DEF SendThrows, LockInv, Current, queue, peers, io, worker
<1>17. CASE Sent
  BY <1>17 DEF Sent, LockInv, Current, queue, peers, io
<1>18. CASE WakeUp
  BY <1>18 DEF WakeUp, LockInv, Current, queue, peers, io
<1>19. CASE UNCHANGED vars
  BY <1>19 DEF vars, LockInv, Current, queue, peers, io, worker
<1> QED
  BY <1>1, <1>2, <1>3, <1>4, <1>5, <1>6, <1>7, <1>8, <1>9, <1>10, <1>11, <1>12,
     <1>13, <1>14, <1>15, <1>16, <1>17, <1>18, <1>19
  DEF Next, Event, HandlerStep, WorkerStep

LEMMA BaseAlways == Spec => []BaseInv
<1>1. Init => BaseInv
  BY InitBase
<1>2. BaseInv /\ [Next]_vars => BaseInv'
  BY NextBase
<1> QED BY <1>1, <1>2, PTL DEF Spec

\* Every variable keeps its type; above all, no more is popped than was pushed,
\* also after a wake-up without a push.
THEOREM BroadcastTypes == Spec => []TypeOK
<1>1. BaseInv => TypeOK
  BY DEF BaseInv
<1> QED BY <1>1, BaseAlways, PTL

-----------------------------------------------------------------------------
(* No lost wake-up *)

LEMMA NextWakeUp == BaseInv /\ NoLostWakeUp /\ [Next]_vars => NoLostWakeUp'
<1> SUFFICES ASSUME BaseInv, NoLostWakeUp, [Next]_vars PROVE NoLostWakeUp'
  OBVIOUS
<1> USE DEF BaseInv, LockInv, NoLostWakeUp
<1>1. CASE \E c \in Conn : Event(c)
  BY <1>1 DEF Event, OnOpen, OnMessage, BeginClose, OnClose, Handle, queue, io, worker
<1>2. CASE HandlerStep
  BY <1>2 DEF HandlerStep, Push, Unlock, Notify, queue, worker
<1>3. CASE Lock \/ Wait \/ Pop \/ Release
  BY <1>3 DEF Lock, Wait, Pop, Release, queue, io
<1>4. CASE Insert \/ Erase \/ StartSending \/ Sent \/ \E c \in Conn : Send(c) \/ SendThrows(c)
  BY <1>4 DEF Insert, Erase, StartSending, Sent, Send, SendThrows, queue, io, worker
<1>5. CASE WakeUp
  BY <1>5 DEF WakeUp
<1>6. CASE UNCHANGED vars
  BY <1>6 DEF vars, queue, io, worker
<1> QED BY <1>1, <1>2, <1>3, <1>4, <1>5, <1>6 DEF Next, WorkerStep

\* A processing thread that waits while there is something to do is about to be
\* notified: the queue is tested and the wait begun under the mutex a push takes.
THEOREM NoWakeUpIsLost == Spec => []NoLostWakeUp
<1>1. Init => NoLostWakeUp
  BY DEF Init, NoLostWakeUp
<1>2. BaseInv /\ NoLostWakeUp /\ [Next]_vars => NoLostWakeUp'
  BY NextWakeUp
<1> QED BY <1>1, <1>2, BaseAlways, PTL DEF Spec

\* NoDeadlock, the safety half of HandledOrTerminated, for any connections and
\* any number of messages: whatever is left to push or to carry out, one of the
\* threads can go on (wspp_broadcast.cpp:80-137).
THEOREM ThreadsNeverBlock == Spec => []NoDeadlock
<1>1. ASSUME BaseInv, NoLostWakeUp PROVE NoDeadlock
  <2> SUFFICES ASSUME ioPc # "idle" \/ taken < Len(log) \/ pc # "waiting"
               PROVE  IoCanGo \/ WorkerCanGo
    BY DEF NoDeadlock
  <2>1. /\ ioPc \in {"idle", "lock", "unlock", "notify"}
        /\ pc \in {"lock", "test", "waiting", "unlock", "apply", "send"}
        /\ holder \in {"nobody", "io", "worker"}
    BY <1>1 DEF BaseInv, TypeOK
  <2>2. CASE holder = "nobody"
    BY <1>1, <2>1, <2>2 DEF NoLostWakeUp, IoCanGo, WorkerCanGo
  \* Who holds the mutex can go on.
  <2>3. CASE holder # "nobody"
    BY <1>1, <2>1, <2>3 DEF BaseInv, LockInv, IoCanGo, WorkerCanGo
  <2> QED BY <2>2, <2>3
<1> QED BY <1>1, BaseAlways, NoWakeUpIsLost, PTL

-----------------------------------------------------------------------------
(* Who is in the queue *)

\* Connection c has been subscribed, or unsubscribed, by one of the first n
\* actions; a is the action the io thread is about to push.
Joined(c, n) == \E i \in 1 .. n : log[i] = Subscribe(c)
Gone(c, n)   == \E i \in 1 .. n : log[i] = Unsubscribe(c)
Pending(a)   == ioPc = "lock" /\ pushing = a
Belongs(c, n) == Joined(c, n) /\ ~Gone(c, n)

\* What has been pushed for a connection follows its state, but for the handler
\* that is running.
SessionInv ==
  \A c \in Conn :
    /\ session[c] = "new" => ~Joined(c, Len(log))
    /\ session[c] \in {"new", "open", "closing"} => ~Gone(c, Len(log))
    /\ session[c] \in {"open", "closing"} => Joined(c, Len(log)) \/ Pending(Subscribe(c))
    /\ session[c] = "closed" => Gone(c, Len(log)) \/ Pending(Unsubscribe(c))
    /\ Pending(Subscribe(c)) => session[c] = "open"
    /\ Pending(Unsubscribe(c)) => session[c] = "closed"

\* Nobody is unsubscribed before being subscribed.
OrderInv ==
  \A c \in Conn : \A i, j \in 1 .. Len(log) :
    log[i] = Subscribe(c) /\ log[j] = Unsubscribe(c) => i < j

\* Messages are in the queue in the order of their numbers.
NumberInv ==
  /\ \A i \in 1 .. Len(log), m \in Message : log[i] = Post(m) => m <= messages
  /\ \A i, j \in 1 .. Len(log), m, n \in Message :
       i < j /\ log[i] = Post(m) /\ log[j] = Post(n) => m < n
  /\ \A m \in Message : Pending(Post(m)) =>
       /\ m = messages
       /\ \A i \in 1 .. Len(log), n \in Message : log[i] = Post(n) => n < m

\* The connections subscribed where a message stands in the queue are those
\* that were connected when it came.
AudienceInv ==
  /\ \A i \in 1 .. Len(log), m \in Message : log[i] = Post(m) =>
       \A c \in Conn : c \in audience[m] <=> Belongs(c, i)
  /\ \A m \in Message : Pending(Post(m)) =>
       \A c \in Conn : c \in audience[m] <=> Belongs(c, Len(log))

QueueInv == SessionInv /\ OrderInv /\ NumberInv /\ AudienceInv

LEMMA InitQueue == Init => QueueInv
<1> SUFFICES ASSUME Init PROVE QueueInv
  OBVIOUS
<1>1. Len(log) = 0 /\ 1 .. Len(log) = {}
  BY DEF Init
<1>2. ioPc # "lock"
  BY DEF Init
<1> QED BY <1>1, <1>2 DEF Init, QueueInv, SessionInv, OrderInv, NumberInv, AudienceInv,
                         Joined, Gone, Pending

\* Whatever leaves the queue and the peers alone preserves it.
LEMMA QueueFrame ==
  ASSUME QueueInv, UNCHANGED <<session, messages, audience, log>>,
         ioPc' = "lock" <=> ioPc = "lock", ioPc = "lock" => pushing' = pushing
  PROVE  QueueInv'
<1>1. \A c, n : (Joined(c, n)' <=> Joined(c, n)) /\ (Gone(c, n)' <=> Gone(c, n))
  BY DEF Joined, Gone
<1>2. \A a : Pending(a)' <=> Pending(a)
  BY DEF Pending
<1> QED BY <1>1, <1>2 DEF QueueInv, SessionInv, OrderInv, NumberInv, AudienceInv, Belongs

\* What a push changes: one more action at the end.
LEMMA PushedMember ==
  ASSUME TypeOK, pushing \in Action, log' = Append(log, pushing)
  PROVE  /\ \A c : \A n \in 0 .. Len(log) :
              (Joined(c, n)' <=> Joined(c, n)) /\ (Gone(c, n)' <=> Gone(c, n))
         /\ \A c : Joined(c, Len(log))' <=> Joined(c, Len(log)) \/ pushing = Subscribe(c)
         /\ \A c : Gone(c, Len(log))' <=> Gone(c, Len(log)) \/ pushing = Unsubscribe(c)
<1>1. /\ Len(log) \in Nat /\ Len(log') = Len(log) + 1
      /\ log'[Len(log')] = pushing
      /\ \A i \in 1 .. Len(log) : log'[i] = log[i]
  BY Pushed DEF TypeOK
<1> QED BY <1>1 DEF Joined, Gone

LEMMA PushQueue == BaseInv /\ QueueInv /\ Push => QueueInv'
<1> SUFFICES ASSUME BaseInv, QueueInv, Push PROVE QueueInv'
  OBVIOUS
<1> DEFINE L == Len(log)
<1>1. /\ TypeOK /\ pushing \in Action /\ ioPc = "lock" /\ ioPc' # "lock"
      /\ log' = Append(log, pushing)
      /\ UNCHANGED <<session, messages, audience>>
  BY DEF Push, BaseInv, LockInv, peers
<1>2. /\ L \in Nat /\ Len(log') = L + 1
      /\ log'[L + 1] = pushing
      /\ \A i \in 1 .. L : log'[i] = log[i]
  BY <1>1, Pushed DEF TypeOK
<1>3. /\ \A c : \A n \in 0 .. L :
              (Joined(c, n)' <=> Joined(c, n)) /\ (Gone(c, n)' <=> Gone(c, n))
      /\ \A c : Joined(c, Len(log))' <=> Joined(c, L) \/ Pending(Subscribe(c))
      /\ \A c : Gone(c, Len(log))' <=> Gone(c, L) \/ Pending(Unsubscribe(c))
  BY <1>1, PushedMember DEF Pending
<1>4. \A a : ~Pending(a)'
  BY <1>1 DEF Pending
<1>5. SessionInv'
  BY <1>1, <1>3, <1>4 DEF QueueInv, SessionInv, TypeOK
<1>6. OrderInv'
  <2> SUFFICES ASSUME NEW c \in Conn, NEW i \in 1 .. L + 1, NEW j \in 1 .. L + 1,
                      log'[i] = Subscribe(c), log'[j] = Unsubscribe(c)
               PROVE  i < j
    BY <1>2 DEF OrderInv
  <2>1. CASE i = L + 1
    <3>1. Pending(Subscribe(c)) /\ j # i
      BY <2>1, <1>1, <1>2, Kinds DEF Pending
    <3>2. log[j] = Unsubscribe(c) /\ j \in 1 .. L
      BY <2>1, <3>1, <1>2
    <3>3. Gone(c, L)
      BY <3>2 DEF Gone
    <3> QED BY <3>1, <3>3 DEF QueueInv, SessionInv
  <2>2. CASE i # L + 1 /\ j = L + 1
    BY <2>2, <1>2
  <2>3. CASE i # L + 1 /\ j # L + 1
    BY <2>3, <1>2 DEF QueueInv, OrderInv
  <2> QED BY <2>1, <2>2, <2>3
<1>7. NumberInv'
  <2>1. \A i \in 1 .. L + 1, m \in Message : log'[i] = Post(m) => m <= messages'
    BY <1>1, <1>2 DEF QueueInv, NumberInv, Pending, TypeOK, Message
  <2>2. \A i, j \in 1 .. L + 1, m, n \in Message :
          i < j /\ log'[i] = Post(m) /\ log'[j] = Post(n) => m < n
    <3> SUFFICES ASSUME NEW i \in 1 .. L + 1, NEW j \in 1 .. L + 1,
                        NEW m \in Message, NEW n \in Message,
                        i < j, log'[i] = Post(m), log'[j] = Post(n)
                 PROVE  m < n
      OBVIOUS
    <3>1. i \in 1 .. L /\ log[i] = Post(m)
      BY <1>2
    <3>2. CASE j = L + 1
      BY <3>1, <3>2, <1>1, <1>2 DEF QueueInv, NumberInv, Pending
    <3>3. CASE j # L + 1
      BY <3>1, <3>3, <1>2 DEF QueueInv, NumberInv
    <3> QED BY <3>2, <3>3
  <2> QED BY <1>2, <1>4, <2>1, <2>2 DEF NumberInv
<1>8. AudienceInv'
  <2>1. ASSUME NEW i \in 1 .. L + 1, NEW m \in Message, log'[i] = Post(m), NEW c \in Conn
        PROVE  c \in audience'[m] <=> Belongs(c, i)'
    <3>1. CASE i = L + 1
      <4>1. Pending(Post(m))
        BY <3>1, <2>1, <1>1, <1>2 DEF Pending
      <4>2. ~Pending(Subscribe(c)) /\ ~Pending(Unsubscribe(c))
        BY <4>1, Kinds DEF Pending
      <4>3. Belongs(c, i)' <=> Belongs(c, L)
        BY <3>1, <4>2, <1>2, <1>3 DEF Belongs
      <4> QED BY <4>1, <4>3, <1>1 DEF QueueInv, AudienceInv
    <3>2. CASE i # L + 1
      <4>1. i \in 1 .. L /\ log[i] = Post(m) /\ i \in 0 .. L
        BY <3>2, <2>1, <1>2
      <4>2. Belongs(c, i)' <=> Belongs(c, i)
        BY <4>1, <1>3 DEF Belongs
      <4> QED BY <4>1, <4>2, <1>1 DEF QueueInv, AudienceInv
    <3> QED BY <3>1, <3>2
  <2> QED BY <1>2, <1>4, <2>1 DEF AudienceInv
<1> QED BY <1>5, <1>6, <1>7, <1>8 DEF QueueInv

LEMMA EventQueue ==
  ASSUME BaseInv, QueueInv, NEW c \in Conn, Event(c)
  PROVE  QueueInv'
<1> DEFINE L == Len(log)
<1>1. /\ TypeOK /\ ioPc = "idle" /\ UNCHANGED log
      /\ \A d, n : (Joined(d, n)' <=> Joined(d, n)) /\ (Gone(d, n)' <=> Gone(d, n))
      /\ \A a : ~Pending(a)
  BY DEF BaseInv, Event, OnOpen, OnMessage, BeginClose, OnClose, queue, io,
         Joined, Gone, Pending
<1>2. OrderInv'
  BY <1>1 DEF QueueInv, OrderInv
<1>3. CASE OnOpen(c)
  <2>1. /\ session' = [session EXCEPT ![c] = "open"] /\ session[c] = "new"
        /\ UNCHANGED <<messages, audience>>
        /\ \A a : Pending(a)' <=> a = Subscribe(c)
    BY <1>3 DEF OnOpen, Handle, Pending
  <2>2. /\ \A d : Pending(Subscribe(d))' <=> d = c
        /\ \A d : ~Pending(Unsubscribe(d))'
        /\ \A m : ~Pending(Post(m))'
    BY <2>1, Kinds
  <2>3. SessionInv'
    BY <1>1, <2>1, <2>2 DEF QueueInv, SessionInv, TypeOK
  <2>4. NumberInv' /\ AudienceInv'
    BY <1>1, <2>1, <2>2 DEF QueueInv, NumberInv, AudienceInv, Belongs
  <2> QED BY <1>2, <2>3, <2>4 DEF QueueInv
<1>4. CASE OnMessage(c)
  <2>1. /\ messages' = messages + 1 /\ messages' \in Message
        /\ audience' = [audience EXCEPT ![messages'] =
                         {d \in Conn : session[d] \in {"open", "closing"}}]
        /\ UNCHANGED session
        /\ \A a : Pending(a)' <=> a = Post(messages')
    BY <1>1, <1>4, BroadcastAssumption DEF OnMessage, Handle, Pending, Message, TypeOK
  <2>2. /\ \A d : ~Pending(Subscribe(d))' /\ ~Pending(Unsubscribe(d))'
        /\ \A m : Pending(Post(m))' <=> m = messages'
    BY <2>1, Kinds
  <2>3. SessionInv'
    BY <1>1, <2>1, <2>2 DEF QueueInv, SessionInv
  <2>4. NumberInv'
    <3>1. \A i \in 1 .. L, m \in Message : log[i] = Post(m) => m <= messages
      BY DEF QueueInv, NumberInv
    <3>2. messages \in Nat /\ Message \subseteq Nat
      BY <1>1 DEF TypeOK, Message
    <3> QED BY <1>1, <2>1, <2>2, <3>1, <3>2 DEF QueueInv, NumberInv
  <2>5. \A d \in Conn : session[d] \in {"open", "closing"} <=> Belongs(d, L)
    BY <1>1 DEF QueueInv, SessionInv, Belongs, TypeOK
  <2>6. AudienceInv'
    <3>1. \A d \in Conn : d \in audience'[messages'] <=> Belongs(d, L)
      BY <1>1, <2>1, <2>5 DEF TypeOK
    <3>2. \A i \in 1 .. L, m \in Message : log[i] = Post(m) => audience'[m] = audience[m]
      <4>1. \A i \in 1 .. L, m \in Message : log[i] = Post(m) => m # messages'
        BY <1>1, <2>1 DEF QueueInv, NumberInv, TypeOK, Message
      <4> QED BY <4>1, <1>1, <2>1 DEF TypeOK
    <3>3. \A d, n : Belongs(d, n)' <=> Belongs(d, n)
      BY <1>1 DEF Belongs
    <3>4. \A d : Belongs(d, Len(log))' <=> Belongs(d, L)
      BY <1>1 DEF Belongs, Joined, Gone
    <3>5. \A i \in 1 .. L, m \in Message : log[i] = Post(m) =>
            \A d \in Conn : d \in audience'[m] <=> Belongs(d, i)
      BY <3>2 DEF QueueInv, AudienceInv
    <3>6. \A m \in Message : Pending(Post(m))' =>
            \A d \in Conn : d \in audience'[m] <=> Belongs(d, Len(log))'
      BY <2>2, <3>1, <3>4
    <3> QED BY <1>1, <3>3, <3>5, <3>6 DEF AudienceInv
  <2> QED BY <1>2, <2>3, <2>4, <2>6 DEF QueueInv
<1>5. CASE BeginClose(c)
  <2>1. /\ session' = [session EXCEPT ![c] = "closing"] /\ session[c] = "open"
        /\ UNCHANGED <<messages, audience>>
        /\ \A a : ~Pending(a)'
    BY <1>1, <1>5 DEF BeginClose, Pending, io
  <2>2. SessionInv'
    BY <1>1, <2>1 DEF QueueInv, SessionInv, TypeOK
  <2>3. NumberInv' /\ AudienceInv'
    BY <1>1, <2>1 DEF QueueInv, NumberInv, AudienceInv, Belongs
  <2> QED BY <1>2, <2>2, <2>3 DEF QueueInv
<1>6. CASE OnClose(c)
  <2>1. /\ session' = [session EXCEPT ![c] = "closed"] /\ session[c] = "closing"
        /\ UNCHANGED <<messages, audience>>
        /\ \A a : Pending(a)' <=> a = Unsubscribe(c)
    BY <1>6 DEF OnClose, Handle, Pending
  <2>2. /\ \A d : Pending(Unsubscribe(d))' <=> d = c
        /\ \A d : ~Pending(Subscribe(d))'
        /\ \A m : ~Pending(Post(m))'
    BY <2>1, Kinds
  <2>3. SessionInv'
    BY <1>1, <2>1, <2>2 DEF QueueInv, SessionInv, TypeOK
  <2>4. NumberInv' /\ AudienceInv'
    BY <1>1, <2>1, <2>2 DEF QueueInv, NumberInv, AudienceInv, Belongs
  <2> QED BY <1>2, <2>3, <2>4 DEF QueueInv
<1> QED BY <1>3, <1>4, <1>5, <1>6 DEF Event

LEMMA NextQueue == BaseInv /\ QueueInv /\ [Next]_vars => QueueInv'
<1> SUFFICES ASSUME BaseInv, QueueInv, [Next]_vars PROVE QueueInv'
  OBVIOUS
<1>1. CASE \E c \in Conn : Event(c)
  BY <1>1, EventQueue
<1>2. CASE Push
  BY <1>2, PushQueue
<1>3. CASE Unlock \/ Notify \/ WorkerStep \/ WakeUp \/ UNCHANGED vars
  <2>1. /\ UNCHANGED <<session, messages, audience, log>>
        /\ ioPc' = "lock" <=> ioPc = "lock"
        /\ ioPc = "lock" => pushing' = pushing
    BY <1>3 DEF Unlock, Notify, WorkerStep, Lock, Wait, Pop, Release, Insert, Erase,
       StartSending, Sent, Send, SendThrows, WakeUp, vars, peers, queue, io
  <2> QED BY <2>1, QueueFrame
<1> QED BY <1>1, <1>2, <1>3 DEF Next, HandlerStep

LEMMA QueueAlways == Spec => []QueueInv
<1>1. Init => QueueInv
  BY InitQueue
<1>2. BaseInv /\ QueueInv /\ [Next]_vars => QueueInv'
  BY NextQueue
<1> QED BY <1>1, <1>2, BaseAlways, PTL DEF Spec

-----------------------------------------------------------------------------
(* Who is sent what *)

\* m_connections is what the actions carried out so far make it.
MembersInv == \A c \in Conn : c \in members <=> Belongs(c, Applied)

\* The connection is still to be sent the message being handled, if it is one.
Due(c) == pc \in {"unlock", "apply"} \/ (pc = "send" /\ c \in left)

\* What has been sent was popped, and before the message being sent.
GotInv ==
  \A c \in Conn, m \in Message : m \in got[c] =>
    \E i \in 1 .. taken : log[i] = Post(m) /\ (Due(c) => i < taken)

\* The connections a message is being sent to are those of its audience that do
\* not have it yet.
SendInv ==
  pc = "send" => \A c \in Conn :
    /\ c \in left => c \in audience[Current.msg]
    /\ c \in audience[Current.msg] => c \in left \/ Current.msg \in got[c]

SentInv == MembersInv /\ GotInv /\ SendInv /\ SentToAudience

LEMMA InitSent == Init => SentInv
<1> SUFFICES ASSUME Init PROVE SentInv
  OBVIOUS
<1>1. /\ Len(log) = 0 /\ taken = 0 /\ 1 .. 0 = {} /\ pc = "lock"
      /\ members = {} /\ \A c \in Conn : got[c] = {}
  BY DEF Init
<1>2. Applied = 0
  BY <1>1 DEF Applied
<1> QED BY <1>1, <1>2 DEF SentInv, MembersInv, GotInv, SendInv, SentToAudience, Belongs,
                         Joined, Handled

\* The number of an action popped but not yet carried out.
LEMMA AppliedRange ==
  BaseInv => /\ Applied \in 0 .. Len(log) /\ Len(log) \in Nat
             /\ Applied <= taken
             /\ pc \in {"unlock", "apply", "send"} => taken \in 1 .. Len(log) /\ Applied = taken - 1
             /\ pc \notin {"unlock", "apply", "send"} => Applied = taken
BY DEF BaseInv, TypeOK, LockInv, Applied

\* The io thread changes nothing that is said about the actions popped.
LEMMA IoSent ==
  ASSUME BaseInv, QueueInv, SentInv, UNCHANGED <<taken, pc, members, left, got>>,
         \A i \in 1 .. Len(log) : log'[i] = log[i],
         \A m \in 1 .. messages : audience'[m] = audience[m]
  PROVE  SentInv'
<1>1. /\ Applied' = Applied /\ Applied \in 0 .. Len(log) /\ Len(log) \in Nat
      /\ taken \in 0 .. Len(log) /\ messages \in Nat
      /\ Message \subseteq 1 .. MaxMessages /\ Message \subseteq Nat
  BY AppliedRange DEF Applied, BaseInv, TypeOK, Message
<1>2. \A c : \A n \in 0 .. Len(log) : Belongs(c, n)' <=> Belongs(c, n)
  BY <1>1 DEF Belongs, Joined, Gone
<1>3. MembersInv'
  BY <1>1, <1>2 DEF SentInv, MembersInv
<1>4. GotInv'
  BY <1>1 DEF SentInv, GotInv, Due
<1>5. \A m \in Message, i \in 1 .. Len(log) : log[i] = Post(m) => audience'[m] = audience[m]
  BY <1>1 DEF QueueInv, NumberInv, Message
<1>6. SendInv'
  <2> SUFFICES ASSUME pc = "send" PROVE SendInv'
    BY DEF SendInv
  <2>1. taken \in 1 .. Len(log) /\ Current' = Current /\ Current \in Action
    BY AppliedRange DEF Current, BaseInv, TypeOK
  <2>2. Current.msg \in Message /\ Current = Post(Current.msg)
    BY <2>1, ByType DEF BaseInv, LockInv
  <2>3. audience'[Current.msg] = audience[Current.msg]
    BY <2>1, <2>2, <1>5 DEF Current
  <2> QED BY <2>1, <2>3 DEF SentInv, SendInv
<1>7. SentToAudience'
  <2>1. \A m \in Message : Handled(m)' <=> Handled(m)
    BY <1>1 DEF Handled
  <2>2. \A m \in Message : Handled(m) => audience'[m] = audience[m]
    BY <1>1, <1>5 DEF Handled
  <2>3. \A m \in Message, c \in Conn : m \in got[c] => audience'[m] = audience[m]
    BY <1>1, <1>5 DEF SentInv, GotInv
  <2> QED BY <2>1, <2>2, <2>3 DEF SentInv, SentToAudience
<1> QED BY <1>3, <1>4, <1>6, <1>7 DEF SentInv

\* A step of the processing thread that neither changes the members nor sends.
LEMMA QuietSent ==
  ASSUME BaseInv, SentInv, UNCHANGED <<log, audience, members, left, got>>,
         Applied' = Applied, taken <= taken', taken' \in Nat, pc' # "send",
         pc' \in {"unlock", "apply"} => pc \in {"unlock", "apply"} \/ taken < taken'
  PROVE  SentInv'
<1>1. \A c, n : Belongs(c, n)' <=> Belongs(c, n)
  BY DEF Belongs, Joined, Gone
<1>2. MembersInv' /\ SendInv'
  BY <1>1 DEF SentInv, MembersInv, SendInv
<1>3. GotInv'
  <2> SUFFICES ASSUME NEW c \in Conn, NEW m \in Message, m \in got[c]
               PROVE  \E i \in 1 .. taken' : log[i] = Post(m) /\ (Due(c)' => i < taken')
    BY DEF GotInv
  <2>1. PICK i \in 1 .. taken : log[i] = Post(m) /\ (Due(c) => i < taken)
    BY DEF SentInv, GotInv
  <2>2. i \in 1 .. taken' /\ taken \in Nat
    BY DEF BaseInv, TypeOK
  <2> QED BY <2>1, <2>2 DEF Due
<1>4. SentToAudience'
  BY DEF SentInv, SentToAudience, Handled
<1> QED BY <1>2, <1>3, <1>4 DEF SentInv

LEMMA ApplySent ==
  ASSUME BaseInv, QueueInv, SentInv, Insert \/ Erase
  PROVE  SentInv'
<1>1. /\ taken \in 1 .. Len(log) /\ Len(log) \in Nat /\ Applied = taken - 1 /\ Applied' = taken
      /\ UNCHANGED <<log, taken, audience, left, got>> /\ pc = "apply" /\ pc' = "lock"
      /\ Current \in Action
  BY AppliedRange DEF Insert, Erase, Applied, queue, peers, Current, BaseInv, TypeOK
<1>2. /\ Insert => \E d \in Conn : Current = Subscribe(d) /\ members' = members \cup {d}
      /\ Erase => \E d \in Conn : Current = Unsubscribe(d) /\ members' = members \ {d}
  BY <1>1, ByType DEF Insert, Erase
<1>3. \A c, n : /\ Belongs(c, n)' <=> Belongs(c, n)
                /\ Joined(c, n)' <=> Joined(c, n)
  BY <1>1 DEF Belongs, Joined, Gone
<1>4. \A c : /\ Joined(c, taken) <=> Joined(c, taken - 1) \/ Current = Subscribe(c)
             /\ Gone(c, taken) <=> Gone(c, taken - 1) \/ Current = Unsubscribe(c)
  BY <1>1 DEF Joined, Gone, Current
<1>5. \A c \in Conn : Current = Subscribe(c) => ~Gone(c, taken)
  BY <1>1, Kinds DEF Gone, Current, QueueInv, OrderInv
<1>6. \A c \in Conn : c \in members <=> Belongs(c, taken - 1)
  BY <1>1 DEF SentInv, MembersInv
<1>7. MembersInv'
  <2>1. CASE Insert
    <3>1. PICK d \in Conn : Current = Subscribe(d) /\ members' = members \cup {d}
      BY <1>2, <2>1
    <3>2. \A c \in Conn : c \in members' <=> Belongs(c, taken)
      BY <3>1, <1>4, <1>5, <1>6, Kinds DEF Belongs
    <3> QED BY <3>2, <1>1, <1>3 DEF MembersInv
  <2>2. CASE Erase
    <3>1. PICK d \in Conn : Current = Unsubscribe(d) /\ members' = members \ {d}
      BY <1>2, <2>2
    <3>2. \A c \in Conn : c \in members' <=> Belongs(c, taken)
      BY <3>1, <1>4, <1>6, Kinds DEF Belongs
    <3> QED BY <3>2, <1>1, <1>3 DEF MembersInv
  <2> QED BY <2>1, <2>2
<1>8. GotInv' /\ SendInv'
  BY <1>1 DEF SentInv, GotInv, SendInv, Due
<1>9. \A m : Handled(m)' => Handled(m)
  <2>1. \A m : Current # Post(m)
    BY <1>2, Kinds
  <2> QED BY <2>1, <1>1 DEF Handled, Current
<1>10. SentToAudience'
  BY <1>1, <1>9 DEF SentInv, SentToAudience
<1> QED BY <1>7, <1>8, <1>10 DEF SentInv

LEMMA StartSent ==
  ASSUME BaseInv, QueueInv, SentInv, StartSending
  PROVE  SentInv'
<1>1. /\ taken \in 1 .. Len(log) /\ Len(log) \in Nat /\ Applied = taken - 1 /\ Applied' = Applied
      /\ UNCHANGED <<log, taken, audience, members, got, Current>> /\ pc = "apply" /\ pc' = "send"
      /\ Current \in Action /\ left' = members
  BY AppliedRange DEF StartSending, Applied, queue, peers, Current, BaseInv, TypeOK
<1>2. Current.msg \in Message /\ Current = Post(Current.msg)
  BY <1>1, ByType DEF StartSending
<1>3. \A c \in Conn : Belongs(c, taken) <=> Belongs(c, taken - 1)
  BY <1>1, <1>2, Kinds DEF Belongs, Joined, Gone, Current
<1>4. \A c \in Conn : c \in members <=> c \in audience[Current.msg]
  BY <1>1, <1>2, <1>3 DEF SentInv, MembersInv, QueueInv, AudienceInv, Current
<1>5. SendInv'
  BY <1>1, <1>4 DEF SendInv
<1>6. \A c, n : Belongs(c, n)' <=> Belongs(c, n)
  BY <1>1 DEF Belongs, Joined, Gone
<1>7. MembersInv' /\ GotInv' /\ SentToAudience'
  BY <1>1, <1>6 DEF SentInv, MembersInv, GotInv, Due, SentToAudience, Handled
<1> QED BY <1>5, <1>7 DEF SentInv

LEMMA SendSent ==
  ASSUME BaseInv, QueueInv, SentInv, NEW c \in Conn, Send(c)
  PROVE  SentInv'
<1>1. /\ taken \in 1 .. Len(log) /\ Applied = taken - 1 /\ Applied' = Applied
      /\ UNCHANGED <<log, taken, audience, members, pc, Current>> /\ pc = "send"
      /\ c \in left /\ left' = left \ {c}
      /\ got' = [got EXCEPT ![c] = @ \cup {Current.msg}]
      /\ Current \in Action /\ got \in [Conn -> SUBSET Message]
  BY AppliedRange DEF Send, Applied, queue, peers, Current, BaseInv, TypeOK
<1>2. Current.msg \in Message /\ Current = Post(Current.msg)
  BY <1>1, ByType DEF BaseInv, LockInv
<1>3. /\ \A d \in Conn : got[d] \subseteq got'[d]
      /\ \A d \in Conn : d # c => got'[d] = got[d]
      /\ got'[c] = got[c] \cup {Current.msg}
  BY <1>1
<1>4. MembersInv'
  BY <1>1 DEF SentInv, MembersInv, Belongs, Joined, Gone
<1>5. GotInv'
  BY <1>1, <1>2, <1>3 DEF SentInv, GotInv, Due, Current
<1>6. SendInv'
  BY <1>1, <1>3 DEF SentInv, SendInv
<1>7. SentToAudience'
  BY <1>1, <1>3 DEF SentInv, SentToAudience, SendInv, Handled
<1> QED BY <1>4, <1>5, <1>6, <1>7 DEF SentInv

LEMMA DoneSent ==
  ASSUME BaseInv, QueueInv, SentInv, Sent
  PROVE  SentInv'
<1>1. /\ taken \in 1 .. Len(log) /\ Len(log) \in Nat /\ Applied = taken - 1 /\ Applied' = taken
      /\ UNCHANGED <<log, taken, audience, members, left, got>> /\ pc = "send" /\ pc' = "lock"
      /\ left = {} /\ Current \in Action
  BY AppliedRange DEF Sent, Applied, queue, peers, Current, BaseInv, TypeOK
<1>2. Current.msg \in Message /\ Current = Post(Current.msg)
  BY <1>1, ByType DEF BaseInv, LockInv
<1>3. \A c \in Conn : Belongs(c, taken) <=> Belongs(c, taken - 1)
  BY <1>1, <1>2, Kinds DEF Belongs, Joined, Gone, Current
<1>4. \A c, n : Belongs(c, n)' <=> Belongs(c, n)
  BY <1>1 DEF Belongs, Joined, Gone
<1>5. MembersInv'
  BY <1>1, <1>3, <1>4 DEF SentInv, MembersInv
<1>6. GotInv' /\ SendInv'
  BY <1>1 DEF SentInv, GotInv, SendInv, Due
<1>7. \A m : Handled(m)' => Handled(m) \/ m = Current.msg
  BY <1>1, <1>2, Kinds DEF Handled, Current
<1>8. \A c \in Conn : c \in audience[Current.msg] => Current.msg \in got[c]
  BY <1>1 DEF SentInv, SendInv
<1>9. SentToAudience'
  <2>1. \A m \in Message : Handled(m) => \A c \in audience[m] : m \in got[c]
    BY DEF SentInv, SentToAudience
  <2>2. \A m \in Message : audience[m] \subseteq Conn
    BY DEF BaseInv, TypeOK
  <2>3. \A m \in Message : Handled(m)' => \A c \in audience[m] : m \in got[c]
    BY <1>7, <1>8, <2>1, <2>2
  <2> QED BY <1>1, <2>3 DEF SentInv, SentToAudience
<1> QED BY <1>5, <1>6, <1>9 DEF SentInv

LEMMA NextSent == BaseInv /\ QueueInv /\ SentInv /\ [Next]_vars => SentInv'
<1> SUFFICES ASSUME BaseInv, QueueInv, SentInv, [Next]_vars PROVE SentInv'
  OBVIOUS
<1>1. CASE \E c \in Conn : Event(c)
  <2>1. UNCHANGED <<log, taken, pc, members, left, got>>
    BY <1>1 DEF Event, OnOpen, OnMessage, BeginClose, OnClose, queue, worker
  <2>2. \A m \in 1 .. messages : audience'[m] = audience[m]
    <3>1. CASE \E c \in Conn : OnMessage(c)
      <4>1. PICK S \in SUBSET Conn :
              audience' = [audience EXCEPT ![messages'] = S] /\ messages' = messages + 1
        BY <3>1 DEF OnMessage
      <4> QED BY <4>1 DEF BaseInv, TypeOK, Message
    <3>2. CASE UNCHANGED audience
      BY <3>2
    <3> QED BY <1>1, <3>1, <3>2 DEF Event, OnOpen, BeginClose, OnClose
  <2> QED BY <2>1, <2>2, IoSent
<1>2. CASE Push
  <2>1. UNCHANGED <<taken, pc, members, left, got, audience>>
    BY <1>2 DEF Push, peers, worker
  <2>2. \A i \in 1 .. Len(log) : log'[i] = log[i]
    BY <1>2, Pushed DEF Push, BaseInv, TypeOK, LockInv
  <2> QED BY <2>1, <2>2, IoSent
<1>3. CASE Unlock \/ (\E c \in Conn : SendThrows(c)) \/ UNCHANGED vars
  <2>1. UNCHANGED <<log, taken, pc, members, left, got, audience>>
    BY <1>3 DEF Unlock, SendThrows, vars, peers, queue, worker
  <2> QED BY <2>1, IoSent
<1>4. CASE Notify /\ pc # "waiting"
  <2>1. UNCHANGED <<log, taken, pc, members, left, got, audience>>
    BY <1>4 DEF Notify, peers, queue
  <2> QED BY <2>1, IoSent
<1>5. CASE Lock \/ Wait \/ Pop \/ Release \/ WakeUp \/ (Notify /\ pc = "waiting")
  <2>1. /\ UNCHANGED <<log, audience, members, left, got>>
        /\ taken \in Nat /\ taken' \in {taken, taken + 1}
        /\ pc' # "send" /\ pc # "send"
        /\ taken' = taken + 1 <=> Pop
    BY <1>5 DEF Lock, Wait, Pop, Release, WakeUp, Notify, peers, queue, BaseInv, TypeOK
  <2>2. Applied' = Applied
    <3>1. CASE Pop
      <4>1. pc = "test" /\ pc' = "unlock" /\ taken' = taken + 1
        BY <3>1 DEF Pop
      <4> QED BY <4>1, <2>1 DEF Applied
    <3>2. CASE ~Pop
      <4>1. taken' = taken
        BY <3>2, <2>1
      <4>2. pc' \in {"unlock", "apply", "send"} <=> pc \in {"unlock", "apply", "send"}
        BY <1>5, <3>2 DEF Lock, Wait, Release, WakeUp, Notify
      <4> QED BY <4>1, <4>2 DEF Applied
    <3> QED BY <3>1, <3>2
  <2>3. pc' \in {"unlock", "apply"} => pc \in {"unlock", "apply"} \/ taken < taken'
    BY <1>5, <2>1 DEF Lock, Wait, Pop, Release, WakeUp, Notify
  <2>4. taken <= taken' /\ taken' \in Nat
    BY <2>1
  <2> QED BY <2>1, <2>2, <2>3, <2>4, QuietSent
<1>6. CASE Insert \/ Erase
  BY <1>6, ApplySent
<1>7. CASE StartSending
  BY <1>7, StartSent
<1>8. CASE \E c \in Conn : Send(c)
  BY <1>8, SendSent
<1>9. CASE Sent
  BY <1>9, DoneSent
<1> QED BY <1>1, <1>2, <1>3, <1>4, <1>5, <1>6, <1>7, <1>8, <1>9
        DEF Next, HandlerStep, WorkerStep

LEMMA SentAlways == Spec => []SentInv
<1>1. Init => SentInv
  BY InitSent
<1>2. BaseInv /\ QueueInv /\ SentInv /\ [Next]_vars => SentInv'
  BY NextSent
<1> QED BY <1>1, <1>2, BaseAlways, QueueAlways, PTL DEF Spec

\* A message goes to those connected when it came and to nobody else: the order
\* of the queue keeps the lagging set of members in step with the message.
THEOREM AudiencesAreSent == Spec => []SentToAudience
<1>1. SentInv => SentToAudience
  BY DEF SentInv
<1> QED BY <1>1, SentAlways, PTL

\* Nobody is sent a message after a later one: the queue holds the messages in
\* order, and all that was sent before stands before the message being sent.
THEOREM MessagesAreInOrder == Spec => SentInOrder
<1> DEFINE InOrder == \A c \in Conn : \A m \in got'[c] \ got[c] : \A n \in got[c] : n < m
<1>1. BaseInv /\ QueueInv /\ SentInv /\ [Next]_vars => [InOrder]_vars
  <2> SUFFICES ASSUME BaseInv, QueueInv, SentInv, [Next]_vars PROVE InOrder
    OBVIOUS
  <2>1. CASE \E d \in Conn : Send(d)
    <3>1. PICK d \in Conn : Send(d)
      BY <2>1
    <3>2. /\ taken \in 1 .. Len(log) /\ pc = "send" /\ d \in left
          /\ got' = [got EXCEPT ![d] = @ \cup {Current.msg}]
          /\ Current \in Action /\ got \in [Conn -> SUBSET Message]
      BY <3>1, AppliedRange DEF Send, Current, BaseInv, TypeOK
    <3>3. Current.msg \in Message /\ log[taken] = Post(Current.msg)
      BY <3>2, ByType DEF BaseInv, LockInv, Current
    <3>4. \A n \in got[d] : n < Current.msg
      <4> SUFFICES ASSUME NEW n \in got[d] PROVE n < Current.msg
        OBVIOUS
      <4>1. n \in Message /\ \E i \in 1 .. taken : log[i] = Post(n) /\ i < taken
        BY <3>2 DEF SentInv, GotInv, Due
      <4>2. PICK i \in 1 .. Len(log) : log[i] = Post(n) /\ i < taken
        BY <4>1, <3>2
      <4> QED BY <4>1, <4>2, <3>2, <3>3 DEF QueueInv, NumberInv
    <3> QED BY <3>2, <3>4
  <2>2. CASE UNCHANGED got
    BY <2>2
  <2>3. (\E d \in Conn : Send(d)) \/ UNCHANGED got
    BY DEF Next, Event, HandlerStep, WorkerStep, OnOpen, OnMessage, BeginClose, OnClose,
       Push, Unlock, Notify, Lock, Wait, Pop, Release, Insert, Erase, StartSending, Sent,
       SendThrows, WakeUp, vars, worker
  <2> QED BY <2>1, <2>2, <2>3
<1> QED BY <1>1, BaseAlways, QueueAlways, SentAlways, PTL DEF Spec, SentInOrder

-----------------------------------------------------------------------------
(* The abstract service *)

Online == {c \in Conn : session[c] \in {"open", "closing"}}

\* A step of the service, with its definitions written out over the variables of
\* the server.
LEMMA ServiceSteps ==
  /\ Service!ServiceInit <=>
       /\ Online = {} /\ messages = 0
       /\ audience = [m \in Message |-> {}] /\ got = [c \in Conn |-> {}]
  /\ (UNCHANGED <<Online, messages, audience, got>>) <=>
       UNCHANGED Service!serviceVars
  /\ \A c : Service!Join(c) <=>
       /\ c \notin Online /\ Online' = Online \cup {c}
       /\ UNCHANGED <<messages, audience, got>>
  /\ \A c : Service!Leave(c) <=>
       /\ c \in Online /\ Online' = Online \ {c}
       /\ UNCHANGED <<messages, audience, got>>
  /\ Service!Publish <=>
       /\ messages + 1 \in Message /\ messages' = messages + 1
       /\ audience' = [audience EXCEPT ![messages'] = Online]
       /\ UNCHANGED <<Online, got>>
  /\ \A c : Service!Due(c) = {m \in Message : m <= messages /\ c \in audience[m] /\ m \notin got[c]}
  /\ \A c, m : Service!Deliver(c, m) <=>
       /\ c \in Online
       /\ m \in Service!Due(c) /\ \A n \in Service!Due(c) : m <= n
       /\ got' = [got EXCEPT ![c] = @ \cup {m}]
       /\ UNCHANGED <<Online, messages, audience>>
BY DEF Service!ServiceInit, Service!serviceVars, Service!Join, Service!Leave,
       Service!Publish, Service!Due, Service!Deliver, Online

\* Every message that has come is in the queue, once or still about to be pushed.
AllCame ==
  \A m \in Message : m <= messages =>
    Pending(Post(m)) \/ \E i \in 1 .. Len(log) : log[i] = Post(m)

LEMMA NextCame == BaseInv /\ AllCame /\ [Next]_vars => AllCame'
<1> SUFFICES ASSUME BaseInv, AllCame, [Next]_vars PROVE AllCame'
  OBVIOUS
<1>1. CASE \E c \in Conn : OnOpen(c) \/ OnMessage(c) \/ OnClose(c)
  <2>1. log' = log /\ ioPc = "idle" /\ ioPc' = "lock"
    BY <1>1 DEF OnOpen, OnMessage, OnClose, Handle, queue
  <2>2. messages' = messages \/ (messages' = messages + 1 /\ pushing' = Post(messages'))
    BY <1>1 DEF OnOpen, OnMessage, OnClose, Handle
  <2>3. messages \in Nat
    BY DEF BaseInv, TypeOK
  <2> QED BY <2>1, <2>2, <2>3 DEF AllCame, Pending, Message
<1>2. CASE Push
  <2>1. /\ messages' = messages /\ pushing \in Action /\ ioPc = "lock"
        /\ Len(log) \in Nat /\ Len(log') = Len(log) + 1 /\ log'[Len(log')] = pushing
        /\ \A i \in 1 .. Len(log) : log'[i] = log[i]
    BY <1>2, Pushed DEF Push, BaseInv, TypeOK, LockInv, peers
  <2>2. Len(log') \in 1 .. Len(log') /\ 1 .. Len(log) \subseteq 1 .. Len(log')
    BY <2>1
  <2> QED BY <2>1, <2>2 DEF AllCame, Pending
<1>3. CASE UNCHANGED <<messages, log, pushing>> /\ (ioPc' = "lock" <=> ioPc = "lock")
  BY <1>3 DEF AllCame, Pending
<1>4. CASE Notify
  BY <1>4 DEF Notify, AllCame, Pending, peers, queue
<1>5. CASE Unlock \/ WorkerStep \/ WakeUp \/ (\E c \in Conn : BeginClose(c)) \/ UNCHANGED vars
  BY <1>3, <1>5 DEF Unlock, WorkerStep, WakeUp, BeginClose, Lock, Wait, Pop, Release,
     Insert, Erase, StartSending, Sent, Send, SendThrows, vars, peers, queue, io
<1> QED BY <1>1, <1>2, <1>4, <1>5 DEF Next, Event, HandlerStep

LEMMA CameAlways == Spec => []AllCame
<1>1. Init => AllCame
  BY DEF Init, AllCame, Message
<1>2. BaseInv /\ AllCame /\ [Next]_vars => AllCame'
  BY NextCame
<1> QED BY <1>1, <1>2, BaseAlways, PTL DEF Spec

\* The message being sent is the first its receiver has still to get.
LEMMA SendIsFirst ==
  ASSUME BaseInv, QueueInv, SentInv, AllCame, NEW c \in Conn, Send(c)
  PROVE  /\ Current.msg \in Service!Due(c)
         /\ \A n \in Service!Due(c) : Current.msg <= n
<1>1. /\ taken \in 1 .. Len(log) /\ Applied = taken - 1 /\ pc = "send" /\ c \in left
      /\ Current \in Action /\ got \in [Conn -> SUBSET Message] /\ Len(log) \in Nat
  BY AppliedRange DEF Send, Current, BaseInv, TypeOK
<1>2. Current.msg \in Message /\ log[taken] = Post(Current.msg)
  BY <1>1, ByType DEF BaseInv, LockInv, Current
<1>3. Current.msg <= messages
  BY <1>1, <1>2 DEF QueueInv, NumberInv
<1>4. c \in audience[Current.msg]
  BY <1>1 DEF SentInv, SendInv
<1>5. Current.msg \notin got[c]
  <2> SUFFICES ASSUME Current.msg \in got[c] PROVE FALSE
    OBVIOUS
  <2>1. PICK i \in 1 .. taken : log[i] = Post(Current.msg) /\ i < taken
    BY <1>1, <1>2 DEF SentInv, GotInv, Due
  <2> QED BY <2>1, <1>1, <1>2 DEF QueueInv, NumberInv, Message
<1>6. ASSUME NEW n \in Service!Due(c) PROVE Current.msg <= n
  <2>1. n \in Message /\ n <= messages /\ c \in audience[n] /\ n \notin got[c]
    BY ServiceSteps
  <2>2. CASE Pending(Post(n))
    BY <2>1, <2>2, <1>1, <1>2 DEF QueueInv, NumberInv, Message
  <2>3. CASE \E i \in 1 .. Len(log) : log[i] = Post(n)
    <3>1. PICK i \in 1 .. Len(log) : log[i] = Post(n)
      BY <2>3
    <3>2. ~(i <= Applied)
      BY <3>1, <2>1, <1>1 DEF SentInv, SentToAudience, Handled
    <3>3. taken = i \/ taken < i
      BY <3>2, <1>1
    <3>4. CASE taken = i
      <4>1. Current = Post(n)
        BY <3>1, <3>4 DEF Current
      <4>2. Current.msg = n /\ n \in Nat
        BY <4>1, <2>1 DEF Post, Message
      <4> QED BY <4>2
    <3>5. CASE taken < i
      BY <3>1, <3>5, <1>1, <1>2, <2>1 DEF QueueInv, NumberInv, Message
    <3> QED BY <3>3, <3>4, <3>5
  <2> QED BY <2>1, <2>2, <2>3 DEF AllCame
<1> QED BY <1>2, <1>3, <1>4, <1>5, <1>6, ServiceSteps

\* A step of the server is a step of the service, or none.
LEMMA StepIsService ==
  BaseInv /\ QueueInv /\ SentInv /\ AllCame /\ [Next]_vars
    => [Service!ServiceNext]_(Service!serviceVars)
<1> SUFFICES ASSUME BaseInv, QueueInv, SentInv, AllCame, [Next]_vars
             PROVE  Service!ServiceNext \/ UNCHANGED Service!serviceVars
  OBVIOUS
<1>0. /\ session \in [Conn -> {"new", "open", "closing", "closed"}]
      /\ messages \in 0 .. MaxMessages /\ MaxMessages \in Nat
  BY BroadcastAssumption DEF BaseInv, TypeOK
<1>1. ASSUME NEW c \in Conn, OnOpen(c) PROVE Service!Join(c)
  <2>1. session' = [session EXCEPT ![c] = "open"] /\ session[c] = "new"
        /\ UNCHANGED <<messages, audience, got>>
    BY <1>1 DEF OnOpen, worker
  <2>2. c \notin Online /\ Online' = Online \cup {c}
    BY <2>1, <1>0 DEF Online
  <2> QED BY <2>1, <2>2, ServiceSteps
<1>2. ASSUME NEW c \in Conn, OnClose(c) PROVE Service!Leave(c)
  <2>1. session' = [session EXCEPT ![c] = "closed"] /\ session[c] = "closing"
        /\ UNCHANGED <<messages, audience, got>>
    BY <1>2 DEF OnClose, worker
  <2>2. c \in Online /\ Online' = Online \ {c}
    BY <2>1, <1>0 DEF Online
  <2> QED BY <2>1, <2>2, ServiceSteps
<1>3. ASSUME NEW c \in Conn, OnMessage(c) PROVE Service!Publish
  <2>1. /\ messages < MaxMessages /\ messages' = messages + 1
        /\ audience' = [audience EXCEPT ![messages'] = Online]
        /\ UNCHANGED <<session, got>>
    BY <1>3 DEF OnMessage, worker, Online
  <2>2. messages + 1 \in Message
    BY <2>1, <1>0 DEF Message
  <2>3. Online' = Online
    BY <2>1 DEF Online
  <2> QED BY <2>1, <2>2, <2>3, ServiceSteps
<1>4. ASSUME NEW c \in Conn, Send(c) PROVE Service!Deliver(c, Current.msg)
  <2>1. /\ got' = [got EXCEPT ![c] = @ \cup {Current.msg}] /\ c \in Online
        /\ UNCHANGED <<session, messages, audience>>
    BY <1>4 DEF Send, peers, Online
  <2>2. Online' = Online
    BY <2>1 DEF Online
  <2>3. /\ Current.msg \in Service!Due(c)
        /\ \A n \in Service!Due(c) : Current.msg <= n
    BY <1>4, SendIsFirst
  <2> QED BY <2>1, <2>2, <2>3, ServiceSteps
<1>5. ASSUME NEW c \in Conn, BeginClose(c) PROVE UNCHANGED Service!serviceVars
  <2>1. session' = [session EXCEPT ![c] = "closing"] /\ session[c] = "open"
        /\ UNCHANGED <<messages, audience, got>>
    BY <1>5 DEF BeginClose, worker
  <2>2. Online' = Online
    BY <2>1, <1>0 DEF Online
  <2> QED BY <2>1, <2>2, ServiceSteps
<1>6. CASE UNCHANGED <<session, messages, audience, got>>
  <2>1. Online' = Online
    BY <1>6 DEF Online
  <2> QED BY <1>6, <2>1, ServiceSteps
<1>7. \/ \E c \in Conn : OnOpen(c) \/ OnClose(c) \/ OnMessage(c) \/ Send(c) \/ BeginClose(c)
      \/ UNCHANGED <<session, messages, audience, got>>
  BY DEF Next, Event, HandlerStep, WorkerStep, Push, Unlock, Notify, Lock, Wait, Pop,
     Release, Insert, Erase, StartSending, Sent, SendThrows, WakeUp, vars, peers, worker
<1>8. \A c \in Conn : Send(c) => Current.msg \in Message
  BY SendIsFirst, ServiceSteps
<1> QED BY <1>1, <1>2, <1>3, <1>4, <1>5, <1>6, <1>7, <1>8 DEF Service!ServiceNext

\* The server, with its queue, its second thread and a set of members that lags
\* behind, implements the service that has none of them.
THEOREM BroadcastIsService == Spec => ImplementsService
<1>1. Init => Service!ServiceInit
  <2> SUFFICES ASSUME Init PROVE Service!ServiceInit
    OBVIOUS
  <2>1. Online = {}
    BY DEF Init, Online
  <2> QED BY <2>1, ServiceSteps DEF Init
<1>2. BaseInv /\ QueueInv /\ SentInv /\ AllCame /\ [Next]_vars
        => [Service!ServiceNext]_(Service!serviceVars)
  BY StepIsService
<1> QED BY <1>1, <1>2, BaseAlways, QueueAlways, SentAlways, CameAlways, PTL
        DEF Spec, ImplementsService, Service!ServiceSpec

=============================================================================
