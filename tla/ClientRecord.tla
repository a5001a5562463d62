----------------------------- MODULE ClientRecord -----------------------------
(***************************************************************************)
(* The record of a visitor: business::client::init writes it to a hash in  *)
(* Redis field by field, gives the hash a time to live, inserts it into    *)
(* the table client and reads the hash back; business::client::remove      *)
(* deletes the rows.  Each command is a call of its own, on a connection   *)
(* of its own, and each may fail.                                          *)
(*                                                                         *)
(* The calls of init are numbered.  A field holds the number of the call   *)
(* it was written by, 0 when it is not in the hash; a row is that number   *)
(* with its client_id, which is not a unique key.                          *)
(***************************************************************************)
EXTENDS Naturals, Sequences, FiniteSets

CONSTANTS
  Caller,    \* threads that call init and remove
  Client,    \* client ids
  Fields,    \* number of fields of a hash, in the order hset and hget have
  MaxInits   \* bound: calls of init

ASSUME ClientRecordAssumption == Fields \in Nat \ {0} /\ MaxInits \in Nat

VARIABLES
  hash,     \* hash[k][f]: field f of the hash of client k in Redis
  ttl,      \* does the hash have a time to live?
  rows,     \* the rows of the table
  inits,    \* calls of init so far
  pc,       \* the command a caller is about to give
  who,      \* the client its call is about
  num,      \* the number of its last call
  field,    \* the field it writes or reads next
  got,      \* what it has read back
  rivals,   \* calls that were writing the hash when its call began (history)
  last,     \* the last call on a client, if none else wrote beside it and
            \* it wrote all fields; else 0 (history)
  leaked,   \* clients whose last call failed before it gave a time to live (history)
  lost      \* calls that failed before the insert, or whose row was deleted (history)

stores  == <<hash, ttl, rows>>
calls   == <<inits, pc, who, num, field, got>>
history == <<rivals, last, leaked, lost>>
vars    == <<stores, calls, history>>

Field == 1 .. Fields
Call  == 1 .. MaxInits
Missing == 0
Nothing == [f \in Field |-> Missing]

TypeOK ==
  /\ hash \in [Client -> [Field -> Call \cup {Missing}]]
  /\ ttl \in [Client -> BOOLEAN]
  /\ \A k \in Client : ttl[k] => hash[k] # Nothing
  /\ rows \subseteq Client \X Call
  /\ inits \in 0 .. MaxInits
  /\ pc \in [Caller -> {"idle", "hset", "expire", "insert", "exists", "hget"}]
  /\ who \in [Caller -> Client]
  /\ num \in [Caller -> Call \cup {0}]
  /\ field \in [Caller -> Field]
  /\ got \in [Caller -> Seq(Call \cup {Missing})]
  /\ \A t \in Caller : Len(got[t]) <= Fields
  /\ rivals \in [Caller -> SUBSET Call]
  /\ last \in [Client -> Call \cup {0}]
  /\ leaked \subseteq Client
  /\ lost \subseteq Call

Init ==
  /\ hash = [k \in Client |-> Nothing]
  /\ ttl = [k \in Client |-> FALSE]
  /\ rows = {}
  /\ inits = 0
  /\ pc = [t \in Caller |-> "idle"]
  /\ who \in {[t \in Caller |-> k] : k \in Client}
  /\ num = [t \in Caller |-> 0]
  /\ field = [t \in Caller |-> 1]
  /\ got = [t \in Caller |-> <<>>]
  /\ rivals = [t \in Caller |-> {}]
  /\ last = [k \in Client |-> 0]
  /\ leaked = {} /\ lost = {}

-----------------------------------------------------------------------------
Writers(k) == {t \in Caller : pc[t] = "hset" /\ who[t] = k}

\* client::init: the record is filled in and handed to set_client.
StartInit(t, k) ==
  /\ pc[t] = "idle" /\ inits < MaxInits
  /\ inits' = inits + 1
  /\ pc' = [pc EXCEPT ![t] = "hset"]
  /\ who' = [who EXCEPT ![t] = k]
  /\ num' = [num EXCEPT ![t] = inits']
  /\ field' = [field EXCEPT ![t] = 1]
  /\ got' = [got EXCEPT ![t] = <<>>]
  /\ rivals' = [rivals EXCEPT ![t] = {num[u] : u \in Writers(k)}]
  /\ last' = [last EXCEPT ![k] = IF Writers(k) = {} THEN inits' ELSE 0]
  /\ UNCHANGED <<stores, leaked, lost>>

\* (mutant: a field that is in the hash is not overwritten)
HSetNX(t) ==
  /\ pc[t] = "hset"
  /\ hash' = [hash EXCEPT ![who[t]][field[t]] = IF @ = Missing THEN num[t] ELSE @]
  /\ IF field[t] = Fields
       THEN pc' = [pc EXCEPT ![t] = "expire"] /\ UNCHANGED field
       ELSE field' = [field EXCEPT ![t] = @ + 1] /\ UNCHANGED pc
  /\ UNCHANGED <<ttl, rows, inits, who, num, got, history>>

\* (mutant: the last field is forgotten)
HSetButLast(t) ==
  /\ pc[t] = "hset"
  /\ hash' = [hash EXCEPT ![who[t]][field[t]] = num[t]]
  /\ IF field[t] + 1 = Fields
       THEN pc' = [pc EXCEPT ![t] = "expire"] /\ UNCHANGED field
       ELSE field' = [field EXCEPT ![t] = @ + 1] /\ UNCHANGED pc
  /\ UNCHANGED <<ttl, rows, inits, who, num, got, history>>

\* A time to live the hash has from an earlier call goes on running.
HSet(t) ==
  /\ pc[t] = "hset"
  /\ hash' = [hash EXCEPT ![who[t]][field[t]] = num[t]]
  /\ IF field[t] = Fields
       THEN pc' = [pc EXCEPT ![t] = "expire"] /\ UNCHANGED field
       ELSE field' = [field EXCEPT ![t] = @ + 1] /\ UNCHANGED pc
  /\ UNCHANGED <<ttl, rows, inits, who, num, got, history>>

\* (mutant: the time to live is not set)
NoExpire(t) ==
  /\ pc[t] = "expire"
  /\ pc' = [pc EXCEPT ![t] = "insert"]
  /\ leaked' = leaked \ {who[t]}
  /\ UNCHANGED <<stores, inits, who, num, field, got, rivals, last, lost>>

\* expire does nothing to a hash that is not there.
Expire(t) ==
  /\ pc[t] = "expire"
  /\ ttl' = [ttl EXCEPT ![who[t]] = hash[who[t]] # Nothing]
  /\ pc' = [pc EXCEPT ![t] = "insert"]
  /\ leaked' = leaked \ {who[t]}
  /\ UNCHANGED <<hash, rows, inits, who, num, field, got, rivals, last, lost>>

AddClient(t) ==
  /\ pc[t] = "insert"
  /\ rows' = rows \cup {<<who[t], num[t]>>}
  /\ pc' = [pc EXCEPT ![t] = "exists"]
  /\ UNCHANGED <<hash, ttl, inits, who, num, field, got, history>>

\* get_client: a hash that is not there leaves the record as it was.
Exists(t) ==
  /\ pc[t] = "exists"
  /\ IF hash[who[t]] = Nothing
       THEN pc' = [pc EXCEPT ![t] = "idle"] /\ UNCHANGED field
       ELSE pc' = [pc EXCEPT ![t] = "hget"] /\ field' = [field EXCEPT ![t] = 1]
  /\ UNCHANGED <<stores, inits, who, num, got, history>>

\* (mutant: one field too many)
HGetTooFar(t) ==
  /\ pc[t] = "hget"
  /\ got' = [got EXCEPT ![t] = Append(@, hash[who[t]][field[t]])]
  /\ IF Len(got[t]) = Fields
       THEN pc' = [pc EXCEPT ![t] = "idle"] /\ UNCHANGED field
       ELSE /\ field' = [field EXCEPT ![t] = IF @ = Fields THEN @ ELSE @ + 1]
            /\ UNCHANGED pc
  /\ UNCHANGED <<stores, inits, who, num, history>>

HGet(t) ==
  /\ pc[t] = "hget"
  /\ got' = [got EXCEPT ![t] = Append(@, hash[who[t]][field[t]])]
  /\ IF field[t] = Fields
       THEN pc' = [pc EXCEPT ![t] = "idle"] /\ UNCHANGED field
       ELSE field' = [field EXCEPT ![t] = @ + 1] /\ UNCHANGED pc
  /\ UNCHANGED <<stores, inits, who, num, history>>

\* A command throws, or there is no connection to give it on: the call is over.
Fail(t) ==
  /\ pc[t] # "idle"
  /\ pc' = [pc EXCEPT ![t] = "idle"]
  /\ last' = [last EXCEPT ![who[t]] = IF pc[t] = "hset" THEN 0 ELSE @]
  /\ leaked' = IF pc[t] \in {"hset", "expire"} THEN leaked \cup {who[t]} ELSE leaked
  /\ lost' = IF pc[t] \in {"hset", "expire", "insert"} THEN lost \cup {num[t]} ELSE lost
  /\ UNCHANGED <<stores, inits, who, num, field, got, rivals>>

\* (mutant: the where clause is forgotten)
RemoveAll(t, k) ==
  /\ pc[t] = "idle"
  /\ rows' = {}
  /\ lost' = lost \cup {r[2] : r \in {q \in rows : q[1] = k}}
  /\ UNCHANGED <<hash, ttl, calls, rivals, last, leaked>>

\* client::remove: one statement; the hash is left to its time to live.
Remove(t, k) ==
  /\ pc[t] = "idle"
  /\ rows' = {r \in rows : r[1] # k}
  /\ lost' = lost \cup {r[2] : r \in rows \ rows'}
  /\ UNCHANGED <<hash, ttl, calls, rivals, last, leaked>>

\* The 240 seconds are over: Redis drops the hash.
TimeOut(k) ==
  /\ ttl[k]
  /\ hash' = [hash EXCEPT ![k] = Nothing]
  /\ ttl' = [ttl EXCEPT ![k] = FALSE]
  /\ UNCHANGED <<rows, calls, history>>

Step(t) == HSet(t) \/ Expire(t) \/ AddClient(t) \/ Exists(t) \/ HGet(t)

Next ==
  \/ \E t \in Caller : \/ Step(t) \/ Fail(t)
                       \/ \E k \in Client : StartInit(t, k) \/ Remove(t, k)
  \/ \E k \in Client : TimeOut(k)

Spec == Init /\ [][Next]_vars

\* A call goes on to its next command; Redis drops what is over.
FairSpec ==
  /\ Spec
  /\ \A t \in Caller : WF_vars(Step(t))
  /\ \A k \in Client : WF_vars(TimeOut(k))

-----------------------------------------------------------------------------
(* Properties *)

\* What init reads back (client.cpp:42) was written by this call, by a later
\* one, or by one that was writing when it began; else it is missing, as the
\* hash may be dropped between exists and any hget.
ReadBackNotStale ==
  \A t \in Caller : \A f \in DOMAIN got[t] :
    \/ got[t][f] = Missing
    \/ got[t][f] >= num[t]
    \/ got[t][f] \in rivals[t]

\* A hash nobody else wrote beside its last call and nobody is writing holds
\* that call's record; what is missing of it are the first fields, written
\* before an older time to live (cache.cpp:59) dropped the hash.
CachedIsTail ==
  \A k \in Client :
    last[k] # 0 /\ Writers(k) = {} /\ hash[k] # Nothing =>
      \E first \in Field :
        hash[k] = [f \in Field |-> IF f < first THEN Missing ELSE last[k]]

\* The cache is written before the database (client.cpp:36-39): what it holds
\* has a row, or is about to be inserted, or was given up or removed.
CachedIsStored ==
  \A k \in Client : \A f \in Field :
    \/ hash[k][f] \in lost \cup {Missing}
    \/ <<k, hash[k][f]>> \in rows
    \/ \E t \in Caller : /\ num[t] = hash[k][f] /\ who[t] = k
                         /\ pc[t] \in {"hset", "expire", "insert"}

\* A hash in the cache has a time to live, or is being written by a call that
\* will give it one, or a call failed before it did (cache.cpp:47-59).
HashesExpire ==
  \A k \in Client :
    \/ hash[k] = Nothing \/ ttl[k] \/ k \in leaked
    \/ \E t \in Caller : who[t] = k /\ pc[t] \in {"hset", "expire"}

\* A client nobody calls init for any more disappears from the cache, removed
\* or not, unless the last call failed before expire (cache.cpp:59): then its
\* hash stays for ever.
CacheForgets ==
  \A k \in Client :
    <>[](k \notin leaked /\ \A t \in Caller : who[t] = k => pc[t] = "idle")
      => <>[](hash[k] = Nothing)
=============================================================================
