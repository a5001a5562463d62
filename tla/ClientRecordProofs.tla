------------------------- MODULE ClientRecordProofs -------------------------
(***************************************************************************)
(* Proofs about ClientRecord, for any callers and clients and any number   *)
(* of fields and of calls.                                                 *)
(***************************************************************************)
EXTENDS ClientRecord, TLAPS

\* TypeOK is not inductive: a hash is not empty after hset because the number of
\* a call that goes on is not 0, and what is read back fits because the reading
\* follows the fields.
CallInv ==
  \A t \in Caller :
    /\ num[t] <= inits
    /\ pc[t] # "idle" => num[t] \in Call
    /\ pc[t] \in {"hset", "expire", "insert", "exists"} => got[t] = <<>>
    /\ pc[t] = "hget" => Len(got[t]) = field[t] - 1

\* Two calls never have the same number.
NumbersDiffer == \A t, u \in Caller : num[t] = num[u] /\ num[t] # 0 => t = u

BaseInv == TypeOK /\ CallInv /\ NumbersDiffer

LEMMA BaseInitially == Init => BaseInv
<1> SUFFICES ASSUME Init PROVE BaseInv
  OBVIOUS
<1>1. TypeOK
  BY ClientRecordAssumption
  DEF Init, TypeOK, Nothing, Missing, Field, Call
<1>2. CallInv /\ NumbersDiffer
  BY DEF Init, CallInv, NumbersDiffer
<1> QED BY <1>1, <1>2 DEF BaseInv

\* Fields and numbers are natural numbers.
LEMMA Naturally ==
  ASSUME BaseInv
  PROVE  /\ Field \subseteq Nat /\ Call \subseteq Nat /\ 0 \notin Call /\ inits \in Nat
         /\ num \in [Caller -> Nat] /\ field \in [Caller -> Nat]
         /\ \A t \in Caller : num[t] <= inits /\ field[t] \in 1 .. Fields
<1>1. /\ Field \subseteq Nat /\ Call \subseteq Nat /\ 0 \notin Call /\ inits \in Nat
      /\ num \in [Caller -> Call \cup {0}] /\ field \in [Caller -> Field]
  BY DEF Field, Call, BaseInv, TypeOK
<1>2. \A t \in Caller : num[t] <= inits /\ field[t] \in 1 .. Fields
  BY <1>1 DEF BaseInv, CallInv, Field
<1>3. ASSUME NEW t \in Caller PROVE num[t] \in Nat /\ field[t] \in Nat
  <2>1. num[t] \in Call \cup {0} /\ field[t] \in Field
    BY <1>1
  <2> QED BY <2>1 DEF Call, Field
<1> QED BY <1>1, <1>2, <1>3

LEMMA BaseStep == BaseInv /\ [Next]_vars => BaseInv'
<1> SUFFICES ASSUME BaseInv, [Next]_vars PROVE BaseInv'
  OBVIOUS
<1> USE ClientRecordAssumption DEF stores, calls, history, vars, Missing
<1>0. /\ Field \subseteq Nat /\ Call \subseteq Nat /\ 0 \notin Call /\ inits \in Nat
      /\ num \in [Caller -> Nat] /\ field \in [Caller -> Nat]
      /\ \A t \in Caller : num[t] <= inits /\ field[t] \in 1 .. Fields
  BY Naturally
<1>1. ASSUME NEW t \in Caller, NEW k \in Client, StartInit(t, k) PROVE BaseInv'
  <2>1. inits' \in Call /\ inits' \in 0 .. MaxInits /\ 1 \in Field /\ inits' = inits + 1
    BY <1>1, <1>0 DEF StartInit, Call, Field
  <2>2. {num[u] : u \in Writers(k)} \subseteq Call
    BY DEF BaseInv, CallInv, Writers
  <2>3. TypeOK'
    BY <1>1, <2>1, <2>2 DEF StartInit, BaseInv, TypeOK
  <2>4. CallInv'
    <3>1. /\ num' = [num EXCEPT ![t] = inits'] /\ got' = [got EXCEPT ![t] = <<>>]
          /\ pc' = [pc EXCEPT ![t] = "hset"] /\ UNCHANGED <<hash, rows>>
          /\ field' = [field EXCEPT ![t] = 1]
      BY <1>1 DEF StartInit
    <3>2. \A u \in Caller : num'[u] <= inits'
      BY <3>1, <1>0, <2>1
    <3>3. pc \in [Caller -> {"idle", "hset", "expire", "insert", "exists", "hget"}]
          /\ DOMAIN got = Caller
      BY <3>1 DEF BaseInv, TypeOK
    <3>4. \A u \in Caller : u # t => num'[u] = num[u] /\ got'[u] = got[u]
                                     /\ pc'[u] = pc[u] /\ field'[u] = field[u]
      BY <3>1, <3>3, <1>0
    <3>5. num'[t] \in Call /\ pc'[t] = "hset" /\ got'[t] = <<>>
      BY <3>1, <3>3, <1>0, <2>1
    <3> QED BY <3>2, <3>4, <3>5 DEF BaseInv, CallInv
  <2>5. \A u \in Caller : num[u] # inits'
    BY <1>0, <2>1 DEF BaseInv, TypeOK, CallInv
  <2>6. NumbersDiffer'
    BY <1>1, <2>5 DEF StartInit, BaseInv, TypeOK, NumbersDiffer
  <2> QED BY <2>3, <2>4, <2>6 DEF BaseInv
<1>2. ASSUME NEW t \in Caller, HSet(t) PROVE BaseInv'
  <2> DEFINE k == who[t]
  <2>1. /\ k \in Client /\ field[t] \in Field /\ num[t] \in Call
        /\ hash' = [hash EXCEPT ![k] = [@ EXCEPT ![field[t]] = num[t]]]
    BY <1>2 DEF HSet, BaseInv, TypeOK, CallInv
  <2>2. hash' \in [Client -> [Field -> Call \cup {Missing}]]
    BY <2>1 DEF BaseInv, TypeOK
  <2>3. \A j \in Client : ttl[j] => hash'[j] # Nothing
    <3>1. hash'[k][field[t]] # 0 /\ field[t] \in Field
      BY <2>1, <1>0 DEF BaseInv, TypeOK
    <3>2. \A j \in Client : j # k => hash'[j] = hash[j]
      BY <2>1 DEF BaseInv, TypeOK
    <3> QED BY <3>1, <3>2 DEF BaseInv, TypeOK, Nothing
  <2>4. /\ pc' \in [Caller -> {"idle", "hset", "expire", "insert", "exists", "hget"}]
        /\ field' \in [Caller -> Field]
    <3>1. field[t] # Fields => field[t] + 1 \in Field
      BY <1>0 DEF Field
    <3> QED BY <1>2, <3>1 DEF HSet, BaseInv, TypeOK
  <2>5. TypeOK'
    BY <1>2, <2>2, <2>3, <2>4 DEF HSet, BaseInv, TypeOK
  <2>6. CallInv' /\ NumbersDiffer'
    BY <1>2 DEF HSet, BaseInv, TypeOK, CallInv, NumbersDiffer
  <2> QED BY <2>5, <2>6 DEF BaseInv
<1>3. ASSUME NEW t \in Caller, Expire(t) PROVE BaseInv'
  <2>1. TypeOK'
    BY <1>3 DEF Expire, BaseInv, TypeOK
  <2>2. CallInv' /\ NumbersDiffer'
    BY <1>3 DEF Expire, BaseInv, TypeOK, CallInv, NumbersDiffer
  <2> QED BY <2>1, <2>2 DEF BaseInv
<1>4. ASSUME NEW t \in Caller, AddClient(t) PROVE BaseInv'
  <2>1. TypeOK'
    BY <1>4 DEF AddClient, BaseInv, TypeOK, CallInv
  <2>2. CallInv' /\ NumbersDiffer'
    BY <1>4 DEF AddClient, BaseInv, TypeOK, CallInv, NumbersDiffer
  <2> QED BY <2>1, <2>2 DEF BaseInv
<1>5. ASSUME NEW t \in Caller, Exists(t) PROVE BaseInv'
  <2>1. TypeOK'
    <3>1. 1 \in Field
      BY DEF Field
    <3> QED BY <1>5, <3>1 DEF Exists, BaseInv, TypeOK
  <2>2. CallInv' /\ NumbersDiffer'
    BY <1>5 DEF Exists, BaseInv, TypeOK, CallInv, NumbersDiffer
  <2> QED BY <2>1, <2>2 DEF BaseInv
<1>6. ASSUME NEW t \in Caller, HGet(t) PROVE BaseInv'
  <2>1. /\ who[t] \in Client /\ field[t] \in Field /\ got[t] \in Seq(Call \cup {Missing})
        /\ Len(got[t]) = field[t] - 1
        /\ got' = [got EXCEPT ![t] = Append(got[t], hash[who[t]][field[t]])]
    BY <1>6 DEF HGet, BaseInv, TypeOK, CallInv
  <2>2. hash[who[t]][field[t]] \in Call \cup {Missing}
    BY <2>1 DEF BaseInv, TypeOK
  <2>3. /\ Append(got[t], hash[who[t]][field[t]]) \in Seq(Call \cup {Missing})
        /\ Len(Append(got[t], hash[who[t]][field[t]])) = field[t]
        /\ field[t] <= Fields
    BY <2>1, <2>2 DEF Field
  <2>4. \A u \in Caller : got'[u] \in Seq(Call \cup {Missing}) /\ Len(got'[u]) <= Fields
    BY <2>1, <2>3 DEF BaseInv, TypeOK
  <2>5. /\ pc' \in [Caller -> {"idle", "hset", "expire", "insert", "exists", "hget"}]
        /\ field' \in [Caller -> Field]
    <3>1. field[t] # Fields => field[t] + 1 \in Field
      BY <1>0 DEF Field
    <3> QED BY <1>6, <3>1 DEF HGet, BaseInv, TypeOK
  <2>6. TypeOK'
    BY <1>6, <2>4, <2>5 DEF HGet, BaseInv, TypeOK
  <2>7. CallInv'
    <3>1. /\ UNCHANGED <<inits, num>> /\ pc[t] = "hget"
          /\ \/ pc' = [pc EXCEPT ![t] = "idle"] /\ UNCHANGED field
             \/ pc' = pc /\ field' = [field EXCEPT ![t] = @ + 1]
      BY <1>6 DEF HGet
    <3>2. pc \in [Caller -> {"idle", "hset", "expire", "insert", "exists", "hget"}]
          /\ DOMAIN got = Caller
      BY DEF BaseInv, TypeOK
    <3>3. \A u \in Caller : u # t => pc'[u] = pc[u] /\ got'[u] = got[u] /\ field'[u] = field[u]
      BY <3>1, <3>2, <2>1, <1>0
    <3>4. pc'[t] = "idle" \/ (pc'[t] = "hget" /\ Len(got'[t]) = field'[t] - 1)
      <4>1. Len(got'[t]) = field[t] /\ field[t] \in Nat
        BY <3>2, <2>1, <2>3, <1>0
      <4>2. pc'[t] = "idle" \/ (pc'[t] = "hget" /\ field'[t] = field[t] + 1)
        <5>1. DOMAIN pc = Caller /\ DOMAIN field = Caller
          BY <3>2, <1>0
        <5> QED BY <3>1, <5>1
      <4> QED BY <4>1, <4>2
    <3> QED BY <3>1, <3>3, <3>4 DEF BaseInv, CallInv
  <2> QED BY <1>6, <2>6, <2>7 DEF HGet, BaseInv, NumbersDiffer
<1>7. ASSUME NEW t \in Caller, Fail(t) PROVE BaseInv'
  <2>1. TypeOK'
    BY <1>7 DEF Fail, BaseInv, TypeOK, CallInv
  <2>2. CallInv' /\ NumbersDiffer'
    BY <1>7 DEF Fail, BaseInv, TypeOK, CallInv, NumbersDiffer
  <2> QED BY <2>1, <2>2 DEF BaseInv
<1>8. ASSUME NEW t \in Caller, NEW k \in Client, Remove(t, k) PROVE BaseInv'
  <2>1. {r[2] : r \in rows \ rows'} \subseteq Call /\ rows' \subseteq Client \X Call
    BY <1>8 DEF Remove, BaseInv, TypeOK
  <2>2. TypeOK'
    BY <1>8, <2>1 DEF Remove, BaseInv, TypeOK
  <2> QED BY <1>8, <2>2 DEF Remove, BaseInv, CallInv, NumbersDiffer
<1>9. ASSUME NEW k \in Client, TimeOut(k) PROVE BaseInv'
  <2>1. Nothing \in [Field -> Call \cup {Missing}]
    BY DEF Nothing
  <2>2. TypeOK'
    BY <1>9, <2>1 DEF TimeOut, BaseInv, TypeOK
  <2> QED BY <1>9, <2>2 DEF TimeOut, BaseInv, CallInv, NumbersDiffer
<1>10. CASE UNCHANGED vars
  BY <1>10 DEF BaseInv, TypeOK, CallInv, NumbersDiffer
<1> QED BY <1>1, <1>2, <1>3, <1>4, <1>5, <1>6, <1>7, <1>8, <1>9, <1>10 DEF Next, Step

LEMMA BaseAlways == Spec => []BaseInv
BY BaseInitially, BaseStep, PTL DEF Spec

\* Every variable has its type, for any number of callers, clients, fields and
\* calls; a hash that is not there has no time to live (cache.cpp:44-60).
THEOREM RecordTypes == Spec => []TypeOK
<1>1. BaseInv => TypeOK
  BY DEF BaseInv
<1> QED BY <1>1, BaseAlways, PTL

-----------------------------------------------------------------------------
(* What init reads back *)

\* What the call of t may find in a field: nothing, or what no older call wrote
\* that had finished writing when it began.
Fresh(v, t) == v = Missing \/ v >= num[t] \/ v \in rivals[t]

\* ReadBackNotStale follows from what the hash may hold in the fields the call
\* has written, and that from whom it may be written by.
OlderAreRivals ==
  \A t, u \in Caller :
    pc[t] # "idle" /\ pc[u] = "hset" /\ who[u] = who[t] /\ num[u] < num[t]
      => num[u] \in rivals[t]

WrittenIsFresh ==
  \A t \in Caller : \A f \in Field :
    pc[t] # "idle" /\ (pc[t] = "hset" => f < field[t]) => Fresh(hash[who[t]][f], t)

FreshInv == OlderAreRivals /\ WrittenIsFresh /\ ReadBackNotStale

LEMMA FreshStep == BaseInv /\ FreshInv /\ [Next]_vars => FreshInv'
<1> SUFFICES ASSUME BaseInv, FreshInv, [Next]_vars PROVE FreshInv'
  OBVIOUS
<1> USE ClientRecordAssumption DEF stores, calls, history, vars, Missing
<1>0. /\ Field \subseteq Nat /\ Call \subseteq Nat /\ 0 \notin Call /\ inits \in Nat
      /\ num \in [Caller -> Nat] /\ field \in [Caller -> Nat]
      /\ \A t \in Caller : num[t] <= inits /\ field[t] \in 1 .. Fields
  BY Naturally
<1>1. ASSUME NEW t \in Caller, NEW k \in Client, StartInit(t, k) PROVE FreshInv'
  <2>1. /\ pc[t] = "idle" /\ pc' = [pc EXCEPT ![t] = "hset"]
        /\ who' = [who EXCEPT ![t] = k] /\ inits' = inits + 1
        /\ num' = [num EXCEPT ![t] = inits'] /\ field' = [field EXCEPT ![t] = 1]
        /\ got' = [got EXCEPT ![t] = <<>>] /\ hash' = hash
        /\ rivals' = [rivals EXCEPT ![t] = {num[u] : u \in Writers(k)}]
    BY <1>1 DEF StartInit
  <2>2. \A u \in Caller : u # t => num'[u] = num[u] /\ num[u] <= inits /\ num[u] \in Nat
    BY <2>1, <1>0
  <2>3. OlderAreRivals'
    <3> SUFFICES ASSUME NEW s \in Caller, NEW u \in Caller, pc'[s] # "idle",
                        pc'[u] = "hset", who'[u] = who'[s], num'[u] < num'[s]
                 PROVE  num'[u] \in rivals'[s]
      BY DEF OlderAreRivals
    <3>1. CASE s = t
      <4>1. u # t
        BY <3>1, <2>1, <1>0 DEF BaseInv, TypeOK
      <4> QED BY <4>1, <3>1, <2>1 DEF BaseInv, TypeOK, Writers
    <3>2. CASE s # t /\ u = t
      BY <3>2, <2>1, <2>2, <1>0 DEF BaseInv, TypeOK
    <3>3. CASE s # t /\ u # t
      BY <3>3, <2>1 DEF BaseInv, TypeOK, FreshInv, OlderAreRivals
    <3> QED BY <3>1, <3>2, <3>3
  <2>4. \A s \in Caller : s # t =>
          /\ pc'[s] = pc[s] /\ who'[s] = who[s] /\ num'[s] = num[s]
          /\ field'[s] = field[s] /\ got'[s] = got[s] /\ rivals'[s] = rivals[s]
    BY <2>1 DEF BaseInv, TypeOK
  <2>5. pc'[t] = "hset" /\ field'[t] = 1 /\ got'[t] = <<>>
    BY <2>1 DEF BaseInv, TypeOK
  <2>6. WrittenIsFresh'
    <3>1. \A f \in Field : ~(f < field'[t])
      BY <2>5 DEF Field
    <3> QED BY <2>1, <2>4, <2>5, <3>1 DEF FreshInv, WrittenIsFresh, Fresh
  <2>7. ReadBackNotStale'
    BY <2>4, <2>5 DEF FreshInv, ReadBackNotStale
  <2> QED BY <2>3, <2>6, <2>7 DEF FreshInv
<1>2. ASSUME NEW t \in Caller, HSet(t) PROVE FreshInv'
  <2>1. /\ pc[t] = "hset" /\ who[t] \in Client /\ field[t] \in Field /\ num[t] \in Call
        /\ hash' = [hash EXCEPT ![who[t]] = [@ EXCEPT ![field[t]] = num[t]]]
        /\ UNCHANGED <<who, num, got, rivals>>
    BY <1>2 DEF HSet, BaseInv, TypeOK, CallInv
  <2>2. OlderAreRivals' /\ ReadBackNotStale'
    BY <1>2, <2>1 DEF HSet, BaseInv, TypeOK, FreshInv, OlderAreRivals, ReadBackNotStale
  <2>3. WrittenIsFresh'
    <3> SUFFICES ASSUME NEW s \in Caller, NEW f \in Field, pc'[s] # "idle",
                        pc'[s] = "hset" => f < field'[s]
                 PROVE  Fresh(hash'[who[s]][f], s)
      BY <2>1 DEF WrittenIsFresh, Fresh
    <3>0. pc[s] # "idle" /\ num[s] \in Call /\ who[s] \in Client
      BY <1>2 DEF HSet, BaseInv, TypeOK, CallInv
    <3>1. CASE who[s] = who[t] /\ f = field[t]
      <4>1. hash'[who[s]][f] = num[t]
        BY <2>1, <3>1 DEF BaseInv, TypeOK
      <4>2. num[t] >= num[s] \/ num[t] < num[s]
        BY <2>1, <3>0, <1>0
      <4> QED BY <2>1, <3>0, <3>1, <4>1, <4>2 DEF Fresh, FreshInv, OlderAreRivals
    <3>2. CASE ~(who[s] = who[t] /\ f = field[t])
      <4>1. hash'[who[s]][f] = hash[who[s]][f]
        BY <2>1, <3>0, <3>2 DEF BaseInv, TypeOK
      <4>2. CASE s # t
        BY <1>2, <3>0, <4>1, <4>2 DEF HSet, BaseInv, TypeOK, FreshInv, WrittenIsFresh
      <4>3. CASE s = t
        <5>1. f < field[t]
          BY <1>2, <2>1, <3>2, <4>3, <1>0 DEF HSet, BaseInv, TypeOK, Field
        <5> QED BY <5>1, <3>0, <4>1, <4>3 DEF FreshInv, WrittenIsFresh
      <4> QED BY <4>2, <4>3
    <3> QED BY <3>1, <3>2
  <2> QED BY <2>2, <2>3 DEF FreshInv
<1>3. ASSUME NEW t \in Caller, Expire(t) \/ AddClient(t) \/ Exists(t) \/ Fail(t) PROVE FreshInv'
  <2>1. /\ UNCHANGED <<hash, who, num, got, rivals>>
        /\ pc[t] # "idle" /\ \A s \in Caller : pc'[s] # "idle" => pc[s] # "idle"
        /\ \A s \in Caller : pc'[s] = "hset" => pc[s] = "hset" /\ s # t
        /\ \A s \in Caller : s # t => pc'[s] = pc[s] /\ field'[s] = field[s]
    BY <1>3 DEF Expire, AddClient, Exists, Fail, BaseInv, TypeOK
  <2>2. pc[t] = "hset" => pc'[t] = "idle"
    BY <1>3 DEF Expire, AddClient, Exists, Fail, BaseInv, TypeOK
  <2>3. OlderAreRivals' /\ ReadBackNotStale'
    BY <2>1 DEF FreshInv, OlderAreRivals, ReadBackNotStale
  <2>4. WrittenIsFresh'
    BY <2>1, <2>2 DEF FreshInv, WrittenIsFresh, Fresh
  <2> QED BY <2>3, <2>4 DEF FreshInv
<1>4. ASSUME NEW t \in Caller, HGet(t) PROVE FreshInv'
  <2>1. /\ UNCHANGED <<hash, who, num, rivals>> /\ pc[t] = "hget"
        /\ \A s \in Caller : pc'[s] # "idle" => pc[s] # "idle"
        /\ \A s \in Caller : pc'[s] = "hset" => pc[s] = "hset" /\ field'[s] = field[s]
        /\ \A s \in Caller : pc'[s] # "hset" => pc[s] # "hset"
        /\ got' = [got EXCEPT ![t] = Append(@, hash[who[t]][field[t]])]
    BY <1>4 DEF HGet, BaseInv, TypeOK
  <2>2. OlderAreRivals' /\ WrittenIsFresh'
    BY <2>1 DEF FreshInv, OlderAreRivals, WrittenIsFresh, Fresh
  <2>3. ReadBackNotStale'
    <3> SUFFICES ASSUME NEW s \in Caller, NEW f \in DOMAIN got'[s]
                 PROVE  Fresh(got'[s][f], s)
      BY <2>1 DEF ReadBackNotStale, Fresh
    <3>0. got[t] \in Seq(Call \cup {Missing}) /\ field[t] \in Field
      BY DEF BaseInv, TypeOK
    <3>1. CASE s = t /\ f = Len(got[t]) + 1
      <4>1. got'[s][f] = hash[who[t]][field[t]]
        BY <2>1, <3>0, <3>1 DEF BaseInv, TypeOK
      <4> QED BY <2>1, <3>0, <3>1, <4>1 DEF FreshInv, WrittenIsFresh
    <3>2. CASE ~(s = t /\ f = Len(got[t]) + 1)
      <4>1. f \in DOMAIN got[s] /\ got'[s][f] = got[s][f]
        BY <2>1, <3>0, <3>2 DEF BaseInv, TypeOK
      <4> QED BY <4>1 DEF FreshInv, ReadBackNotStale, Fresh
    <3> QED BY <3>1, <3>2
  <2> QED BY <2>2, <2>3 DEF FreshInv
<1>5. ASSUME NEW k \in Client, TimeOut(k) PROVE FreshInv'
  <2>1. /\ UNCHANGED <<pc, who, num, field, got, rivals>>
        /\ hash' = [hash EXCEPT ![k] = Nothing]
    BY <1>5 DEF TimeOut
  <2>2. \A j \in Client : \A f \in Field : hash'[j][f] = Missing \/ hash'[j][f] = hash[j][f]
    BY <2>1 DEF BaseInv, TypeOK, Nothing
  <2>3. OlderAreRivals' /\ ReadBackNotStale'
    BY <2>1 DEF FreshInv, OlderAreRivals, ReadBackNotStale
  <2>4. WrittenIsFresh'
    BY <2>1, <2>2 DEF FreshInv, WrittenIsFresh, Fresh, BaseInv, TypeOK
  <2> QED BY <2>3, <2>4 DEF FreshInv
<1>6. CASE UNCHANGED <<hash, calls, history>>
  BY <1>6 DEF FreshInv, OlderAreRivals, WrittenIsFresh, ReadBackNotStale, Fresh
<1>7. ASSUME NEW t \in Caller, NEW k \in Client, Remove(t, k) PROVE FreshInv'
  BY <1>7 DEF Remove, FreshInv, OlderAreRivals, WrittenIsFresh, ReadBackNotStale, Fresh
<1> QED BY <1>1, <1>2, <1>3, <1>4, <1>5, <1>6, <1>7 DEF Next, Step

\* What init reads back was written by this call, by a later one or by one that
\* was writing when it began, or is missing, however many callers write the
\* record of one client at once (client.cpp:36-42).
THEOREM ReadBacksAreFresh == Spec => []ReadBackNotStale
<1>1. Init => FreshInv
  BY DEF Init, FreshInv, OlderAreRivals, WrittenIsFresh, ReadBackNotStale
<1>2. FreshInv => ReadBackNotStale
  BY DEF FreshInv
<1> QED BY <1>1, <1>2, FreshStep, BaseAlways, PTL DEF Spec

-----------------------------------------------------------------------------
(* What the cache holds has a row, or is to get one *)

LEMMA StoredStep == BaseInv /\ CachedIsStored /\ [Next]_vars => CachedIsStored'
<1> SUFFICES ASSUME BaseInv, CachedIsStored, [Next]_vars PROVE CachedIsStored'
  OBVIOUS
<1> SUFFICES ASSUME NEW k \in Client, NEW f \in Field
             PROVE  \/ hash'[k][f] \in lost' \cup {Missing}
                    \/ <<k, hash'[k][f]>> \in rows'
                    \/ \E t \in Caller : /\ num'[t] = hash'[k][f] /\ who'[t] = k
                                         /\ pc'[t] \in {"hset", "expire", "insert"}
  BY Zenon DEF CachedIsStored
<1> DEFINE call == hash[k][f]
           About(t) == /\ num[t] = call /\ who[t] = k
                       /\ pc[t] \in {"hset", "expire", "insert"}
<1>0. call \in lost \cup {Missing} \/ <<k, call>> \in rows \/ \E t \in Caller : About(t)
  BY DEF CachedIsStored
<1>a. /\ pc \in [Caller -> {"idle", "hset", "expire", "insert", "exists", "hget"}]
      /\ who \in [Caller -> Client] /\ num \in [Caller -> Nat]
  BY Naturally DEF BaseInv, TypeOK
<1>1. ASSUME NEW t \in Caller, NEW j \in Client, StartInit(t, j)
      PROVE  /\ UNCHANGED <<hash, rows, lost>>
             /\ \A u \in Caller : About(u) => About(u)'
  BY <1>1, <1>a DEF StartInit, stores
<1>2. ASSUME NEW t \in Caller, HSet(t)
      PROVE  \/ hash'[k][f] \in lost' \cup {Missing}
             \/ <<k, hash'[k][f]>> \in rows'
             \/ \E u \in Caller : About(u)'
  <2>1. /\ UNCHANGED <<rows, lost, who, num>> /\ pc[t] = "hset"
        /\ \A u \in Caller : pc[u] \in {"hset", "expire", "insert"}
                               => pc'[u] \in {"hset", "expire", "insert"}
        /\ pc'[t] \in {"hset", "expire", "insert"}
    BY <1>2, <1>a DEF HSet, history
  <2>2. hash' = [hash EXCEPT ![who[t]] = [@ EXCEPT ![field[t]] = num[t]]]
    BY <1>2 DEF HSet
  <2>3. CASE k = who[t] /\ f = field[t]
    <3>1. hash'[k][f] = num[t]
      BY <2>2, <2>3 DEF BaseInv, TypeOK
    <3>2. About(t)'
      BY <2>1, <2>3, <3>1
    <3> QED BY <3>2
  <2>4. CASE ~(k = who[t] /\ f = field[t])
    <3>1. hash'[k][f] = hash[k][f]
      BY <2>2, <2>4, <1>a DEF BaseInv, TypeOK
    <3>2. \A u \in Caller : About(u) => About(u)'
      BY <2>1, <3>1
    <3> QED BY <1>0, <2>1, <3>1, <3>2
  <2> QED BY <2>3, <2>4
<1>3. ASSUME NEW t \in Caller, Expire(t) \/ Exists(t) \/ HGet(t)
      PROVE  /\ UNCHANGED <<hash, rows, lost>>
             /\ \A u \in Caller : About(u) => About(u)'
  BY <1>3, <1>a DEF Expire, Exists, HGet, stores, history
<1>4. ASSUME NEW t \in Caller, AddClient(t)
      PROVE  /\ UNCHANGED <<hash, lost>> /\ rows' = rows \cup {<<who[t], num[t]>>}
             /\ \A u \in Caller : u # t /\ About(u) => About(u)'
  BY <1>4, <1>a DEF AddClient, history
<1>5. ASSUME NEW t \in Caller, Fail(t)
      PROVE  /\ UNCHANGED <<hash, rows>> /\ lost \subseteq lost'
             /\ \A u \in Caller : u # t /\ About(u) => About(u)'
             /\ About(t) => call \in lost'
  BY <1>5, <1>a DEF Fail, stores
<1>6. ASSUME NEW t \in Caller, NEW j \in Client, Remove(t, j)
      PROVE  /\ hash' = hash /\ lost \subseteq lost'
             /\ <<k, call>> \in rows => <<k, call>> \in rows' \/ call \in lost'
             /\ \A u \in Caller : About(u) => About(u)'
  <2>1. /\ UNCHANGED <<hash, calls>> /\ lost' = lost \cup {r[2] : r \in rows \ rows'}
    BY <1>6 DEF Remove
  <2>2. <<k, call>> \in rows \ rows' => call \in lost'
    BY <2>1
  <2> QED BY <2>1, <2>2 DEF calls
<1>7. ASSUME NEW j \in Client, TimeOut(j)
      PROVE  /\ hash'[k][f] = Missing \/ hash'[k][f] = call
             /\ UNCHANGED <<rows, lost, num, who, pc>>
  BY <1>7 DEF TimeOut, calls, history, BaseInv, TypeOK, Nothing
<1>8. CASE UNCHANGED vars
  BY <1>0, <1>8 DEF vars, stores, calls, history
<1>9. CASE \E t \in Caller : Expire(t) \/ Exists(t) \/ HGet(t) \/ \E j \in Client : StartInit(t, j)
  BY <1>0, <1>1, <1>3, <1>9
<1>10. ASSUME NEW t \in Caller, AddClient(t)
       PROVE  <<k, call>> \in rows' \/ call \in lost' \cup {Missing} \/ \E u \in Caller : About(u)'
  BY <1>0, <1>4, <1>10
<1>11. ASSUME NEW t \in Caller, Fail(t) \/ \E j \in Client : Remove(t, j)
       PROVE  <<k, call>> \in rows' \/ call \in lost' \cup {Missing} \/ \E u \in Caller : About(u)'
  BY <1>0, <1>5, <1>6, <1>11
<1>12. CASE \E j \in Client : TimeOut(j)
  BY <1>0, <1>7, <1>12
<1> QED BY <1>2, <1>4, <1>5, <1>6, <1>8, <1>9, <1>10, <1>11, <1>12 DEF Next, Step

\* The cache is written before the database (client.cpp:36-39): what it holds has
\* a row, is about to be inserted, or was given up or removed, for any callers.
THEOREM CacheIsStored == Spec => []CachedIsStored
<1>1. Init => CachedIsStored
  BY DEF Init, CachedIsStored, Nothing
<1> QED BY <1>1, StoredStep, BaseAlways, PTL DEF Spec

-----------------------------------------------------------------------------
(* What the cache holds is the end of one record *)

\* The fields before p hold what the last call wrote, except that the first of
\* them may be missing.
EndOf(k, p, first) ==
  /\ first \in 1 .. p
  /\ \A f \in Field : f < p => hash[k][f] = IF f < first THEN Missing ELSE last[k]

Written(k, p) == \E first \in 1 .. p : EndOf(k, p, first)

\* While the last call, which wrote alone, is still writing, it has written the
\* fields before its own; then it has written all of them.
TailInv ==
  \A k \in Client : last[k] # 0 =>
    /\ \A t \in Writers(k) : num[t] = last[k] /\ Written(k, field[t])
    /\ Writers(k) = {} => Written(k, Fields + 1)

LEMMA TailStep == BaseInv /\ TailInv /\ [Next]_vars => TailInv'
<1> SUFFICES ASSUME BaseInv, TailInv, [Next]_vars PROVE TailInv'
  OBVIOUS
<1> USE ClientRecordAssumption
<1>a. /\ pc \in [Caller -> {"idle", "hset", "expire", "insert", "exists", "hget"}]
      /\ who \in [Caller -> Client] /\ num \in [Caller -> Nat] /\ field \in [Caller -> Nat]
      /\ \A t \in Caller : field[t] \in 1 .. Fields
      /\ last \in [Client -> Call \cup {0}]
      /\ hash \in [Client -> [Field -> Call \cup {Missing}]]
  BY Naturally DEF BaseInv, TypeOK
<1>0. ASSUME NEW k \in Client, last'[k] = last[k], hash'[k] = hash[k],
             \A t \in Caller : t \in Writers(k)' <=> t \in Writers(k),
             \A t \in Writers(k) : num'[t] = num[t] /\ field'[t] = field[t], last[k] # 0
      PROVE  /\ \A t \in Writers(k)' : num'[t] = last'[k] /\ Written(k, field[t])'
             /\ Writers(k)' = {} => Written(k, Fields + 1)'
  <2>1. /\ \A t \in Writers(k) : num[t] = last[k] /\ Written(k, field[t])
        /\ Writers(k) = {} => Written(k, Fields + 1)
    BY <1>0 DEF TailInv
  <2>2. Writers(k)' = Writers(k)
    BY <1>0 DEF Writers
  <2>3. \A q : Written(k, q) <=> \E first \in 1 .. q : \A f \in Field :
                  f < q => hash[k][f] = IF f < first THEN Missing ELSE last[k]
    BY DEF Written, EndOf
  <2>4. \A t \in Writers(k) : Written(k, field[t]) => Written(k, field[t])'
    BY <1>0, <2>3 DEF Written, EndOf
  <2>5. Written(k, Fields + 1) => Written(k, Fields + 1)'
    BY <1>0, <2>3 DEF Written, EndOf
  <2> QED BY <1>0, <2>1, <2>2, <2>4, <2>5
<1>1. ASSUME NEW t \in Caller, NEW k \in Client, StartInit(t, k) PROVE TailInv'
  <2>1. /\ pc[t] = "idle" /\ pc' = [pc EXCEPT ![t] = "hset"]
        /\ who' = [who EXCEPT ![t] = k] /\ hash' = hash
        /\ num' = [num EXCEPT ![t] = inits'] /\ field' = [field EXCEPT ![t] = 1]
        /\ last' = [last EXCEPT ![k] = IF Writers(k) = {} THEN inits' ELSE 0]
    BY <1>1 DEF StartInit, stores
  <2>2. ASSUME NEW j \in Client, last'[j] # 0
        PROVE  /\ \A u \in Writers(j)' : num'[u] = last'[j] /\ Written(j, field[u])'
               /\ Writers(j)' = {} => Written(j, Fields + 1)'
    <3>1. CASE j = k
      <4>1. Writers(k) = {} /\ last'[k] = inits'
        BY <2>1, <2>2, <3>1, <1>a
      <4>2. Writers(k)' = {t}
        BY <4>1, <2>1, <1>a DEF Writers
      <4>3. num'[t] = inits' /\ field'[t] = 1
        BY <2>1, <1>a
      <4>4. EndOf(k, 1, 1)'
        BY DEF EndOf, Field
      <4> QED BY <3>1, <4>1, <4>2, <4>3, <4>4 DEF Written
    <3>2. CASE j # k
      BY <2>1, <2>2, <3>2, <1>a, <1>0 DEF Writers
    <3> QED BY <3>1, <3>2
  <2> QED BY <2>2 DEF TailInv
<1>2. ASSUME NEW t \in Caller, HSet(t) PROVE TailInv'
  <2>0. PICK k \in Client, p \in 1 .. Fields : k = who[t] /\ p = field[t]
    BY <1>a
  <2>1. /\ pc[t] = "hset" /\ p \in Field /\ p \in Nat /\ t \in Writers(k)
        /\ hash' = [hash EXCEPT ![k] = [@ EXCEPT ![p] = num[t]]]
        /\ UNCHANGED <<who, num, last>>
    BY <1>2, <2>0 DEF HSet, history, Field, Writers
  <2>2. \/ p = Fields /\ pc' = [pc EXCEPT ![t] = "expire"] /\ field' = field
        \/ p # Fields /\ pc' = pc /\ field' = [field EXCEPT ![t] = p + 1]
    BY <1>2, <2>0 DEF HSet
  <2>3. ASSUME NEW j \in Client, last[j] # 0, j # k
        PROVE  /\ \A u \in Writers(j)' : num'[u] = last'[j] /\ Written(j, field[u])'
               /\ Writers(j)' = {} => Written(j, Fields + 1)'
    <3>1. hash'[j] = hash[j] /\ last'[j] = last[j]
      BY <2>1, <2>3, <1>a
    <3>2. /\ \A u \in Caller : u \in Writers(j)' <=> u \in Writers(j)
          /\ \A u \in Writers(j) : num'[u] = num[u] /\ field'[u] = field[u]
      BY <2>0, <2>1, <2>2, <2>3, <1>a DEF Writers
    <3> QED BY <2>3, <3>1, <3>2, <1>0
  <2>4. ASSUME last[k] # 0
        PROVE  /\ \A u \in Writers(k)' : num'[u] = last'[k] /\ Written(k, field[u])'
               /\ Writers(k)' = {} => Written(k, Fields + 1)'
    <3>1. num[t] = last[k] /\ Written(k, p)
      BY <2>0, <2>1, <2>4 DEF TailInv
    <3>2. \A u \in Writers(k) : u = t
      <4>1. \A u \in Writers(k) : num[u] = num[t] /\ u \in Caller
        BY <2>4, <3>1 DEF TailInv, Writers
      <4> QED BY <2>4, <3>1, <4>1 DEF BaseInv, NumbersDiffer
    <3>3. Writers(k)' \subseteq {t}
      <4>1. \A u \in Caller : pc'[u] = "hset" => pc[u] = "hset"
        BY <2>2, <1>a
      <4> QED BY <2>1, <3>2, <4>1 DEF Writers
    <3>4. PICK first \in 1 .. p : EndOf(k, p, first)
      BY <3>1 DEF Written
    <3>5. \A f \in Field : hash'[k][f] = IF f = p THEN last[k] ELSE hash[k][f]
      BY <2>1, <3>1, <1>a
    <3>6. EndOf(k, p + 1, first)'
      <4>1. first \in 1 .. p + 1 /\ ~(p < first)
        BY <2>1, <3>4
      <4>2. \A f \in Field : f < p + 1 => (f = p \/ (f < p /\ f # p))
        BY <2>1 DEF Field
      <4> QED BY <2>1, <3>4, <3>5, <4>1, <4>2 DEF EndOf
    <3>7. Written(k, p + 1)'
      BY <3>6 DEF Written, EndOf
    <3>8. CASE p = Fields
      <4>1. Writers(k)' = {}
        BY <2>2, <3>3, <3>8, <1>a DEF Writers
      <4> QED BY <4>1, <3>7, <3>8
    <3>9. CASE p # Fields
      <4>1. field'[t] = p + 1 /\ Writers(k)' # {}
        BY <2>0, <2>1, <2>2, <3>9, <1>a DEF Writers
      <4> QED BY <2>1, <3>1, <3>3, <3>7, <4>1
    <3> QED BY <3>8, <3>9
  <2> QED BY <2>1, <2>3, <2>4 DEF TailInv
<1>3. ASSUME NEW t \in Caller, Expire(t) \/ AddClient(t) \/ Exists(t) \/ HGet(t) \/ Fail(t)
      PROVE  TailInv'
  <2>1. /\ UNCHANGED <<hash, who, num>>
        /\ \A s \in Caller : s # t => pc'[s] = pc[s] /\ field'[s] = field[s]
        /\ pc'[t] # "hset"
    BY <1>3, <1>a DEF Expire, AddClient, Exists, HGet, Fail, stores
  <2>2. \/ pc[t] # "hset" /\ last' = last
        \/ last' = [last EXCEPT ![who[t]] = 0]
    BY <1>3, <1>a DEF Expire, AddClient, Exists, HGet, Fail, history
  <2>3. ASSUME NEW j \in Client, last'[j] # 0
        PROVE  /\ \A u \in Writers(j)' : num'[u] = last'[j] /\ Written(j, field[u])'
               /\ Writers(j)' = {} => Written(j, Fields + 1)'
    <3>1. last'[j] = last[j] /\ (pc[t] = "hset" => who[t] # j)
      BY <2>2, <2>3, <1>a
    <3>2. /\ \A u \in Caller : u \in Writers(j)' <=> u \in Writers(j)
          /\ \A u \in Writers(j) : num'[u] = num[u] /\ field'[u] = field[u]
      BY <2>1, <3>1 DEF Writers
    <3> QED BY <2>1, <2>3, <3>1, <3>2, <1>0
  <2> QED BY <2>3 DEF TailInv
<1>4. ASSUME NEW k \in Client, TimeOut(k) PROVE TailInv'
  <2>1. hash' = [hash EXCEPT ![k] = Nothing] /\ UNCHANGED <<calls, last>>
    BY <1>4 DEF TimeOut, history
  <2>2. ASSUME NEW j \in Client, last'[j] # 0
        PROVE  /\ \A u \in Writers(j)' : num'[u] = last'[j] /\ Written(j, field[u])'
               /\ Writers(j)' = {} => Written(j, Fields + 1)'
    <3>1. CASE j = k
      <4>1. \A q \in Nat \ {0} : EndOf(k, q, q)'
        BY <2>1, <1>a DEF EndOf, Nothing, Field
      <4>2. \A q \in Nat \ {0} : Written(k, q)'
        BY <4>1 DEF Written
      <4>3. \A u \in Caller : field'[u] \in Nat \ {0} /\ num'[u] = num[u]
        BY <2>1, <1>a DEF calls
      <4>4. \A u \in Writers(k)' : num'[u] = last'[k] /\ u \in Caller
        BY <2>1, <2>2, <3>1 DEF calls, Writers, TailInv
      <4>5. \A u \in Writers(k)' : Written(k, field[u])'
        BY <4>2, <4>3, <4>4
      <4>6. Written(k, Fields + 1)'
        BY <4>2
      <4> QED BY <3>1, <4>4, <4>5, <4>6
    <3>2. CASE j # k
      <4>1. hash'[j] = hash[j] /\ last'[j] = last[j]
        BY <2>1, <3>2, <1>a
      <4>2. /\ \A u \in Caller : u \in Writers(j)' <=> u \in Writers(j)
            /\ \A u \in Writers(j) : num'[u] = num[u] /\ field'[u] = field[u]
        BY <2>1 DEF calls, Writers
      <4> QED BY <2>2, <4>1, <4>2, <1>0
    <3> QED BY <3>1, <3>2
  <2> QED BY <2>2 DEF TailInv
<1>5. CASE UNCHANGED <<hash, calls, last>>
  <2>1. ASSUME NEW j \in Client, last'[j] # 0
        PROVE  /\ \A u \in Writers(j)' : num'[u] = last'[j] /\ Written(j, field[u])'
               /\ Writers(j)' = {} => Written(j, Fields + 1)'
    BY <1>5, <2>1, <1>0 DEF calls, Writers
  <2> QED BY <2>1 DEF TailInv
<1>6. ASSUME NEW t \in Caller, NEW k \in Client, Remove(t, k) PROVE UNCHANGED <<hash, calls, last>>
  BY <1>6 DEF Remove
<1>7. UNCHANGED vars => UNCHANGED <<hash, calls, last>>
  BY DEF vars, stores, history
<1> QED BY <1>1, <1>2, <1>3, <1>4, <1>5, <1>6, <1>7 DEF Next, Step

\* A hash that one call alone has written, and nobody is writing, holds the end
\* of that call's record, for any number of fields, however often an earlier
\* time to live dropped the hash meanwhile (cache.cpp:44-60).
THEOREM CacheHoldsTails == Spec => []CachedIsTail
<1>1. Init => TailInv
  BY DEF Init, TailInv
<1>2. BaseInv /\ TailInv => CachedIsTail
  <2> SUFFICES ASSUME BaseInv, TailInv, NEW k \in Client,
                      last[k] # 0, Writers(k) = {}, hash[k] # Nothing
               PROVE  \E first \in Field :
                        hash[k] = [f \in Field |-> IF f < first THEN Missing ELSE last[k]]
    BY DEF CachedIsTail
  <2>1. hash[k] \in [Field -> Call \cup {Missing}] /\ Fields \in Nat
    BY ClientRecordAssumption DEF BaseInv, TypeOK
  <2>2. PICK first \in 1 .. Fields + 1 : EndOf(k, Fields + 1, first)
    BY DEF TailInv, Written
  <2>3. \A f \in Field : f < Fields + 1
    BY <2>1 DEF Field
  <2>4. \A f \in Field : hash[k][f] = IF f < first THEN Missing ELSE last[k]
    BY <2>2, <2>3 DEF EndOf
  <2>5. first # Fields + 1
    <3> SUFFICES ASSUME first = Fields + 1 PROVE FALSE
      OBVIOUS
    <3>1. \A f \in Field : hash[k][f] = Missing
      BY <2>3, <2>4
    <3> QED BY <2>1, <3>1 DEF Nothing
  <2>6. first \in Field
    BY <2>1, <2>2, <2>5 DEF Field
  <2>7. hash[k] = [f \in Field |-> IF f < first THEN Missing ELSE last[k]]
    BY <2>1, <2>4
  <2> QED BY <2>6, <2>7
<1> QED BY <1>1, <1>2, TailStep, BaseAlways, PTL DEF Spec

-----------------------------------------------------------------------------
(* What the cache holds has a time to live *)

LEMMA ExpireStep == BaseInv /\ HashesExpire /\ [Next]_vars => HashesExpire'
<1> SUFFICES ASSUME BaseInv, HashesExpire, [Next]_vars, NEW k \in Client
             PROVE  \/ hash'[k] = Nothing \/ ttl'[k] \/ k \in leaked'
                    \/ \E t \in Caller : who'[t] = k /\ pc'[t] \in {"hset", "expire"}
  BY Zenon DEF HashesExpire, Nothing, Field
<1> DEFINE Owes(t) == who[t] = k /\ pc[t] \in {"hset", "expire"}
<1>0. hash[k] = Nothing \/ ttl[k] \/ k \in leaked \/ \E t \in Caller : Owes(t)
  BY DEF HashesExpire
<1>a. /\ pc \in [Caller -> {"idle", "hset", "expire", "insert", "exists", "hget"}]
      /\ who \in [Caller -> Client]
      /\ hash \in [Client -> [Field -> Call \cup {Missing}]]
      /\ ttl \in [Client -> BOOLEAN]
  BY DEF BaseInv, TypeOK
\* The caller was idle, or is past giving a time to live.
<1>1. ASSUME NEW t \in Caller,
             \/ \E j \in Client : StartInit(t, j) \/ Remove(t, j)
             \/ AddClient(t) \/ Exists(t) \/ HGet(t)
      PROVE  /\ UNCHANGED <<hash, ttl, leaked>>
             /\ \A u \in Caller : Owes(u) => Owes(u)'
  BY <1>1, <1>a DEF StartInit, Remove, AddClient, Exists, HGet, stores, calls, history
<1>2. ASSUME NEW t \in Caller, HSet(t)
      PROVE  /\ who[t] # k => hash'[k] = hash[k]
             /\ UNCHANGED <<ttl, leaked>>
             /\ \A u \in Caller : Owes(u) => Owes(u)'
             /\ who[t] = k => Owes(t)'
  BY <1>2, <1>a DEF HSet, history
<1>3. ASSUME NEW t \in Caller, Expire(t)
      PROVE  \/ hash'[k] = Nothing \/ ttl'[k] \/ k \in leaked' \/ \E u \in Caller : Owes(u)'
  <2>1. /\ UNCHANGED <<hash, who>> /\ leaked' = leaked \ {who[t]}
        /\ ttl' = [ttl EXCEPT ![who[t]] = hash[who[t]] # Nothing]
        /\ \A u \in Caller : u # t => pc'[u] = pc[u]
    BY <1>3, <1>a DEF Expire
  <2>2. CASE who[t] = k
    <3>1. ttl'[k] = (hash[k] # Nothing)
      BY <1>a, <2>1, <2>2
    <3> QED BY <2>1, <3>1
  <2>3. CASE who[t] # k
    <3>1. ttl'[k] = ttl[k] /\ (k \in leaked => k \in leaked')
      BY <1>a, <2>1, <2>3
    <3>2. \A u \in Caller : Owes(u) => Owes(u)'
      BY <2>1, <2>3
    <3> QED BY <1>0, <2>1, <3>1, <3>2
  <2> QED BY <2>2, <2>3
<1>4. ASSUME NEW t \in Caller, Fail(t)
      PROVE  /\ UNCHANGED <<hash, ttl>> /\ leaked \subseteq leaked'
             /\ \A u \in Caller : Owes(u) => Owes(u)' \/ k \in leaked'
  BY <1>4, <1>a DEF Fail, stores
<1>5. ASSUME NEW j \in Client, TimeOut(j)
      PROVE  /\ hash'[k] = Nothing \/ (hash'[k] = hash[k] /\ ttl'[k] = ttl[k])
             /\ UNCHANGED leaked
             /\ \A u \in Caller : Owes(u) => Owes(u)'
  BY <1>5, <1>a DEF TimeOut, calls, history
<1>6. CASE UNCHANGED vars
  BY <1>0, <1>6 DEF vars, stores, calls, history
<1> HIDE DEF Owes
<1>7. ASSUME NEW t \in Caller,
             \/ \E j \in Client : StartInit(t, j) \/ Remove(t, j)
             \/ AddClient(t) \/ Exists(t) \/ HGet(t)
      PROVE  \/ hash'[k] = Nothing \/ ttl'[k] \/ k \in leaked' \/ \E u \in Caller : Owes(u)'
  BY <1>0, <1>1, <1>7, Zenon DEF Nothing, Field
<1>8. ASSUME NEW t \in Caller, HSet(t)
      PROVE  \/ hash'[k] = Nothing \/ ttl'[k] \/ k \in leaked' \/ \E u \in Caller : Owes(u)'
  BY <1>0, <1>2, <1>8, Zenon DEF Nothing, Field
<1>9. ASSUME NEW t \in Caller, Fail(t)
      PROVE  \/ hash'[k] = Nothing \/ ttl'[k] \/ k \in leaked' \/ \E u \in Caller : Owes(u)'
  BY <1>0, <1>4, <1>9, Zenon DEF Nothing, Field
<1>10. ASSUME NEW j \in Client, TimeOut(j)
       PROVE  \/ hash'[k] = Nothing \/ ttl'[k] \/ k \in leaked' \/ \E u \in Caller : Owes(u)'
  BY <1>0, <1>5, <1>10, Zenon DEF Nothing, Field
<1> QED BY <1>3, <1>6, <1>7, <1>8, <1>9, <1>10 DEF Next, Step, Owes

\* HashesExpire, the safety half of CacheForgets, for any callers, clients and
\* fields: a hash that stays in the cache for ever is one whose last call failed
\* before its time to live was set (cache.cpp:47-59), and no other, however the
\* calls on one client overlap.
THEOREM HashesAreGivenTime == Spec => []HashesExpire
<1>1. Init => HashesExpire
  BY DEF Init, HashesExpire
<1> QED BY <1>1, ExpireStep, BaseAlways, PTL DEF Spec

=============================================================================
