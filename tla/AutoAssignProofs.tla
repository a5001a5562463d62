--------------------------- MODULE AutoAssignProofs ---------------------------
(***************************************************************************)
(* Theorems about AutoAssign, for every list of processors of any length   *)
(* and every RAND_MAX.                                                     *)
(***************************************************************************)
EXTENDS AutoAssign, FiniteSetTheorems, TLAPS

-----------------------------------------------------------------------------
(* Candidates *)

\* What is in a sequence, and how many at most.
LEMMA SetOfSequence ==
  ASSUME NEW S, NEW q \in Seq(S)
  PROVE  ToSet(q) = {q[i] : i \in 1 .. Len(q)} /\ ToSet(q) \subseteq S
<1>1. DOMAIN q = 1 .. Len(q) /\ \A i \in 1 .. Len(q) : q[i] \in S
  OBVIOUS
<1> QED BY <1>1 DEF ToSet

LEMMA SetOfAppended ==
  ASSUME NEW S, NEW q \in Seq(S), NEW p \in Seq(S)
  PROVE  q \o p \in Seq(S) /\ ToSet(q \o p) = ToSet(q) \cup ToSet(p)
<1>1. q \o p \in Seq(S) /\ Len(q \o p) = Len(q) + Len(p)
  OBVIOUS
<1> DEFINE both == q \o p
<1>0. /\ ToSet(q) = {q[i] : i \in 1 .. Len(q)} /\ ToSet(p) = {p[i] : i \in 1 .. Len(p)}
      /\ ToSet(both) = {both[i] : i \in 1 .. Len(q) + Len(p)}
      /\ Len(q) \in Nat /\ Len(p) \in Nat
  <2>1. both \in Seq(S) /\ Len(both) = Len(q) + Len(p)
    BY <1>1
  <2>2. ToSet(both) = {both[i] : i \in 1 .. Len(both)}
    BY <2>1, SetOfSequence, Zenon
  <2>3. ToSet(q) = {q[i] : i \in 1 .. Len(q)} /\ ToSet(p) = {p[i] : i \in 1 .. Len(p)}
    BY SetOfSequence, Zenon
  <2>4. Len(q) \in Nat /\ Len(p) \in Nat
    OBVIOUS
  <2> HIDE DEF both
  <2> QED BY <2>1, <2>2, <2>3, <2>4
<1>2. \A i \in 1 .. Len(q) : (q \o p)[i] = q[i]
  OBVIOUS
<1>3. \A i \in 1 .. Len(p) : (q \o p)[Len(q) + i] = p[i]
  OBVIOUS
<1>4. \A i \in Len(q) + 1 .. Len(q) + Len(p) : i - Len(q) \in 1 .. Len(p)
  OBVIOUS
<1>5. ToSet(q \o p) \subseteq ToSet(q) \cup ToSet(p)
  <2> SUFFICES ASSUME NEW i \in 1 .. Len(q) + Len(p)
               PROVE  (q \o p)[i] \in ToSet(q) \cup ToSet(p)
    BY <1>0
  <2>1. CASE i \in 1 .. Len(q)
    BY <1>0, <1>2, <2>1
  <2>2. CASE i \in Len(q) + 1 .. Len(q) + Len(p)
    <3>1. i - Len(q) \in 1 .. Len(p) /\ i = Len(q) + (i - Len(q))
      BY <2>2
    <3> QED BY <1>0, <1>3, <3>1
  <2> QED BY <2>1, <2>2
<1>6. ToSet(q) \subseteq ToSet(q \o p)
  BY <1>0, <1>2
<1>7. ToSet(p) \subseteq ToSet(q \o p)
  <2> SUFFICES ASSUME NEW i \in 1 .. Len(p) PROVE p[i] \in ToSet(q \o p)
    BY <1>0
  <2>1. Len(q) + i \in 1 .. Len(q) + Len(p)
    OBVIOUS
  <2> QED BY <1>0, <1>3, <2>1
<1> QED BY <1>1, <1>5, <1>6, <1>7

\* The places kept are counted one by one: a place for each number.
LEMMA Ranks ==
  ASSUME NEW L \in Nat, NEW kept \in SUBSET (1 .. L)
  PROVE  LET Rank(i) == Cardinality({j \in kept : j <= i})
         IN /\ Cardinality(kept) \in 0 .. L
            /\ \A i \in kept : Rank(i) \in 1 .. Cardinality(kept)
            /\ \A i, k \in kept : Rank(i) = Rank(k) => i = k
            /\ \A n \in 1 .. Cardinality(kept) : \E i \in kept : Rank(i) = n
<1> DEFINE upto(i) == {j \in kept : j <= i}
           Rank(i) == Cardinality(upto(i))
           C == Cardinality(kept)
<1>1. IsFiniteSet(1 .. L) /\ Cardinality(1 .. L) = L
  BY FS_Interval
<1>2. IsFiniteSet(kept) /\ C <= L /\ C \in Nat
  BY <1>1, FS_Subset, FS_CardinalityType
<1>3. ASSUME NEW i \in kept PROVE IsFiniteSet(upto(i)) /\ Rank(i) \in 1 .. C
  <2>1. IsFiniteSet(upto(i)) /\ Rank(i) <= C
    <3>1. upto(i) \in SUBSET kept
      OBVIOUS
    <3> HIDE DEF upto
    <3> QED BY <1>2, <3>1, FS_Subset
  <2>2. Rank(i) \in Nat
    BY <2>1, FS_CardinalityType
  <2>3. i \in upto(i)
    OBVIOUS
  <2>4. Rank(i) # 0
    BY <2>1, <2>3, FS_EmptySet
  <2> QED BY <1>2, <2>1, <2>2, <2>4
<1>4. ASSUME NEW i \in kept, NEW k \in kept, i < k PROVE Rank(i) # Rank(k)
  <2>1. upto(i) \in SUBSET upto(k) /\ k \in upto(k) /\ k \notin upto(i)
    <3>1. kept \subseteq Nat
      OBVIOUS
    <3>2. \A j \in kept : j <= i => j <= k
      BY <1>4, <3>1
    <3>3. ~(k <= i) /\ k <= k
      BY <1>4, <3>1
    <3> QED BY <3>2, <3>3
  <2>2. IsFiniteSet(upto(k))
    BY <1>3
  <2> HIDE DEF upto
  <2> QED BY <2>1, <2>2, FS_Subset
<1>5. \A i, k \in kept : Rank(i) = Rank(k) => i = k
  <2> SUFFICES ASSUME NEW i \in kept, NEW k \in kept, Rank(i) = Rank(k), i # k PROVE FALSE
    OBVIOUS
  <2>1. i < k \/ k < i
    OBVIOUS
  <2> QED BY <1>4, <2>1
<1>6. \A n \in 1 .. C : \E i \in kept : Rank(i) = n
  <2> DEFINE f == [i \in kept |-> Rank(i)]
  <2>1. f \in Injection(kept, 1 .. C)
    <3>1. f \in [kept -> 1 .. C]
      BY <1>3
    <3>2. \A i, k \in kept : f[i] = f[k] => i = k
      BY <1>5
    <3> HIDE DEF f
    <3> QED BY <3>1, <3>2 DEF Injection, IsInjective
  <2>2. IsFiniteSet(1 .. C) /\ Cardinality(1 .. C) = C
    BY <1>2, FS_Interval
  <2>3. f \in Surjection(kept, 1 .. C)
    <3> HIDE DEF f
    <3> QED BY <2>1, <2>2, FS_Injection
  <2>4. \A n \in 1 .. C : \E i \in kept : f[i] = n
    BY <2>3 DEF Surjection
  <2> QED BY <2>4
<1> QED BY <1>2, <1>3, <1>5, <1>6

\* remove and erase leave a list of what is not rejected.
LEMMA WithoutIsRest ==
  ASSUME candidates \in Seq(Waiter), NEW w
  PROVE  /\ Without(w) \in Seq(Waiter) /\ Len(Without(w)) <= Len(candidates)
         /\ ToSet(Without(w)) = ToSet(candidates) \ {w}
<1> DEFINE kept == {i \in DOMAIN candidates : candidates[i] # w}
           Rank(i) == Cardinality({j \in kept : j <= i})
           C == Cardinality(kept)
           At(n) == CHOOSE i \in kept : Rank(i) = n
           rest == [n \in 1 .. C |-> candidates[At(n)]]
<1>1. /\ Len(candidates) \in Nat /\ DOMAIN candidates = 1 .. Len(candidates)
      /\ \A i \in 1 .. Len(candidates) : candidates[i] \in Waiter
  OBVIOUS
<1>2. kept \in SUBSET (1 .. Len(candidates))
  BY <1>1
<1>3. /\ C \in 0 .. Len(candidates)
      /\ \A i \in kept : Rank(i) \in 1 .. C
      /\ \A i, k \in kept : Rank(i) = Rank(k) => i = k
      /\ \A n \in 1 .. C : \E i \in kept : Rank(i) = n
  <2> HIDE DEF kept
  <2> QED BY <1>1, <1>2, Ranks
<1>4. \A n \in 1 .. C : At(n) \in kept /\ Rank(At(n)) = n
  <2> HIDE DEF kept, Rank
  <2> QED BY <1>3
<1>5. \A i \in kept : At(Rank(i)) = i
  <2> HIDE DEF kept, Rank, At
  <2> QED BY <1>3, <1>4
<1>6. Without(w) = rest
  BY DEF Without
<1>7. rest \in Seq(Waiter) /\ Len(rest) = C
  <2>1. C \in Nat
    BY <1>1, <1>3
  <2>2. \A n \in 1 .. C : candidates[At(n)] \in Waiter
    BY <1>1, <1>2, <1>4
  <2> HIDE DEF At, C
  <2> QED BY <2>1, <2>2
<1>8. ToSet(rest) = {candidates[At(n)] : n \in 1 .. C}
  BY DEF ToSet
<1>9. {candidates[At(n)] : n \in 1 .. C} = {candidates[i] : i \in kept}
  <2> HIDE DEF kept, Rank, At, C
  <2> QED BY <1>3, <1>4, <1>5
<1>10. {candidates[i] : i \in kept} = ToSet(candidates) \ {w}
  BY DEF ToSet
<1>11. C <= Len(candidates)
  <2> HIDE DEF C
  <2> QED BY <1>1, <1>3
<1> HIDE DEF rest, kept, C, At, Rank
<1>12. Without(w) \in Seq(Waiter) /\ Len(Without(w)) <= Len(candidates)
  BY <1>6, <1>7, <1>11
<1>13. ToSet(Without(w)) = ToSet(candidates) \ {w}
  BY <1>6, <1>8, <1>9, <1>10
<1> QED BY <1>12, <1>13

LEMMA WaitersAre ==
  /\ Waiter = {"12345", "12346", "12347", "12348", "12349"}
  /\ Capacity \in Seq(Waiter) /\ Len(Capacity) = 5 /\ ToSet(Capacity) = Waiter
<1>1. DOMAIN Capacity = 1 .. 5 /\ Len(Capacity) = 5
  BY DEF Capacity
<1>2. 1 .. 5 = {1, 2, 3, 4, 5}
  OBVIOUS
<1>3. ToSet(Capacity) = {Capacity[i] : i \in {1, 2, 3, 4, 5}}
  BY <1>1, <1>2 DEF ToSet
<1>4. ToSet(Capacity) = {"12345", "12346", "12347", "12348", "12349"}
  BY <1>3 DEF Capacity
<1>5. Capacity \in Seq({"12345", "12346", "12347", "12348", "12349"})
  BY DEF Capacity
<1> QED BY <1>1, <1>4, <1>5 DEF Waiter

\* Who is offered is appended.
LEMMA OfferMade ==
  ASSUME NEW q \in Seq(Waiter)
  PROVE  /\ q \o Capacity \in Seq(Waiter) /\ Len(q \o Capacity) = Len(q) + 5
         /\ ToSet(q \o Capacity) = Waiter
<1>1. Capacity \in Seq(Waiter) /\ Len(Capacity) = 5 /\ ToSet(Capacity) = Waiter
  BY WaitersAre
<1>2. ASSUME NEW S, NEW p \in Seq(S), NEW t \in Seq(S) PROVE Len(p \o t) = Len(p) + Len(t)
  OBVIOUS
<1>3. Len(q \o Capacity) = Len(q) + 5
  BY <1>1, <1>2
<1>4. q \o Capacity \in Seq(Waiter) /\ ToSet(q \o Capacity) = ToSet(q) \cup ToSet(Capacity)
  BY <1>1, SetOfAppended
<1>5. ToSet(q) \subseteq Waiter
  BY SetOfSequence
<1> QED BY <1>1, <1>3, <1>4, <1>5

-----------------------------------------------------------------------------
(* The draw *)

\* A quotient is the number of times the divisor goes into it.
LEMMA Quotient ==
  ASSUME NEW R \in Nat \ {0}, NEW a \in Nat, NEW i \in Nat, i * R <= a, a < (i + 1) * R
  PROVE  a \div R = i
<1> DEFINE q == a \div R
<1>1. q \in Int /\ R * q <= a /\ a < R * (q + 1)
  OBVIOUS
<1> HIDE DEF q
<1>2. R * q < R * (i + 1) /\ R * i < R * (q + 1)
  BY <1>1
<1>3. q < i + 1
  <2> SUFFICES ASSUME q >= i + 1 PROVE FALSE
    BY <1>1
  <2>1. R * q >= R * (i + 1)
    BY <1>1
  <2> QED BY <1>1, <1>2, <2>1
<1>4. i < q + 1
  <2> SUFFICES ASSUME i >= q + 1 PROVE FALSE
    BY <1>1
  <2>1. R * i >= R * (q + 1)
    BY <1>1
  <2> QED BY <1>1, <1>2, <2>1
<1> QED BY <1>1, <1>3, <1>4 DEF q

\* With no more candidates than RAND_MAX, every one of them is drawn for some rand().
LEMMA EveryIndex ==
  ASSUME Len(candidates) \in 1 .. RandMax, NEW n \in 0 .. Len(candidates) - 1
  PROVE  \E r \in 0 .. RandMax : Index(r) = n
<1> DEFINE L == Len(candidates)
           R == RandMax
           r == (n * R + L - 1) \div L
<1>1. R \in Nat \ {0} /\ L \in Nat \ {0} /\ L <= R /\ n \in Nat /\ n <= L - 1
  BY AutoAssignAssumption
<1> HIDE DEF L, R
<1>2. n * R \in Nat /\ (n + 1) * R = n * R + R /\ n * R + L - 1 \in Nat
  BY <1>1
<1>3. r \in Nat /\ L * r <= n * R + L - 1 /\ n * R + L - 1 < L * (r + 1)
  BY <1>1, <1>2
<1> HIDE DEF r
<1>4. L * (r + 1) = L * r + L /\ L * r \in Nat
  BY <1>1, <1>3
<1>5. n * R <= L * r /\ L * r < (n + 1) * R
  BY <1>1, <1>2, <1>3, <1>4
<1>6. (L * r) \div R = n
  BY <1>1, <1>3, <1>4, <1>5, Quotient
<1>7. r <= R
  <2> SUFFICES ASSUME r >= R + 1 PROVE FALSE
    BY <1>1, <1>3
  <2>1. L * r >= L * R + L
    <3>1. L * r >= L * (R + 1)
      BY <1>1, <1>3
    <3> QED BY <1>1, <1>3, <3>1
  <2>2. n * R <= L * R - R
    <3>1. n * R <= (L - 1) * R
      BY <1>1
    <3> QED BY <1>1, <3>1
  <2> QED BY <1>1, <1>2, <1>3, <2>1, <2>2
<1> QED BY <1>1, <1>3, <1>6, <1>7 DEF Index, L, R

\* An index is a number.
LEMMA IndexType ==
  ASSUME candidates \in Seq(Waiter), NEW r \in 0 .. RandMax
  PROVE  Index(r) \in Nat
<1>1. Len(candidates) \in Nat /\ r \in Nat /\ RandMax \in Nat \ {0}
  BY AutoAssignAssumption
<1>2. Len(candidates) * r \in Nat
  BY <1>1
<1> QED BY <1>1, <1>2 DEF Index

\* The largest rand(), and no other, gives an index past the candidates.
LEMMA PastEnd ==
  ASSUME candidates \in Seq(Waiter), candidates # <<>>, NEW r \in 0 .. RandMax
  PROVE  Index(r) >= Len(candidates) <=> r = RandMax
<1> DEFINE L == Len(candidates)
           R == RandMax
           q == (L * r) \div R
<1>1. R \in Nat \ {0} /\ L \in Nat \ {0} /\ r \in Nat /\ r <= R /\ L * r \in Nat
  BY AutoAssignAssumption
<1> HIDE DEF L, R
<1>2. CASE r = R
  <2>1. L * R <= L * r /\ L * r < (L + 1) * R
    BY <1>1, <1>2
  <2>2. q = L
    BY <1>1, <2>1, Quotient
  <2> QED BY <1>1, <1>2, <2>2 DEF Index, L, R
<1>3. CASE r # R
  <2>1. r + 1 <= R
    BY <1>1, <1>3
  <2>2. L * r + L <= L * R
    <3>1. L * (r + 1) <= L * R
      BY <1>1, <2>1
    <3> QED BY <1>1, <3>1
  <2>3. q \in Int /\ R * q <= L * r
    BY <1>1
  <2> HIDE DEF q
  <2>4. q < L
    <3> SUFFICES ASSUME q >= L PROVE FALSE
      BY <1>1, <2>3
    <3>1. R * q >= R * L
      BY <1>1, <2>3
    <3> QED BY <1>1, <2>2, <2>3, <3>1
  <2> QED BY <1>1, <1>3, <2>3, <2>4 DEF Index, L, R, q
<1> QED BY <1>2, <1>3

-----------------------------------------------------------------------------
(* Who is eligible *)

\* A waiter is rejected by one policy at most.
LEMMA RejectedBy ==
  ASSUME NEW w, NEW n
  PROVE  /\ n \in Rejecters(w) <=> \/ n = "policy_zone" /\ w = ZoneRejects
                                   \/ n = "policy_page" /\ w = PageRejects
BY DEF Rejecters

\* One place further in the list: an offer makes everyone eligible, a policy
\* rejects one, no other name changes anything.
LEMMA EligibleNext ==
  ASSUME NEW p \in Nat
  PROVE  Eligible(p + 2) =
           IF clientClass[p + 1] = "capcity" THEN Waiter
           ELSE {w \in Eligible(p + 1) : clientClass[p + 1] \notin Rejecters(w)}
<1> DEFINE n == clientClass[p + 1]
           Offered(w, i, j) == /\ clientClass[i] = "capcity"
                               /\ \A k \in i + 1 .. j : clientClass[k] \notin Rejecters(w)
<1>1. /\ (p + 2) - 1 = p + 1 /\ (p + 1) - 1 = p
      /\ 1 .. p + 1 = (1 .. p) \cup {p + 1}
  OBVIOUS
<1>2. /\ Eligible(p + 2) = {w \in Waiter : \E i \in 1 .. p + 1 : Offered(w, i, p + 1)}
      /\ Eligible(p + 1) = {w \in Waiter : \E i \in 1 .. p : Offered(w, i, p)}
  BY <1>1 DEF Eligible
<1>3. ASSUME NEW w, NEW i \in 1 .. p
      PROVE  Offered(w, i, p + 1) <=> Offered(w, i, p) /\ n \notin Rejecters(w)
  <2>1. i + 1 .. p + 1 = (i + 1 .. p) \cup {p + 1}
    OBVIOUS
  <2> QED BY <2>1
<1>4. ASSUME NEW w PROVE Offered(w, p + 1, p + 1) <=> n = "capcity"
  <2>1. (p + 1) + 1 .. p + 1 = {}
    OBVIOUS
  <2> QED BY <2>1
<1>5. \A w : n = "capcity" => n \notin Rejecters(w)
  BY RejectedBy
<1> HIDE DEF Offered, n
<1>6. \A w \in Waiter : w \in Eligible(p + 2) <=>
        n = "capcity" \/ (w \in Eligible(p + 1) /\ n \notin Rejecters(w))
  BY <1>1, <1>2, <1>3, <1>4
<1>7. Eligible(p + 2) \subseteq Waiter /\ Eligible(p + 1) \subseteq Waiter
  BY <1>2
<1> QED BY <1>6, <1>7 DEF n

-----------------------------------------------------------------------------
(* The type invariant *)

\* The class names in strategy.xml are a sequence.
LEMMA NamesRead ==
  ASSUME NEW q \in BoundedSeq(Name, MaxClasses)
  PROVE  q \in Seq(Name)
<1>1. PICK n \in Nat : q \in [1 .. n -> Name]
  BY AutoAssignAssumption DEF BoundedSeq, SeqOf
<1> QED BY <1>1

\* Each processor that runs changes the map of classes, and its place in the list.
LEMMA RoundType ==
  ASSUME AssignTypeOK, NEW n \in Name, Round(n)
  PROVE  /\ classMap' \in [Name -> {"none", "there", "deleted"}]
         /\ pos \in Nat /\ pos < Len(clientClass) /\ pos' = pos + 1
         /\ pos' \in 0 .. Len(clientClass) /\ pos' \in 0 .. MaxClasses
BY AutoAssignAssumption DEF Round, Runs, AssignTypeOK

\* What the list, the map of classes and the context hold, in every step.
LEMMA AssignTypeNext ==
  ASSUME AssignTypeOK, [AssignNext]_assignVars
  PROVE  AssignTypeOK'
<1> USE AutoAssignAssumption DEF AssignTypeOK, context
<1>0. /\ {"last_waiter", "capcity", "policy_zone", "policy_page", "final"} \subseteq Name
      /\ "nobody" \notin Waiter /\ "12345" \in Waiter
  BY WaitersAre DEF Name, Processor
<1>1. CASE RegistClasses
  BY <1>1 DEF RegistClasses, Registered
<1>2. CASE ReadStrategy
  <2>1. Len(clientClass \o strategy) = Len(clientClass) + Len(strategy)
        /\ clientClass \o strategy \in Seq(Name)
    OBVIOUS
  <2>2. Len(clientClass) \in Nat /\ Len(strategy) \in Nat
    OBVIOUS
  <2> QED BY <1>2, <2>1, <2>2 DEF ReadStrategy
<1>3. CASE ExecuteClient
  <2>1. <<>> \in Seq(Waiter) /\ Len(clientClass) \in Nat
    OBVIOUS
  <2> QED BY <1>3, <2>1 DEF ExecuteClient, NewContext
<1>4. CASE LastWaiter
  BY <1>0, <1>4, RoundType DEF LastWaiter, Round
<1>5. CASE Capcity
  BY <1>0, <1>5, RoundType, WaitersAre, SetOfAppended DEF Capcity, Round
<1>6. ASSUME NEW n \in {"policy_zone", "policy_page"}, NEW w, Round(n), Reject(w)
      PROVE  AssignTypeOK'
  <2>1. candidates' \in Seq(Waiter) /\ canNext' \in BOOLEAN
    BY <1>6, WithoutIsRest DEF Reject
  <2> QED BY <1>0, <1>6, <2>1, RoundType DEF Reject, Round
<1>7. ASSUME NEW r \in 0 .. RandMax, Final(r)
      PROVE  AssignTypeOK'
  <2>1. Round("final")
    BY <1>7 DEF Final
  <2>2. Index(r) \in Nat
    BY IndexType
  <2>3. CASE Index(r) < Len(candidates)
    <3>1. candidates[Index(r) + 1] \in Waiter
      BY <2>2, <2>3
    <3> QED BY <1>0, <1>7, <2>1, <2>3, <3>1, RoundType DEF Final, Round
  <2>4. CASE ~(Index(r) < Len(candidates))
    BY <1>0, <1>7, <2>1, <2>4, RoundType DEF Final, Round, Cause
  <2> QED BY <2>3, <2>4
<1>8. ASSUME NEW n \in Name, BadClass(n) PROVE AssignTypeOK'
  BY <1>8 DEF BadClass, Cause
<1>9. CASE Return
  BY <1>9 DEF Return
<1>10. CASE UNCHANGED assignVars
  BY <1>10 DEF assignVars
<1> QED BY <1>1, <1>2, <1>3, <1>4, <1>5, <1>6, <1>7, <1>8, <1>9, <1>10
        DEF AssignNext, PolicyZone, PolicyPage

LEMMA AssignTypeInitially == AssignInit => AssignTypeOK
<1> SUFFICES ASSUME AssignInit PROVE AssignTypeOK
  OBVIOUS
<1>1. strategy \in Seq(Name)
  BY NamesRead DEF AssignInit
<1>2. clientClass \in Seq(Name) /\ candidates \in Seq(Waiter) /\ Len(clientClass) = 0
  BY DEF AssignInit
<1>3. classMap \in [Name -> {"none", "there", "deleted"}]
  BY DEF AssignInit
<1>4. pos = 0 /\ since = 0 /\ MaxClasses \in Nat
  BY AutoAssignAssumption DEF AssignInit
<1>5. /\ running = FALSE /\ canNext = TRUE /\ lastWaiter = "nobody" /\ assignee = "nobody"
      /\ undefined = "nothing"
  BY DEF AssignInit
<1>6. pos \in 0 .. Len(clientClass) /\ since \in 0 .. MaxClasses /\ Len(clientClass) <= MaxClasses
  BY <1>2, <1>4
<1> QED BY <1>1, <1>2, <1>3, <1>4, <1>5, <1>6, Zenon DEF AssignTypeOK

-----------------------------------------------------------------------------
(* Candidates and assignees *)

\* Each name that an execution has gone through has offered five waiters at most.
OfferInv == running => Len(candidates) <= 5 * pos

\* The draw is not further in the list than the execution.
SinceInv == running => since <= pos

\* The candidates are the waiters that are eligible at the next place of the list.
CandidatesInv == running => ToSet(candidates) = Eligible(pos + 1)

\* While a chain with no candidates goes on, nobody has been offered or rejected.
NobodyYet ==
  running /\ undefined = "nothing" /\ canNext /\ candidates = <<>> =>
    \A i \in 1 .. pos : clientClass[i] = "last_waiter"

DrawInv == /\ OfferInv /\ SinceInv /\ CandidatesInv /\ AssigneeIsEligible
           /\ NobodyYet /\ FinalMeetsCandidates

\* A place of the list that neither offers nor rejects leaves the eligible alone.
LEMMA EligibleStays ==
  ASSUME NEW p \in Nat, clientClass[p + 1] \in {"last_waiter", "final"}
  PROVE  Eligible(p + 2) = Eligible(p + 1)
<1>1. \A w : clientClass[p + 1] \notin Rejecters(w)
  BY RejectedBy
<1> QED BY <1>1, EligibleNext

\* A policy rejects the one it is about.
LEMMA EligibleRejected ==
  ASSUME NEW p \in Nat,
         NEW w, \/ clientClass[p + 1] = "policy_zone" /\ w = ZoneRejects
                \/ clientClass[p + 1] = "policy_page" /\ w = PageRejects
  PROVE  Eligible(p + 2) = Eligible(p + 1) \ {w}
<1>1. \A v : clientClass[p + 1] \in Rejecters(v) <=> v = w
  BY RejectedBy
<1>2. clientClass[p + 1] # "capcity"
  OBVIOUS
<1> QED BY <1>1, <1>2, EligibleNext

\* A sequence with nothing in it is empty.
LEMMA EmptySet ==
  ASSUME NEW S, NEW q \in Seq(S)
  PROVE  q = <<>> <=> ToSet(q) = {}
<1>1. q # <<>> => q[1] \in ToSet(q)
  BY SetOfSequence
<1>2. q = <<>> => ToSet(q) = {}
  BY DEF ToSet
<1> QED BY <1>1, <1>2

\* What every processor finds and leaves.
LEMMA RoundFrame ==
  ASSUME AssignTypeOK, NEW n \in Name, Round(n)
  PROVE  /\ running /\ undefined = "nothing" /\ canNext /\ clientClass[pos + 1] = n
         /\ pos \in Nat /\ pos' = pos + 1 /\ UNCHANGED <<running, clientClass>>
         /\ Eligible(pos + 1)' = Eligible(pos + 2)
<1>1. running /\ undefined = "nothing" /\ canNext /\ clientClass[pos + 1] = n
      /\ UNCHANGED <<running, clientClass>>
  BY DEF Round, Runs
<1>2. pos \in Nat /\ pos' = pos + 1
  BY RoundType
<1>3. pos' + 1 = pos + 2
  BY <1>2
<1>4. Eligible(pos + 1)' = Eligible(pos + 2)
  BY <1>1, <1>3 DEF Eligible
<1> QED BY <1>1, <1>2, <1>4

\* A processor that draws nobody leaves an assignee drawn before as he was; if it
\* is a policy, it stands after the draw.
LEMMA AssigneeKept ==
  ASSUME AssignTypeOK, SinceInv, AssigneeIsEligible, NEW n \in Name, Round(n),
         UNCHANGED <<assignee, since>>
  PROVE  AssigneeIsEligible' /\ SinceInv'
<1>1. running /\ running' = running /\ clientClass' = clientClass /\ pos \in Nat /\ pos' = pos + 1
  BY RoundFrame
<1>2. since \in Nat /\ since <= pos
  BY <1>1, AutoAssignAssumption DEF AssignTypeOK, SinceInv
<1>3. SinceInv'
  BY <1>1, <1>2 DEF SinceInv
<1>4. ASSUME assignee # "nobody"
      PROVE  \E i \in 1 .. since - 1 :
               /\ clientClass[i] = "capcity"
               /\ \A k \in i + 1 .. pos + 1 : clientClass[k] \in Rejecters(assignee) => k > since
  <2>1. PICK i \in 1 .. since - 1 :
          /\ clientClass[i] = "capcity"
          /\ \A k \in i + 1 .. pos : clientClass[k] \in Rejecters(assignee) => k > since
    BY <1>1, <1>4 DEF AssigneeIsEligible
  <2>2. \A k \in i + 1 .. pos + 1 : k \in i + 1 .. pos \/ k > since
    BY <1>1, <1>2
  <2> QED BY <2>1, <2>2
<1> QED BY <1>1, <1>3, <1>4 DEF AssigneeIsEligible

LEMMA DrawNext ==
  ASSUME AssignTypeOK, DrawInv, [AssignNext]_assignVars
  PROVE  DrawInv'
<1> USE DEF AssignTypeOK, context
<1>1. CASE RegistClasses
  <2>1. ~running /\ UNCHANGED <<candidates, running, undefined, pos, clientClass>>
    BY <1>1 DEF RegistClasses, Idle
  <2> QED BY <2>1 DEF DrawInv, OfferInv, SinceInv, CandidatesInv, AssigneeIsEligible, NobodyYet,
          FinalMeetsCandidates
<1>2. CASE ReadStrategy
  <2>1. ~running /\ undefined = "nothing" /\ UNCHANGED <<candidates, running, undefined>>
    BY <1>2 DEF ReadStrategy, Idle
  <2> QED BY <2>1 DEF DrawInv, OfferInv, SinceInv, CandidatesInv, AssigneeIsEligible, NobodyYet,
          FinalMeetsCandidates
<1>3. CASE ExecuteClient
  <2>1. /\ candidates' = <<>> /\ pos' = 0 /\ assignee' = "nobody" /\ undefined = "nothing"
        /\ UNCHANGED undefined /\ since' = 0
    BY <1>3 DEF ExecuteClient, NewContext, Idle
  <2>2. Eligible(pos + 1)' = {}
    <3>1. (pos + 1)' - 1 = 0
      BY <2>1
    <3> QED BY <3>1 DEF Eligible
  <2>3. ToSet(candidates') = {}
    BY <2>1 DEF ToSet
  <2>4. CandidatesInv'
    BY <2>2, <2>3 DEF CandidatesInv, ToSet
  <2>5. OfferInv' /\ SinceInv' /\ AssigneeIsEligible' /\ NobodyYet' /\ FinalMeetsCandidates'
    BY <2>1 DEF OfferInv, SinceInv, AssigneeIsEligible, NobodyYet, FinalMeetsCandidates
  <2> QED BY <2>4, <2>5 DEF DrawInv
<1>4. CASE LastWaiter
  <2>1. "last_waiter" \in Name /\ Round("last_waiter")
        /\ UNCHANGED <<canNext, candidates, assignee, since, undefined>>
    BY <1>4 DEF LastWaiter, Name, Processor
  <2>2. Eligible(pos + 2) = Eligible(pos + 1)
    BY <2>1, RoundFrame, EligibleStays
  <2>3. OfferInv' /\ CandidatesInv'
    BY <2>1, <2>2, RoundFrame DEF DrawInv, OfferInv, CandidatesInv
  <2>4. AssigneeIsEligible' /\ SinceInv'
    BY <2>1, AssigneeKept DEF DrawInv
  <2>5. NobodyYet'
    <3>1. /\ pos \in Nat /\ pos' = pos + 1 /\ clientClass[pos + 1] = "last_waiter"
          /\ running /\ undefined = "nothing" /\ canNext /\ clientClass' = clientClass
      BY <2>1, RoundFrame
    <3>2. 1 .. pos' = (1 .. pos) \cup {pos + 1}
      BY <3>1
    <3> QED BY <2>1, <3>1, <3>2 DEF DrawInv, NobodyYet
  <2>6. FinalMeetsCandidates'
    BY <2>1, RoundFrame DEF FinalMeetsCandidates
  <2> QED BY <2>3, <2>4, <2>5, <2>6 DEF DrawInv
<1>5. CASE Capcity
  <2>1. "capcity" \in Name /\ Round("capcity") /\ candidates' = candidates \o Capacity
        /\ UNCHANGED <<canNext, assignee, since, undefined>>
    BY <1>5 DEF Capcity, Name, Processor
  <2>2. /\ candidates' \in Seq(Waiter) /\ Len(candidates') = Len(candidates) + 5
        /\ ToSet(candidates') = Waiter
    <3>1. candidates \in Seq(Waiter)
      BY Zenon
    <3> QED BY <2>1, <3>1, OfferMade, Zenon
  <2>3. Len(candidates) \in Nat /\ candidates' # <<>>
    BY <2>2
  <2>4. Eligible(pos + 2) = Waiter
    BY <2>1, RoundFrame, EligibleNext
  <2>5. OfferInv' /\ CandidatesInv'
    BY <2>1, <2>2, <2>3, <2>4, RoundFrame DEF DrawInv, OfferInv, CandidatesInv
  <2>6. AssigneeIsEligible' /\ SinceInv'
    BY <2>1, AssigneeKept DEF DrawInv
  <2>7. NobodyYet'
    BY <2>3 DEF NobodyYet
  <2>8. FinalMeetsCandidates'
    BY <2>1, RoundFrame DEF FinalMeetsCandidates
  <2> QED BY <2>5, <2>6, <2>7, <2>8 DEF DrawInv
<1>6. ASSUME NEW n \in {"policy_zone", "policy_page"}, NEW w,
             \/ n = "policy_zone" /\ w = ZoneRejects
             \/ n = "policy_page" /\ w = PageRejects,
             Round(n), Reject(w)
      PROVE  DrawInv'
  <2>1. n \in Name /\ n # "capcity" /\ Round(n) /\ candidates' = Without(w)
        /\ canNext' = (candidates' # <<>>) /\ UNCHANGED <<assignee, since, undefined>>
    BY <1>6 DEF Reject, Name, Processor
  <2>2. /\ candidates' \in Seq(Waiter) /\ Len(candidates') <= Len(candidates)
        /\ ToSet(candidates') = ToSet(candidates) \ {w}
    BY <2>1, WithoutIsRest
  <2>3. Eligible(pos + 2) = Eligible(pos + 1) \ {w}
    BY <1>6, <2>1, RoundFrame, EligibleRejected
  <2>4. candidates' # <<>> => candidates # <<>>
    BY <2>2
  <2>5. OfferInv'
    <3>1. Len(candidates) \in Nat /\ Len(candidates') \in Nat
      BY <2>2
    <3>2. running /\ pos \in Nat /\ pos' = pos + 1 /\ Len(candidates) <= 5 * pos
      BY <2>1, RoundFrame DEF DrawInv, OfferInv
    <3>3. Len(candidates') <= 5 * pos'
      BY <2>2, <3>1, <3>2
    <3> QED BY <3>3 DEF OfferInv
  <2>6. CandidatesInv'
    BY <2>1, <2>2, <2>3, RoundFrame DEF DrawInv, CandidatesInv
  <2>7. AssigneeIsEligible' /\ SinceInv'
    BY <2>1, AssigneeKept DEF DrawInv
  <2>8. NobodyYet' /\ FinalMeetsCandidates'
    BY <2>1, RoundFrame DEF NobodyYet, FinalMeetsCandidates
  <2> QED BY <2>5, <2>6, <2>7, <2>8 DEF DrawInv
<1>7. ASSUME NEW r \in 0 .. RandMax, Final(r) PROVE DrawInv'
  <2>1. "final" \in Name /\ Round("final") /\ UNCHANGED <<canNext, candidates>>
    BY <1>7 DEF Final, Name, Processor
  <2>2. Eligible(pos + 2) = Eligible(pos + 1)
    BY <2>1, RoundFrame, EligibleStays
  <2>3. OfferInv' /\ CandidatesInv'
    BY <2>1, <2>2, RoundFrame DEF DrawInv, OfferInv, CandidatesInv
  <2>4. Index(r) \in Nat
    BY IndexType
  <2>5. CASE Index(r) < Len(candidates)
    <3>1. assignee' = candidates[Index(r) + 1] /\ since' = pos' /\ undefined' = undefined
      BY <1>7, <2>5 DEF Final
    <3>2. assignee' \in ToSet(candidates) /\ candidates # <<>>
      <4>1. Index(r) + 1 \in 1 .. Len(candidates)
        BY <2>4, <2>5
      <4> QED BY <3>1, <4>1, SetOfSequence
    <3>3. /\ pos \in Nat /\ since' = pos + 1 /\ pos' = pos + 1 /\ clientClass' = clientClass
          /\ assignee' \in Eligible(pos + 1) /\ clientClass[pos + 1] = "final"
      BY <2>1, <3>1, <3>2, RoundFrame DEF DrawInv, CandidatesInv
    <3>4. AssigneeIsEligible' /\ SinceInv'
      <4>1. PICK i \in 1 .. pos :
              /\ clientClass[i] = "capcity"
              /\ \A k \in i + 1 .. pos : clientClass[k] \notin Rejecters(assignee')
        BY <3>3 DEF Eligible
      <4>2. clientClass[pos + 1] \notin Rejecters(assignee')
        BY <3>3, RejectedBy
      <4>3. \A k \in i + 1 .. pos + 1 : clientClass[k] \notin Rejecters(assignee')
        <5>1. \A k \in i + 1 .. pos + 1 : k \in i + 1 .. pos \/ k = pos + 1
          BY <3>3
        <5> QED BY <4>1, <4>2, <5>1
      <4>4. i \in 1 .. since' - 1
        BY <3>3
      <4> QED BY <3>3, <4>1, <4>3, <4>4 DEF AssigneeIsEligible, SinceInv
    <3>5. NobodyYet' /\ FinalMeetsCandidates'
      BY <2>1, <3>1, <3>2, RoundFrame DEF NobodyYet, FinalMeetsCandidates
    <3> QED BY <2>3, <3>4, <3>5 DEF DrawInv
  <2>6. CASE ~(Index(r) < Len(candidates))
    <3>1. /\ undefined' = IF candidates = <<>> THEN "no candidate" ELSE "past the end"
          /\ UNCHANGED <<assignee, since>>
      BY <1>7, <2>6 DEF Final
    <3>2. AssigneeIsEligible' /\ SinceInv'
      BY <2>1, <3>1, AssigneeKept DEF DrawInv
    <3>4. NobodyYet'
      BY <2>1, <3>1, RoundFrame DEF NobodyYet
    <3>3. FinalMeetsCandidates'
      <4>1. pos' - 1 = pos
        BY <2>1, RoundFrame
      <4> QED BY <2>1, <3>1, <4>1, RoundFrame DEF DrawInv, NobodyYet, FinalMeetsCandidates
    <3> QED BY <2>3, <3>2, <3>3, <3>4 DEF DrawInv
  <2> QED BY <2>5, <2>6
<1>8. ASSUME NEW n \in Name, BadClass(n) PROVE DrawInv'
  <2>1. /\ undefined' \in {"null class", "deleted class"}
        /\ UNCHANGED <<clientClass, running, pos, candidates, assignee, since>>
    BY <1>8 DEF BadClass
  <2>2. OfferInv' /\ SinceInv' /\ AssigneeIsEligible'
    BY <2>1 DEF DrawInv, OfferInv, SinceInv, AssigneeIsEligible
  <2>3. CandidatesInv'
    <3>1. Eligible(pos + 1)' = Eligible(pos + 1)
      BY <2>1 DEF Eligible
    <3> QED BY <2>1, <3>1 DEF DrawInv, CandidatesInv
  <2>4. NobodyYet' /\ FinalMeetsCandidates'
    BY <2>1 DEF NobodyYet, FinalMeetsCandidates
  <2> QED BY <2>2, <2>3, <2>4 DEF DrawInv
<1>9. CASE Return
  <2>1. running' = FALSE /\ undefined = "nothing" /\ UNCHANGED <<candidates, undefined>>
    BY <1>9 DEF Return
  <2> QED BY <2>1 DEF DrawInv, OfferInv, SinceInv, CandidatesInv, AssigneeIsEligible, NobodyYet,
          FinalMeetsCandidates
<1>10. CASE UNCHANGED assignVars
  <2>1. UNCHANGED <<classMap, clientClass, running, pos, canNext, candidates, assignee, since,
                    undefined>>
    BY <1>10 DEF assignVars
  <2>2. OfferInv' /\ SinceInv' /\ AssigneeIsEligible' /\ NobodyYet' /\ FinalMeetsCandidates'
    BY <2>1 DEF DrawInv, OfferInv, SinceInv, AssigneeIsEligible, NobodyYet, FinalMeetsCandidates
  <2>3. CandidatesInv'
    <3>1. Eligible(pos + 1)' = Eligible(pos + 1)
      BY <2>1 DEF Eligible
    <3> QED BY <2>1, <3>1 DEF DrawInv, CandidatesInv
  <2> QED BY <2>2, <2>3 DEF DrawInv
<1> QED BY <1>1, <1>2, <1>3, <1>4, <1>5, <1>6, <1>7, <1>8, <1>9, <1>10
        DEF AssignNext, PolicyZone, PolicyPage

\* DrawIsRight, for every strategy of fewer than RAND_MAX / 5 names (RAND_MAX is 32767
\* or more; what is used is that it is not below the number of candidates, five for
\* each offer): whoever is assigned was offered and by no policy before the draw
\* rejected, everyone eligible can be drawn, and one rand() only reaches past the end.
THEOREM DrawsRight ==
  ASSUME RandMax >= 5 * MaxClasses
  PROVE  AssignSpec => []DrawIsRight
<1>1. AssignInit => AssignTypeOK /\ DrawInv
  <2> SUFFICES ASSUME AssignInit PROVE AssignTypeOK /\ DrawInv
    OBVIOUS
  <2>1. ~running /\ candidates = <<>> /\ undefined = "nothing"
    BY DEF AssignInit
  <2>2. DrawInv
    BY <2>1 DEF DrawInv, OfferInv, SinceInv, CandidatesInv, AssigneeIsEligible, NobodyYet,
       FinalMeetsCandidates
  <2> QED BY <2>2, AssignTypeInitially
<1>2. AssignTypeOK /\ DrawInv /\ [AssignNext]_assignVars => (AssignTypeOK /\ DrawInv)'
  BY AssignTypeNext, DrawNext
<1>3. AssignTypeOK /\ DrawInv => DrawIsRight
  <2> SUFFICES ASSUME AssignTypeOK, DrawInv PROVE EveryoneCanBeDrawn /\ PastEndAtMaxOnly
    BY DEF DrawInv, DrawIsRight
  <2>0. PastEndAtMaxOnly
    BY PastEnd DEF PastEndAtMaxOnly, AssignTypeOK
  <2> SUFFICES ASSUME Runs("final"), NEW w \in Eligible(pos + 1)
               PROVE  \E r \in 0 .. RandMax :
                        Index(r) < Len(candidates) /\ w = candidates[Index(r) + 1]
    BY <2>0 DEF EveryoneCanBeDrawn
  <2>1. w \in ToSet(candidates) /\ candidates \in Seq(Waiter)
    BY DEF Runs, DrawInv, CandidatesInv, AssignTypeOK
  <2>2. PICK i \in 1 .. Len(candidates) : candidates[i] = w
    BY <2>1, SetOfSequence
  <2>3. Len(candidates) \in 1 .. RandMax /\ i - 1 \in 0 .. Len(candidates) - 1
    <3>1. running /\ pos \in Nat /\ pos <= MaxClasses
      BY AutoAssignAssumption DEF Runs, AssignTypeOK
    <3>2. Len(candidates) \in Nat /\ Len(candidates) <= 5 * pos /\ i \in 1 .. Len(candidates)
      BY <2>1, <2>2, <3>1 DEF DrawInv, OfferInv
    <3> QED BY <3>1, <3>2, AutoAssignAssumption
  <2>4. PICK r \in 0 .. RandMax : Index(r) = i - 1
    BY <2>3, EveryIndex
  <2>5. Index(r) < Len(candidates) /\ Index(r) + 1 = i
    BY <2>2, <2>4
  <2> QED BY <2>2, <2>5
<1> QED BY <1>1, <1>2, <1>3, PTL DEF AssignSpec
=============================================================================
