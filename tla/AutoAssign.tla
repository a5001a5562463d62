------------------------------ MODULE AutoAssign ------------------------------
(***************************************************************************)
(* The automatic assignment of a visitor to a waiter: a chain of           *)
(* processors, named in strategy.xml and created through a registry of     *)
(* class objects, fills a context; the last one draws the assignee.        *)
(*                                                                         *)
(* execute_client hands the registry's class object to a shared_ptr, which *)
(* deletes it at the end of the round; the registry keeps the pointer.  A  *)
(* deleted object that is used again may still do its work, or not: that   *)
(* is a choice.  What is left of undefined behaviour ends a behaviour of   *)
(* the model, with the cause in undefined.                                 *)
(***************************************************************************)
EXTENDS Naturals, Sequences, SequencesExt

CONSTANTS
  RandMax,      \* RAND_MAX
  MaxClasses    \* bound: length of the list of class names

ASSUME AutoAssignAssumption == RandMax \in Nat \ {0} /\ MaxClasses \in Nat

VARIABLES
  classMap,     \* my_class::class_map: is the object under a name there, or deleted?
  clientClass,  \* client_class, the list of names read from strategy.xml
  strategy,     \* the names in strategy.xml
  running,      \* is execute_client running?
  pos,          \* names of the list it has gone through
  canNext,      \* context: can_next,
  lastWaiter,   \*   last_waiter ("nobody": the empty string),
  candidates,   \*   candidates
  assignee,     \*   and final_assigner
  undefined,    \* why the behaviour is undefined, or "nothing"
  since         \* position the assignee was drawn at (history)

context    == <<canNext, lastWaiter, candidates, assignee, since>>
assignVars == <<classMap, clientClass, strategy, running, pos, context, undefined>>

Processor == {"last_waiter", "capcity", "policy_zone", "policy_page", "final"}
Name      == Processor \cup {"unregistered"}

Capacity  == <<"12345", "12346", "12347", "12348", "12349">>
Waiter    == ToSet(Capacity)
ZoneRejects == "12345"
PageRejects == "12346"

Cause == {"null class", "deleted class", "no candidate", "past the end"}

AssignTypeOK ==
  /\ classMap \in [Name -> {"none", "there", "deleted"}]
  /\ clientClass \in Seq(Name) /\ Len(clientClass) <= MaxClasses
  /\ strategy \in Seq(Name)
  /\ running \in BOOLEAN
  /\ pos \in 0 .. Len(clientClass)
  /\ canNext \in BOOLEAN
  /\ lastWaiter \in Waiter \cup {"nobody"}
  /\ candidates \in Seq(Waiter)
  /\ assignee \in Waiter \cup {"nobody"}
  /\ undefined \in Cause \cup {"nothing"}
  /\ since \in 0 .. MaxClasses

NewContext ==
  /\ canNext' = TRUE /\ lastWaiter' = "nobody" /\ candidates' = <<>>
  /\ assignee' = "nobody" /\ since' = 0

AssignInit ==
  /\ classMap = [n \in Name |-> "none"]
  /\ clientClass = <<>>
  /\ strategy \in BoundedSeq(Name, MaxClasses)
  /\ running = FALSE /\ pos = 0
  /\ canNext = TRUE /\ lastWaiter = "nobody" /\ candidates = <<>>
  /\ assignee = "nobody" /\ since = 0
  /\ undefined = "nothing"

-----------------------------------------------------------------------------
Idle == undefined = "nothing" /\ ~running

\* my_class::regist: a name that is in the map, deleted or not, stays as it is.
Registered(n) == IF n \in Processor /\ classMap[n] = "none" THEN "there" ELSE classMap[n]

RegistClasses ==
  /\ Idle
  /\ classMap' = [n \in Name |-> Registered(n)]
  /\ UNCHANGED <<clientClass, strategy, running, pos, context, undefined>>

\* The names are appended to those read before.
ReadStrategy ==
  /\ Idle
  /\ Len(clientClass) + Len(strategy) <= MaxClasses
  /\ clientClass' = clientClass \o strategy
  /\ UNCHANGED <<classMap, strategy, running, pos, context, undefined>>

ExecuteClient ==
  /\ Idle
  /\ running' = TRUE /\ pos' = 0
  /\ NewContext
  /\ UNCHANGED <<classMap, clientClass, strategy, undefined>>

\* remove and erase: every occurrence of w goes, the others move up in their order.
Without(w) ==
  LET kept    == {i \in DOMAIN candidates : candidates[i] # w}
      Rank(i) == Cardinality({j \in kept : j <= i})
  IN [n \in 1 .. Cardinality(kept) |-> candidates[CHOOSE i \in kept : Rank(i) = n]]

\* Which processor stands at this name's place, and what becomes of it.
Runs(n) ==
  /\ running /\ undefined = "nothing" /\ canNext /\ pos < Len(clientClass)
  /\ clientClass[pos + 1] = n

\* It is done by an object of the registered class, or by what a deleted one left.
Round(n) ==
  /\ Runs(n)
  /\ classMap[n] # "none"
  /\ classMap' = [classMap EXCEPT ![n] = "deleted"]
  /\ pos' = pos + 1
  /\ UNCHANGED <<clientClass, strategy, running>>

LastWaiter ==
  /\ Round("last_waiter")
  /\ lastWaiter' = "12345"
  /\ UNCHANGED <<canNext, candidates, assignee, since, undefined>>

Capcity ==
  /\ Round("capcity")
  /\ candidates' = candidates \o Capacity
  /\ UNCHANGED <<canNext, lastWaiter, assignee, since, undefined>>

Reject(w) ==
  /\ candidates' = Without(w)
  /\ canNext' = (candidates' # <<>>)
  /\ UNCHANGED <<lastWaiter, assignee, since, undefined>>

PolicyZone == Round("policy_zone") /\ Reject(ZoneRejects)
PolicyPage == Round("policy_page") /\ Reject(PageRejects)

\* (mutant: the last index is never drawn)
IndexShort(r) == IF candidates = <<>> THEN 0 ELSE ((Len(candidates) - 1) * r) \div (RandMax + 1)

\* The index, from 0, for a rand() of r.
Index(r) == (Len(candidates) * r) \div RandMax

Final(r) ==
  /\ Round("final")
  /\ IF Index(r) < Len(candidates)
       THEN /\ assignee' = candidates[Index(r) + 1]
            /\ since' = pos'
            /\ UNCHANGED undefined
       ELSE /\ undefined' = IF candidates = <<>> THEN "no candidate" ELSE "past the end"
            /\ UNCHANGED <<assignee, since>>
  /\ UNCHANGED <<canNext, lastWaiter, candidates>>

\* A name that is not registered gives a null pointer, one that has been used
\* a pointer to a deleted object; the next statement calls through it, and the
\* end of the round deletes it, the second time.
BadClass(n) ==
  /\ Runs(n)
  /\ classMap[n] # "there"
  /\ undefined' = IF classMap[n] = "none" THEN "null class" ELSE "deleted class"
  /\ UNCHANGED <<classMap, clientClass, strategy, running, pos, context>>

\* The end of the list, or can_next is false.
Return ==
  /\ running /\ undefined = "nothing"
  /\ ~canNext \/ pos = Len(clientClass)
  /\ running' = FALSE
  /\ UNCHANGED <<classMap, clientClass, strategy, pos, context, undefined>>

AssignNext ==
  \/ RegistClasses \/ ReadStrategy \/ ExecuteClient
  \/ LastWaiter \/ Capcity \/ PolicyZone \/ PolicyPage
  \/ \E r \in 0 .. RandMax : Final(r)
  \/ \E n \in Name : BadClass(n)
  \/ Return

AssignSpec == AssignInit /\ [][AssignNext]_assignVars

-----------------------------------------------------------------------------
(* Properties *)

Rejecters(w) == {n \in {"policy_zone", "policy_page"} :
                   w = IF n = "policy_zone" THEN ZoneRejects ELSE PageRejects}

\* Waiters that were offered before place j of the list and that no policy
\* between that offer and place j rejected.
Eligible(j) ==
  {w \in Waiter : \E i \in 1 .. j - 1 :
     /\ clientClass[i] = "capcity"
     /\ \A k \in i + 1 .. j - 1 : clientClass[k] \notin Rejecters(w)}

\* Whoever is assigned (auto_assign.cpp:123) was offered before the draw, and a
\* policy that rejects him after that offer stands after the draw in the strategy:
\* such a policy takes him from the candidates and leaves final_assigner as it is.
\* With no policy after the draw nobody is assigned whom a policy rejected.
AssigneeIsEligible ==
  running /\ assignee # "nobody" =>
    \E i \in 1 .. since - 1 :
      /\ clientClass[i] = "capcity"
      /\ \A k \in i + 1 .. pos : clientClass[k] \in Rejecters(assignee) => k > since

\* Where final is about to draw, every eligible waiter can be drawn
\* (auto_assign.cpp:122).
EveryoneCanBeDrawn ==
  Runs("final") =>
    Eligible(pos + 1) \subseteq
      {candidates[Index(r) + 1] : r \in {s \in 0 .. RandMax : Index(s) < Len(candidates)}}

\* An index out of the candidates (auto_assign.cpp:123): the chain stops when
\* a policy leaves nobody, so final meets no candidates only if neither an
\* offer nor a policy came before it.
FinalMeetsCandidates ==
  undefined = "no candidate" =>
    \A i \in 1 .. pos - 1 : clientClass[i] = "last_waiter"

\* Out of the rand() values one, RAND_MAX itself, gives an index past the candidates
\* (auto_assign.cpp:122); what is read there is undefined.
PastEndAtMaxOnly ==
  Runs("final") /\ candidates # <<>> =>
    \A r \in 0 .. RandMax : Index(r) >= Len(candidates) <=> r = RandMax

\* The draw (auto_assign.cpp:122-123): every candidate, and nobody else, for every
\* rand() but the largest; the candidates are those the list so far leaves.
DrawIsRight ==
  AssigneeIsEligible /\ EveryoneCanBeDrawn /\ FinalMeetsCandidates /\ PastEndAtMaxOnly
=============================================================================
