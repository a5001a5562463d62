------------------------- MODULE SiteManagerProofs -------------------------
(***************************************************************************)
(* Proofs about SiteManager, for any ids, addresses and callers.           *)
(***************************************************************************)
EXTENDS SiteManager, TLAPS

\* HeldIsGood alone is not inductive: that a removal deletes the object of its
\* own id, and no other, needs the way back, from the map to the heap.
EntriesAreGood == \A i \in SiteId : siteMap[i] # NoSite => objects[siteMap[i]] = i

\* A caller that keeps a pointer asked for an id.
HeldWasAsked == \A c \in Caller : held[c] # NoSite => asked_id[c] \in SiteId

SitesInv == SitesTypeOK /\ HeldIsGood /\ EntriesAreGood /\ HeldWasAsked

LEMMA SitesInitially == SitesInit => SitesInv
BY SiteAssumption
DEF SitesInit, SitesInv, SitesTypeOK, HeldIsGood, ObjectsAreMapped, EntriesAreGood, HeldWasAsked

LEMMA SitesStep == SitesInv /\ [SitesNext]_siteVars => SitesInv'
<1> SUFFICES ASSUME SitesInv, [SitesNext]_siteVars PROVE SitesInv'
  OBVIOUS
<1>0. NoSite \notin SiteId /\ NoSite \notin Place
  BY SiteAssumption
<1>1. ASSUME NEW i \in SiteId, AddSite(i) PROVE SitesInv'
  <2>1. PICK a \in Place : /\ objects[a] = NoSite /\ siteMap[i] = NoSite
                           /\ objects' = [objects EXCEPT ![a] = i]
                           /\ siteMap' = [siteMap EXCEPT ![i] = a]
                           /\ UNCHANGED <<held, asked_id, removed>>
    BY <1>1 DEF AddSite
  <2>2. SitesTypeOK'
    BY <2>1 DEF SitesInv, SitesTypeOK
  <2>3. ObjectsAreMapped'
    BY <2>1, <1>0 DEF SitesInv, SitesTypeOK, HeldIsGood, ObjectsAreMapped
  <2>4. EntriesAreGood'
    BY <2>1, <1>0 DEF SitesInv, SitesTypeOK, EntriesAreGood
  <2>5. ASSUME NEW c \in Caller, held[c] # NoSite, ~removed[c]
        PROVE  objects'[held[c]] = asked_id[c]
    <3>1. objects[held[c]] = asked_id[c] /\ asked_id[c] \in SiteId
      BY <2>5 DEF SitesInv, HeldIsGood, HeldWasAsked
    <3> QED BY <3>1, <2>1, <1>0 DEF SitesInv, SitesTypeOK
  <2> QED BY <2>1, <2>2, <2>3, <2>4, <2>5 DEF SitesInv, HeldIsGood, HeldWasAsked
<1>2. ASSUME NEW i \in SiteId, RemoveSite(i) PROVE SitesInv'
  <2> DEFINE a == siteMap[i]
  <2>1. /\ a \in Place /\ objects[a] = i
        /\ siteMap' = [siteMap EXCEPT ![i] = NoSite]
        /\ objects' = [objects EXCEPT ![a] = NoSite]
        /\ removed' = [c \in Caller |-> removed[c] \/ asked_id[c] = i]
        /\ UNCHANGED <<held, asked_id>>
    BY <1>2 DEF RemoveSite, SitesInv, SitesTypeOK, EntriesAreGood
  <2> HIDE DEF a
  <2>2. SitesTypeOK'
    BY <2>1 DEF SitesInv, SitesTypeOK
  <2>3. ObjectsAreMapped'
    BY <2>1, <1>0 DEF SitesInv, SitesTypeOK, HeldIsGood, ObjectsAreMapped
  <2>4. EntriesAreGood'
    BY <2>1, <1>0 DEF SitesInv, SitesTypeOK, EntriesAreGood
  <2>5. ASSUME NEW c \in Caller, held[c] # NoSite, ~removed'[c]
        PROVE  objects'[held[c]] = asked_id[c]
    <3>1. ~removed[c] /\ asked_id[c] # i
      BY <2>1, <2>5
    <3>2. objects[held[c]] = asked_id[c]
      BY <2>5, <3>1 DEF SitesInv, HeldIsGood
    <3> QED BY <3>1, <3>2, <2>1 DEF SitesInv, SitesTypeOK
  <2> QED BY <2>1, <2>2, <2>3, <2>4, <2>5 DEF SitesInv, HeldIsGood, HeldWasAsked
<1>3. ASSUME NEW i \in SiteId, NEW c \in Caller, GetSite(c, i) PROVE SitesInv'
  BY <1>3 DEF GetSite, SitesInv, SitesTypeOK, HeldIsGood, ObjectsAreMapped,
              EntriesAreGood, HeldWasAsked
<1>4. CASE UNCHANGED siteVars
  BY <1>4 DEF siteVars, SitesInv, SitesTypeOK, HeldIsGood, ObjectsAreMapped,
              EntriesAreGood, HeldWasAsked
<1> QED BY <1>1, <1>2, <1>3, <1>4 DEF SitesNext

\* A pointer a caller keeps is good until its own site is removed, and no object
\* is lost, for any number of ids, addresses and callers (site_manager.cpp:22-40).
THEOREM PointersStayGood == SitesSpec => []HeldIsGood
<1>1. SitesInv => HeldIsGood
  BY DEF SitesInv
<1> QED BY <1>1, SitesInitially, SitesStep, PTL DEF SitesSpec
=============================================================================
