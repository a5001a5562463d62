---------------------------- MODULE SiteManager ----------------------------
(***************************************************************************)
(* site_manager: a map from site ids to site objects on the heap.  Callers *)
(* keep the pointers get_site returns; nothing tells them of a removal,    *)
(* and the allocator may give the address to the next object.              *)
(***************************************************************************)
EXTENDS Naturals

CONSTANTS
  SiteId,   \* site ids
  Place,    \* addresses of the heap
  NoSite,   \* the null pointer; as an id: no object
  Caller    \* each keeps one pointer

ASSUME SiteAssumption == NoSite \notin SiteId \cup Place

VARIABLES
  siteMap,  \* site_map: a pointer for each id, or NoSite
  objects,  \* the heap: the site_id of the object at an address, or NoSite
  held,     \* the pointer a caller keeps
  asked_id, \* the id it asked for (history)
  removed   \* has remove_site(id) returned since? (history)

siteVars == <<siteMap, objects, held, asked_id, removed>>

SitesTypeOK ==
  /\ siteMap \in [SiteId -> Place \cup {NoSite}]
  /\ objects \in [Place -> SiteId \cup {NoSite}]
  /\ held \in [Caller -> Place \cup {NoSite}]
  /\ asked_id \in [Caller -> SiteId \cup {NoSite}]
  /\ removed \in [Caller -> BOOLEAN]

SitesInit ==
  /\ siteMap = [i \in SiteId |-> NoSite]
  /\ objects = [a \in Place |-> NoSite]
  /\ held = [c \in Caller |-> NoSite] /\ asked_id = [c \in Caller |-> NoSite]
  /\ removed = [c \in Caller |-> FALSE]

-----------------------------------------------------------------------------
\* An id that is in the map keeps its object.
AddSite(i) ==
  /\ siteMap[i] = NoSite
  /\ \E a \in {b \in Place : objects[b] = NoSite} :
       /\ objects' = [objects EXCEPT ![a] = i]
       /\ siteMap' = [siteMap EXCEPT ![i] = a]
  /\ UNCHANGED <<held, asked_id, removed>>

\* (mutant: the entry stays in the map)
RemoveObject(i) ==
  /\ siteMap[i] # NoSite
  /\ objects' = [objects EXCEPT ![siteMap[i]] = NoSite]
  /\ removed' = [c \in Caller |-> removed[c] \/ asked_id[c] = i]
  /\ UNCHANGED <<siteMap, held, asked_id>>

RemoveSite(i) ==
  /\ siteMap[i] # NoSite
  /\ siteMap' = [siteMap EXCEPT ![i] = NoSite]
  /\ objects' = [objects EXCEPT ![siteMap[i]] = NoSite]
  /\ removed' = [c \in Caller |-> removed[c] \/ asked_id[c] = i]
  /\ UNCHANGED <<held, asked_id>>

GetSite(c, i) ==
  /\ held' = [held EXCEPT ![c] = siteMap[i]]
  /\ asked_id' = [asked_id EXCEPT ![c] = i]
  /\ removed' = [removed EXCEPT ![c] = FALSE]
  /\ UNCHANGED <<siteMap, objects>>

SitesNext ==
  \E i \in SiteId : AddSite(i) \/ RemoveSite(i) \/ \E c \in Caller : GetSite(c, i)

SitesSpec == SitesInit /\ [][SitesNext]_siteVars

-----------------------------------------------------------------------------
(* Properties *)

\* Every object on the heap is the one object of its id that the map knows, so
\* none leaks and none can be deleted twice.
ObjectsAreMapped ==
  \A a \in Place : objects[a] # NoSite => siteMap[objects[a]] = a

\* A pointer a caller keeps is good until its own site is removed, whatever
\* happens to others and however addresses are used again; no object is lost
\* (site_manager.cpp:22-40).
HeldIsGood ==
  /\ ObjectsAreMapped
  /\ \A c \in Caller :
       held[c] # NoSite /\ ~removed[c] => objects[held[c]] = asked_id[c]
=============================================================================
