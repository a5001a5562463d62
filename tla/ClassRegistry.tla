--------------------------- MODULE ClassRegistry ---------------------------
(***************************************************************************)
(* Class of utility/reflection: class objects by name.  The map is keyed   *)
(* by char*, so it compares the addresses of names and never their text.   *)
(* The text at an address is therefore no part of the state: two literals  *)
(* of the same text are one key only if the compiler pools them, and a     *)
(* caller that writes another name into its buffer finds the old class.    *)
(***************************************************************************)

CONSTANTS
  NameAt,   \* addresses of names
  Made,     \* types a class object makes
  NoClass   \* the empty pointer

ASSUME RegistryAssumption == NoClass \notin Made

VARIABLE classes  \* Class::class_map: the type for an address, or NoClass

registryVars == <<classes>>

RegistryTypeOK == classes \in [NameAt -> Made \cup {NoClass}]

RegistryInit == classes = [a \in NameAt |-> NoClass]

\* What for_name returns; new_instance makes an object of that type.
ForName(a) == classes[a]

\* A name that is registered keeps its class; nothing changes then.
Regist(a, m) ==
  /\ ForName(a) = NoClass
  /\ classes' = [classes EXCEPT ![a] = m]

RegistryNext == \E a \in NameAt, m \in Made : Regist(a, m)

RegistrySpec == RegistryInit /\ [][RegistryNext]_registryVars
=============================================================================
