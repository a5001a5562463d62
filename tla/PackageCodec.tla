----------------------------- MODULE PackageCodec -----------------------------
(***************************************************************************)
(* Packages as text.  A peer's message is parsed (set_package_from_        *)
(* message); a chat message is written into a dispatch package for a list  *)
(* of recipients (set_message_from_dispatch_package), which a dispatcher   *)
(* parses again (set_dispatch_package_from_message).  What JSON itself     *)
(* does is left to the library.                                            *)
(*                                                                         *)
(* No call takes the text that message_dispatcher writes to a dispatcher:  *)
(* send_message of the dispatcher's server is empty (websocket.cpp:149-    *)
(* 152).  Arrive is a peer of the dispatcher's server that sends it a text *)
(* written that way.  message_dispatcher's list is a fixed pair; here it   *)
(* is any list, as in the packages a dispatcher is sent.                   *)
(*                                                                         *)
(* An object is a record of texts.  A text that is read as a number is     *)
(* known by the number it begins with, Numeral(n), or, if it is one        *)
(* character, by its code.  The text of an account id is the sequence of   *)
(* its parts between semicolons.                                           *)
(***************************************************************************)
EXTENDS Integers, Sequences, SequencesExt

CONSTANTS
  Part,      \* what stands between semicolons in account ids
  Session,   \* numbers the session ids of peers begin with
  Site,      \* site ids
  Type,      \* message types
  Time,      \* times of messages
  MaxParts,  \* bound: parts of an account id
  MaxTo,     \* bound: recipients of a dispatch package
  MaxBody    \* bound: messages in a package

ASSUME PackageAssumption ==
  /\ Session \cup Site \cup Type \cup Time \subseteq Int
  /\ MaxParts \in Nat /\ MaxTo \in Nat /\ MaxBody \in Nat

VARIABLES
  stage,     \* what was done last: see RelayTypeOK
  original,  \* the object the peer sent (history)
  asked,     \* the recipients it is to be dispatched to (history)
  text,      \* the object on the way
  pack,      \* the package parsed last
  to,        \* the recipients parsed
  writes     \* times the package was written out (history)

relayVars == <<stage, original, asked, text, pack, to, writes>>

Numeral(n)   == [kind |-> "numeral", value |-> n]
Character(c) == [kind |-> "character", value |-> c]

Account == UNION {[1 .. n -> Part] : n \in 1 .. MaxParts}
Key     == {"from", "to", "site_id", "session_id", "message_type", "messages"}

Message(t) == [text |-> "text", time |-> t]
Object ==
  [from : {<<p>> : p \in Part}, to : {<<p>> : p \in Part},
   site_id : {Numeral(n) : n \in Site}, session_id : {Numeral(n) : n \in Session},
   message_type : {Numeral(n) : n \in Type},
   messages : BoundedSeq({Message(Numeral(n)) : n \in Time}, MaxBody)]

waiter_to_client == 1
client_to_waiter == 2

-----------------------------------------------------------------------------
(* Conversions *)

IsDigit(c) == c \in 48 .. 57

\* The number a text begins with; 0 if it begins with none.
Atoi(t) ==
  CASE t.kind = "numeral"   -> t.value
    [] t.kind = "character" -> IF IsDigit(t.value) THEN t.value - 48 ELSE 0

\* (mutant: no narrowing)
WideCharacter(n) == Character(n)

\* A number assigned to a string: the string becomes that one character.
OneCharacter(n) == Character(n % 256)

Short(n) == ((n + 32768) % 65536) - 32768

\* (mutant: the front of the queue is taken over and over)
ReadFirst(m) == [i \in DOMAIN m |-> [text |-> m[1].text, time |-> Atoi(m[1].time)]]

ReadMessages(m)  == [i \in DOMAIN m |-> [text |-> m[i].text, time |-> Atoi(m[i].time)]]
WriteMessages(m) == [i \in DOMAIN m |-> [text |-> m[i].text, time |-> Numeral(m[i].time)]]

\* set_package_from_message, and the same statements for the object under "msg".
Parse(o) ==
  [from |-> o.from, to |-> o.to, site_id |-> Atoi(o.site_id),
   session_id |-> OneCharacter(Atoi(o.session_id)), message_type |-> Atoi(o.message_type),
   messages |-> ReadMessages(o.messages)]

\* set_message_from_package, and the same statements for the object under "msg".
Write(p) ==
  [from |-> p.from, to |-> p.to, site_id |-> Numeral(p.site_id),
   session_id |-> p.session_id, message_type |-> Numeral(Short(p.message_type)),
   messages |-> WriteMessages(p.messages)]

\* Names one after the other with semicolons between, and back.
Join(names) == FlattenSeq(names)
Split(list) == [i \in DOMAIN list |-> <<list[i]>>]

-----------------------------------------------------------------------------
RelayTypeOK ==
  /\ stage \in {"received", "parsed", "dispatched", "arrived", "dropped", "thrown",
                "written", "reread"}
  /\ writes \in 0 .. 2
  /\ asked \in BoundedSeq(Account, MaxTo)
  /\ stage = "arrived" => to # <<>> /\ \A i \in DOMAIN to : Len(to[i]) = 1
  /\ stage \in {"parsed", "dispatched", "dropped", "arrived", "written", "reread"} =>
       /\ DOMAIN pack = Key
       /\ pack.session_id.kind = "character" /\ pack.session_id.value \in 0 .. 255

\* A peer may leave a key out; then nobody is asked for recipients.
RelayInit ==
  /\ stage = "received"
  /\ original \in Object
  /\ asked \in BoundedSeq(Account, MaxTo)
  /\ \/ text = original
     \/ asked = <<>> /\ \E missing \in Key : text = [k \in Key \ {missing} |-> original[k]]
  /\ pack = <<>> /\ to = <<>> /\ writes = 0

\* Reading a key that is not there throws.
Throw ==
  /\ stage = "received" /\ DOMAIN text # Key
  /\ stage' = "thrown"
  /\ UNCHANGED <<original, asked, text, pack, to, writes>>

Receive ==
  /\ stage = "received" /\ DOMAIN text = Key
  /\ pack' = Parse(text)
  /\ stage' = "parsed"
  /\ UNCHANGED <<original, asked, text, to, writes>>

IsChat(p) == p.message_type \in {waiter_to_client, client_to_waiter}

\* With no recipients nothing is written.
Dispatch ==
  /\ stage = "parsed" /\ IsChat(pack) /\ asked # <<>>
  /\ text' = [to |-> Join(asked), msg |-> Write(pack)]
  /\ stage' = "dispatched"
  /\ UNCHANGED <<original, asked, pack, to, writes>>

Drop ==
  /\ stage = "parsed" /\ (~IsChat(pack) \/ asked = <<>>)
  /\ stage' = "dropped"
  /\ UNCHANGED <<original, asked, text, pack, to, writes>>

\* A peer of the dispatcher's server has sent it the text.
Arrive ==
  /\ stage = "dispatched"
  /\ to' = Split(text.to)
  /\ pack' = Parse(text.msg)
  /\ stage' = "arrived"
  /\ UNCHANGED <<original, asked, text, writes>>

\* utility's package_to_message takes the messages out of the caller's package.
\* (Bound: at most two times, and only if nothing is to be dispatched.)
WriteOut ==
  /\ stage \in {"parsed", "written"} /\ asked = <<>> /\ writes < 2
  /\ text' = Write(pack)
  /\ pack' = [pack EXCEPT !.messages = <<>>]
  /\ writes' = writes + 1
  /\ stage' = "written"
  /\ UNCHANGED <<original, asked, to>>

\* utility's message_to_package, of the text written last.
ReadBack ==
  /\ stage = "written"
  /\ pack' = Parse(text)
  /\ stage' = "reread"
  /\ UNCHANGED <<original, asked, text, to, writes>>

RelayNext == Throw \/ Receive \/ Dispatch \/ Drop \/ Arrive \/ WriteOut \/ ReadBack

RelaySpec == RelayInit /\ [][RelayNext]_relayVars

-----------------------------------------------------------------------------
(* Properties *)

Sent(m) == [i \in DOMAIN m |-> Message(m[i].time.value)]

\* What a dispatcher parses from a dispatch package (mesage_processor.cpp:77-110) is
\* what the first peer sent, but for the session id, which is cut to one character when it is parsed
\* (35) and to one of at most ten when it is parsed again (94).  The recipients
\* come back (84-86, 115-123) just if no account id has a semicolon in it.
ArrivesAsSent ==
  stage = "arrived" =>
    /\ \A k \in {"from", "to"} : pack[k] = original[k]
    /\ pack.site_id = original.site_id.value
    /\ pack.message_type = original.message_type.value
    /\ pack.messages = Sent(original.messages)
    /\ pack.session_id.value \in 0 .. 9
    /\ to = asked <=> \A i \in DOMAIN asked : Len(asked[i]) = 1

\* A package that package_to_message has written once comes back from
\* message_to_package with its ids and all its messages, in their order
\* (utility.cpp:208-217, 240-250).
PackageComesBack ==
  stage = "reread" /\ writes = 1 =>
    /\ \A k \in {"from", "to"} : pack[k] = original[k]
    /\ pack.site_id = original.site_id.value
    /\ pack.messages = Sent(original.messages)
=============================================================================
