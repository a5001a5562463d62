---------------------------- MODULE ServerThreads ----------------------------
(***************************************************************************)
(* main and run_wspp_server: the stores are cleared, the servers are made, *)
(* the four global functions through which one server calls another are    *)
(* bound, and five threads start; main itself runs the client server, then *)
(* waits for the client server's process_messages.                         *)
(*                                                                         *)
(* run opens the port outside its try block, so a port that is taken ends  *)
(* the process, from any thread: uncaught on a thread of its own, through  *)
(* the end of main on main's.  What the loop throws is caught, and the     *)
(* thread ends.  A running loop runs handlers, which call the functions,   *)
(* and ends the process when a handler uses a database connection that     *)
(* could not be made.                                                      *)
(***************************************************************************)
EXTENDS Naturals, Sequences

VARIABLES
  main,     \* what main is about to do: "clear", "bind", "start", "run", "join"
  cleared,  \* has main cleared the stores?
  bound,    \* are the global functions bound?
  started,  \* how many of Threads have been started
  server,   \* "none", "listen", "serving" or "stopped", for each server
  alive     \* does the process exist?

threadVars == <<main, cleared, bound, started, server, alive>>

Servers == {"client", "waiter", "dispatcher"}

\* t1 .. t5: what each thread runs, and for which server.
Threads == << <<"process_messages", "client">>,
              <<"run", "waiter">>, <<"process_messages", "waiter">>,
              <<"run", "dispatcher">>, <<"process_messages", "dispatcher">> >>

ThreadsTypeOK ==
  /\ main \in {"clear", "bind", "start", "run", "join"}
  /\ cleared \in BOOLEAN /\ bound \in BOOLEAN /\ alive \in BOOLEAN
  /\ started \in 0 .. Len(Threads)
  /\ server \in [Servers -> {"none", "listen", "serving", "stopped"}]

ThreadsInit ==
  /\ main = "clear"
  /\ cleared = FALSE /\ bound = FALSE
  /\ started = 0
  /\ server = [s \in Servers |-> "none"]
  /\ alive = TRUE

-----------------------------------------------------------------------------
Doing(step) == alive /\ main = step

ClearStores ==
  /\ Doing("clear")
  /\ cleared' = TRUE
  /\ main' = "bind"
  /\ UNCHANGED <<bound, started, server, alive>>

BindFunctions ==
  /\ Doing("bind")
  /\ bound' = TRUE
  /\ main' = "start"
  /\ UNCHANGED <<cleared, started, server, alive>>

\* A thread that runs process_messages waits at once, and again after every
\* spurious wake-up: no statement pushes an action, so it is never seen again.
StartThread ==
  /\ Doing("start") /\ started < Len(Threads)
  /\ started' = started + 1
  /\ LET s == Threads[started'][2]
     IN  server' = IF Threads[started'][1] = "run"
                     THEN [server EXCEPT ![s] = "listen"] ELSE server
  /\ UNCHANGED <<main, cleared, bound, alive>>

RunClientServer ==
  /\ Doing("start") /\ started = Len(Threads)
  /\ server' = [server EXCEPT !["client"] = "listen"]
  /\ main' = "run"
  /\ UNCHANGED <<cleared, bound, started, alive>>

\* The cache or the database is away, a server cannot be made, or no thread
\* can be had.
SetUpFails ==
  /\ alive /\ main \in {"clear", "bind", "start"}
  /\ alive' = FALSE
  /\ UNCHANGED <<main, cleared, bound, started, server>>

Listen(s) ==
  /\ alive /\ server[s] = "listen"
  /\ server' = [server EXCEPT ![s] = "serving"]
  /\ UNCHANGED <<main, cleared, bound, started, alive>>

PortTaken(s) ==
  /\ alive /\ server[s] = "listen"
  /\ alive' = FALSE
  /\ UNCHANGED <<main, cleared, bound, started, server>>

\* (mutant: main does not wait for t1)
LoopEndsMain(s) ==
  /\ alive /\ server[s] = "serving"
  /\ server' = [server EXCEPT ![s] = "stopped"]
  /\ main' = IF s = "client" THEN "join" ELSE main
  /\ alive' = (s # "client")
  /\ UNCHANGED <<cleared, bound, started>>

\* main goes on to t1.join(), and t1 waits for ever.
LoopEnds(s) ==
  /\ alive /\ server[s] = "serving"
  /\ server' = [server EXCEPT ![s] = "stopped"]
  /\ main' = IF s = "client" THEN "join" ELSE main
  /\ UNCHANGED <<cleared, bound, started, alive>>

\* conn is NULL when the database could not be reached, and the log of every
\* opening, login and closing uses it.
HandlerCrashes(s) ==
  /\ alive /\ server[s] = "serving"
  /\ alive' = FALSE
  /\ UNCHANGED <<main, cleared, bound, started, server>>

MainSteps == ClearStores \/ BindFunctions \/ StartThread \/ RunClientServer
OpensPort(s)  == Listen(s) \/ PortTaken(s)

ThreadsNext ==
  \/ MainSteps
  \/ SetUpFails
  \/ \E s \in Servers : OpensPort(s) \/ LoopEnds(s) \/ HandlerCrashes(s)

\* The scheduler runs every thread that can go on.
ThreadsFairness == WF_threadVars(MainSteps) /\ \A s \in Servers : WF_threadVars(OpensPort(s))

ThreadsSpec == ThreadsInit /\ [][ThreadsNext]_threadVars /\ ThreadsFairness

-----------------------------------------------------------------------------
Settled == \A s \in Servers : server[s] \in {"serving", "stopped"}

\* No handler of any server can run before the stores are cleared and before
\* the functions it calls are bound: the thread of another server may be
\* running for a while when main comes to its own (websocket.cpp:161-172).
ServesAfterSetup == \A s \in Servers : server[s] # "none" => cleared /\ bound

\* Once the three ports have been open the process ends with a handler only, so
\* while a server runs: a loop that throws ends nothing but its own server, not
\* even the client server's, on main's thread, as main then waits for t1, for
\* ever (websocket.cpp:34-46, 172-173).
EndsServing == ~alive /\ Settled => \E s \in Servers : server[s] = "serving"

\* With the stores cleared, the process ends or opens the three ports, after
\* the set-up: no server is left out of a process that goes on, and what can end
\* one with its ports open is a handler, never the end of a loop
\* (websocket.cpp:34-46, 154-173).
StartsOrEnds ==
  /\ main = "bind" ~> (Settled \/ ~alive)
  /\ [](ServesAfterSetup /\ EndsServing)
=============================================================================
