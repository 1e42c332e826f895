------------------------------- MODULE Service -------------------------------
(***************************************************************************)
(* The service processes of cxxd (service.py).  Every service object owns  *)
(* one multiprocessing queue; a listener process forked from the server    *)
(* (service_listener) takes one message at a time off that queue and runs  *)
(* its handler, until a handler returns False.  The queue belongs to the   *)
(* server process as well: it outlives the listener, and whatever a        *)
(* listener leaves unread is there for the next one.                       *)
(*                                                                         *)
(* The module holds the listener's side: taking a message, handling it,    *)
(* and dying while handling it.  Server.tla composes it with the process   *)
(* that forks the listeners and fills the queues.                          *)
(***************************************************************************)
EXTENDS Naturals, Sequences

CONSTANTS
  NumServices,    \* number of entries of the server's service table
  StartupOutcome, \* what a service's startup_callback can do: ok, fail, raise
  RequestOutcome, \* what a service's __call__ can do: ok, raise
  PluginHooks,    \* the hooks the frontend's plugins define: startup, shutdown
  MaxCrashes      \* bound on the number of listeners that die in a handler

ASSUME NumServicesAssumption == NumServices \in Nat \ {0}
ASSUME StartupAssumption == StartupOutcome \subseteq {"ok", "fail", "raise"}
ASSUME RequestAssumption == RequestOutcome \subseteq {"ok", "raise"}
ASSUME HooksAssumption == PluginHooks \subseteq {"startup", "shutdown"}
ASSUME CrashesAssumption == MaxCrashes \in Nat

\* A service is named by its position in the server's service table.
Service == 1..NumServices

\* A message of a service queue.  Requests carry the number of the client
\* message they come from; the other operations carry 0.
Message == [op : {"startup", "shutdown", "request", "loglevel"}, id : Nat]
NoMessage == [op |-> "none", id |-> 0]
StartupMessage  == [op |-> "startup",  id |-> 0]
ShutdownMessage == [op |-> "shutdown", id |-> 0]
LogLevelMessage == [op |-> "loglevel", id |-> 0]
RequestMessage(n) == [op |-> "request", id |-> n]

VARIABLES
  queue,      \* queue[s]: the messages not yet taken
  alive,      \* alive[s]: a listener process of s is running
  started_up, \* started_up[s]: Service.started_up in the listener's memory
  current,    \* current[s]: the message the listener is handling
  answered,   \* answered[s]: requests whose result the plugin was given
  crashes     \* number of listeners that died so far

serviceVars == <<queue, alive, started_up, current, answered, crashes>>

ServiceTypeOK ==
  /\ queue \in [Service -> Seq(Message)]
  /\ alive \in [Service -> BOOLEAN]
  /\ started_up \in [Service -> BOOLEAN]
  /\ current \in [Service -> Message \cup {NoMessage}]
  /\ answered \in [Service -> Seq(Nat)]
  /\ crashes \in Nat

ServiceInit ==
  /\ queue = [s \in Service |-> <<>>]
  /\ alive = [s \in Service |-> FALSE]
  /\ started_up = [s \in Service |-> FALSE]
  /\ current = [s \in Service |-> NoMessage]
  /\ answered = [s \in Service |-> <<>>]
  /\ crashes = 0

-----------------------------------------------------------------------------
\* Mutant of Get: the message put last is taken first.
GetLast(s) ==
  /\ alive[s] /\ current[s] = NoMessage /\ queue[s] # <<>>
  /\ current' = [current EXCEPT ![s] = queue[s][Len(queue[s])]]
  /\ queue' = [queue EXCEPT ![s] = SubSeq(queue[s], 1, Len(queue[s]) - 1)]
  /\ UNCHANGED <<alive, started_up, answered, crashes>>

\* process_request blocks on the queue and takes its oldest message.
Get(s) ==
  /\ alive[s] /\ current[s] = NoMessage /\ queue[s] # <<>>
  /\ current' = [current EXCEPT ![s] = Head(queue[s])]
  /\ queue' = [queue EXCEPT ![s] = Tail(queue[s])]
  /\ UNCHANGED <<alive, started_up, answered, crashes>>

\* A handler ends: started_up becomes `up`, and the listener goes on as long
\* as the handler's return value, `listening`, is true.
Finish(s, up, listening) ==
  /\ started_up' = [started_up EXCEPT ![s] = up]
  /\ alive' = [alive EXCEPT ![s] = listening]
  /\ current' = [current EXCEPT ![s] = NoMessage]
  /\ UNCHANGED <<queue, crashes>>

\* A handler raises: process_request swallows it and reports "still running",
\* whatever started_up is.
Raise(s) == Finish(s, started_up[s], TRUE)

\* __startup_request: run the callback, tell the plugin, then record the
\* status and return it.  A second startup is only warned about.
HandleStartup(s) ==
  /\ current[s].op = "startup"
  /\ \/ started_up[s] /\ Finish(s, TRUE, TRUE)
     \/ /\ ~started_up[s]
        /\ \E outcome \in StartupOutcome :
             IF outcome = "raise" \/ "startup" \notin PluginHooks
               THEN Raise(s)
               ELSE Finish(s, outcome = "ok", outcome = "ok")
  /\ UNCHANGED answered

\* Mutant of HandleShutdown: a service that is not started only warns.
HandleShutdownWarns(s) ==
  /\ current[s].op = "shutdown"
  /\ Finish(s, FALSE, ~started_up[s])
  /\ UNCHANGED answered

\* __shutdown_request: every service's shutdown_callback succeeds, so the
\* listener ends, unless the plugin has no shutdown hook to be told with.
HandleShutdown(s) ==
  /\ current[s].op = "shutdown"
  /\ \/ started_up[s] /\ "shutdown" \notin PluginHooks /\ Raise(s)
     \/ started_up[s] /\ "shutdown" \in PluginHooks /\ Finish(s, FALSE, FALSE)
     \/ ~started_up[s] /\ Finish(s, FALSE, FALSE)
  /\ UNCHANGED answered

\* __request: the plugin is called with the result once __call__ returns.
\* A service that is not started warns, and its listener ends.
HandleRequest(s) ==
  /\ current[s].op = "request"
  /\ \/ /\ started_up[s] /\ "ok" \in RequestOutcome
        /\ Finish(s, TRUE, TRUE)
        /\ answered' = [answered EXCEPT ![s] = Append(@, current[s].id)]
     \/ /\ started_up[s] /\ "raise" \in RequestOutcome
        /\ Raise(s)
        /\ UNCHANGED answered
     \/ /\ ~started_up[s]
        /\ Finish(s, FALSE, FALSE)
        /\ UNCHANGED answered

\* Mutant of HandleLogLevel: the return statement is missing.
HandleLogLevelEnds(s) ==
  /\ current[s].op = "loglevel"
  /\ Finish(s, started_up[s], FALSE)
  /\ UNCHANGED answered

\* __set_log_level returns started_up: it ends a listener not yet started.
HandleLogLevel(s) ==
  /\ current[s].op = "loglevel"
  /\ Finish(s, started_up[s], started_up[s])
  /\ UNCHANGED answered

\* The process dies inside a handler (libclang brings it down): the message
\* is gone, the queue stays.
Crash(s) ==
  /\ alive[s] /\ current[s] # NoMessage /\ crashes < MaxCrashes
  /\ alive' = [alive EXCEPT ![s] = FALSE]
  /\ current' = [current EXCEPT ![s] = NoMessage]
  /\ crashes' = crashes + 1
  /\ UNCHANGED <<queue, started_up, answered>>

Handle(s) ==
  HandleStartup(s) \/ HandleShutdown(s) \/ HandleRequest(s) \/ HandleLogLevel(s)

\* One turn of service_listener's loop.
Listen(s) == Get(s) \/ Handle(s)
=============================================================================
