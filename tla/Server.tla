-------------------------------- MODULE Server --------------------------------
(***************************************************************************)
(* The cxxd server process (server.py) with its clients (api.py, the stdin *)
(* reader of main.py) and its service listeners (Service.tla).             *)
(*                                                                         *)
(* Clients put requests on one queue, the handle.  The server takes them   *)
(* one by one: it forks listeners, puts messages on the service queues,    *)
(* and joins the listeners it stops.  A join blocks the whole server until *)
(* that listener's process has ended.                                      *)
(***************************************************************************)
EXTENDS Service

CONSTANTS
  Headers,      \* the kinds of client request that occur
  Targets,      \* the service ids clients name; 0 is an id no service has
  Configured,   \* can the project configuration be found: set of BOOLEAN
  MaxRequests   \* bound on the number of client requests, end of input aside

RequestHeaders == {"start_all", "start", "send", "loglevel", "stop_all",
                   "stop", "exit", "unknown", "malformed"}

ASSUME HeadersAssumption == Headers \subseteq RequestHeaders
ASSUME TargetsAssumption == Targets \subseteq Service \cup {0}
ASSUME ConfiguredAssumption == Configured \subseteq BOOLEAN
ASSUME RequestsAssumption == MaxRequests \in Nat

\* Headers that name one service; the others go to every registered one.
Addressing == {"start", "send", "stop"}
ClientRequest ==
  [header : RequestHeaders, service : Service \cup {0}, id : Nat]

VARIABLES
  handle,            \* client requests the server has not taken yet
  sent,              \* number of requests the client has sent
  eof,               \* the stdin reader has seen the end of its input
  service,           \* Server.service: the ids that have a handler
  process,           \* process[s]: ServiceHandler.process is not None
  server_started_up, \* Server.started_up
  pc,                \* get: in handle.get(); stop, exit: joining; exited
  joining            \* the listeners still to be joined

serverVars == <<service, process, server_started_up, pc, joining>>
clientVars == <<sent, eof>>
vars == <<serviceVars, serverVars, clientVars, handle>>

TypeOK ==
  /\ ServiceTypeOK
  /\ handle \in Seq(ClientRequest)
  /\ sent \in Nat
  /\ eof \in BOOLEAN
  /\ service \subseteq Service
  /\ process \in [Service -> BOOLEAN]
  /\ server_started_up \in BOOLEAN
  /\ pc \in {"get", "stop", "exit", "exited"}
  /\ joining \subseteq Service

\* The constructor registers all services, or none when it finds no
\* configuration: then it shuts "all" of them down and clears started_up.
ServerInit(configured) ==
  /\ service = IF configured THEN Service ELSE {}
  /\ process = [s \in Service |-> FALSE]
  /\ server_started_up = configured
  /\ pc = "get"
  /\ joining = {}

Init ==
  /\ ServiceInit
  /\ \E configured \in Configured : ServerInit(configured)
  /\ handle = <<>> /\ sent = 0 /\ eof = FALSE

-----------------------------------------------------------------------------
(* The clients *)

\* A function of api.py, or a line of standard input, becomes a request.
ClientSend(header, s) ==
  /\ ~eof /\ sent < MaxRequests
  /\ sent' = sent + 1
  /\ handle' = Append(handle, [header |-> header, service |-> s, id |-> sent'])
  /\ UNCHANGED <<eof, serviceVars, serverVars>>

\* The end of standard input is turned into a request to shut down and exit.
ClientEOF ==
  /\ ~eof
  /\ eof' = TRUE
  /\ handle' = Append(handle, [header |-> "exit", service |-> 0, id |-> 0])
  /\ UNCHANGED <<sent, serviceVars, serverVars>>

-----------------------------------------------------------------------------
(* The server *)

\* process_request takes the oldest client request off the handle.
request == Head(handle)

Take(headers) ==
  /\ pc = "get" /\ handle # <<>>
  /\ request.header \in headers
  /\ handle' = Tail(handle)
  /\ UNCHANGED clientVars

\* The handlers a request is for: self.service.get(id), or all of them.
Handlers ==
  IF request.header \in Addressing
    THEN service \cap {request.service} ELSE service

Started(S) == {s \in S : process[s]}

\* A handler returns started_up, which run_server_process listens by.
Return == pc' = IF server_started_up THEN "get" ELSE "exited"

\* send_*_request of the handlers in S.
Put(S, message) ==
  queue' = [s \in Service |->
             IF s \in S THEN Append(queue[s], message) ELSE queue[s]]

\* start_listening of the handlers in S: those without a process fork one,
\* which starts from the server's copy of the service, never started up.
StartListening(S) ==
  LET forked == {s \in S : ~process[s]}
  IN  /\ process' = [s \in Service |-> process[s] \/ s \in forked]
      /\ alive' = [s \in Service |-> alive[s] \/ s \in forked]
      /\ started_up' = [s \in Service |-> started_up[s] /\ s \notin forked]
      /\ UNCHANGED current

\* __start_all_services, __start_service
StartServices ==
  /\ Take({"start_all", "start"})
  /\ StartListening(Handlers)
  /\ Put(Handlers, StartupMessage)
  /\ Return
  /\ UNCHANGED <<service, server_started_up, joining, answered, crashes>>

\* Mutant of SendServiceRequest: the client's request is passed on as it came.
SendClientRequest ==
  /\ Take({"send"})
  /\ Put(Started(Handlers), request)
  /\ Return
  /\ UNCHANGED <<service, process, server_started_up, joining>>
  /\ UNCHANGED <<alive, started_up, current, answered, crashes>>

\* __send_service_request: dropped unless the service has a process.
SendServiceRequest ==
  /\ Take({"send"})
  /\ Put(Started(Handlers), RequestMessage(request.id))
  /\ Return
  /\ UNCHANGED <<service, process, server_started_up, joining>>
  /\ UNCHANGED <<alive, started_up, current, answered, crashes>>

\* __set_log_level: a valid level is passed on to every started service.
SetLogLevel ==
  /\ Take({"loglevel"})
  /\ Put(Started(service), LogLevelMessage)
  /\ Return
  /\ UNCHANGED <<service, process, server_started_up, joining>>
  /\ UNCHANGED <<alive, started_up, current, answered, crashes>>

\* Every handler in S that has a process is told to shut down; the server
\* then joins the processes one after the other.
ShutdownServices(S, phase) ==
  /\ Put(Started(S), ShutdownMessage)
  /\ joining' = Started(S)
  /\ pc' = phase
  /\ UNCHANGED <<service, process, server_started_up>>
  /\ UNCHANGED <<alive, started_up, current, answered, crashes>>

\* __shutdown_all_services, __shutdown_service
StopServices ==
  /\ Take({"stop_all", "stop"})
  /\ ShutdownServices(Handlers, "stop")

\* Mutant of ShutdownAndExit: services are told to shut down, but not joined.
ExitWithoutJoin ==
  /\ Take({"exit"})
  /\ Put(Started(service), ShutdownMessage)
  /\ pc' = "exit"
  /\ UNCHANGED <<service, process, server_started_up, joining>>
  /\ UNCHANGED <<alive, started_up, current, answered, crashes>>

\* __shutdown_and_exit
ShutdownAndExit ==
  /\ Take({"exit"})
  /\ ShutdownServices(service, "exit")

\* Mutants of Join: process is reset without waiting for it; it is terminated
\* instead of joined.
JoinNotWaiting(s) ==
  /\ pc \in {"stop", "exit"} /\ s \in joining
  /\ process' = [process EXCEPT ![s] = FALSE]
  /\ joining' = joining \ {s}
  /\ UNCHANGED <<service, server_started_up, pc, handle, clientVars, serviceVars>>

JoinTerminating(s) ==
  /\ pc \in {"stop", "exit"} /\ s \in joining
  /\ alive' = [alive EXCEPT ![s] = FALSE]
  /\ current' = [current EXCEPT ![s] = NoMessage]
  /\ process' = [process EXCEPT ![s] = FALSE]
  /\ joining' = joining \ {s}
  /\ UNCHANGED <<service, server_started_up, pc, handle, clientVars>>
  /\ UNCHANGED <<queue, started_up, answered, crashes>>

\* stop_listening: join blocks until the listener's process has ended.
Join(s) ==
  /\ pc \in {"stop", "exit"}
  /\ s \in joining /\ \A t \in joining : s <= t
  /\ ~alive[s]
  /\ process' = [process EXCEPT ![s] = FALSE]
  /\ joining' = joining \ {s}
  /\ UNCHANGED <<service, server_started_up, pc, handle, clientVars>>
  /\ UNCHANGED serviceVars

\* Everything is joined: the shutdown handler returns.
StopReturns ==
  /\ pc = "stop" /\ joining = {}
  /\ Return
  /\ UNCHANGED <<service, process, server_started_up, joining>>
  /\ UNCHANGED <<handle, clientVars, serviceVars>>

\* Mutant of ExitReturns: started_up is returned before it is cleared.
ExitReturnsEarly ==
  /\ pc = "exit" /\ joining = {}
  /\ server_started_up' = FALSE
  /\ Return
  /\ UNCHANGED <<service, process, joining, handle, clientVars, serviceVars>>

\* The exit handler clears started_up and returns it: the process ends.
ExitReturns ==
  /\ pc = "exit" /\ joining = {}
  /\ server_started_up' = FALSE
  /\ pc' = "exited"
  /\ UNCHANGED <<service, process, joining, handle, clientVars, serviceVars>>

\* __unknown_action; a request whose ids are no integers raises before any
\* handler runs, and process_request answers that with "still running".
IgnoreRequest ==
  /\ Take({"unknown", "malformed"})
  /\ IF request.header = "malformed" THEN pc' = "get" ELSE Return
  /\ UNCHANGED <<service, process, server_started_up, joining, serviceVars>>

ServerStep ==
  \/ StartServices \/ SendServiceRequest \/ SetLogLevel \/ IgnoreRequest
  \/ StopServices \/ ShutdownAndExit \/ StopReturns \/ ExitReturns
  \/ \E s \in Service : Join(s)

ListenerStep(s) == Listen(s) /\ UNCHANGED <<serverVars, clientVars, handle>>
ListenerDies(s) == Crash(s) /\ UNCHANGED <<serverVars, clientVars, handle>>

ClientStep ==
  \/ \E header \in Headers \ Addressing : ClientSend(header, 0)
  \/ \E header \in Headers \cap Addressing, s \in Targets : ClientSend(header, s)
  \/ ClientEOF

\* The server process has returned from its loop; nothing is left to do.
Exited == pc = "exited" /\ UNCHANGED vars

Next ==
  \/ ClientStep \/ ServerStep \/ Exited
  \/ \E s \in Service : ListenerStep(s) \/ ListenerDies(s)

\* The server and every listener are processes of their own that the operating
\* system schedules.  Nothing obliges a client to send, or to stop sending.
Fairness ==
  /\ WF_vars(ServerStep)
  /\ \A s \in Service : WF_vars(ListenerStep(s))

Spec == Init /\ [][Next]_vars /\ Fairness

-----------------------------------------------------------------------------
(* Safety *)

\* A listener runs only while its handler holds its process: stopping a service
\* leaves no listener behind that would take messages meant for the next one.
OneListener == \A s \in Service : alive[s] => process[s]

\* When the server process is done, so is every service process: main() may end
\* without leaving a service running.
NoOrphans == pc = "exited" => \A s \in Service : ~alive[s] /\ ~process[s]

\* A join never waits for a listener that has nothing left to end it: while the
\* server joins s, the shutdown message is still ahead of s's listener or in its
\* hands, whatever startups and requests failed, and whoever died before.
JoinCanFinish ==
  \A s \in joining :
    alive[s] => \/ current[s] = ShutdownMessage
                \/ queue[s] # <<>> /\ queue[s][Len(queue[s])] = ShutdownMessage

\* No result is handed to a plugin twice or behind a later one, also across the
\* death and the restart of a listener.
AnsweredInOrder ==
  \A s \in Service : \A i, j \in DOMAIN answered[s] :
    i < j => answered[s][i] < answered[s][j]

\* What is_started() is taken to mean: a service that has a process has a reader, which
\* has started or does so before it reads anything else.  No request waits on a queue that
\* nobody reads, or ends its listener for coming too early.
Ready(s) ==
  /\ alive[s]
  /\ \/ started_up[s]
     \/ current[s].op = "startup"
     \/ current[s] = NoMessage /\ queue[s] # <<>> /\ Head(queue[s]).op = "startup"

\* A service that has a process is ready, until it is being stopped; and the next listener
\* of one that was stopped finds no message of the last one's: the shutdown message is the
\* last one it is sent, and it reads it.
ReadyOrDrained ==
  \A s \in Service : IF process[s] THEN s \in joining \/ Ready(s) ELSE queue[s] = <<>>

-----------------------------------------------------------------------------
(* Liveness *)

\* End of input takes the server process down, with all its services, whatever
\* was still on the handle before it.
EndOfInputExits == eof ~> pc = "exited"

\* A stop request is carried out: the server comes back to take the next one.
StopReturned == pc = "stop" ~> pc # "stop"

\* A listener that is running and has a startup message ahead of it gets to run
\* it (or is stopped first), once no crash is to come. The listener may be one
\* that was forked anew for a service whose last listener died.
RestartServes ==
  \A s \in Service :
    (/\ alive[s] /\ crashes = MaxCrashes
     /\ \E i \in DOMAIN queue[s] : queue[s][i] = StartupMessage)
      ~> (~process[s] \/ (alive[s] /\ started_up[s]))
=============================================================================
