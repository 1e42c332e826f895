----------------------------- MODULE ServerProofs -----------------------------
(***************************************************************************)
(* Theorems about Server.tla, for every number of services, whatever       *)
(* startups, requests and crashes do: its types, that every listener       *)
(* belongs to a handler, that none outlives the server, that no join waits *)
(* in vain, that answers come in order, that a service which is stopped    *)
(* leaves nothing for its next listener, and that the contract is kept.    *)
(***************************************************************************)
EXTENDS ServerRefinement, SequenceTheorems, TLAPS

(* The types.  One step per action; under it, what the action changes. *)

\* What a handler of a listener does to the types, in one place.
LEMMA FinishType ==
  ASSUME ServiceTypeOK, NEW s \in Service, NEW up \in BOOLEAN,
         NEW listening \in BOOLEAN, Finish(s, up, listening)
  PROVE  /\ queue' \in [Service -> Seq(Message)]
         /\ alive' \in [Service -> BOOLEAN]
         /\ started_up' \in [Service -> BOOLEAN]
         /\ current' \in [Service -> Message \cup {NoMessage}]
         /\ crashes' \in Nat
BY DEF ServiceTypeOK, Finish

LEMMA MessageType ==
  /\ StartupMessage \in Message /\ ShutdownMessage \in Message
  /\ LogLevelMessage \in Message
  /\ \A n \in Nat : RequestMessage(n) \in Message
BY DEF Message, StartupMessage, ShutdownMessage, LogLevelMessage, RequestMessage

\* A message in a listener's hands that is not the placeholder is a message.
LEMMA CurrentType ==
  ASSUME ServiceTypeOK, NEW s \in Service, current[s].op # "none"
  PROVE  current[s] \in Message /\ current[s].id \in Nat
BY DEF ServiceTypeOK, Message, NoMessage

LEMMA PutType ==
  ASSUME ServiceTypeOK, NEW S, NEW m \in Message, Put(S, m)
  PROVE  queue' \in [Service -> Seq(Message)]
<1>1. \A s \in Service : Append(queue[s], m) \in Seq(Message)
  BY AppendProperties DEF ServiceTypeOK
<1>2. QED
  BY <1>1 DEF Put, ServiceTypeOK

LEMMA ListenerType ==
  ASSUME ServiceTypeOK, NEW s \in Service, Listen(s) \/ Crash(s)
  PROVE  ServiceTypeOK'
<1>1. CASE Get(s)
  <2>1. Head(queue[s]) \in Message /\ Tail(queue[s]) \in Seq(Message)
    BY <1>1, HeadTailProperties DEF Get, ServiceTypeOK
  <2>2. QED
    BY <1>1, <2>1 DEF Get, ServiceTypeOK
<1>2. CASE HandleStartup(s)
  <2>1. PICK up \in BOOLEAN, listening \in BOOLEAN : Finish(s, up, listening)
    BY <1>2 DEF HandleStartup, Raise, ServiceTypeOK
  <2>2. QED
    BY <1>2, <2>1, FinishType DEF HandleStartup, ServiceTypeOK
<1>3. CASE HandleShutdown(s)
  <2>1. PICK up \in BOOLEAN, listening \in BOOLEAN : Finish(s, up, listening)
    BY <1>3 DEF HandleShutdown, Raise, ServiceTypeOK
  <2>2. QED
    BY <1>3, <2>1, FinishType DEF HandleShutdown, ServiceTypeOK
<1>4. CASE HandleRequest(s)
  <2>1. PICK up \in BOOLEAN, listening \in BOOLEAN : Finish(s, up, listening)
    BY <1>4 DEF HandleRequest, Raise, ServiceTypeOK
  <2>2. current[s].id \in Nat
    BY <1>4, CurrentType DEF HandleRequest
  <2>3. Append(answered[s], current[s].id) \in Seq(Nat)
    BY <2>2, AppendProperties DEF ServiceTypeOK
  <2>4. answered' \in [Service -> Seq(Nat)]
    BY <1>4, <2>3 DEF HandleRequest, ServiceTypeOK
  <2>5. QED
    BY <2>1, <2>4, FinishType DEF ServiceTypeOK
<1>5. CASE HandleLogLevel(s)
  <2>1. Finish(s, started_up[s], started_up[s]) /\ started_up[s] \in BOOLEAN
    BY <1>5 DEF HandleLogLevel, ServiceTypeOK
  <2>2. QED
    BY <1>5, <2>1, FinishType DEF HandleLogLevel, ServiceTypeOK
<1>6. CASE Crash(s)
  BY <1>6 DEF Crash, ServiceTypeOK
<1>7. QED
  BY <1>1, <1>2, <1>3, <1>4, <1>5, <1>6 DEF Listen, Handle

\* Server.tla's own actions keep the types: what Put needs comes from the lemma
\* above, the rest is a matter of assignments.
LEMMA ClientType ==
  ASSUME TypeOK, ClientStep
  PROVE  TypeOK'
<1>1. ASSUME NEW header \in Headers, NEW s \in Service \cup {0},
             ClientSend(header, s)
      PROVE  TypeOK'
  <2>1. [header |-> header, service |-> s, id |-> sent'] \in ClientRequest
    BY <1>1, HeadersAssumption DEF ClientSend, TypeOK, ClientRequest
  <2>2. handle' \in Seq(ClientRequest) /\ sent' \in Nat
    BY <1>1, <2>1, AppendProperties DEF ClientSend, TypeOK
  <2>3. QED
    BY <1>1, <2>2 DEF ClientSend, TypeOK, ServiceTypeOK, serviceVars, serverVars
<1>2. CASE ClientEOF
  <2>1. [header |-> "exit", service |-> 0, id |-> 0] \in ClientRequest
    BY DEF ClientRequest, RequestHeaders
  <2>2. handle' \in Seq(ClientRequest)
    BY <1>2, <2>1, AppendProperties DEF ClientEOF, TypeOK
  <2>3. QED
    BY <1>2, <2>2 DEF ClientEOF, TypeOK, ServiceTypeOK, serviceVars, serverVars
<1>3. QED
  BY <1>1, <1>2, TargetsAssumption DEF ClientStep

LEMMA TakeType ==
  ASSUME TypeOK, NEW headers, Take(headers)
  PROVE  /\ request \in ClientRequest
         /\ handle' \in Seq(ClientRequest)
         /\ sent' \in Nat /\ eof' \in BOOLEAN
         /\ Handlers \subseteq service
BY HeadTailProperties DEF Take, request, TypeOK, clientVars, Handlers

LEMMA StartServicesType == ASSUME TypeOK, StartServices PROVE TypeOK'
<1>1. Take({"start_all", "start"}) /\ StartListening(Handlers)
      /\ Put(Handlers, StartupMessage) /\ Return
  BY DEF StartServices
<1>2. queue' \in [Service -> Seq(Message)]
  BY <1>1, PutType, MessageType DEF TypeOK
<1>3. /\ process' \in [Service -> BOOLEAN] /\ alive' \in [Service -> BOOLEAN]
      /\ started_up' \in [Service -> BOOLEAN] /\ current' = current
  BY <1>1 DEF StartListening
<1>4. QED
  BY <1>1, <1>2, <1>3, TakeType
  DEF StartServices, TypeOK, ServiceTypeOK, Return

LEMMA SendServiceRequestType ==
  ASSUME TypeOK, SendServiceRequest PROVE TypeOK'
<1>1. Take({"send"}) /\ Return
      /\ Put(Started(Handlers), RequestMessage(request.id))
  BY DEF SendServiceRequest
<1>2. request.id \in Nat
  BY <1>1, TakeType DEF ClientRequest
<1>3. queue' \in [Service -> Seq(Message)]
  BY <1>1, <1>2, PutType, MessageType DEF TypeOK
<1>4. QED
  BY <1>1, <1>3, TakeType
  DEF SendServiceRequest, TypeOK, ServiceTypeOK, Return

LEMMA SetLogLevelType == ASSUME TypeOK, SetLogLevel PROVE TypeOK'
<1>1. Take({"loglevel"}) /\ Put(Started(service), LogLevelMessage) /\ Return
  BY DEF SetLogLevel
<1>2. queue' \in [Service -> Seq(Message)]
  BY <1>1, PutType, MessageType DEF TypeOK
<1>3. QED
  BY <1>1, <1>2, TakeType DEF SetLogLevel, TypeOK, ServiceTypeOK, Return

LEMMA ShutdownServicesType ==
  ASSUME TypeOK, NEW headers, Take(headers),
         NEW S \in SUBSET Service, NEW phase \in {"stop", "exit"},
         ShutdownServices(S, phase)
  PROVE  TypeOK'
<1>1. queue' \in [Service -> Seq(Message)]
  BY PutType, MessageType DEF ShutdownServices, TypeOK
<1>2. joining' \subseteq Service
  BY DEF ShutdownServices, Started
<1>3. QED
  BY <1>1, <1>2, TakeType DEF ShutdownServices, TypeOK, ServiceTypeOK

LEMMA ServerType == ASSUME TypeOK, ServerStep PROVE TypeOK'
<1>1. CASE StopServices
  <2>1. Take({"stop_all", "stop"}) /\ ShutdownServices(Handlers, "stop")
    BY <1>1 DEF StopServices
  <2>2. Handlers \in SUBSET Service
    BY <2>1, TakeType DEF TypeOK
  <2>3. QED
    BY <2>1, <2>2, ShutdownServicesType
<1>2. CASE ShutdownAndExit
  <2>1. Take({"exit"}) /\ ShutdownServices(service, "exit")
    BY <1>2 DEF ShutdownAndExit
  <2>2. service \in SUBSET Service
    BY DEF TypeOK
  <2>3. QED
    BY <2>1, <2>2, ShutdownServicesType
<1>3. CASE IgnoreRequest
  BY <1>3, TakeType
  DEF IgnoreRequest, Return, TypeOK, ServiceTypeOK, serviceVars
<1>4. CASE StopReturns
  BY <1>4 DEF StopReturns, Return, TypeOK, ServiceTypeOK, serviceVars, clientVars
<1>5. CASE ExitReturns
  BY <1>5 DEF ExitReturns, TypeOK, ServiceTypeOK, serviceVars, clientVars
<1>6. ASSUME NEW s \in Service, Join(s) PROVE TypeOK'
  BY <1>6 DEF Join, TypeOK, ServiceTypeOK, serviceVars, clientVars
<1>7. QED
  BY <1>1, <1>2, <1>3, <1>4, <1>5, <1>6, StartServicesType,
     SendServiceRequestType, SetLogLevelType DEF ServerStep

LEMMA InitType == Init => TypeOK
<1> SUFFICES ASSUME Init PROVE TypeOK
  OBVIOUS
<1> DEFINE requests == Seq(ClientRequest)
<1>0. <<>> \in Seq(Message) /\ <<>> \in requests /\ <<>> \in Seq(Nat)
  OBVIOUS
<1>1. ServiceTypeOK
  BY <1>0 DEF Init, ServiceInit, ServiceTypeOK
<1>2. PICK configured \in BOOLEAN : ServerInit(configured)
  BY ConfiguredAssumption DEF Init
<1>3. handle \in requests /\ sent \in Nat /\ eof \in BOOLEAN
  BY <1>0 DEF Init
<1>4. QED
  BY <1>1, <1>2, <1>3 DEF ServerInit, TypeOK

LEMMA NextType == TypeOK /\ [Next]_vars => TypeOK'
<1> SUFFICES ASSUME TypeOK, [Next]_vars PROVE TypeOK'
  OBVIOUS
<1>1. ASSUME NEW s \in Service, ListenerStep(s) \/ ListenerDies(s)
      PROVE  TypeOK'
  <2>1. ServiceTypeOK'
    BY <1>1, ListenerType DEF ListenerStep, ListenerDies, TypeOK
  <2>2. QED
    BY <1>1, <2>1
    DEF ListenerStep, ListenerDies, TypeOK, serverVars, clientVars
<1>2. CASE UNCHANGED vars
  BY <1>2 DEF vars, TypeOK, ServiceTypeOK, serviceVars, serverVars, clientVars
<1>3. QED
  BY <1>1, <1>2, ClientType, ServerType DEF Next, Exited

\* Every variable keeps to its type, for any number of services and requests
\* (the state that service.py and server.py keep).
THEOREM TypeCorrect == Spec => []TypeOK
BY InitType, NextType, PTL DEF Spec

-----------------------------------------------------------------------------
(***************************************************************************)
(* Safety.  OneListener, NoOrphans and JoinCanFinish are not inductive by  *)
(* themselves: a message in a dead listener's hands could bring it back to *)
(* life, a server that found no configuration could have listeners, and a  *)
(* server that takes requests while it has processes to join could fork    *)
(* them anew.  The invariant excludes all three.                           *)
(***************************************************************************)

\* Only a running listener has a message in its hands.
HandlingIsAlive ==
  \A s \in Service : current[s] # NoMessage => alive[s]

\* Only registered services get a process.
OnlyRegistered == \A s \in Service : process[s] => s \in service

\* A server that has bailed out, and not exited yet, has no services.
BailedOut == pc # "exited" /\ ~server_started_up => service = {}

\* Processes are left to join only while the server is joining.
JoiningWhileStopping == joining # {} => pc \in {"stop", "exit"}

\* On its way out the server joins every process there is.
ExitJoinsAll ==
  pc = "exit" => \A s \in Service : process[s] => s \in joining

ExitedJoinedAll == pc = "exited" => \A s \in Service : ~process[s]

ProcessInv ==
  /\ HandlingIsAlive /\ OneListener /\ OnlyRegistered /\ BailedOut
  /\ JoiningWhileStopping /\ ExitJoinsAll /\ ExitedJoinedAll

LEMMA InitProcess == Init => ProcessInv
<1> SUFFICES ASSUME Init PROVE ProcessInv
  OBVIOUS
<1>1. PICK configured \in BOOLEAN : ServerInit(configured)
  BY ConfiguredAssumption DEF Init
<1>2. QED
  BY <1>1 DEF Init, ServiceInit, ServerInit, ProcessInv, HandlingIsAlive,
     OneListener, OnlyRegistered, BailedOut, JoiningWhileStopping, ExitJoinsAll,
     ExitedJoinedAll

\* A listener's step may end it, but starts none, and leaves the server alone.
LEMMA ListenerProcess ==
  ASSUME TypeOK, ProcessInv, NEW s \in Service, Listen(s) \/ Crash(s)
  PROVE  /\ \A t \in Service : alive'[t] => alive[t]
         /\ HandlingIsAlive'
<1>1. CASE Get(s)
  BY <1>1 DEF Get, TypeOK, ServiceTypeOK, ProcessInv, HandlingIsAlive
<1>2. ASSUME NEW up, NEW listening, Finish(s, up, listening),
             current[s] # NoMessage
      PROVE  /\ \A t \in Service : alive'[t] => alive[t]
             /\ HandlingIsAlive'
  BY <1>2 DEF Finish, TypeOK, ServiceTypeOK, ProcessInv, HandlingIsAlive
<1>3. CASE HandleStartup(s)
  <2>1. current[s] # NoMessage
    BY <1>3 DEF HandleStartup, NoMessage
  <2>2. \E up, listening : Finish(s, up, listening)
    BY <1>3 DEF HandleStartup, Raise
  <2>3. QED
    BY <1>2, <2>1, <2>2
<1>4. CASE HandleShutdown(s)
  <2>1. current[s] # NoMessage
    BY <1>4 DEF HandleShutdown, NoMessage
  <2>2. \E up, listening : Finish(s, up, listening)
    BY <1>4 DEF HandleShutdown, Raise
  <2>3. QED
    BY <1>2, <2>1, <2>2
<1>5. CASE HandleRequest(s)
  <2>1. current[s] # NoMessage
    BY <1>5 DEF HandleRequest, NoMessage
  <2>2. \E up, listening : Finish(s, up, listening)
    BY <1>5 DEF HandleRequest, Raise
  <2>3. QED
    BY <1>2, <2>1, <2>2
<1>6. CASE HandleLogLevel(s)
  <2>1. current[s] # NoMessage
    BY <1>6 DEF HandleLogLevel, NoMessage
  <2>2. QED
    BY <1>2, <1>6, <2>1 DEF HandleLogLevel
<1>7. CASE Crash(s)
  BY <1>7 DEF Crash, TypeOK, ServiceTypeOK, ProcessInv, HandlingIsAlive
<1>8. QED
  BY <1>1, <1>3, <1>4, <1>5, <1>6, <1>7 DEF Listen, Handle

LEMMA NextProcess == TypeOK /\ ProcessInv /\ [Next]_vars => ProcessInv'
<1> SUFFICES ASSUME TypeOK, ProcessInv, [Next]_vars PROVE ProcessInv'
  OBVIOUS
<1> USE DEF ProcessInv
<1>1. ASSUME NEW s \in Service, ListenerStep(s) \/ ListenerDies(s)
      PROVE  ProcessInv'
  <2>1. (\A t \in Service : alive'[t] => alive[t]) /\ HandlingIsAlive'
    BY <1>1, ListenerProcess DEF ListenerStep, ListenerDies
  <2>2. UNCHANGED serverVars
    BY <1>1 DEF ListenerStep, ListenerDies
  <2>3. QED
    BY <2>1, <2>2 DEF serverVars, OneListener, OnlyRegistered, BailedOut,
       JoiningWhileStopping, ExitJoinsAll, ExitedJoinedAll
<1>2. ASSUME UNCHANGED <<serviceVars, serverVars>> PROVE ProcessInv'
  BY <1>2 DEF serviceVars, serverVars, HandlingIsAlive, OneListener,
     OnlyRegistered, BailedOut, JoiningWhileStopping, ExitJoinsAll, ExitedJoinedAll
<1>3. CASE ClientStep
  BY <1>2, <1>3 DEF ClientStep, ClientSend, ClientEOF
<1>4. CASE StartServices
  <2>1. /\ pc = "get" /\ StartListening(Handlers) /\ Return
        /\ Handlers \subseteq service
    BY <1>4, TakeType DEF StartServices, Take
  <2>2. UNCHANGED <<service, server_started_up, joining>>
    BY <1>4 DEF StartServices
  <2>3. HandlingIsAlive' /\ OneListener' /\ OnlyRegistered'
    BY <2>1, <2>2 DEF StartListening, HandlingIsAlive, OneListener,
       OnlyRegistered, TypeOK, ServiceTypeOK
  <2>4. BailedOut' /\ JoiningWhileStopping' /\ ExitJoinsAll'
    BY <2>1, <2>2 DEF Return, BailedOut, JoiningWhileStopping, ExitJoinsAll
  <2>5. ExitedJoinedAll'
    BY <2>1, <2>2, <2>3 DEF Return, BailedOut, ExitedJoinedAll, OnlyRegistered
  <2>6. QED
    BY <2>3, <2>4, <2>5
<1>5. ASSUME pc = "get", pc' = "get" \/ Return,
             UNCHANGED <<service, process, server_started_up, joining>>,
             UNCHANGED <<alive, current>>
      PROVE  ProcessInv'
  BY <1>5 DEF Return, HandlingIsAlive, OneListener, OnlyRegistered, BailedOut,
     JoiningWhileStopping, ExitJoinsAll, ExitedJoinedAll
<1>6. CASE SendServiceRequest \/ SetLogLevel \/ IgnoreRequest
  BY <1>5, <1>6
  DEF SendServiceRequest, SetLogLevel, IgnoreRequest, Take, serviceVars
<1>7. ASSUME NEW S, NEW phase \in {"stop", "exit"}, ShutdownServices(S, phase),
             pc = "get", phase = "exit" => S = service
      PROVE  ProcessInv'
  BY <1>7 DEF ShutdownServices, Started, HandlingIsAlive, OneListener,
     OnlyRegistered, BailedOut, JoiningWhileStopping, ExitJoinsAll, ExitedJoinedAll
<1>8. CASE StopServices \/ ShutdownAndExit
  BY <1>7, <1>8 DEF StopServices, ShutdownAndExit, Take
<1>9. ASSUME NEW s \in Service, Join(s) PROVE ProcessInv'
  <2>1. UNCHANGED <<alive, current>>
    BY <1>9 DEF Join, serviceVars
  <2>2. QED
    BY <1>9, <2>1 DEF Join, TypeOK, HandlingIsAlive, OneListener,
       OnlyRegistered, BailedOut, JoiningWhileStopping, ExitJoinsAll, ExitedJoinedAll
<1>10. CASE StopReturns
  BY <1>10 DEF StopReturns, serviceVars, Return, HandlingIsAlive, OneListener,
     OnlyRegistered, BailedOut, JoiningWhileStopping, ExitJoinsAll, ExitedJoinedAll
<1>11. CASE ExitReturns
  BY <1>11 DEF ExitReturns, serviceVars, HandlingIsAlive, OneListener,
     OnlyRegistered, BailedOut, JoiningWhileStopping, ExitJoinsAll, ExitedJoinedAll
<1>12. CASE UNCHANGED vars
  BY <1>2, <1>12 DEF vars
<1>13. QED
  BY <1>1, <1>3, <1>4, <1>6, <1>8, <1>9, <1>10, <1>11, <1>12
  DEF Next, ServerStep, Exited

LEMMA ProcessInvariant == Spec => []ProcessInv
BY InitProcess, NextProcess, TypeCorrect, PTL DEF Spec

\* ServiceHandler.process knows of every listener there is: stop_listening leaves
\* none behind, and start_listening forks no second one for a queue.
THEOREM OneListenerPerService == Spec => []OneListener
BY ProcessInvariant, PTL DEF ProcessInv

\* When the server process has left its loop, no service process is left.
THEOREM NoOrphanedListeners == Spec => []NoOrphans
<1>1. ProcessInv => NoOrphans
  BY DEF ProcessInv, NoOrphans, OneListener, ExitedJoinedAll
<1>2. QED
  BY <1>1, ProcessInvariant, PTL

-----------------------------------------------------------------------------
(***************************************************************************)
(* No join waits in vain.  JoinCanFinish is inductive relative to the      *)
(* invariants above: the shutdown message goes to the end of the queue,    *)
(* nothing is put behind it while the server joins, and the listener ends  *)
(* once it has it in hand, if the plugin has its shutdown hook.            *)
(***************************************************************************)
ShutdownAhead(s) ==
  \/ current[s] = ShutdownMessage
  \/ queue[s] # <<>> /\ queue[s][Len(queue[s])] = ShutdownMessage

LEMMA LastOfTail ==
  ASSUME NEW S, NEW q \in Seq(S), q # <<>>
  PROVE  \/ Len(q) = 1 /\ Head(q) = q[Len(q)]
         \/ Tail(q) # <<>> /\ Tail(q)[Len(Tail(q))] = q[Len(q)]
<1>1. PICK n \in Nat \ {0} : Len(q) = n
  BY EmptySeq
<1>2. CASE n = 1
  BY <1>1, <1>2
<1>3. CASE n # 1
  <2>1. /\ Len(Tail(q)) = n - 1
        /\ \A i \in 1..Len(Tail(q)) : Tail(q)[i] = q[i + 1]
    BY <1>1, HeadTailProperties
  <2>2. n - 1 \in 1..(n - 1) /\ (n - 1) + 1 = n /\ n - 1 # 0
    BY <1>3
  <2>3. Tail(q)[n - 1] = q[n]
    BY <2>1, <2>2
  <2>4. Tail(q) # <<>>
    BY <2>1, <2>2, EmptySeq
  <2>5. QED
    BY <1>1, <2>1, <2>3, <2>4
<1>4. QED
  BY <1>2, <1>3

\* A listener that can be joined stays so, or has ended.
LEMMA ListenerShutdownAhead ==
  ASSUME TypeOK, "shutdown" \in PluginHooks,
         NEW s \in Service, Listen(s) \/ Crash(s),
         NEW t \in Service, alive[t] => ShutdownAhead(t), alive'[t] => alive[t]
  PROVE  alive'[t] => ShutdownAhead(t)'
<1> SUFFICES ASSUME alive'[t], ShutdownAhead(t) PROVE ShutdownAhead(t)'
  OBVIOUS
<1>1. CASE s # t
  <2>1. UNCHANGED <<current[t], queue[t]>>
    BY <1>1 DEF Listen, Handle, Get, HandleStartup, HandleShutdown, HandleRequest,
       HandleLogLevel, Raise, Finish, Crash, TypeOK, ServiceTypeOK
  <2>2. QED
    BY <2>1 DEF ShutdownAhead
<1>2. CASE s = t /\ Get(s)
  <2>1. queue[t] \in Seq(Message) /\ queue[t] # <<>>
        /\ current'[t] = Head(queue[t]) /\ queue'[t] = Tail(queue[t])
        /\ current[t] # ShutdownMessage
    BY <1>2 DEF Get, TypeOK, ServiceTypeOK, NoMessage, ShutdownMessage
  <2>2. queue[t][Len(queue[t])] = ShutdownMessage
    BY <2>1 DEF ShutdownAhead
  <2>3. QED
    BY <2>1, <2>2, LastOfTail DEF ShutdownAhead
<1>3. CASE s = t /\ (Handle(s) \/ Crash(s))
  <2>1. queue' = queue
    BY <1>3 DEF Handle, HandleStartup, HandleShutdown, HandleRequest,
       HandleLogLevel, Raise, Finish, Crash
  <2>2. ~Crash(s) /\ ~HandleShutdown(s)
    BY <1>3 DEF Crash, HandleShutdown, Raise, Finish, TypeOK, ServiceTypeOK
  <2>3. current[t].op \in {"startup", "request", "loglevel"}
    BY <1>3, <2>2 DEF Handle, HandleStartup, HandleRequest, HandleLogLevel
  <2>4. current[t] # ShutdownMessage
    BY <2>3 DEF ShutdownMessage
  <2>5. QED
    BY <2>1, <2>4 DEF ShutdownAhead
<1>4. QED
  BY <1>1, <1>2, <1>3 DEF Listen

LEMMA NextJoin ==
  ASSUME TypeOK, ProcessInv, "shutdown" \in PluginHooks, JoinCanFinish,
         [Next]_vars
  PROVE  JoinCanFinish'
<1> USE DEF JoinCanFinish
<1>1. ASSUME NEW s \in Service, ListenerStep(s) \/ ListenerDies(s)
      PROVE  JoinCanFinish'
  <2> SUFFICES ASSUME NEW t \in joining' PROVE alive'[t] => ShutdownAhead(t)'
    BY DEF ShutdownAhead
  <2>1. t \in joining /\ t \in Service
    BY <1>1 DEF ListenerStep, ListenerDies, serverVars, TypeOK
  <2>2. alive'[t] => alive[t]
    BY <1>1, <2>1, ListenerProcess DEF ListenerStep, ListenerDies
  <2>3. QED
    BY <1>1, <2>1, <2>2, ListenerShutdownAhead
    DEF ListenerStep, ListenerDies, ShutdownAhead
<1>2. ASSUME joining' \subseteq joining, UNCHANGED <<alive, current, queue>>
      PROVE  JoinCanFinish'
  BY <1>2
<1>3. ASSUME pc = "get", joining' = joining PROVE JoinCanFinish'
  BY <1>3 DEF ProcessInv, JoiningWhileStopping
<1>4. ASSUME NEW S \in SUBSET Service, NEW phase, ShutdownServices(S, phase)
      PROVE  JoinCanFinish'
  <2> SUFFICES ASSUME NEW t \in joining' PROVE ShutdownAhead(t)'
    BY DEF ShutdownAhead
  <2>1. t \in Started(S) /\ t \in Service
    BY <1>4 DEF ShutdownServices, Started
  <2>2. queue[t] \in Seq(Message) /\ queue'[t] = Append(queue[t], ShutdownMessage)
    BY <1>4, <2>1 DEF ShutdownServices, Put, TypeOK, ServiceTypeOK
  <2>3. QED
    BY <2>2, AppendProperties, MessageType DEF ShutdownAhead
<1>5. CASE ClientStep
  BY <1>2, <1>5 DEF ClientStep, ClientSend, ClientEOF, serviceVars, serverVars
<1>6. CASE StartServices \/ SendServiceRequest \/ SetLogLevel \/ IgnoreRequest
  BY <1>3, <1>6 DEF StartServices, SendServiceRequest, SetLogLevel,
     IgnoreRequest, Take
<1>7. CASE StopServices
  BY <1>4, <1>7, TakeType DEF StopServices, TypeOK
<1>8. CASE ShutdownAndExit
  BY <1>4, <1>8 DEF ShutdownAndExit, TypeOK
<1>9. CASE StopReturns \/ ExitReturns \/ \E s \in Service : Join(s)
  BY <1>2, <1>9 DEF StopReturns, ExitReturns, Join, serviceVars
<1>10. CASE UNCHANGED vars
  BY <1>2, <1>10 DEF vars, serviceVars, serverVars
<1>11. QED
  BY <1>1, <1>5, <1>6, <1>7, <1>8, <1>9, <1>10 DEF Next, ServerStep, Exited

\* A listener the server waits for has its end ahead of it, however many startups
\* and requests failed and listeners died, as long as the plugins define
\* shutdown_callback (ServicePlugin in service_plugin.py does not).
THEOREM JoinsCanFinish ==
  ASSUME "shutdown" \in PluginHooks
  PROVE  Spec => []JoinCanFinish
<1>1. Init => JoinCanFinish
  BY DEF Init, ServerInit, JoinCanFinish
<1>2. TypeOK /\ ProcessInv /\ JoinCanFinish /\ [Next]_vars => JoinCanFinish'
  BY NextJoin
<1>3. QED
  BY <1>1, <1>2, TypeCorrect, ProcessInvariant, PTL DEF Spec

-----------------------------------------------------------------------------
(***************************************************************************)
(* Answers come in order.  A request is on the handle, on a service queue, *)
(* in a listener's hands or answered, and at each of these stations only   *)
(* behind the requests that were sent before it.                           *)
(***************************************************************************)
SentIds == {handle[i].id : i \in {j \in DOMAIN handle : handle[j].header = "send"}}
Before(A, B) == \A a \in A, b \in B : a < b

\* The requests that wait are in order.
HandleInOrder ==
  \A i, j \in DOMAIN handle :
    i < j /\ handle[i].header = "send" /\ handle[j].header = "send"
      => handle[i].id < handle[j].id
QueueInOrder(s) ==
  \A i, j \in DOMAIN queue[s] :
    i < j /\ queue[s][i].op = "request" /\ queue[s][j].op = "request"
      => queue[s][i].id < queue[s][j].id

SentInv == HandleInOrder /\ SentIds \subseteq 0..sent

StationsInv(s) ==
  /\ \A i, j \in DOMAIN answered[s] : i < j => answered[s][i] < answered[s][j]
  /\ QueueInOrder(s)
  /\ Before(AnsweredIds(s), HeldIds(s)) /\ Before(AnsweredIds(s), QueuedIds(s))
  /\ Before(AnsweredIds(s), SentIds)
  /\ Before(HeldIds(s), QueuedIds(s)) /\ Before(HeldIds(s), SentIds)
  /\ Before(QueuedIds(s), SentIds)
  /\ AnsweredIds(s) \cup HeldIds(s) \cup QueuedIds(s) \subseteq 0..sent

OrderInv == SentInv /\ \A s \in Service : StationsInv(s)

LEMMA IdsType ==
  ASSUME TypeOK, NEW s \in Service
  PROVE  SentIds \subseteq Nat /\ QueuedIds(s) \subseteq Nat /\ HeldIds(s) \subseteq Nat
         /\ AnsweredIds(s) \subseteq Nat
<1>1. handle \in Seq(ClientRequest) /\ queue[s] \in Seq(Message) /\ answered[s] \in Seq(Nat)
  BY DEF TypeOK, ServiceTypeOK
<1>2. SentIds \subseteq Nat
  <2>1. \A m \in ClientRequest : m.id \in Nat
    BY DEF ClientRequest
  <2>2. \A i \in DOMAIN handle : handle[i] \in ClientRequest
    BY <1>1
  <2> QED
    BY <2>1, <2>2 DEF SentIds
<1>3. QueuedIds(s) \subseteq Nat
  <2>1. \A m \in Message : m.id \in Nat
    BY DEF Message
  <2>2. \A i \in DOMAIN queue[s] : queue[s][i] \in Message
    BY <1>1
  <2> QED
    BY <2>1, <2>2 DEF QueuedIds
<1>4. HeldIds(s) \subseteq Nat
  BY CurrentType DEF HeldIds, TypeOK
<1>5. AnsweredIds(s) \subseteq Nat
  BY <1>1 DEF AnsweredIds
<1> QED
  BY <1>2, <1>3, <1>4, <1>5

\* Taking the first request leaves the others, in order, behind it.
LEMMA TakeSentIds ==
  ASSUME TypeOK, SentInv, NEW headers, Take(headers)
  PROVE  /\ SentInv' /\ SentIds' \subseteq SentIds
         /\ request.header = "send" =>
              request.id \in SentIds /\ Before({request.id}, SentIds')
<1>1. /\ handle \in Seq(ClientRequest) /\ handle # <<>> /\ handle' = Tail(handle)
      /\ sent' = sent
  BY DEF Take, TypeOK, clientVars
<1>2. /\ DOMAIN handle = 1..Len(handle) /\ DOMAIN handle' = 1..(Len(handle) - 1)
      /\ Len(handle) \in Nat \ {0} /\ request = handle[1]
      /\ \A i \in DOMAIN handle' : i + 1 \in DOMAIN handle /\ handle'[i] = handle[i + 1]
  BY <1>1, HeadTailProperties, EmptySeq DEF request
<1>3. HandleInOrder'
  <2> SUFFICES ASSUME NEW i \in DOMAIN handle', NEW j \in DOMAIN handle', i < j,
                      handle'[i].header = "send", handle'[j].header = "send"
               PROVE  handle'[i].id < handle'[j].id
    BY DEF HandleInOrder
  <2>1. i + 1 < j + 1 /\ i + 1 \in DOMAIN handle /\ j + 1 \in DOMAIN handle
    BY <1>2
  <2> QED
    BY <1>2, <2>1 DEF SentInv, HandleInOrder
<1>4. SentIds' \subseteq SentIds
  BY <1>2 DEF SentIds
<1>5. ASSUME request.header = "send"
      PROVE  request.id \in SentIds /\ Before({request.id}, SentIds')
  <2>1. 1 \in DOMAIN handle
    BY <1>2
  <2>2. request.id \in SentIds
    BY <1>2, <1>5, <2>1 DEF SentIds
  <2>3. ASSUME NEW i \in DOMAIN handle', handle'[i].header = "send"
        PROVE  request.id < handle'[i].id
    <3>1. 1 < i + 1
      BY <1>2
    <3> QED
      BY <1>2, <1>5, <2>1, <2>3, <3>1 DEF SentInv, HandleInOrder
  <2> QED
    BY <2>2, <2>3 DEF SentIds, Before
<1> QED
  BY <1>1, <1>3, <1>4, <1>5 DEF SentInv

\* A client's request is the last of those sent.
LEMMA ClientSendIds ==
  ASSUME TypeOK, SentInv, NEW header \in Headers, NEW s \in Service \cup {0},
         ClientSend(header, s)
  PROVE  SentInv' /\ SentIds' \subseteq SentIds \cup {sent + 1} /\ sent' = sent + 1
<1> DEFINE m == [header |-> header, service |-> s, id |-> sent + 1]
<1>1. handle \in Seq(ClientRequest) /\ sent' = sent + 1 /\ handle' = Append(handle, m)
      /\ sent \in Nat
  BY DEF ClientSend, TypeOK
<1>2. m \in ClientRequest
  BY <1>1, HeadersAssumption DEF ClientRequest
<1>3. /\ DOMAIN handle = 1..Len(handle) /\ DOMAIN handle' = 1..(Len(handle) + 1)
      /\ Len(handle) \in Nat /\ handle'[Len(handle) + 1] = m
      /\ \A i \in DOMAIN handle : handle'[i] = handle[i]
  BY <1>1, <1>2, AppendProperties
<1>4. m.id = sent + 1
  OBVIOUS
<1> HIDE DEF m
<1>5. SentIds' \subseteq SentIds \cup {sent + 1}
  BY <1>3, <1>4 DEF SentIds
<1>6. \A i \in DOMAIN handle : handle[i].header = "send" =>
        handle[i].id \in SentIds /\ handle[i].id < sent + 1
  <2>1. \A n \in SentIds : n < sent + 1
    BY <1>1 DEF SentInv
  <2> QED
    BY <2>1 DEF SentIds
<1>7. HandleInOrder'
  <2> SUFFICES ASSUME NEW i \in DOMAIN handle', NEW j \in DOMAIN handle', i < j,
                      handle'[i].header = "send", handle'[j].header = "send"
               PROVE  handle'[i].id < handle'[j].id
    BY DEF HandleInOrder
  <2>1. i \in DOMAIN handle
    BY <1>3
  <2>2. CASE j \in DOMAIN handle
    BY <1>3, <2>1, <2>2 DEF SentInv, HandleInOrder
  <2>3. CASE j = Len(handle) + 1
    BY <1>3, <1>4, <1>6, <2>1, <2>3
  <2> QED
    BY <1>3, <2>2, <2>3
<1>8. SentIds' \subseteq 0..sent'
  BY <1>1, <1>5 DEF SentInv
<1> QED
  BY <1>1, <1>5, <1>7, <1>8 DEF SentInv

\* A message that is no request, or the newest request, is put behind the others.
LEMMA PutIds ==
  ASSUME TypeOK, NEW s \in Service, QueueInOrder(s), NEW S, NEW m \in Message, Put(S, m),
         m.op = "request" => \A n \in QueuedIds(s) : n < m.id
  PROVE  /\ QueueInOrder(s)'
         /\ QueuedIds(s)' \subseteq QueuedIds(s) \cup {n \in {m.id} : m.op = "request"}
<1>1. CASE queue'[s] = queue[s]
  BY <1>1 DEF QueueInOrder, QueuedIds
<1>2. CASE queue'[s] = Append(queue[s], m)
  <2>1. queue[s] \in Seq(Message)
    BY DEF TypeOK, ServiceTypeOK
  <2>2. /\ DOMAIN queue[s] = 1..Len(queue[s]) /\ DOMAIN queue'[s] = 1..(Len(queue[s]) + 1)
        /\ Len(queue[s]) \in Nat /\ queue'[s][Len(queue[s]) + 1] = m
        /\ \A i \in DOMAIN queue[s] : queue'[s][i] = queue[s][i]
    BY <1>2, <2>1, AppendProperties
  <2>3. QueuedIds(s)' \subseteq QueuedIds(s) \cup {n \in {m.id} : m.op = "request"}
    BY <2>2 DEF QueuedIds
  <2>4. QueueInOrder(s)'
    <3> SUFFICES ASSUME NEW i \in DOMAIN queue'[s], NEW j \in DOMAIN queue'[s], i < j,
                        queue'[s][i].op = "request", queue'[s][j].op = "request"
                 PROVE  queue'[s][i].id < queue'[s][j].id
      BY DEF QueueInOrder
    <3>1. i \in DOMAIN queue[s]
      BY <2>2
    <3>2. CASE j \in DOMAIN queue[s]
      BY <2>2, <3>1, <3>2 DEF QueueInOrder
    <3>3. CASE j = Len(queue[s]) + 1
      <4>1. queue[s][i].id \in QueuedIds(s)
        BY <2>2, <3>1 DEF QueuedIds
      <4> QED
        BY <2>2, <3>1, <3>3, <4>1
    <3> QED
      BY <2>2, <3>2, <3>3
  <2> QED
    BY <2>3, <2>4
<1> QED
  BY <1>1, <1>2 DEF Put

\* The message that is taken off the queue comes before those left on it.
LEMMA GetIds ==
  ASSUME TypeOK, NEW s \in Service, QueueInOrder(s), Get(s)
  PROVE  /\ QueueInOrder(s)' /\ QueuedIds(s)' \subseteq QueuedIds(s)
         /\ HeldIds(s)' \subseteq QueuedIds(s) /\ Before(HeldIds(s)', QueuedIds(s)')
<1>1. /\ queue[s] \in Seq(Message) /\ queue[s] # <<>>
      /\ queue'[s] = Tail(queue[s]) /\ current'[s] = Head(queue[s])
  BY DEF Get, TypeOK, ServiceTypeOK
<1>2. /\ DOMAIN queue[s] = 1..Len(queue[s]) /\ DOMAIN queue'[s] = 1..(Len(queue[s]) - 1)
      /\ Len(queue[s]) \in Nat \ {0} /\ current'[s] = queue[s][1]
      /\ \A i \in DOMAIN queue'[s] :
           i + 1 \in DOMAIN queue[s] /\ queue'[s][i] = queue[s][i + 1]
  BY <1>1, HeadTailProperties, EmptySeq
<1>3. QueueInOrder(s)'
  <2> SUFFICES ASSUME NEW i \in DOMAIN queue'[s], NEW j \in DOMAIN queue'[s], i < j,
                      queue'[s][i].op = "request", queue'[s][j].op = "request"
               PROVE  queue'[s][i].id < queue'[s][j].id
    BY DEF QueueInOrder
  <2>1. i + 1 < j + 1 /\ i + 1 \in DOMAIN queue[s] /\ j + 1 \in DOMAIN queue[s]
    BY <1>2
  <2> QED
    BY <1>2, <2>1 DEF QueueInOrder
<1>4. QueuedIds(s)' \subseteq QueuedIds(s)
  BY <1>2 DEF QueuedIds
<1>5. 1 \in DOMAIN queue[s]
  BY <1>2
<1>6. HeldIds(s)' \subseteq QueuedIds(s)
  BY <1>2, <1>5 DEF HeldIds, QueuedIds
<1>7. Before(HeldIds(s)', QueuedIds(s)')
  <2> SUFFICES ASSUME current'[s].op = "request",
                      NEW i \in DOMAIN queue'[s], queue'[s][i].op = "request"
               PROVE  current'[s].id < queue'[s][i].id
    BY DEF Before, HeldIds, QueuedIds
  <2>1. 1 < i + 1
    BY <1>2
  <2> QED
    BY <1>2, <1>5, <2>1 DEF QueueInOrder
<1> QED
  BY <1>3, <1>4, <1>6, <1>7

\* What the handlers do to the message in hand: it is answered, or not, and gone.
LEMMA HandleIds ==
  ASSUME TypeOK, NEW s \in Service, Handle(s) \/ Crash(s)
  PROVE  /\ queue' = queue /\ HeldIds(s)' = {}
         /\ \/ answered' = answered
            \/ /\ current[s].op = "request" /\ current[s].id \in Nat
               /\ answered' = [answered EXCEPT ![s] = Append(@, current[s].id)]
         /\ \A t \in Service : t # s => current'[t] = current[t]
<1>1. NoMessage.op # "request"
  BY DEF NoMessage
<1>2. /\ queue' = queue /\ current' = [current EXCEPT ![s] = NoMessage]
  BY DEF Handle, HandleStartup, HandleShutdown, HandleRequest, HandleLogLevel, Raise,
     Finish, Crash
<1>3. current'[s] = NoMessage /\ \A t \in Service : t # s => current'[t] = current[t]
  BY <1>2 DEF TypeOK, ServiceTypeOK
<1>4. HeldIds(s)' = {}
  BY <1>1, <1>3 DEF HeldIds
<1>5. CASE HandleRequest(s)
  BY <1>2, <1>3, <1>4, <1>5, CurrentType DEF HandleRequest, TypeOK
<1>6. CASE ~HandleRequest(s)
  BY <1>2, <1>3, <1>4, <1>6 DEF Handle, HandleStartup, HandleShutdown, HandleLogLevel, Crash
<1> QED
  BY <1>5, <1>6

\* A station that loses requests, and gets none, stays in order.
LEMMA StationsKept ==
  ASSUME TypeOK, NEW s \in Service, StationsInv(s), QueueInOrder(s)',
         sent' = sent, SentIds' \subseteq SentIds,
         answered'[s] = answered[s], HeldIds(s)' \subseteq HeldIds(s),
         QueuedIds(s)' \subseteq QueuedIds(s)
  PROVE  StationsInv(s)'
<1>1. AnsweredIds(s)' = AnsweredIds(s)
  BY DEF AnsweredIds
<1> QED
  BY <1>1 DEF StationsInv, Before

LEMMA ListenerOrder ==
  ASSUME TypeOK, OrderInv, NEW s \in Service, Listen(s) \/ Crash(s),
         UNCHANGED <<handle, sent>>
  PROVE  OrderInv'
<1>1. SentIds' = SentIds /\ SentInv'
  BY DEF SentIds, OrderInv, SentInv, HandleInOrder
<1>2. ASSUME NEW t \in Service, t # s
      PROVE  StationsInv(t)'
  <2>1. UNCHANGED <<queue[t], current[t], answered[t]>>
    BY <1>2 DEF Listen, Handle, Get, HandleStartup, HandleShutdown, HandleRequest,
       HandleLogLevel, Raise, Finish, Crash, TypeOK, ServiceTypeOK
  <2>2. /\ HeldIds(t)' = HeldIds(t) /\ QueuedIds(t)' = QueuedIds(t)
        /\ QueueInOrder(t)' = QueueInOrder(t)
    BY <2>1 DEF HeldIds, QueuedIds, QueueInOrder
  <2> QED
    BY <1>1, <2>1, <2>2, StationsKept DEF OrderInv, StationsInv
<1>3. CASE Get(s)
  <2>1. answered' = answered
    BY <1>3 DEF Get
  <2>2. AnsweredIds(s)' = AnsweredIds(s)
    BY <2>1 DEF AnsweredIds
  <2>3. StationsInv(s) /\ QueueInOrder(s)
    BY DEF OrderInv, StationsInv
  <2>4. StationsInv(s)'
    BY <1>1, <1>3, <2>1, <2>2, <2>3, GetIds DEF StationsInv, Before
  <2> QED
    BY <1>1, <1>2, <2>4 DEF OrderInv
<1>4. CASE Handle(s) \/ Crash(s)
  <2>1. /\ QueuedIds(s)' = QueuedIds(s) /\ QueueInOrder(s)' = QueueInOrder(s)
        /\ HeldIds(s)' = {}
    BY <1>4, HandleIds DEF QueuedIds, QueueInOrder
  <2>2. StationsInv(s)
    BY DEF OrderInv
  <2>3. CASE answered' = answered
    <3>1. StationsInv(s)'
      BY <1>1, <2>1, <2>2, <2>3, StationsKept DEF StationsInv
    <3> QED
      BY <1>1, <1>2, <3>1 DEF OrderInv
  <2>4. CASE /\ current[s].op = "request" /\ current[s].id \in Nat
             /\ answered' = [answered EXCEPT ![s] = Append(@, current[s].id)]
    <3>1. answered[s] \in Seq(Nat) /\ answered'[s] = Append(answered[s], current[s].id)
      BY <2>4 DEF TypeOK, ServiceTypeOK
    <3>2. /\ DOMAIN answered[s] = 1..Len(answered[s])
          /\ DOMAIN answered'[s] = 1..(Len(answered[s]) + 1)
          /\ Len(answered[s]) \in Nat
          /\ answered'[s][Len(answered[s]) + 1] = current[s].id
          /\ \A i \in DOMAIN answered[s] : answered'[s][i] = answered[s][i]
      BY <2>4, <3>1, AppendProperties
    <3>3. HeldIds(s) = {current[s].id}
      BY <2>4 DEF HeldIds
    <3>4. AnsweredIds(s)' \subseteq AnsweredIds(s) \cup HeldIds(s)
      BY <3>2, <3>3 DEF AnsweredIds
    <3>5. \A i \in DOMAIN answered[s] : answered[s][i] < current[s].id
      BY <2>2, <3>3 DEF StationsInv, Before, AnsweredIds
    <3>6. \A i, j \in DOMAIN answered'[s] : i < j => answered'[s][i] < answered'[s][j]
      <4> SUFFICES ASSUME NEW i \in DOMAIN answered'[s], NEW j \in DOMAIN answered'[s],
                          i < j
                   PROVE  answered'[s][i] < answered'[s][j]
        OBVIOUS
      <4>1. i \in DOMAIN answered[s]
        BY <3>2
      <4>2. CASE j \in DOMAIN answered[s]
        BY <2>2, <3>2, <4>1, <4>2 DEF StationsInv
      <4>3. CASE j = Len(answered[s]) + 1
        BY <3>2, <3>5, <4>1, <4>3
      <4> QED
        BY <3>2, <4>2, <4>3
    <3>7. StationsInv(s)'
      BY <1>1, <2>1, <2>2, <3>4, <3>6 DEF StationsInv, Before
    <3> QED
      BY <1>1, <1>2, <3>7 DEF OrderInv
  <2> QED
    BY <1>4, <2>3, <2>4, HandleIds
<1> QED
  BY <1>3, <1>4 DEF Listen

LEMMA ClientOrder ==
  ASSUME TypeOK, OrderInv, ClientStep
  PROVE  OrderInv'
<1>1. UNCHANGED <<queue, current, answered>>
  BY DEF ClientStep, ClientSend, ClientEOF, serviceVars
<1>2. \A s \in Service :
        /\ AnsweredIds(s)' = AnsweredIds(s) /\ HeldIds(s)' = HeldIds(s)
        /\ QueuedIds(s)' = QueuedIds(s) /\ QueueInOrder(s)' = QueueInOrder(s)
  BY <1>1 DEF AnsweredIds, HeldIds, QueuedIds, QueueInOrder
<1>3. ASSUME NEW header \in Headers, NEW c \in Service \cup {0}, ClientSend(header, c)
      PROVE  OrderInv'
  <2>1. SentInv' /\ SentIds' \subseteq SentIds \cup {sent + 1} /\ sent' = sent + 1
    BY <1>3, ClientSendIds DEF OrderInv
  <2>2. sent \in Nat
    BY DEF TypeOK
  <2>3. ASSUME NEW s \in Service PROVE StationsInv(s)'
    <3>1. StationsInv(s)
      BY DEF OrderInv
    <3>2. \A n \in AnsweredIds(s) \cup HeldIds(s) \cup QueuedIds(s) :
            n < sent + 1 /\ n \in 0..sent'
      BY <2>1, <2>2, <3>1 DEF StationsInv
    <3> QED
      BY <1>1, <1>2, <2>1, <3>1, <3>2 DEF StationsInv, Before
  <2> QED
    BY <2>1, <2>3 DEF OrderInv
<1>4. CASE ClientEOF
  <2> DEFINE m == [header |-> "exit", service |-> 0, id |-> 0]
  <2>1. m \in ClientRequest /\ handle \in Seq(ClientRequest) /\ handle' = Append(handle, m)
        /\ sent' = sent
    BY <1>4 DEF ClientEOF, ClientRequest, RequestHeaders, TypeOK
  <2>2. /\ DOMAIN handle' = 1..(Len(handle) + 1) /\ DOMAIN handle = 1..Len(handle)
        /\ Len(handle) \in Nat /\ handle'[Len(handle) + 1].header # "send"
        /\ \A i \in DOMAIN handle : handle'[i] = handle[i]
    BY <2>1, AppendProperties
  <2>3. SentIds' \subseteq SentIds
    BY <2>2 DEF SentIds
  <2>4. HandleInOrder'
    BY <2>2 DEF HandleInOrder, OrderInv, SentInv
  <2>5. ASSUME NEW s \in Service PROVE StationsInv(s)'
    <3>1. StationsInv(s)
      BY DEF OrderInv
    <3> QED
      BY <1>1, <1>2, <2>1, <2>3, <3>1, StationsKept DEF StationsInv
  <2> QED
    BY <2>1, <2>3, <2>4, <2>5 DEF OrderInv, SentInv
<1> QED
  BY <1>3, <1>4, TargetsAssumption DEF ClientStep

\* Messages that are no requests, put on the queues as a request is taken.
LEMMA PutOrder ==
  ASSUME TypeOK, OrderInv, NEW headers, Take(headers), NEW S, NEW m \in Message, Put(S, m),
         m.op # "request", UNCHANGED <<current, answered>>
  PROVE  OrderInv'
<1>1. SentInv' /\ SentIds' \subseteq SentIds /\ sent' = sent
  BY TakeSentIds DEF OrderInv, Take, clientVars
<1>2. ASSUME NEW s \in Service PROVE StationsInv(s)'
  <2>1. StationsInv(s) /\ QueueInOrder(s)
    BY DEF OrderInv, StationsInv
  <2>2. QueueInOrder(s)' /\ QueuedIds(s)' \subseteq QueuedIds(s)
    BY <2>1, PutIds
  <2>3. HeldIds(s)' = HeldIds(s)
    BY DEF HeldIds
  <2> QED
    BY <1>1, <2>1, <2>2, <2>3, StationsKept
<1> QED
  BY <1>1, <1>2 DEF OrderInv

\* A request is put behind those its service has, and was sent before those to come.
LEMMA SendOrder ==
  ASSUME TypeOK, OrderInv, SendServiceRequest
  PROVE  OrderInv'
<1> DEFINE m == RequestMessage(request.id)
<1>1. /\ Take({"send"}) /\ Put(Started(Handlers), m) /\ request.header = "send"
      /\ UNCHANGED <<current, answered>> /\ sent' = sent
  BY DEF SendServiceRequest, Take, clientVars
<1>2. /\ SentInv' /\ SentIds' \subseteq SentIds /\ request.id \in SentIds
      /\ Before({request.id}, SentIds')
  BY <1>1, TakeSentIds DEF OrderInv
<1>3. m \in Message /\ m.op = "request" /\ m.id = request.id
  BY <1>1, <1>2, TakeType, MessageType DEF ClientRequest, RequestMessage
<1> HIDE DEF m
<1>4. ASSUME NEW s \in Service PROVE StationsInv(s)'
  <2>1. StationsInv(s) /\ QueueInOrder(s)
    BY DEF OrderInv, StationsInv
  <2>2. \A n \in AnsweredIds(s) \cup HeldIds(s) \cup QueuedIds(s) : n < request.id
    BY <1>2, <2>1 DEF StationsInv, Before
  <2>3. QueueInOrder(s)' /\ QueuedIds(s)' \subseteq QueuedIds(s) \cup {request.id}
    BY <1>1, <1>3, <2>1, <2>2, PutIds
  <2>4. HeldIds(s)' = HeldIds(s) /\ AnsweredIds(s)' = AnsweredIds(s)
    BY <1>1 DEF HeldIds, AnsweredIds
  <2>5. request.id \in 0..sent
    BY <1>2 DEF OrderInv, SentInv
  <2> QED
    BY <1>1, <1>2, <2>1, <2>2, <2>3, <2>4, <2>5 DEF StationsInv, Before
<1> QED
  BY <1>2, <1>4 DEF OrderInv

LEMMA NextOrder == TypeOK /\ OrderInv /\ [Next]_vars => OrderInv'
<1> SUFFICES ASSUME TypeOK, OrderInv, [Next]_vars PROVE OrderInv'
  OBVIOUS
<1>1. ASSUME NEW s \in Service, ListenerStep(s) \/ ListenerDies(s)
      PROVE  OrderInv'
  BY <1>1, ListenerOrder DEF ListenerStep, ListenerDies, clientVars
<1>2. StartupMessage.op # "request" /\ ShutdownMessage.op # "request"
      /\ LogLevelMessage.op # "request"
  BY DEF StartupMessage, ShutdownMessage, LogLevelMessage
<1>3. CASE StartServices
  <2>1. Take({"start_all", "start"}) /\ Put(Handlers, StartupMessage)
        /\ UNCHANGED <<current, answered>>
    BY <1>3 DEF StartServices, StartListening
  <2> QED
    BY <1>2, <2>1, PutOrder, MessageType
<1>4. CASE SetLogLevel
  <2>1. Take({"loglevel"}) /\ Put(Started(service), LogLevelMessage)
        /\ UNCHANGED <<current, answered>>
    BY <1>4 DEF SetLogLevel
  <2> QED
    BY <1>2, <2>1, PutOrder, MessageType
<1>5. CASE StopServices \/ ShutdownAndExit
  <2>1. PICK headers, S : Take(headers) /\ Put(S, ShutdownMessage)
                          /\ UNCHANGED <<current, answered>>
    BY <1>5 DEF StopServices, ShutdownAndExit, ShutdownServices
  <2> QED
    BY <1>2, <2>1, PutOrder, MessageType
<1>6. ASSUME UNCHANGED serviceVars, UNCHANGED sent,
             SentInv' /\ SentIds' \subseteq SentIds
      PROVE  OrderInv'
  <2>1. ASSUME NEW s \in Service PROVE StationsInv(s)'
    <3>1. /\ HeldIds(s)' = HeldIds(s) /\ QueuedIds(s)' = QueuedIds(s)
          /\ QueueInOrder(s)' = QueueInOrder(s) /\ answered' = answered
      BY <1>6 DEF serviceVars, HeldIds, QueuedIds, QueueInOrder
    <3>2. StationsInv(s)
      BY DEF OrderInv
    <3> QED
      BY <1>6, <3>1, <3>2, StationsKept DEF StationsInv
  <2> QED
    BY <1>6, <2>1 DEF OrderInv
<1>7. CASE IgnoreRequest
  <2>1. SentInv' /\ SentIds' \subseteq SentIds /\ UNCHANGED serviceVars /\ UNCHANGED sent
    BY <1>7, TakeSentIds DEF OrderInv, IgnoreRequest, Take, clientVars
  <2> QED
    BY <1>6, <2>1
<1>8. ASSUME UNCHANGED <<handle, clientVars, serviceVars>>
      PROVE  OrderInv'
  <2>1. SentInv' /\ SentIds' = SentIds /\ UNCHANGED sent
    BY <1>8 DEF OrderInv, SentInv, SentIds, HandleInOrder, clientVars
  <2> QED
    BY <1>6, <1>8, <2>1
<1>9. CASE StopReturns \/ ExitReturns \/ \E s \in Service : Join(s)
  BY <1>8, <1>9 DEF StopReturns, ExitReturns, Join
<1>10. CASE UNCHANGED vars
  BY <1>8, <1>10 DEF vars
<1> QED
  BY <1>1, <1>3, <1>4, <1>5, <1>7, <1>9, <1>10, ClientOrder, SendOrder
  DEF Next, ServerStep, Exited

LEMMA InitOrder == Init => OrderInv
<1> SUFFICES ASSUME Init PROVE OrderInv
  OBVIOUS
<1>1. handle = <<>> /\ sent = 0
  BY DEF Init
<1>2. SentInv /\ SentIds = {}
  BY <1>1 DEF SentInv, SentIds, HandleInOrder
<1>3. ASSUME NEW s \in Service PROVE StationsInv(s)
  <2>1. queue[s] = <<>> /\ answered[s] = <<>> /\ current[s].op = "none"
    BY DEF Init, ServiceInit, NoMessage
  <2>2. AnsweredIds(s) = {} /\ QueuedIds(s) = {} /\ HeldIds(s) = {}
    BY <2>1 DEF AnsweredIds, QueuedIds, HeldIds
  <2> QED
    BY <1>2, <2>1, <2>2 DEF StationsInv, QueueInOrder, Before
<1> QED
  BY <1>2, <1>3 DEF OrderInv

\* Results reach the plugin of a service once, in the order in which their requests were
\* sent, whatever fails, and across the deaths and restarts of listeners.
THEOREM AnswersInOrder == Spec => []AnsweredInOrder
<1>1. OrderInv => AnsweredInOrder
  BY DEF OrderInv, StationsInv, AnsweredInOrder
<1> QED
  BY <1>1, InitOrder, NextOrder, TypeCorrect, PTL DEF Spec

-----------------------------------------------------------------------------
(***************************************************************************)
(* A stopped service leaves an empty queue, if startups succeed, nobody    *)
(* dies and the plugins have their hooks.  Then a listener ends on nothing *)
(* but its shutdown message: it handles nothing before its startup, and    *)
(* the shutdown message is put last, when the server begins to join.       *)
(***************************************************************************)
OrderlyInv(s) ==
  /\ \A i \in DOMAIN queue[s] :
       queue[s][i].op = "shutdown" => s \in joining /\ i = Len(queue[s])
  /\ current[s].op = "shutdown" => s \in joining /\ queue[s] = <<>>
  /\ ~alive[s] => queue[s] = <<>> /\ (process[s] => s \in joining)
  /\ alive[s] /\ ~started_up[s] =>
       \/ current[s].op = "startup"
       \/ current[s] = NoMessage /\ queue[s] # <<>> /\ queue[s][1].op = "startup"

Orderly ==
  StartupOutcome \subseteq {"ok"} /\ {"startup", "shutdown"} \subseteq PluginHooks
  /\ MaxCrashes = 0

\* A service whose state, and whose being joined, a step leaves alone.
LEMMA OrderlyKept ==
  ASSUME NEW s \in Service, OrderlyInv(s),
         UNCHANGED <<queue[s], current[s], alive[s], started_up[s], process[s]>>,
         s \in joining' <=> s \in joining
  PROVE  OrderlyInv(s)'
BY DEF OrderlyInv

LEMMA OrderlyGet ==
  ASSUME TypeOK, NEW s \in Service, OrderlyInv(s), Get(s), UNCHANGED serverVars
  PROVE  OrderlyInv(s)'
<1>1. /\ queue[s] \in Seq(Message) /\ queue[s] # <<>> /\ alive[s] /\ alive' = alive
      /\ started_up' = started_up /\ joining' = joining
      /\ queue'[s] = Tail(queue[s]) /\ current'[s] = Head(queue[s])
  BY DEF Get, TypeOK, ServiceTypeOK, serverVars
<1>2. /\ DOMAIN queue[s] = 1..Len(queue[s]) /\ DOMAIN queue'[s] = 1..(Len(queue[s]) - 1)
      /\ Len(queue[s]) \in Nat \ {0} /\ current'[s] = queue[s][1]
      /\ Len(queue'[s]) = Len(queue[s]) - 1 /\ queue'[s] \in Seq(Message)
      /\ \A i \in DOMAIN queue'[s] :
           i + 1 \in DOMAIN queue[s] /\ queue'[s][i] = queue[s][i + 1]
  BY <1>1, HeadTailProperties, EmptySeq
<1>3. \A i \in DOMAIN queue'[s] :
        queue'[s][i].op = "shutdown" => s \in joining' /\ i = Len(queue'[s])
  BY <1>1, <1>2 DEF OrderlyInv
<1>4. current'[s].op = "shutdown" => s \in joining' /\ queue'[s] = <<>>
  <2> SUFFICES ASSUME current'[s].op = "shutdown"
               PROVE  s \in joining' /\ queue'[s] = <<>>
    OBVIOUS
  <2>1. 1 \in DOMAIN queue[s]
    BY <1>2
  <2>2. s \in joining /\ 1 = Len(queue[s])
    BY <1>2, <2>1 DEF OrderlyInv
  <2>3. Len(queue'[s]) = 0
    BY <1>2, <2>2
  <2> QED
    BY <1>1, <1>2, <2>2, <2>3, EmptySeq
<1>5. ~started_up[s] => current'[s].op = "startup"
  BY <1>1, <1>2 DEF OrderlyInv, Get, NoMessage
<1> QED
  BY <1>1, <1>3, <1>4, <1>5 DEF OrderlyInv

LEMMA OrderlyHandle ==
  ASSUME TypeOK, ProcessInv, Orderly, NEW s \in Service, OrderlyInv(s),
         Handle(s), UNCHANGED serverVars
  PROVE  OrderlyInv(s)'
<1>1. /\ queue' = queue /\ current'[s] = NoMessage /\ joining' = joining
      /\ NoMessage.op = "none"
  BY DEF Handle, HandleStartup, HandleShutdown, HandleRequest, HandleLogLevel, Raise, Finish,
     TypeOK, ServiceTypeOK, serverVars, NoMessage
<1>2. current[s] # NoMessage
  BY <1>1 DEF Handle, HandleStartup, HandleShutdown, HandleRequest, HandleLogLevel
<1>3. CASE current[s].op = "shutdown"
  <2>1. HandleShutdown(s)
    BY <1>3 DEF Handle, HandleStartup, HandleRequest, HandleLogLevel
  <2>2. "shutdown" \in PluginHooks
    BY DEF Orderly
  <2>3. Finish(s, FALSE, FALSE)
    BY <2>1, <2>2 DEF HandleShutdown
  <2>4. ~alive'[s]
    BY <2>3 DEF Finish, TypeOK, ServiceTypeOK
  <2> QED
    BY <1>1, <1>3, <2>4 DEF OrderlyInv
<1>4. CASE current[s].op # "shutdown"
  <2>1. HandleStartup(s) \/ HandleRequest(s) \/ HandleLogLevel(s)
    BY <1>4 DEF Handle, HandleShutdown
  <2>2. Finish(s, TRUE, TRUE)
    <3>1. CASE HandleStartup(s)
      <4>1. \A outcome \in StartupOutcome : outcome = "ok"
        BY DEF Orderly
      <4>2. "startup" \in PluginHooks
        BY DEF Orderly
      <4> QED
        BY <3>1, <4>1, <4>2 DEF HandleStartup
    <3>2. CASE HandleRequest(s) \/ HandleLogLevel(s)
      <4>1. current[s].op # "startup" /\ alive[s] /\ started_up[s] = TRUE
        <5>1. current[s].op # "startup"
          BY <3>2 DEF HandleRequest, HandleLogLevel
        <5>2. alive[s]
          BY <1>2 DEF ProcessInv, HandlingIsAlive
        <5>3. started_up[s]
          BY <1>2, <5>1, <5>2 DEF OrderlyInv
        <5> QED
          BY <5>1, <5>2, <5>3 DEF TypeOK, ServiceTypeOK
      <4> QED
        BY <3>2, <4>1 DEF HandleRequest, HandleLogLevel, Raise
    <3> QED
      BY <2>1, <3>1, <3>2
  <2>3. alive'[s] /\ started_up'[s]
    BY <2>2 DEF Finish, TypeOK, ServiceTypeOK
  <2> QED
    BY <1>1, <2>3 DEF OrderlyInv
<1> QED
  BY <1>3, <1>4

LEMMA OrderlyListener ==
  ASSUME TypeOK, ProcessInv, Orderly, \A s \in Service : OrderlyInv(s),
         NEW s \in Service, ListenerStep(s) \/ ListenerDies(s)
  PROVE  \A t \in Service : OrderlyInv(t)'
<1>1. ~Crash(s) /\ Listen(s) /\ UNCHANGED serverVars
  BY DEF ListenerStep, ListenerDies, Crash, Orderly, TypeOK, ServiceTypeOK
<1>2. OrderlyInv(s)'
  BY <1>1, OrderlyGet, OrderlyHandle DEF Listen
<1>3. ASSUME NEW t \in Service, t # s
      PROVE  OrderlyInv(t)'
  <2>1. UNCHANGED <<queue[t], current[t], alive[t], started_up[t], process[t]>>
    BY <1>1, <1>3 DEF Listen, Handle, Get, HandleStartup, HandleShutdown, HandleRequest,
       HandleLogLevel, Raise, Finish, TypeOK, ServiceTypeOK, serverVars
  <2>2. joining' = joining
    BY <1>1 DEF serverVars
  <2> QED
    BY <2>1, <2>2, OrderlyKept
<1> QED
  BY <1>2, <1>3

\* What is put on the queue of a listener that runs, at a time when nothing is joined:
\* it comes last, and only it may be a shutdown message.
LEMMA OrderlyPut ==
  ASSUME TypeOK, NEW s \in Service, OrderlyInv(s), joining = {}, alive[s],
         NEW m \in Message, queue'[s] = Append(queue[s], m),
         UNCHANGED <<current[s], alive[s], started_up[s]>>,
         m.op = "shutdown" => s \in joining'
  PROVE  OrderlyInv(s)'
<1>1. queue[s] \in Seq(Message)
  BY DEF TypeOK, ServiceTypeOK
<1>2. /\ DOMAIN queue[s] = 1..Len(queue[s]) /\ DOMAIN queue'[s] = 1..(Len(queue[s]) + 1)
      /\ Len(queue[s]) \in Nat /\ queue'[s][Len(queue[s]) + 1] = m
      /\ Len(queue'[s]) = Len(queue[s]) + 1 /\ queue'[s] # <<>>
      /\ \A i \in DOMAIN queue[s] : queue'[s][i] = queue[s][i]
  BY <1>1, AppendProperties
<1>3. \A i \in DOMAIN queue[s] : queue[s][i].op # "shutdown"
  BY DEF OrderlyInv
<1>4. \A i \in DOMAIN queue'[s] :
        queue'[s][i].op = "shutdown" => s \in joining' /\ i = Len(queue'[s])
  BY <1>2, <1>3
<1>5. queue[s] # <<>> => queue'[s][1] = queue[s][1]
  BY <1>1, <1>2, EmptySeq
<1>6. current[s].op # "shutdown"
  BY DEF OrderlyInv
<1> QED
  BY <1>2, <1>4, <1>5, <1>6 DEF OrderlyInv

\* A startup message comes first in the queue of the listener that is forked for it.
LEMMA OrderlyStart ==
  ASSUME TypeOK, ProcessInv, \A s \in Service : OrderlyInv(s), StartServices
  PROVE  \A s \in Service : OrderlyInv(s)'
<1>1. /\ joining = {} /\ joining' = {} /\ StartListening(Handlers)
      /\ Put(Handlers, StartupMessage) /\ current' = current
      /\ StartupMessage \in Message /\ StartupMessage.op = "startup"
  BY MessageType DEF StartServices, StartListening, Take, ProcessInv, JoiningWhileStopping,
     StartupMessage
<1> SUFFICES ASSUME NEW s \in Service PROVE OrderlyInv(s)'
  OBVIOUS
<1>2. CASE s \notin Handlers
  <2>1. UNCHANGED <<queue[s], current[s], alive[s], started_up[s], process[s]>>
    BY <1>1, <1>2 DEF StartListening, Put, TypeOK, ServiceTypeOK
  <2> QED
    BY <1>1, <2>1, OrderlyKept
<1>3. CASE s \in Handlers /\ process[s]
  <2>1. UNCHANGED <<current[s], alive[s], started_up[s]>>
    BY <1>1, <1>3 DEF StartListening, TypeOK, ServiceTypeOK
  <2>2. alive[s]
    BY <1>1, <1>3 DEF OrderlyInv
  <2>3. queue'[s] = Append(queue[s], StartupMessage)
    BY <1>1, <1>3 DEF Put
  <2> QED
    BY <1>1, <2>1, <2>2, <2>3, OrderlyPut
<1>4. CASE s \in Handlers /\ ~process[s]
  <2>1. ~alive[s]
    BY <1>4 DEF ProcessInv, OneListener
  <2>2. queue[s] = <<>> /\ current'[s] = NoMessage
    BY <1>1, <2>1 DEF OrderlyInv, ProcessInv, HandlingIsAlive
  <2>3. alive'[s] /\ ~started_up'[s]
    BY <1>1, <1>4 DEF StartListening, TypeOK, ServiceTypeOK
  <2>4. /\ DOMAIN queue'[s] = 1..1 /\ Len(queue'[s]) = 1 /\ queue'[s] # <<>>
        /\ queue'[s][1] = StartupMessage
    <3>1. queue'[s] = Append(queue[s], StartupMessage) /\ queue[s] \in Seq(Message)
      BY <1>1, <1>4 DEF Put, TypeOK, ServiceTypeOK
    <3>2. Len(queue[s]) = 0
      BY <2>2
    <3> QED
      BY <1>1, <3>1, <3>2, AppendProperties
  <2>5. NoMessage.op # "shutdown"
    BY DEF NoMessage
  <2> QED
    BY <1>1, <2>2, <2>3, <2>4, <2>5 DEF OrderlyInv
<1> QED
  BY <1>2, <1>3, <1>4

\* A message for the services in S that have a process.
LEMMA OrderlyBroadcast ==
  ASSUME TypeOK, ProcessInv, \A s \in Service : OrderlyInv(s), pc = "get",
         NEW S, NEW m \in Message, Put(Started(S), m), UNCHANGED process,
         UNCHANGED <<alive, started_up, current>>,
         m.op = "shutdown" => joining' = Started(S), m.op # "shutdown" => joining' = joining
  PROVE  \A s \in Service : OrderlyInv(s)'
<1>1. joining = {}
  BY DEF ProcessInv, JoiningWhileStopping
<1> SUFFICES ASSUME NEW s \in Service PROVE OrderlyInv(s)'
  OBVIOUS
<1>2. CASE s \in Started(S)
  <2>1. process[s] /\ queue'[s] = Append(queue[s], m)
    BY <1>2 DEF Started, Put
  <2>2. alive[s]
    BY <1>1, <2>1 DEF OrderlyInv
  <2> QED
    BY <1>1, <1>2, <2>1, <2>2, OrderlyPut
<1>3. CASE s \notin Started(S)
  <2>1. queue'[s] = queue[s]
    BY <1>3 DEF Put
  <2>2. s \notin joining /\ s \notin joining'
    BY <1>1, <1>3
  <2> QED
    BY <2>1, <2>2, OrderlyKept
<1> QED
  BY <1>2, <1>3

LEMMA NextOrderly ==
  ASSUME TypeOK, ProcessInv, Orderly, \A s \in Service : OrderlyInv(s), [Next]_vars
  PROVE  \A s \in Service : OrderlyInv(s)'
<1>1. ASSUME NEW s \in Service, ListenerStep(s) \/ ListenerDies(s)
      PROVE  \A t \in Service : OrderlyInv(t)'
  BY <1>1, OrderlyListener
<1>2. ASSUME UNCHANGED <<serviceVars, process, joining>>
      PROVE  \A s \in Service : OrderlyInv(s)'
  BY <1>2, OrderlyKept DEF serviceVars
<1>3. CASE ClientStep
  BY <1>2, <1>3 DEF ClientStep, ClientSend, ClientEOF, serverVars
<1>4. CASE IgnoreRequest \/ StopReturns \/ ExitReturns \/ UNCHANGED vars
  BY <1>2, <1>4 DEF IgnoreRequest, StopReturns, ExitReturns, vars, serverVars
<1>5. CASE SendServiceRequest
  <2>1. request.id \in Nat
    BY <1>5, TakeType DEF SendServiceRequest, ClientRequest
  <2>2. RequestMessage(request.id) \in Message /\ RequestMessage(request.id).op = "request"
    BY <2>1, MessageType DEF RequestMessage
  <2> QED
    BY <1>5, <2>2, OrderlyBroadcast DEF SendServiceRequest, Take
<1>6. CASE SetLogLevel
  <2>1. LogLevelMessage \in Message /\ LogLevelMessage.op = "loglevel"
    BY MessageType DEF LogLevelMessage
  <2> QED
    BY <1>6, <2>1, OrderlyBroadcast DEF SetLogLevel, Take
<1>7. CASE StopServices \/ ShutdownAndExit
  <2>1. ShutdownMessage \in Message /\ ShutdownMessage.op = "shutdown"
    BY MessageType DEF ShutdownMessage
  <2> QED
    BY <1>7, <2>1, OrderlyBroadcast DEF StopServices, ShutdownAndExit, ShutdownServices, Take
<1>8. ASSUME NEW s \in Service, Join(s)
      PROVE  \A t \in Service : OrderlyInv(t)'
  <2> SUFFICES ASSUME NEW t \in Service PROVE OrderlyInv(t)'
    OBVIOUS
  <2>1. UNCHANGED <<queue, current, alive, started_up>> /\ ~alive[s]
        /\ process' = [process EXCEPT ![s] = FALSE] /\ joining' = joining \ {s}
    BY <1>8 DEF Join, serviceVars
  <2>2. CASE t # s
    <3>1. process'[t] = process[t] /\ (t \in joining' <=> t \in joining)
      BY <2>1, <2>2 DEF TypeOK
    <3> QED
      BY <2>1, <3>1, OrderlyKept
  <2>3. CASE t = s
    <3>1. queue'[s] = <<>> /\ ~alive'[s] /\ ~process'[s]
      BY <2>1 DEF OrderlyInv, TypeOK
    <3>2. current'[s].op # "shutdown"
      BY <2>1 DEF ProcessInv, HandlingIsAlive, NoMessage
    <3> QED
      BY <2>3, <3>1, <3>2 DEF OrderlyInv
  <2> QED
    BY <2>2, <2>3
<1> QED
  BY <1>1, <1>3, <1>4, <1>5, <1>6, <1>7, <1>8, OrderlyStart
  DEF Next, ServerStep, Exited

LEMMA InitOrderly == Init => \A s \in Service : OrderlyInv(s)
<1> SUFFICES ASSUME Init, NEW s \in Service PROVE OrderlyInv(s)
  OBVIOUS
<1>1. queue[s] = <<>> /\ ~alive[s] /\ current[s].op = "none"
  BY DEF Init, ServiceInit, NoMessage
<1>2. ~process[s]
  BY DEF Init, ServerInit
<1> QED
  BY <1>1, <1>2 DEF OrderlyInv

\* The next listener of a service that was stopped finds no message of the last one's, and
\* is_started() is right: a service that has a process and is not being stopped has a
\* listener, which has started or does so before anything else. Without the assumption
\* neither need be: see RestartServes.
THEOREM ServicesReadyOrDrained ==
  ASSUME Orderly
  PROVE  Spec => []ReadyOrDrained
<1> DEFINE Inv == \A s \in Service : OrderlyInv(s)
<1>1. Init => Inv
  BY InitOrderly
<1>2. TypeOK /\ ProcessInv /\ Inv /\ [Next]_vars => Inv'
  BY NextOrderly
<1>3. TypeOK /\ ProcessInv /\ Inv => ReadyOrDrained
  <2> SUFFICES ASSUME TypeOK, ProcessInv, Inv, NEW s \in Service
               PROVE  IF process[s] THEN s \in joining \/ Ready(s) ELSE queue[s] = <<>>
    BY DEF ReadyOrDrained
  <2>1. CASE process[s]
    <3>1. OrderlyInv(s) /\ queue[s] \in Seq(Message)
      BY DEF TypeOK, ServiceTypeOK
    <3>2. queue[s] # <<>> => Head(queue[s]) = queue[s][1]
      BY <3>1, HeadTailProperties
    <3> QED
      BY <2>1, <3>1, <3>2 DEF OrderlyInv, Ready
  <2>2. CASE ~process[s]
    BY <2>2 DEF ProcessInv, OneListener, OrderlyInv
  <2> QED
    BY <2>1, <2>2
<1> HIDE DEF Inv
<1> QED
  BY <1>1, <1>2, <1>3, TypeCorrect, ProcessInvariant, PTL DEF Spec
-----------------------------------------------------------------------------
(***************************************************************************)
(* The server implements the contract, as far as safety goes.  Under the   *)
(* same assumptions, and if requests do not raise: then a request that is  *)
(* accepted stays at one of its stations until it is answered, and a       *)
(* listener that is joined has ended on an empty queue.                    *)
(***************************************************************************)

\* Requests have the numbers the contract allows.
NumbersInv == sent <= MaxRequests /\ SentIds \subseteq 1..MaxRequests

LEMMA NextNumbers == TypeOK /\ OrderInv /\ NumbersInv /\ [Next]_vars => NumbersInv'
<1> SUFFICES ASSUME TypeOK, OrderInv, NumbersInv, [Next]_vars PROVE NumbersInv'
  OBVIOUS
<1>1. sent \in Nat /\ MaxRequests \in Nat /\ SentInv /\ SentIds \subseteq 1..MaxRequests
      /\ sent <= MaxRequests
  BY RequestsAssumption DEF TypeOK, OrderInv, NumbersInv
<1>2. ASSUME UNCHANGED sent, SentIds' \subseteq SentIds PROVE NumbersInv'
  BY <1>1, <1>2 DEF NumbersInv
<1>3. ASSUME UNCHANGED <<handle, sent>> PROVE NumbersInv'
  BY <1>2, <1>3 DEF SentIds
<1>4. ASSUME NEW headers, Take(headers) PROVE NumbersInv'
  BY <1>1, <1>2, <1>4, TakeSentIds DEF Take, clientVars
<1>5. ASSUME NEW header \in Headers, NEW s \in Service \cup {0}, ClientSend(header, s)
      PROVE  NumbersInv'
  <2>1. SentIds' \subseteq SentIds \cup {sent + 1} /\ sent' = sent + 1 /\ sent < MaxRequests
    BY <1>1, <1>5, ClientSendIds DEF ClientSend
  <2> QED
    BY <1>1, <2>1 DEF NumbersInv
<1>6. CASE ClientStep
  <2>1. CASE ClientEOF
    <3> DEFINE m == [header |-> "exit", service |-> 0, id |-> 0]
    <3>1. m \in ClientRequest /\ m.header # "send"
      BY DEF ClientRequest, RequestHeaders
    <3>2. handle \in Seq(ClientRequest) /\ handle' = Append(handle, m) /\ sent' = sent
      BY <2>1 DEF ClientEOF, TypeOK
    <3> HIDE DEF m
    <3>3. /\ DOMAIN handle = 1..Len(handle) /\ DOMAIN handle' = 1..(Len(handle) + 1)
          /\ Len(handle) \in Nat /\ handle'[Len(handle) + 1] = m
          /\ \A i \in DOMAIN handle : handle'[i] = handle[i]
      BY <3>1, <3>2, AppendProperties
    <3>4. SentIds' \subseteq SentIds
      BY <3>1, <3>3 DEF SentIds
    <3> QED
      BY <1>2, <3>2, <3>4
  <2>2. CASE ~ClientEOF
    BY <1>5, <1>6, <2>2, TargetsAssumption DEF ClientStep
  <2> QED
    BY <2>1, <2>2
<1>7. CASE StartServices \/ SendServiceRequest \/ SetLogLevel \/ IgnoreRequest \/ StopServices
           \/ ShutdownAndExit
  BY <1>4, <1>7 DEF StartServices, SendServiceRequest, SetLogLevel, IgnoreRequest, StopServices,
     ShutdownAndExit
<1>8. CASE StopReturns \/ ExitReturns \/ (\E s \in Service : Join(s))
           \/ (\E s \in Service : ListenerStep(s) \/ ListenerDies(s)) \/ UNCHANGED vars
  BY <1>3, <1>8 DEF StopReturns, ExitReturns, Join, ListenerStep, ListenerDies, vars, clientVars
<1> QED
  BY <1>6, <1>7, <1>8 DEF Next, ServerStep, Exited

\* The requests on a queue after something was put on it.
LEMMA PutQueued ==
  ASSUME TypeOK, NEW s \in Service, NEW S, NEW m \in Message, Put(S, m)
  PROVE  QueuedIds(s)' = QueuedIds(s) \cup {n \in {m.id} : s \in S /\ m.op = "request"}
<1>1. CASE s \notin S
  BY <1>1 DEF Put, QueuedIds
<1>2. CASE s \in S
  <2>1. queue[s] \in Seq(Message) /\ queue'[s] = Append(queue[s], m)
    BY <1>2 DEF Put, TypeOK, ServiceTypeOK
  <2>2. /\ DOMAIN queue[s] = 1..Len(queue[s]) /\ DOMAIN queue'[s] = 1..(Len(queue[s]) + 1)
        /\ Len(queue[s]) \in Nat /\ queue'[s][Len(queue[s]) + 1] = m
        /\ \A i \in DOMAIN queue[s] : queue'[s][i] = queue[s][i]
    BY <2>1, AppendProperties
  <2>3. QueuedIds(s)' \subseteq QueuedIds(s) \cup {n \in {m.id} : m.op = "request"}
    BY <2>2 DEF QueuedIds
  <2>4. QueuedIds(s) \subseteq QueuedIds(s)'
    BY <2>2 DEF QueuedIds
  <2>5. m.op = "request" => m.id \in QueuedIds(s)'
    <3>1. Len(queue[s]) + 1 \in DOMAIN queue'[s]
      BY <2>2
    <3> QED
      BY <2>2, <3>1 DEF QueuedIds
  <2> QED
    BY <1>2, <2>3, <2>4, <2>5
<1> QED
  BY <1>1, <1>2

\* A request is taken off the queue into the listener's hands.
LEMMA GetMoves ==
  ASSUME TypeOK, NEW s \in Service, Get(s)
  PROVE  HeldIds(s) = {} /\ HeldIds(s)' \cup QueuedIds(s)' = QueuedIds(s)
<1>1. /\ queue[s] \in Seq(Message) /\ queue[s] # <<>> /\ current[s] = NoMessage
      /\ queue'[s] = Tail(queue[s]) /\ current'[s] = Head(queue[s])
  BY DEF Get, TypeOK, ServiceTypeOK
<1>2. /\ DOMAIN queue[s] = 1..Len(queue[s]) /\ DOMAIN queue'[s] = 1..(Len(queue[s]) - 1)
      /\ Len(queue[s]) \in Nat \ {0} /\ current'[s] = queue[s][1]
      /\ \A i \in DOMAIN queue'[s] :
           i + 1 \in DOMAIN queue[s] /\ queue'[s][i] = queue[s][i + 1]
  BY <1>1, HeadTailProperties, EmptySeq
<1>3. HeldIds(s) = {}
  BY <1>1 DEF HeldIds, NoMessage
<1>4. HeldIds(s)' \cup QueuedIds(s)' \subseteq QueuedIds(s)
  <2>1. 1 \in DOMAIN queue[s]
    BY <1>2
  <2> QED
    BY <1>2, <2>1 DEF HeldIds, QueuedIds
<1>5. ASSUME NEW j \in DOMAIN queue[s], queue[s][j].op = "request"
      PROVE  queue[s][j].id \in HeldIds(s)' \cup QueuedIds(s)'
  <2>1. CASE j = 1
    BY <1>2, <1>5, <2>1 DEF HeldIds
  <2>2. CASE j # 1
    <3>1. j - 1 \in DOMAIN queue'[s] /\ (j - 1) + 1 = j
      BY <1>2, <2>2
    <3>2. queue'[s][j - 1] = queue[s][j]
      BY <1>2, <3>1
    <3> QED
      BY <1>5, <3>1, <3>2 DEF QueuedIds
  <2> QED
    BY <2>1, <2>2
<1>6. QueuedIds(s) \subseteq HeldIds(s)' \cup QueuedIds(s)'
  BY <1>5 DEF QueuedIds
<1> QED
  BY <1>3, <1>4, <1>6

-----------------------------------------------------------------------------
(* The steps of the contract, in terms of the server. *)

LEMMA ContractStutters ==
  ASSUME UNCHANGED <<process, answered>>, \A s \in Service : AcceptedIds(s)' = AcceptedIds(s)
  PROVE  UNCHANGED Contract!contractVars
BY DEF Contract!contractVars

LEMMA ContractStarts ==
  ASSUME NEW S \in SUBSET Service, process' = [s \in Service |-> process[s] \/ s \in S],
         answered' = answered, \A s \in Service : AcceptedIds(s)' = AcceptedIds(s)
  PROVE  Contract!Next
<1>1. Contract!Start(S)
  BY DEF Contract!Start
<1> QED
  BY <1>1 DEF Contract!Next

LEMMA ContractAccepts ==
  ASSUME NEW s \in Service, NEW n \in 1..MaxRequests, process[s],
         \A m \in AcceptedIds(s) : m < n,
         \A t \in Service : AcceptedIds(t)' = IF t = s THEN AcceptedIds(s) \cup {n}
                                              ELSE AcceptedIds(t),
         UNCHANGED <<process, answered>>
  PROVE  Contract!Next
<1>1. Contract!Accept(s, n)
  BY DEF Contract!Accept
<1> QED
  BY <1>1 DEF Contract!Next

LEMMA ContractAnswers ==
  ASSUME NEW s \in Service, NEW n \in AcceptedIds(s) \ AnsweredIds(s),
         \A m \in AcceptedIds(s) \ AnsweredIds(s) : n <= m,
         answered' = [answered EXCEPT ![s] = Append(@, n)],
         process' = process, \A t \in Service : AcceptedIds(t)' = AcceptedIds(t)
  PROVE  Contract!Next
<1>1. Contract!Waiting(s) = AcceptedIds(s) \ AnsweredIds(s)
  BY DEF Contract!Waiting, AnsweredIds
<1>2. Contract!Answer(s)
  BY <1>1 DEF Contract!Answer
<1> QED
  BY <1>2 DEF Contract!Next

LEMMA ContractStops ==
  ASSUME NEW s \in Service, process[s], AcceptedIds(s) \subseteq AnsweredIds(s),
         process' = [process EXCEPT ![s] = FALSE],
         answered' = answered, \A t \in Service : AcceptedIds(t)' = AcceptedIds(t)
  PROVE  Contract!Next
<1>1. Contract!Waiting(s) = {}
  BY DEF Contract!Waiting, AnsweredIds
<1>2. Contract!Stop(s)
  BY <1>1 DEF Contract!Stop
<1> QED
  BY <1>2 DEF Contract!Next

-----------------------------------------------------------------------------
(* The steps of the server. *)

\* What is put on the queues is no request, so the contract has nothing to say.
LEMMA PutAccepts ==
  ASSUME TypeOK, NEW S, NEW m \in Message, Put(S, m), m.op # "request",
         UNCHANGED <<current, answered>>
  PROVE  \A s \in Service : AcceptedIds(s)' = AcceptedIds(s)
<1> SUFFICES ASSUME NEW s \in Service PROVE AcceptedIds(s)' = AcceptedIds(s)
  OBVIOUS
<1>1. QueuedIds(s)' = QueuedIds(s)
  BY PutQueued
<1>2. HeldIds(s)' = HeldIds(s) /\ AnsweredIds(s)' = AnsweredIds(s)
  BY DEF HeldIds, AnsweredIds
<1> QED
  BY <1>1, <1>2 DEF AcceptedIds

LEMMA StationsUnchanged ==
  ASSUME NEW s \in Service, UNCHANGED <<queue[s], current[s], answered[s]>>
  PROVE  AcceptedIds(s)' = AcceptedIds(s)
BY DEF AcceptedIds, QueuedIds, HeldIds, AnsweredIds

LEMMA StartRefines == ASSUME TypeOK, StartServices PROVE Contract!Next
<1>1. /\ Put(Handlers, StartupMessage) /\ UNCHANGED <<current, answered>>
      /\ process' = [s \in Service |-> process[s] \/ s \in {t \in Handlers : ~process[t]}]
  BY DEF StartServices, StartListening
<1>2. Handlers \subseteq Service
  BY DEF Handlers, TypeOK
<1>3. StartupMessage.op # "request"
  BY DEF StartupMessage
<1>4. \A s \in Service : AcceptedIds(s)' = AcceptedIds(s)
  BY <1>1, <1>3, MessageType, PutAccepts
<1>5. {t \in Handlers : ~process[t]} \in SUBSET Service
  BY <1>2
<1> QED
  BY <1>1, <1>4, <1>5, ContractStarts

LEMMA SendRefines ==
  ASSUME TypeOK, OrderInv, NumbersInv, SendServiceRequest
  PROVE  Contract!Next \/ UNCHANGED Contract!contractVars
<1> DEFINE m == RequestMessage(request.id)
           S == Started(Handlers)
           n == request.id
<1>1. /\ Take({"send"}) /\ Put(S, m) /\ request.header = "send"
      /\ UNCHANGED <<current, answered, process>>
  BY DEF SendServiceRequest, Take
<1>2. n \in SentIds
  BY <1>1, TakeSentIds DEF OrderInv
<1>3. m \in Message /\ m.op = "request" /\ m.id = n /\ n \in Nat
  BY <1>1, TakeType, MessageType DEF ClientRequest, RequestMessage
<1>4. S = {} \/ \E s \in Service : process[s] /\ S = {s}
  BY <1>1 DEF Started, Handlers, Addressing, TypeOK
<1> HIDE DEF m, S, n
<1>5. n \in 1..MaxRequests
  BY <1>2 DEF NumbersInv
<1>6. ASSUME NEW t \in Service
      PROVE  AcceptedIds(t)' = IF t \in S THEN AcceptedIds(t) \cup {n} ELSE AcceptedIds(t)
  <2>1. QueuedIds(t)' = QueuedIds(t) \cup {i \in {n} : t \in S}
    BY <1>1, <1>3, PutQueued
  <2>2. HeldIds(t)' = HeldIds(t) /\ AnsweredIds(t)' = AnsweredIds(t)
    BY <1>1 DEF HeldIds, AnsweredIds
  <2> QED
    BY <2>1, <2>2 DEF AcceptedIds
<1>7. CASE S = {}
  BY <1>1, <1>6, <1>7, ContractStutters
<1>8. CASE S # {}
  <2>1. PICK s \in Service : process[s] /\ S = {s}
    BY <1>4, <1>8
  <2>2. \A i \in AcceptedIds(s) : i < n
    BY <1>2 DEF OrderInv, StationsInv, Before, AcceptedIds
  <2>3. \A t \in Service : AcceptedIds(t)' = IF t = s THEN AcceptedIds(s) \cup {n}
                                              ELSE AcceptedIds(t)
    BY <1>6, <2>1
  <2> QED
    BY <1>1, <1>5, <2>1, <2>2, <2>3, ContractAccepts
<1> QED
  BY <1>7, <1>8

\* A listener that is joined has ended, and left nothing: its service owes no answer.
LEMMA JoinRefines ==
  ASSUME TypeOK, ProcessInv, NEW s \in Service, OrderlyInv(s), Join(s)
  PROVE  Contract!Next \/ UNCHANGED Contract!contractVars
<1>1. /\ ~alive[s] /\ process' = [process EXCEPT ![s] = FALSE]
      /\ UNCHANGED <<queue, current, answered>>
  BY DEF Join, serviceVars
<1>2. queue[s] = <<>> /\ current[s] = NoMessage
  BY <1>1 DEF OrderlyInv, ProcessInv, HandlingIsAlive
<1>3. QueuedIds(s) = {} /\ HeldIds(s) = {}
  BY <1>2 DEF QueuedIds, HeldIds, NoMessage
<1>4. AcceptedIds(s) \subseteq AnsweredIds(s)
  BY <1>3 DEF AcceptedIds
<1>5. \A t \in Service : AcceptedIds(t)' = AcceptedIds(t)
  BY <1>1, StationsUnchanged
<1>6. CASE process[s]
  BY <1>1, <1>4, <1>5, <1>6, ContractStops
<1>7. CASE ~process[s]
  <2>1. process' = process
    BY <1>1, <1>7 DEF TypeOK
  <2> QED
    BY <1>1, <1>5, <2>1, ContractStutters
<1> QED
  BY <1>6, <1>7

\* A listener that has a request in its hands was started, so the request is answered.
LEMMA HandleRefines ==
  ASSUME TypeOK, ProcessInv, OrderInv, RequestOutcome \subseteq {"ok"},
         NEW s \in Service, OrderlyInv(s), Handle(s), UNCHANGED process
  PROVE  Contract!Next \/ UNCHANGED Contract!contractVars
<1>1. /\ queue' = queue /\ HeldIds(s)' = {} /\ QueuedIds(s)' = QueuedIds(s)
      /\ \A t \in Service : t # s => current'[t] = current[t]
  BY HandleIds DEF QueuedIds
<1>2. CASE current[s].op # "request"
  <2>1. answered' = answered
    BY <1>2 DEF Handle, HandleStartup, HandleShutdown, HandleRequest, HandleLogLevel
  <2>2. HeldIds(s) = {} /\ AnsweredIds(s)' = AnsweredIds(s)
    BY <1>2, <2>1 DEF HeldIds, AnsweredIds
  <2>3. AcceptedIds(s)' = AcceptedIds(s)
    BY <1>1, <2>2 DEF AcceptedIds
  <2>4. \A t \in Service : AcceptedIds(t)' = AcceptedIds(t)
    BY <1>1, <2>1, <2>3, StationsUnchanged
  <2> QED
    BY <2>1, <2>4, ContractStutters
<1>3. CASE current[s].op = "request"
  <2> DEFINE n == current[s].id
  <2>1. current[s] # NoMessage
    BY <1>3 DEF NoMessage
  <2>2. started_up[s]
    BY <1>3, <2>1 DEF OrderlyInv, ProcessInv, HandlingIsAlive
  <2>3. answered' = [answered EXCEPT ![s] = Append(@, n)] /\ n \in Nat
    <3>1. HandleRequest(s)
      BY <1>3 DEF Handle, HandleStartup, HandleShutdown, HandleLogLevel
    <3>2. n \in Nat
      BY <1>3, CurrentType DEF TypeOK
    <3> QED
      BY <2>2, <3>1, <3>2 DEF HandleRequest
  <2>4. HeldIds(s) = {n}
    BY <1>3 DEF HeldIds
  <2> HIDE DEF n
  <2>5. answered[s] \in Seq(Nat) /\ answered'[s] = Append(answered[s], n)
        /\ \A t \in Service : t # s => answered'[t] = answered[t]
    BY <2>3 DEF TypeOK, ServiceTypeOK
  <2>6. AnsweredIds(s)' = AnsweredIds(s) \cup {n}
    <3>1. /\ DOMAIN answered[s] = 1..Len(answered[s])
          /\ DOMAIN answered'[s] = 1..(Len(answered[s]) + 1)
          /\ Len(answered[s]) \in Nat
          /\ answered'[s][Len(answered[s]) + 1] = n
          /\ \A i \in DOMAIN answered[s] : answered'[s][i] = answered[s][i]
      BY <2>3, <2>5, AppendProperties
    <3>2. AnsweredIds(s)' \subseteq AnsweredIds(s) \cup {n}
      BY <3>1 DEF AnsweredIds
    <3>3. AnsweredIds(s) \subseteq AnsweredIds(s)'
      BY <3>1 DEF AnsweredIds
    <3>4. n \in AnsweredIds(s)'
      <4>1. Len(answered[s]) + 1 \in DOMAIN answered'[s]
        BY <3>1
      <4> QED
        BY <3>1, <4>1 DEF AnsweredIds
    <3> QED
      BY <3>2, <3>3, <3>4
  <2>7. AcceptedIds(s)' = AcceptedIds(s)
    BY <1>1, <2>4, <2>6 DEF AcceptedIds
  <2>8. \A t \in Service : AcceptedIds(t)' = AcceptedIds(t)
    BY <1>1, <2>5, <2>7, StationsUnchanged
  <2>9. StationsInv(s) /\ AnsweredIds(s) \subseteq Nat /\ QueuedIds(s) \subseteq Nat
    BY IdsType DEF OrderInv
  <2>10. n \in AcceptedIds(s) \ AnsweredIds(s)
    BY <2>3, <2>4, <2>9 DEF AcceptedIds, StationsInv, Before
  <2>11. \A m \in AcceptedIds(s) \ AnsweredIds(s) : n <= m
    BY <2>3, <2>4, <2>9 DEF AcceptedIds, StationsInv, Before
  <2> QED
    BY <2>3, <2>8, <2>10, <2>11, ContractAnswers
<1> QED
  BY <1>2, <1>3

LEMMA NextRefines ==
  ASSUME Orderly, RequestOutcome \subseteq {"ok"}, TypeOK, ProcessInv, OrderInv, NumbersInv,
         \A s \in Service : OrderlyInv(s), [Next]_vars
  PROVE  [Contract!Next]_Contract!contractVars
<1> SUFFICES Contract!Next \/ UNCHANGED Contract!contractVars
  OBVIOUS
<1>1. ASSUME UNCHANGED <<process, serviceVars>>
      PROVE  UNCHANGED Contract!contractVars
  BY <1>1, StationsUnchanged, ContractStutters DEF serviceVars
<1>2. ASSUME NEW S, NEW m \in {ShutdownMessage, LogLevelMessage}, Put(S, m),
             UNCHANGED <<current, answered, process>>
      PROVE  UNCHANGED Contract!contractVars
  <2>1. m \in Message /\ m.op # "request"
    BY <1>2, MessageType DEF ShutdownMessage, LogLevelMessage
  <2> QED
    BY <1>2, <2>1, PutAccepts, ContractStutters
<1>3. ASSUME NEW s \in Service, ListenerStep(s) \/ ListenerDies(s)
      PROVE  Contract!Next \/ UNCHANGED Contract!contractVars
  <2>1. Listen(s) /\ UNCHANGED process
    BY <1>3 DEF ListenerStep, ListenerDies, Crash, Orderly, TypeOK, ServiceTypeOK, serverVars
  <2>2. CASE Get(s)
    <3>1. answered' = answered /\ \A t \in Service : t # s => UNCHANGED <<queue[t], current[t]>>
      BY <2>2 DEF Get, TypeOK, ServiceTypeOK
    <3>2. AnsweredIds(s)' = AnsweredIds(s)
      BY <3>1 DEF AnsweredIds
    <3>3. HeldIds(s) = {} /\ HeldIds(s)' \cup QueuedIds(s)' = QueuedIds(s)
      BY <2>2, GetMoves
    <3>4. AcceptedIds(s)' = AcceptedIds(s)
      BY <3>2, <3>3 DEF AcceptedIds
    <3>5. \A t \in Service : AcceptedIds(t)' = AcceptedIds(t)
      BY <3>1, <3>4, StationsUnchanged
    <3> QED
      BY <2>1, <3>1, <3>5, ContractStutters
  <2> QED
    BY <2>1, <2>2, HandleRefines DEF Listen
<1>4. CASE StartServices
  BY <1>4, StartRefines
<1>5. CASE SendServiceRequest
  BY <1>5, SendRefines
<1>6. CASE SetLogLevel
  <2>1. Put(Started(service), LogLevelMessage) /\ UNCHANGED <<current, answered, process>>
    BY <1>6 DEF SetLogLevel
  <2> QED
    BY <1>2, <2>1
<1>7. CASE StopServices \/ ShutdownAndExit
  <2>1. PICK S : Put(S, ShutdownMessage) /\ UNCHANGED <<current, answered, process>>
    BY <1>7 DEF StopServices, ShutdownAndExit, ShutdownServices
  <2> QED
    BY <1>2, <2>1
<1>8. ASSUME NEW s \in Service, Join(s)
      PROVE  Contract!Next \/ UNCHANGED Contract!contractVars
  BY <1>8, JoinRefines
<1>9. CASE IgnoreRequest \/ StopReturns \/ ExitReturns \/ ClientStep \/ UNCHANGED vars
  BY <1>1, <1>9 DEF IgnoreRequest, StopReturns, ExitReturns, ClientStep, ClientSend, ClientEOF,
     vars, serverVars
<1> QED
  BY <1>3, <1>4, <1>5, <1>6, <1>7, <1>8, <1>9 DEF Next, ServerStep, Exited

\* The safety of KeepsContract: for any number of services and requests, what the server
\* does to queues and processes are steps of the contract. A request that was accepted is
\* answered before any later one, and before its service is stopped.
THEOREM ImplementsContract ==
  ASSUME Orderly, RequestOutcome \subseteq {"ok"}
  PROVE  Spec => Contract!Safety
<1> DEFINE Inv == \A s \in Service : OrderlyInv(s)
<1>1. Spec => []Inv
  <2>1. Init => Inv
    BY InitOrderly
  <2>2. TypeOK /\ ProcessInv /\ Inv /\ [Next]_vars => Inv'
    BY NextOrderly
  <2> HIDE DEF Inv
  <2> QED
    BY <2>1, <2>2, TypeCorrect, ProcessInvariant, PTL DEF Spec
<1>2. Init => NumbersInv
  BY RequestsAssumption DEF Init, NumbersInv, SentIds
<1>3. Init => Contract!Init
  <2> SUFFICES ASSUME Init PROVE Contract!Init
    OBVIOUS
  <2>1. /\ process = [s \in Service |-> FALSE] /\ answered = [s \in Service |-> <<>>]
        /\ \A s \in Service : queue[s] = <<>> /\ current[s] = NoMessage
    BY DEF Init, ServiceInit, ServerInit
  <2>2. \A s \in Service : AcceptedIds(s) = {}
    BY <2>1 DEF AcceptedIds, AnsweredIds, QueuedIds, HeldIds, NoMessage
  <2> QED
    BY <2>1, <2>2 DEF Contract!Init
<1>4. TypeOK /\ ProcessInv /\ OrderInv /\ NumbersInv /\ Inv /\ [Next]_vars
        => [Contract!Next]_Contract!contractVars
  BY NextRefines
<1> HIDE DEF Inv
<1> QED
  BY <1>1, <1>2, <1>3, <1>4, TypeCorrect, ProcessInvariant, InitOrder, NextOrder, NextNumbers, PTL
  DEF Spec, Contract!Safety
=============================================================================
