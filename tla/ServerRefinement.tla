--------------------------- MODULE ServerRefinement ---------------------------
(***************************************************************************)
(* The server of Server.tla keeps the promise of ServiceContract.tla when  *)
(* no callback fails, no listener dies and the plugins have their hooks.   *)
(***************************************************************************)
EXTENDS Server

\* The stations of a request of s: its queue, its listener's hands, its plugin.
QueuedIds(s) ==
  {queue[s][i].id : i \in {j \in DOMAIN queue[s] : queue[s][j].op = "request"}}
HeldIds(s) == {n \in {current[s].id} : current[s].op = "request"}
AnsweredIds(s) == {answered[s][i] : i \in DOMAIN answered[s]}

AcceptedIds(s) == AnsweredIds(s) \cup HeldIds(s) \cup QueuedIds(s)

\* A service is on as long as its handler has a process, and has accepted what
\* it answered and what is still on its way to the answer.
Contract ==
  INSTANCE ServiceContract WITH
    Requests <- 1..MaxRequests,
    on       <- process,
    accepted <- [s \in Service |-> AcceptedIds(s)]

\* Requests are answered, in the order they were accepted, before their service
\* is stopped: the queues and the joins of server.py deliver what arch.md says of
\* asynchronous requests.
KeepsContract == Contract!Spec
=============================================================================
