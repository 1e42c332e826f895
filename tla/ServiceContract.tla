---------------------------- MODULE ServiceContract ----------------------------
(***************************************************************************)
(* What the server promises a client of a service (arch.md, "Async"): the  *)
(* request it accepts for a running service is answered, once the requests *)
(* accepted before it are, and a service is not stopped on a request it    *)
(* still owes an answer.  Processes, queues and joins are out of sight.    *)
(***************************************************************************)
EXTENDS Naturals, Sequences

CONSTANTS
  Service,  \* the services
  Requests  \* the numbers that identify requests, in the order they are made

VARIABLES
  on,       \* on[s]: s runs
  accepted, \* accepted[s]: the requests ever taken for s
  answered  \* answered[s]: those its plugin was called for, one after the other

contractVars == <<on, accepted, answered>>

Init ==
  /\ on = [s \in Service |-> FALSE]
  /\ accepted = [s \in Service |-> {}]
  /\ answered = [s \in Service |-> <<>>]

\* The requests that s owes an answer.
Waiting(s) == accepted[s] \ {answered[s][i] : i \in DOMAIN answered[s]}

Start(S) ==
  /\ on' = [s \in Service |-> on[s] \/ s \in S]
  /\ UNCHANGED <<accepted, answered>>

Accept(s, n) ==
  /\ on[s]
  /\ \A m \in accepted[s] : m < n
  /\ accepted' = [accepted EXCEPT ![s] = @ \cup {n}]
  /\ UNCHANGED <<on, answered>>

Answer(s) ==
  \E n \in Waiting(s) :
    /\ \A m \in Waiting(s) : n <= m
    /\ answered' = [answered EXCEPT ![s] = Append(@, n)]
    /\ UNCHANGED <<on, accepted>>

Stop(s) ==
  /\ on[s]
  /\ Waiting(s) = {}
  /\ on' = [on EXCEPT ![s] = FALSE]
  /\ UNCHANGED <<accepted, answered>>

Next ==
  \/ \E S \in SUBSET Service : Start(S)
  \/ \E s \in Service :
       Answer(s) \/ Stop(s) \/ \E n \in Requests : Accept(s, n)

Safety == Init /\ [][Next]_contractVars

Spec == Safety /\ \A s \in Service : WF_contractVars(Answer(s))
=============================================================================
