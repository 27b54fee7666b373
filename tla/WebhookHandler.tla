--------------------------- MODULE WebhookHandler ---------------------------
(***************************************************************************)
(* The handler of a GitHub delivery: Handle and handleGitHubRequest of     *)
(* internal/proxy. One action per call that reads or writes shared state,  *)
(* so that handlers, the replay loop and the pods interleave between them. *)
(***************************************************************************)
EXTENDS RequestStore

CONSTANTS
    Proxies,   \* proxy processes (two while a deployment rolls over)
    Lookup,    \* namespaces a lookup of a delivery's repository may answer
    Routable   \* namespaces on a cluster known since the proxy started

ASSUME HandlerAssumption ==
    /\ Proxies # {}
    /\ Lookup \in [Hooks -> SUBSET Namespaces]
    /\ Routable \subseteq Namespaces

VARIABLES
    pc,      \* control state of the handler of each delivery
    at,      \* the proxy that handles it
    reply,   \* the status written to GitHub's request, 0 for none yet
    visits   \* deliveries whose recordStatistics goroutine has not run yet

handlerVars == <<pc, at, reply, visits>>

HandlerStates ==
    {"unseen", "resolve", "state", "store", "readStats", "createStats",
     "updateStats", "start", "unidle", "forward", "done", "dead"}

(* Control states in which a handler goroutine exists. *)
Active == HandlerStates \ {"unseen", "done", "dead"}

HandlerTypeOK ==
    /\ pc \in [Hooks -> HandlerStates]
    /\ at \in [Hooks -> Proxies]
    /\ reply \in [Hooks -> {0, 200, 202, 500}]
    /\ visits \subseteq Hooks

HandlerInit ==
    /\ pc = [h \in Hooks |-> "unseen"]
    /\ at = [h \in Hooks |-> CHOOSE p \in Proxies : TRUE]
    /\ reply = [h \in Hooks |-> 0]
    /\ visits = {}

(* Control moves of a handler: to another state, and with a status. *)
Goto(h, from, to) ==
    /\ pc[h] = from
    /\ pc' = [pc EXCEPT ![h] = to]
    /\ UNCHANGED <<at, reply, visits>>

Reply(h, from, to, code) ==
    /\ pc[h] = from
    /\ pc' = [pc EXCEPT ![h] = to]
    /\ reply' = [reply EXCEPT ![h] = code]
    /\ UNCHANGED <<at, visits>>

-----------------------------------------------------------------------------

Arrive(h, p) ==
    /\ pc[h] = "unseen"
    /\ pc' = [pc EXCEPT ![h] = "resolve"]
    /\ at' = [at EXCEPT ![h] = p]
    /\ UNCHANGED <<reply, visits, platformVars, storeVars>>

(* The body is read and decoded, the owner looked up (with retries) and    *)
(* the route to its Jenkins made; each of these may fail.                  *)
ResolveOwner(h) ==
    \/ \E ns \in Lookup[h] \cap Routable :
          /\ Goto(h, "resolve", "state")
          /\ owner' = [owner EXCEPT ![h] = ns]
          /\ UNCHANGED <<requests, retries, statistics, platformVars>>
    \/ /\ \E ns \in Lookup[h] : ns \notin Routable
       /\ Reply(h, "resolve", "done", 500)
       /\ UNCHANGED <<storeVars, platformVars>>
    \/ /\ Reply(h, "resolve", "done", 500)
       /\ Fault
       /\ UNCHANGED <<storeVars, podVars, deliveryVars>>

(* Mutant: a Jenkins that is coming up is taken for one that runs. *)
CheckState_NotIdled(h) ==
    \/ /\ jenkins[owner[h]] # "idled"
       /\ pc[h] = "state"
       /\ pc' = [pc EXCEPT ![h] = "forward"]
       /\ reply' = [reply EXCEPT ![h] = 200]
       /\ visits' = visits \cup {h}
       /\ UNCHANGED <<at, storeVars, platformVars>>
    \/ /\ jenkins[owner[h]] = "idled"
       /\ Goto(h, "state", "store")
       /\ UNCHANGED <<storeVars, platformVars>>

(* The decision between passing through and buffering. The 200 is written  *)
(* before anything is sent to Jenkins; the goroutine that records the      *)
(* visit is started on the way to the reverse proxy.                       *)
CheckState(h) ==
    \/ /\ jenkins[owner[h]] = "running"
       /\ pc[h] = "state"
       /\ pc' = [pc EXCEPT ![h] = "forward"]
       /\ reply' = [reply EXCEPT ![h] = 200]
       /\ visits' = visits \cup {h}
       /\ UNCHANGED <<at, storeVars, platformVars>>
    \/ /\ jenkins[owner[h]] # "running"
       /\ Goto(h, "state", "store")
       /\ UNCHANGED <<storeVars, platformVars>>
    \/ /\ Reply(h, "state", "done", 500)
       /\ Fault
       /\ UNCHANGED <<storeVars, podVars, deliveryVars>>

(* Mutant: the error of the insert is not looked at. *)
StoreRequest_IgnoresError(h) ==
    /\ Goto(h, "store", "readStats")
    /\ \/ CreateRequest(h) /\ UNCHANGED platformVars
       \/ Fault /\ UNCHANGED <<storeVars, podVars, deliveryVars>>

(* storeGHRequest: the row, then the statistics. Whatever fails, the       *)
(* handler goes on to start Jenkins.                                       *)
StoreRequest(h) ==
    \/ /\ Goto(h, "store", "readStats")
       /\ CreateRequest(h)
       /\ UNCHANGED platformVars
    \/ /\ Reply(h, "store", "start", 500)
       /\ Fault
       /\ UNCHANGED <<storeVars, podVars, deliveryVars>>

(* Mutant: the handler returns on a failed query without starting Jenkins. *)
ReadStats_ReturnsEarly(h) ==
    \/ /\ Goto(h, "readStats",
               IF owner[h] \in statistics THEN "updateStats" ELSE "createStats")
       /\ UNCHANGED <<storeVars, platformVars>>
    \/ /\ Reply(h, "readStats", "done", 500)
       /\ Fault
       /\ UNCHANGED <<storeVars, podVars, deliveryVars>>

ReadStats(h) ==
    \/ /\ Goto(h, "readStats",
               IF owner[h] \in statistics THEN "updateStats" ELSE "createStats")
       /\ UNCHANGED <<storeVars, platformVars>>
    \/ /\ Reply(h, "readStats", "start", 500)
       /\ Fault
       /\ UNCHANGED <<storeVars, podVars, deliveryVars>>

(* Mutant: the handler returns on a failed insert without starting Jenkins. *)
CreateStats_ReturnsEarly(h) ==
    /\ UNCHANGED platformVars
    /\ \/ /\ owner[h] \notin statistics
          /\ Reply(h, "createStats", "start", 202)
          /\ CreateStatistics(owner[h])
       \/ /\ owner[h] \in statistics
          /\ Reply(h, "createStats", "done", 500)
          /\ UNCHANGED storeVars

(* The namespace is the primary key: if somebody else has created the row  *)
(* since it was read, the insert fails.                                    *)
CreateStats(h) ==
    \/ /\ owner[h] \notin statistics
       /\ Reply(h, "createStats", "start", 202)
       /\ CreateStatistics(owner[h])
       /\ UNCHANGED platformVars
    \/ /\ owner[h] \in statistics
       /\ Reply(h, "createStats", "start", 500)
       /\ UNCHANGED <<storeVars, platformVars>>
    \/ /\ Reply(h, "createStats", "start", 500)
       /\ Fault
       /\ UNCHANGED <<storeVars, podVars, deliveryVars>>

UpdateStats(h) ==
    \/ /\ Reply(h, "updateStats", "start", 202)
       /\ UNCHANGED <<storeVars, platformVars>>
    \/ /\ Reply(h, "updateStats", "start", 500)
       /\ Fault
       /\ UNCHANGED <<storeVars, podVars, deliveryVars>>

(* Jenkins.Start: the state is read again, and only an idled Jenkins is    *)
(* unidled. Its outcome no longer changes the status.                      *)
Start(h) ==
    \/ /\ Goto(h, "start",
               IF jenkins[owner[h]] = "idled" THEN "unidle" ELSE "done")
       /\ UNCHANGED <<storeVars, platformVars>>
    \/ /\ Goto(h, "start", "done")
       /\ Fault
       /\ UNCHANGED <<storeVars, podVars, deliveryVars>>

StartUnIdle(h) ==
    /\ Goto(h, "unidle", "done")
    /\ UnIdle(owner[h])
    /\ UNCHANGED <<storeVars, idles, deliveryVars>>

(* The reverse proxy sends the delivery to Jenkins. The status is already  *)
(* written and onError does nothing for GitHub, so every outcome ends the  *)
(* handler with 200.                                                       *)
Forward(h) ==
    /\ Goto(h, "forward", "done")
    /\ \/ Answers200(h, owner[h])
       \/ Answers4xx(h, owner[h])
       \/ AnswersError(h, owner[h])
       \/ ConnectionFails
       \/ AnswerLost(h, owner[h])
    /\ UNCHANGED <<storeVars, podVars>>

(* The goroutine of Handle: its effect on the rows of statistics is that   *)
(* of its insert, its error is discarded.                                  *)
RecordVisit(h) ==
    /\ h \in visits
    /\ visits' = visits \ {h}
    /\ \/ CreateStatistics(owner[h]) /\ Healthy
       \/ Fault /\ UNCHANGED storeVars
    /\ UNCHANGED <<pc, at, reply, podVars, deliveryVars>>

HandlerStep(h) ==
    \/ ResolveOwner(h)
    \/ CheckState(h)
    \/ StoreRequest(h)
    \/ ReadStats(h)
    \/ CreateStats(h)
    \/ UpdateStats(h)
    \/ Start(h)
    \/ StartUnIdle(h)
    \/ Forward(h)

=============================================================================
