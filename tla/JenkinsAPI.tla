----------------------------- MODULE JenkinsAPI -----------------------------
(***************************************************************************)
(* The API that tells users the state of their Jenkins and starts it:      *)
(* Status and Start of internal/jenkinsapi/jenkinsapi.go, one action for   *)
(* each call that a request makes, over the pods of Pods.                  *)
(***************************************************************************)
EXTENDS Pods

CONSTANT Requests  \* clients of the API, each with one request at a time

NoNamespace == "none"

ASSUME JenkinsAPIAssumption == NoNamespace \notin Namespaces

VARIABLES
    step,     \* where the request of each client is
    op,       \* what it asks for
    tenant,   \* the namespace that its token leads to
    answer,   \* the status code of the last answer
    started   \* namespaces whose start succeeded, until their pod is idled

requestVars == <<step, op, tenant, answer>>
apiVars == <<step, op, tenant, answer, started>>

NoAnswer == 0  \* none yet, or one that is not valid HTTP

Steps == {"idle", "lookup", "tenant", "state", "unidle"}

Answers == {NoAnswer, 200, 401, 500, 503}

APITypeOK ==
    /\ PodsTypeOK
    /\ step \in [Requests -> Steps]
    /\ op \in [Requests -> {"status", "start"}]
    /\ tenant \in [Requests -> Namespaces \cup {NoNamespace}]
    /\ \A r \in Requests :
          step[r] \in {"state", "unidle"} => tenant[r] # NoNamespace
    /\ answer \in [Requests -> Answers]
    /\ started \subseteq Namespaces

APIInit ==
    /\ PodsInit
    /\ step = [r \in Requests |-> "idle"]
    /\ op = [r \in Requests |-> "status"]
    /\ tenant = [r \in Requests |-> NoNamespace]
    /\ answer = [r \in Requests |-> NoAnswer]
    /\ started = {}

-----------------------------------------------------------------------------
Goto(r, s) == step' = [step EXCEPT ![r] = s]

Reply(r, code) ==
    /\ Goto(r, "idle")
    /\ op' = [op EXCEPT ![r] = "status"]
    /\ tenant' = [tenant EXCEPT ![r] = NoNamespace]
    /\ answer' = [answer EXCEPT ![r] = code]

Arrive(r) ==
    /\ step[r] = "idle"
    /\ Goto(r, "lookup")
    /\ op' \in {[op EXCEPT ![r] = o] : o \in {"status", "start"}}
    /\ answer' = [answer EXCEPT ![r] = NoAnswer]
    /\ UNCHANGED <<podVars, faults, tenant, started>>

(* The user of the token, whose key may have to be fetched first. *)
UIDFromToken(r) ==
    /\ step[r] = "lookup"
    /\ Goto(r, "tenant")
    /\ UNCHANGED <<podVars, faults, op, tenant, answer, started>>

(* Mutant: an error of the lookup is logged and not returned. *)
GetNamespace_IgnoresError(r) ==
    /\ step[r] = "tenant"
    /\ \E ns \in Namespaces \cup {NoNamespace} :
          tenant' = [tenant EXCEPT ![r] = ns]
    /\ Goto(r, "state")
    /\ UNCHANGED <<podVars, faults, op, answer, started>>

(* The user's tenant, and of its namespaces the one of type jenkins. *)
GetNamespace(r) ==
    /\ step[r] = "tenant"
    /\ \E ns \in Namespaces : tenant' = [tenant EXCEPT ![r] = ns]
    /\ Goto(r, "state")
    /\ UNCHANGED <<podVars, faults, op, answer, started>>

(* A request without a valid token or a tenant, or a service that fails: a *)
(* user's error and a service's look the same. A token without a subject   *)
(* makes UIDFromToken panic, and the client gets no answer.                *)
LookupFails(r) ==
    /\ step[r] \in {"lookup", "tenant"}
    /\ \/ Reply(r, 401)
       \/ step[r] = "lookup" /\ Reply(r, NoAnswer)
    /\ UNCHANGED <<podVars, faults, started>>

(* Mutant: a start is answered when Jenkins runs. *)
State_Waits(r) ==
    /\ step[r] = "state"
    /\ op[r] = "start" => jenkins[tenant[r]] # "starting"
    /\ Healthy
    /\ IF op[r] = "start" /\ jenkins[tenant[r]] # "running"
       THEN Goto(r, "unidle") /\ UNCHANGED <<op, tenant, answer, started>>
       ELSE /\ Reply(r, 200)
            /\ started' = IF op[r] = "start"
                          THEN started \cup {tenant[r]}
                          ELSE started
    /\ UNCHANGED podVars

(* The idler's answer: a state, or an error. An answer that has neither    *)
(* data nor errors makes State dereference nil; net/http recovers, and the *)
(* client gets no answer.                                                  *)
State(r) ==
    /\ step[r] = "state"
    /\ Healthy
    /\ IF op[r] = "start" /\ jenkins[tenant[r]] # "running"
       THEN Goto(r, "unidle") /\ UNCHANGED <<op, tenant, answer, started>>
       ELSE /\ Reply(r, 200)
            /\ started' = IF op[r] = "start"
                          THEN started \cup {tenant[r]}
                          ELSE started
    /\ UNCHANGED podVars

StateFails(r) ==
    /\ step[r] = "state"
    /\ Fault
    /\ Reply(r, 500) \/ Reply(r, NoAnswer)
    /\ UNCHANGED <<podVars, started>>

(* Mutant: the code of the unidle call is not passed on. *)
Start_AlwaysOK(r) ==
    /\ step[r] = "unidle"
    /\ UnIdle(tenant[r])
    /\ Reply(r, 200)
    /\ started' = started \cup {tenant[r]}
    /\ UNCHANGED idles

(* The code of the unidle call is the answer's: 200, 503 if the cluster    *)
(* has no room for a pod, and 0 for an error, which older Go versions      *)
(* write as it is and newer ones panic about.                              *)
Start(r) ==
    /\ step[r] = "unidle"
    /\ UnIdle(tenant[r])
    /\ IF faults' = faults
       THEN Reply(r, 200) /\ started' = started \cup {tenant[r]}
       ELSE (Reply(r, 503) \/ Reply(r, NoAnswer)) /\ UNCHANGED started
    /\ UNCHANGED idles

RequestStep(r) ==
    \/ UIDFromToken(r) \/ GetNamespace(r) \/ LookupFails(r)
    \/ State(r) \/ StateFails(r)
    \/ Start(r)

(* What the pods do meanwhile. *)
PodsStep ==
    \E ns \in Namespaces :
        \/ PodStarts(ns) /\ UNCHANGED apiVars
        \/ UserWakes(ns) /\ UNCHANGED apiVars
        \/ IdlePod(ns) /\ started' = started \ {ns} /\ UNCHANGED requestVars

-----------------------------------------------------------------------------
(* A start that was answered with 200 has woken the Jenkins, although the  *)
(* state it decides by may have changed before the unidle call: from then  *)
(* on the pod is up until the idler stops it (Start).                      *)
StartWakes == \A ns \in started : jenkins[ns] # "idled"

=============================================================================
