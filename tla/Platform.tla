------------------------------ MODULE Platform ------------------------------
(***************************************************************************)
(* The pods, and what their Jenkins does with the deliveries sent to it.   *)
(***************************************************************************)
EXTENDS Pods

CONSTANTS
    Hooks,   \* the webhook deliveries GitHub makes
    Poison   \* deliveries a running Jenkins always answers with a 5xx

ASSUME PlatformAssumption ==
    /\ Hooks # {}
    /\ Poison \subseteq Hooks

VARIABLES
    received,  \* how often Jenkins has processed each delivery
    refused    \* deliveries that Jenkins answered with 400 or 404

deliveryVars == <<received, refused>>
platformVars == <<jenkins, idles, faults, received, refused>>

PlatformTypeOK ==
    /\ PodsTypeOK
    /\ received \in [Hooks -> Nat]
    /\ refused \subseteq Hooks

PlatformInit ==
    /\ PodsInit
    /\ received = [h \in Hooks |-> 0]
    /\ refused = {}

-----------------------------------------------------------------------------
(* Answers of the Jenkins of ns to delivery h. *)

Answers200(h, ns) ==
    /\ jenkins[ns] = "running"
    /\ h \notin Poison
    /\ received' = [received EXCEPT ![h] = @ + 1]
    /\ Healthy
    /\ UNCHANGED refused

(* Jenkins is up but not yet, or no longer, serving the webhook's path. *)
Answers4xx(h, ns) ==
    /\ jenkins[ns] = "running"
    /\ Fault
    /\ refused' = refused \cup {h}
    /\ UNCHANGED received

(* Nobody listens behind the route, or Jenkins answers with a 5xx. *)
AnswersError(h, ns) ==
    /\ jenkins[ns] # "running" \/ h \in Poison
    /\ Healthy
    /\ UNCHANGED deliveryVars

ConnectionFails ==
    /\ Fault
    /\ UNCHANGED deliveryVars

(* Jenkins has processed the delivery but its answer does not arrive. *)
AnswerLost(h, ns) ==
    /\ jenkins[ns] = "running"
    /\ h \notin Poison
    /\ received' = [received EXCEPT ![h] = @ + 1]
    /\ Fault
    /\ UNCHANGED refused

=============================================================================
