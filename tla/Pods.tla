-------------------------------- MODULE Pods --------------------------------
(***************************************************************************)
(* The Jenkins pods, the idler that stops and starts them, and the calls   *)
(* of the proxy that may fail. None of it is code of the proxy, which sees *)
(* it through internal/idler/idler.go and its HTTP clients.                *)
(*                                                                         *)
(* A failing call spends one unit of a budget, MaxFaults, so that a run of *)
(* the model has finitely many of them; MaxIdles bounds how often the      *)
(* idler stops a pod.                                                      *)
(***************************************************************************)
EXTENDS Naturals

CONSTANTS
    Namespaces,  \* tenant Jenkins namespaces
    MaxFaults,   \* bound: failing calls in one behaviour
    MaxIdles     \* bound: pods the idler stops in one behaviour

ASSUME PodsAssumption ==
    /\ Namespaces # {}
    /\ MaxFaults \in Nat
    /\ MaxIdles \in Nat

VARIABLES
    jenkins,   \* state of each namespace's pod, as the idler reports it
    faults,    \* failing calls so far
    idles      \* pods stopped so far

podVars == <<jenkins, idles>>

PodStates == {"idled", "starting", "running"}

PodsTypeOK ==
    /\ jenkins \in [Namespaces -> PodStates]
    /\ faults \in 0..MaxFaults
    /\ idles \in 0..MaxIdles

PodsInit ==
    /\ jenkins \in [Namespaces -> PodStates]
    /\ faults = 0
    /\ idles = 0

Healthy == UNCHANGED faults

Fault ==
    /\ faults < MaxFaults
    /\ faults' = faults + 1

(* The unidle call: the pod of an idled Jenkins starts to come up; a call  *)
(* for a pod that is already up changes nothing. A 503 (the cluster has no *)
(* room) and an error leave the pod where it is.                           *)
UnIdle(ns) ==
    \/ /\ jenkins' = [jenkins EXCEPT ![ns] =
                         IF @ = "idled" THEN "starting" ELSE @]
       /\ Healthy
    \/ /\ Fault
       /\ UNCHANGED jenkins

PodStarts(ns) ==
    /\ jenkins[ns] = "starting"
    /\ jenkins' = [jenkins EXCEPT ![ns] = "running"]
    /\ UNCHANGED <<idles, faults>>

IdlePod(ns) ==
    /\ idles < MaxIdles
    /\ jenkins[ns] # "idled"
    /\ jenkins' = [jenkins EXCEPT ![ns] = "idled"]
    /\ idles' = idles + 1
    /\ UNCHANGED faults

(* Somebody else starts a Jenkins: its user, or a build. *)
UserWakes(ns) ==
    /\ jenkins[ns] = "idled"
    /\ jenkins' = [jenkins EXCEPT ![ns] = "starting"]
    /\ UNCHANGED <<idles, faults>>

=============================================================================
