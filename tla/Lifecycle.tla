------------------------------ MODULE Lifecycle ------------------------------
(***************************************************************************)
(* The life of the process, cmd/fabric8-jenkins-proxy/main.go: how it      *)
(* boots, its servers and workers, and how a signal or a server that fails *)
(* stops them all. The requests of the Jenkins API are in flight on one of *)
(* the servers; those of the others are left to the other modules, where a *)
(* process that ends is a crash.                                           *)
(***************************************************************************)
EXTENDS JenkinsAPI

CONSTANTS
    Servers,         \* the API, the Jenkins API, the proxy, the profiler
    JenkinsAPIPort,  \* one of them
    StatsLogger,     \* the worker that logs statistics, not a server
    ShutdownTimeout  \* shutdownTimeout, in seconds

ASSUME LifecycleAssumption ==
    /\ JenkinsAPIPort \in Servers
    /\ StatsLogger \notin Servers
    /\ ShutdownTimeout \in Nat

VARIABLES
    phase,    \* how far the process is
    serving,  \* state of each server
    waiting,  \* workers that the wait group waits for
    context,  \* the context of the workers
    grace     \* seconds since it was cancelled, at most ShutdownTimeout

lifeVars == <<phase, serving, waiting, context, grace>>
vars == <<jenkins, faults, idles, step, op, tenant, answer, started, phase,
          serving, waiting, context, grace>>

Boot == {"connect", "clusters", "start", "notify"}

Workers == Servers \cup {StatsLogger}

TypeOK ==
    /\ APITypeOK
    /\ phase \in Boot \cup {"up", "ended"}
    /\ serving \in [Servers -> {"new", "listening", "closed"}]
    /\ waiting \subseteq Workers
    /\ context \in {"open", "cancelled"}
    /\ grace \in 0..ShutdownTimeout

Init ==
    /\ APIInit
    /\ phase = "connect"
    /\ serving = [s \in Servers |-> "new"]
    /\ waiting = {}
    /\ context = "open"
    /\ grace = 0

-----------------------------------------------------------------------------
(* The process is gone, and with it every request in flight. *)
Exit ==
    /\ phase' = "ended"
    /\ serving' = [s \in Servers |-> "closed"]
    /\ waiting' = {}
    /\ step' = [r \in Requests |-> "idle"]
    /\ op' = [r \in Requests |-> "status"]
    /\ tenant' = [r \in Requests |-> NoNamespace]
    /\ UNCHANGED <<podVars, answer, started, context, grace>>

Become(from, to) == phase = from /\ phase' = to

(* The database and the view of the clusters, each of which is fatal if it *)
(* fails.                                                                  *)
Connect ==
    /\ Become("connect", "clusters")
    /\ UNCHANGED <<podVars, faults, apiVars, serving, waiting, context, grace>>

Clusters ==
    /\ Become("clusters", "start")
    /\ UNCHANGED <<podVars, faults, apiVars, serving, waiting, context, grace>>

BootFails ==
    /\ phase \in {"connect", "clusters"}
    /\ Fault
    /\ Exit

StartWorkers ==
    /\ Become("start", "notify")
    /\ waiting' = Workers
    /\ UNCHANGED <<podVars, faults, apiVars, serving, context, grace>>

SetupSignalChannel ==
    /\ Become("notify", "up")
    /\ UNCHANGED <<podVars, faults, apiVars, serving, waiting, context, grace>>

WorkersRun == phase \in {"notify", "up"}

Listen(s) ==
    /\ WorkersRun
    /\ serving[s] = "new"
    /\ serving' = [serving EXCEPT ![s] = "listening"]
    /\ UNCHANGED <<podVars, faults, apiVars, phase, waiting, context, grace>>

(* Mutant: a server that fails leaves the others alone. *)
ListenAndServeFails_Alone(s) ==
    /\ WorkersRun
    /\ serving[s] # "closed"
    /\ Fault
    /\ serving' = [serving EXCEPT ![s] = "closed"]
    /\ UNCHANGED <<podVars, apiVars, phase, waiting, context, grace>>

(* The port is taken, or a server stops accepting. *)
ListenAndServeFails(s) ==
    /\ WorkersRun
    /\ serving[s] # "closed"
    /\ Fault
    /\ serving' = [serving EXCEPT ![s] = "closed"]
    /\ context' = "cancelled"
    /\ UNCHANGED <<podVars, apiVars, phase, waiting, grace>>

(* A signal that comes before the channel is set up ends the process. *)
SigtermEarly ==
    /\ phase \in Boot
    /\ Exit
    /\ UNCHANGED faults

Sigterm ==
    /\ phase = "up"
    /\ context = "open"
    /\ context' = "cancelled"
    /\ UNCHANGED <<podVars, faults, apiVars, phase, serving, waiting, grace>>

(* A worker sees that the context is cancelled. Shutdown closes the        *)
(* listener; it would wait for the requests, but its own context descends  *)
(* from the cancelled one, so that it returns at once. A server that does  *)
(* not listen yet can still do so afterwards.                              *)
Shutdown(s) ==
    /\ s \in waiting
    /\ context = "cancelled"
    /\ waiting' = waiting \ {s}
    /\ serving' = [serving EXCEPT ![s] = IF @ = "listening" THEN "closed" ELSE @]
    /\ UNCHANGED <<podVars, faults, apiVars, phase, context, grace>>

StopLogging ==
    /\ StatsLogger \in waiting
    /\ context = "cancelled"
    /\ waiting' = waiting \ {StatsLogger}
    /\ UNCHANGED <<podVars, faults, apiVars, phase, serving, context, grace>>

(* Wait returns, and main with it. *)
WaitReturns ==
    /\ phase = "up"
    /\ waiting = {}
    /\ Exit
    /\ UNCHANGED faults

Second ==
    /\ context = "cancelled"
    /\ phase # "ended"
    /\ grace < ShutdownTimeout
    /\ grace' = grace + 1
    /\ UNCHANGED <<podVars, faults, apiVars, phase, serving, waiting, context>>

Lives ==
    \/ Connect \/ Clusters \/ StartWorkers \/ SetupSignalChannel
    \/ \E s \in Servers : Listen(s) \/ Shutdown(s)
    \/ StopLogging
    \/ WaitReturns

Serves ==
    /\ \/ \E r \in Requests :
             \/ Arrive(r) /\ serving[JenkinsAPIPort] = "listening"
             \/ RequestStep(r)
       \/ PodsStep
    /\ UNCHANGED lifeVars

Next ==
    \/ Lives
    \/ Serves
    \/ BootFails
    \/ \E s \in Servers : ListenAndServeFails(s)
    \/ SigtermEarly \/ Sigterm
    \/ Second

Spec == Init /\ [][Next]_vars

(* main and its goroutines run, and the calls of a request return, those   *)
(* to the idler, the tenant and the auth service by their timeout. Nothing *)
(* need come from outside: no request, no signal, no failure.              *)
FairSpec ==
    /\ Spec
    /\ WF_vars(Lives)
    /\ \A s \in Servers : WF_vars(Listen(s)) /\ WF_vars(Shutdown(s))
    /\ \A r \in Requests : WF_vars(RequestStep(r) /\ UNCHANGED lifeVars)

-----------------------------------------------------------------------------
(* The process is never half up for good: if the context is cancelled or a *)
(* server does not serve any more, whenever that happens, the process ends *)
(* and can be restarted as a whole (listenAndServe, startWorkers).         *)
AllOrNothing ==
    (context = "cancelled" \/ \E s \in Servers : serving[s] = "closed")
        ~> phase = "ended"

(* Every request is over in the end, answered or cut. *)
RequestsEnd == \A r \in Requests : step[r] # "idle" ~> step[r] = "idle"

-----------------------------------------------------------------------------
(* main_test.go: "API router should shutdown gracefully", for which main.go *)
(* has shutdownTimeout. When the process ends in order, a request in flight *)
(* is cut only after that time.                                             *)
GracefulShutdown ==
    [][WaitReturns /\ (\E r \in Requests : step[r] # "idle")
           => grace = ShutdownTimeout]_vars

=============================================================================
