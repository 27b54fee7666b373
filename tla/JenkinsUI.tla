------------------------------ MODULE JenkinsUI ------------------------------
(***************************************************************************)
(* A user's browser in front of the proxy: tabs, handlers and pods         *)
(* together, a cache that forgets, and restarts of the proxy.              *)
(***************************************************************************)
EXTENDS UIHandler

CONSTANT MaxLapses   \* bound: cache entries that expire, and restarts

ASSUME JenkinsUIAssumption == MaxLapses \in Nat

VARIABLE lapses

vars == <<jenkins, faults, idles, jar, tab, xhr, response, cache, sessions,
          pc, ns, req, lapses>>

TypeOK ==
    /\ PodsTypeOK
    /\ BrowserTypeOK
    /\ HandlerTypeOK
    /\ lapses \in 0..MaxLapses

Init ==
    /\ PodsInit
    /\ BrowserInit
    /\ HandlerInit
    /\ lapses = 0

-----------------------------------------------------------------------------
OpenPage(t) ==
    /\ Send(t, "ready", FALSE)
    /\ Arrive(t)
    /\ UNCHANGED lapses

Poll(t) ==
    /\ Send(t, "waiting", TRUE)
    /\ Arrive(t)
    /\ UNCHANGED lapses

(* The user logs in, and the auth service sends the browser back. *)
LogIn(t, n) ==
    /\ Send(t, "auth", FALSE)
    /\ ArriveWithToken(t, n)
    /\ UNCHANGED lapses

Handle(t) == HandlerStep(t) /\ UNCHANGED lapses

Answered(t) ==
    /\ Receive(t)
    /\ UNCHANGED <<podVars, faults, handlerVars, lapses>>

Reload(t) ==
    /\ tab[t] # "shown"
    /\ Browse(t)
    /\ UNCHANGED <<podVars, faults, handlerVars, lapses>>

GoOn(t) ==
    /\ tab[t] = "shown"
    /\ Browse(t)
    /\ UNCHANGED <<podVars, faults, handlerVars, lapses>>

(* An entry of ProxyCache expires 15 minutes after it was set. *)
CacheExpires(v) ==
    /\ lapses < MaxLapses
    /\ cache[v] # NoNs
    /\ cache' = [cache EXCEPT ![v] = NoNs]
    /\ lapses' = lapses + 1
    /\ UNCHANGED <<podVars, faults, browserVars, sessions, pc, ns, req>>

(* Values that no browser holds any more are forgotten, so that finitely   *)
(* many values are enough.                                                 *)
CleanUp(v) ==
    /\ ~Held(v)
    /\ v \notin Fresh
    /\ cache' = [cache EXCEPT ![v] = NoNs]
    /\ sessions' = [n \in Namespaces |-> sessions[n] \ {v}]
    /\ UNCHANGED <<podVars, faults, browserVars, pc, ns, req, lapses>>

(* The proxy restarts: its cache is empty, requests in flight are cut off. *)
Restart ==
    /\ lapses < MaxLapses
    /\ lapses' = lapses + 1
    /\ cache' = [v \in Values |-> NoNs]
    /\ response' = [t \in Tabs |-> IF pc[t] = "idle" THEN response[t]
                                   ELSE [NoResponse EXCEPT !.answer = "error"]]
    /\ req' = [t \in Tabs |-> NewRequest({})]
    /\ pc' = [t \in Tabs |-> "idle"]
    /\ UNCHANGED <<podVars, faults, jar, tab, xhr, sessions, ns>>

(* A pod that is stopped takes its sessions with it. *)
Stop(n) ==
    /\ IdlePod(n)
    /\ sessions' = [sessions EXCEPT ![n] = {}]
    /\ UNCHANGED <<browserVars, cache, pc, ns, req, lapses>>

Comes(n) ==
    /\ PodStarts(n)
    /\ UNCHANGED <<browserVars, handlerVars, lapses>>

Woken(n) ==
    /\ UserWakes(n)
    /\ UNCHANGED <<browserVars, handlerVars, lapses>>

TabStep(t) ==
    \/ OpenPage(t) \/ Poll(t) \/ (\E n \in Namespaces : LogIn(t, n))
    \/ Handle(t) \/ Answered(t) \/ Reload(t)

Next ==
    \/ \E t \in Tabs : TabStep(t) \/ GoOn(t)
    \/ \E v \in Values : CacheExpires(v) \/ CleanUp(v)
    \/ \E n \in Namespaces : Stop(n) \/ Comes(n) \/ Woken(n)
    \/ Restart

Spec == Init /\ [][Next]_vars

(* The proxy, the script and the network get on; a started pod comes up;   *)
(* the user logs in when asked to and reloads a page that went wrong. That *)
(* the calls of Jenkins.Login return is an assumption about Jenkins: login *)
(* and probe use a client without a timeout (jenkins.go:109).              *)
Fairness ==
    /\ \A t \in Tabs : WF_vars(TabStep(t))
    /\ \A v \in Values : WF_vars(CleanUp(v))
    /\ \A n \in Namespaces : WF_vars(Comes(n))

FairSpec == Spec /\ Fairness

-----------------------------------------------------------------------------
(* A tab shows the waiting page only for a Jenkins that the proxy has      *)
(* started; it is idle then only if a call failed or it was idled again    *)
(* (ui_requests.go, the idled cookie).                                     *)
WaitMeansWoken ==
    \A t \in Tabs : tab[t] = "waiting" =>
        /\ ns[t] # NoNs
        /\ jenkins[ns[t]] = "idled" => faults + idles > 0

(* A session is routed to the Jenkins that issued it and to no other: no   *)
(* login, idled cookie or reuse of the cache sends it elsewhere            *)
(* (ProxyCache, ui_requests.go).                                           *)
RoutedToIssuer ==
    \A v \in Values, n \in Namespaces :
        v \in sessions[n] => cache[v] \in {n, NoNs}

(* A session that the user's Jenkins still knows is dropped only because   *)
(* its cache entry expired or the proxy restarted, or by a 403 for a       *)
(* browser with several session cookies (OnErrorUIRequest).                *)
LiveSessionKept ==
    [][\A v \in Values :
          /\ cache[v] # NoNs
          /\ v \in sessions[cache[v]]
          /\ Held(v)
          /\ cache'[v] = NoNs
          => \/ lapses' # lapses
             \/ \E t \in Tabs : pc[t] = "onError" /\ SeveralSessions(t)]_vars

Router == INSTANCE SessionRouter WITH
    route <- cache,
    held  <- {v \in Values : Held(v)}

(* Refinement: a value that the browser holds, or that any handler still   *)
(* looks at, is never routed anew, neither to another Jenkins nor to the   *)
(* same one after it was forgotten, whatever logins, waiting pages, 403s,  *)
(* expiries and restarts come in between (ui_requests.go,                  *)
(* OnErrorUIRequest).                                                      *)
ImplementsRouter == Router!Spec

(* The inductive invariant behind RoutedToIssuer and LiveSessionKept. *)

(* A Jenkins that does not run knows no session. *)
StoppedForgets ==
    \A n \in Namespaces : jenkins[n] # "running" => sessions[n] = {}

OneIssuer ==
    \A v \in Values, m, n \in Namespaces :
        v \in sessions[m] /\ v \in sessions[n] => m = n

(* The value of an idled cookie is no session's. *)
IdledApart ==
    \A t \in Tabs : \A c \in jar \cup InUse(t) \cup response[t].set :
        c.name = Idled => \A n \in Namespaces : c.value \notin sessions[n]

LooksAtSent == \A t \in Tabs : req[t].left \subseteq req[t].sent

(* A handler that talks to a Jenkins knows which; it forwards for a        *)
(* session cookie that is routed there, or is forgotten by now.            *)
KnowsNs ==
    \A t \in Tabs :
        /\ pc[t] \in {"token", "login", "probe", "forward", "onError"} =>
              ns[t] \in Namespaces
        /\ pc[t] \in {"forward", "onError"} =>
              \E c \in SessionCookies(req[t].sent) :
                  cache[c.value] \in {ns[t], NoNs}

IInv ==
    /\ TypeOK
    /\ RoutedToIssuer
    /\ StoppedForgets
    /\ OneIssuer
    /\ IdledApart
    /\ LooksAtSent
    /\ KnowsNs

(* The inductive invariant behind WaitMeansWoken. *)

Woke(n) == n # NoNs /\ (jenkins[n] = "idled" => faults + idles > 0)

(* A tab that waits, or may be told to, has a Jenkins of its own.          *)
Waits(t) ==
    \/ tab[t] = "waiting"
    \/ response[t].answer \in {"self", "waiting"}
    \/ pc[t] \in {"login", "probe", "forward", "onError"}
    \/ req[t].wrote

(* A tab has one request at a time.                                        *)
OneAtATime(t) ==
    /\ tab[t] # "sent" => pc[t] = "idle" /\ response[t].answer = "none"
    /\ pc[t] # "idle" => response[t].answer = "none"

WaitInv == \A t \in Tabs : OneAtATime(t) /\ (Waits(t) => Woke(ns[t]))

(* A user who asks for a page ends up with it, whatever the cookies of the *)
(* browser, the other tabs and the state of Jenkins were: waiting pages,   *)
(* logins and redirects come to an end.                                    *)
ReachesPage ==
    \A t \in Tabs \ Denied : tab[t] = "ready" ~> tab[t] = "shown"

-----------------------------------------------------------------------------
(* What the program says of itself and does not do. *)

(* The answer of Jenkins is proxied back to the client if it arrives in    *)
(* time (reverseproxy.go:14), a 403 as well.                               *)
AnswerProxied ==
    \A t \in Tabs : pc[t] = "forward" ~> tab[t] \in {"shown", "error"}

=============================================================================
