------------------------------ MODULE UIHandler ------------------------------
(***************************************************************************)
(* handleJenkinsUIRequest, the reverse proxy and OnErrorUIRequest: one     *)
(* handler for the request of each tab.                                    *)
(***************************************************************************)
EXTENDS Browser

VARIABLES
    cache,      \* ProxyCache: cookie value -> namespace
    sessions,   \* the sessions each Jenkins knows
    pc,         \* where the handler of each tab's request is
    ns,         \* its namespace
    req         \* its cookies and other local variables

handlerVars == <<cache, sessions, pc, ns, req>>

CONSTANT Denied   \* tabs at a page that Jenkins answers with 403 to any user

ASSUME DeniedAssumption == Denied \subseteq Tabs

NoNs == "none"
ASSUME NoNsAssumption == NoNs \notin Namespaces

Request ==
    [sent : SUBSET Cookie,      \* the cookies of the request
     left : SUBSET Cookie,      \* those the loop has not looked at
     needsAuth : BOOLEAN,
     wrote : BOOLEAN,           \* is the waiting page written already?
     expire : SUBSET Names]     \* cookies the response expires

NewRequest(cookies) ==
    [sent |-> cookies, left |-> cookies, needsAuth |-> TRUE, wrote |-> FALSE,
     expire |-> {}]

Steps == {"idle", "token", "login", "cookies", "probe", "forward", "onError"}

HandlerTypeOK ==
    /\ cache \in [Values -> Namespaces \cup {NoNs}]
    /\ sessions \in [Namespaces -> SUBSET Values]
    /\ pc \in [Tabs -> Steps]
    /\ ns \in [Tabs -> Namespaces \cup {NoNs}]
    /\ req \in [Tabs -> Request]

HandlerInit ==
    /\ cache = [v \in Values |-> NoNs]
    /\ sessions = [n \in Namespaces |-> {}]
    /\ pc = [t \in Tabs |-> "idle"]
    /\ ns = [t \in Tabs |-> NoNs]
    /\ req = [t \in Tabs |-> NewRequest({})]

-----------------------------------------------------------------------------
NamesOf(cookies) == {c.name : c \in cookies}
SessionCookies(cookies) == {c \in cookies : c.name # Idled}

(* A value is held while a cookie with it is stored, is on its way, or is  *)
(* looked at by a handler; a login only looks at names.                    *)
InUse(t) == IF pc[t] \in {"token", "login"} THEN {} ELSE req[t].sent

Held(v) ==
    \E c \in jar \cup UNION {InUse(t) \cup response[t].set : t \in Tabs} :
        c.value = v

Fresh == {v \in Values : /\ ~Held(v)
                         /\ cache[v] = NoNs
                         /\ \A n \in Namespaces : v \notin sessions[n]}

Goto(t, step) == pc' = [pc EXCEPT ![t] = step]

(* The handler returns. Once the waiting page is written, the header with  *)
(* the cookies is out, and a later answer only adds to the page.           *)
Respond(t, answer, expire, set) ==
    /\ response' = [response EXCEPT ![t] =
           IF req[t].wrote
           THEN [answer |-> "waiting", expire |-> req[t].expire, set |-> {}]
           ELSE [answer |-> answer, expire |-> req[t].expire \cup expire,
                 set |-> set]]
    /\ req' = [req EXCEPT ![t] = NewRequest({})]
    /\ Goto(t, "idle")
    /\ UNCHANGED <<jar, tab, xhr>>

HandleError(t) == Respond(t, "error", {}, {})

(* The handler goes on with local variables r. *)
Continue(t, step, r) ==
    /\ req' = [req EXCEPT ![t] = r]
    /\ Goto(t, step)
    /\ UNCHANGED browserVars

Expire(r, names) == IF r.wrote THEN r ELSE [r EXCEPT !.expire = @ \cup names]

(* Jenkins.Start, by the state it returns. Reading the state and waking    *)
(* the pod are one step: between them only others could have woken it. The *)
(* status of the call is 202, or 503 when the cluster has no room.         *)
StartsRunning(n) ==
    /\ jenkins[n] = "running"
    /\ UNCHANGED <<jenkins, faults>>

(* Mutant: the state is read, and an idle pod is left as it is. *)
StartsStopped_NeverWakes(n) ==
    /\ jenkins[n] # "running"
    /\ UNCHANGED <<jenkins, faults>>

StartsStopped(n) ==
    \/ /\ jenkins[n] = "idled"
       /\ UnIdle(n)
    \/ /\ jenkins[n] = "starting"
       /\ UNCHANGED <<jenkins, faults>>

Fails == Fault /\ UNCHANGED jenkins

-----------------------------------------------------------------------------
(* A request with token_json, on the way back from the auth service. *)

ArriveWithToken(t, n) ==
    /\ ns' = [ns EXCEPT ![t] = n]
    /\ req' = [req EXCEPT ![t] = NewRequest(jar)]
    /\ Goto(t, "token")
    /\ UNCHANGED <<cache, sessions, jenkins, idles, faults>>

TokenFails(t) ==
    /\ pc[t] \in {"token", "login"}
    /\ Fails
    /\ HandleError(t)
    /\ UNCHANGED <<cache, sessions, ns, idles>>

(* Mutant: the value of an idled cookie that the browser has is used again. *)
TokenIdled_Reuses(t) ==
    /\ pc[t] = "token"
    /\ StartsStopped(ns[t])
    /\ \E uuid \in Fresh \cup {c.value : c \in req[t].sent \ SessionCookies(req[t].sent)} :
          /\ cache' = [cache EXCEPT ![uuid] = ns[t]]
          /\ Respond(t, "self", NamesOf(SessionCookies(req[t].sent)),
                     {[name |-> Idled, value |-> uuid]})
    /\ UNCHANGED <<sessions, ns, idles>>

TokenIdled(t) ==
    /\ pc[t] = "token"
    /\ StartsStopped(ns[t])
    /\ \E uuid \in Fresh :
          /\ cache' = [cache EXCEPT ![uuid] = ns[t]]
          /\ Respond(t, "self", NamesOf(SessionCookies(req[t].sent)),
                     {[name |-> Idled, value |-> uuid]})
    /\ UNCHANGED <<sessions, ns, idles>>

TokenRunning(t) ==
    /\ pc[t] = "token"
    /\ StartsRunning(ns[t])
    /\ Continue(t, "login", req[t])
    /\ UNCHANGED <<cache, sessions, ns, idles>>

(* Mutant: the session that the browser sent is cached, not the new one. *)
Login_CachesSent(t) ==
    /\ pc[t] = "login"
    /\ jenkins[ns[t]] = "running"
    /\ \E id \in Fresh, name \in SessionNames :
          /\ sessions' = [sessions EXCEPT ![ns[t]] = @ \cup {id}]
          /\ cache' = [v \in Values |->
                 IF \E c \in SessionCookies(req[t].sent) : c.value = v
                 THEN ns[t] ELSE cache[v]]
          /\ Respond(t, "self", NamesOf(req[t].sent),
                     {[name |-> name, value |-> id]})
    /\ UNCHANGED <<jenkins, idles, faults, ns>>

Login(t) ==
    /\ pc[t] = "login"
    /\ jenkins[ns[t]] = "running"
    /\ \E id \in Fresh, name \in SessionNames :
          /\ sessions' = [sessions EXCEPT ![ns[t]] = @ \cup {id}]
          /\ cache' = [cache EXCEPT ![id] = ns[t]]
          /\ Respond(t, "self", NamesOf(req[t].sent),
                     {[name |-> name, value |-> id]})
    /\ UNCHANGED <<jenkins, idles, faults, ns>>

(* Jenkins, or the router in front of it, answers with another status. *)
NotServing(n) ==
    /\ \/ jenkins[n] # "running" /\ Healthy
       \/ jenkins[n] = "running" /\ Fault
    /\ UNCHANGED jenkins

LoginRefused(t) ==
    /\ pc[t] = "login"
    /\ NotServing(ns[t])
    /\ Respond(t, "self", {}, {})
    /\ UNCHANGED <<cache, sessions, ns, idles>>

LoginWithoutSession(t) ==
    /\ pc[t] = "login"
    /\ Fails
    /\ Respond(t, "error", NamesOf(req[t].sent), {})
    /\ UNCHANGED <<cache, sessions, ns, idles>>

-----------------------------------------------------------------------------
(* A request without a token: the loop over its cookies. *)

Arrive(t) ==
    /\ ns' = [ns EXCEPT ![t] = NoNs]
    /\ req' = [req EXCEPT ![t] = NewRequest(jar)]
    /\ Goto(t, "cookies")
    /\ UNCHANGED <<cache, sessions, jenkins, idles, faults>>

Looks(t, c) == pc[t] = "cookies" /\ c \in req[t].left
Rest(t, c) == [req[t] EXCEPT !.left = @ \ {c}]

(* Mutant: the value is expired instead of the name. *)
CookieOld_ExpiresValue(t, c) ==
    /\ Looks(t, c)
    /\ cache[c.value] = NoNs
    /\ Continue(t, "cookies", Expire(Rest(t, c), {c.value}))
    /\ UNCHANGED <<cache, sessions, ns, jenkins, idles, faults>>

CookieOld(t, c) ==
    /\ Looks(t, c)
    /\ cache[c.value] = NoNs
    /\ Continue(t, "cookies", Expire(Rest(t, c), {c.name}))
    /\ UNCHANGED <<cache, sessions, ns, jenkins, idles, faults>>

(* A cached cookie gives the namespace, for either kind. *)
CookieHit(t, c) ==
    /\ Looks(t, c)
    /\ cache[c.value] # NoNs
    /\ ns' = [ns EXCEPT ![t] = cache[c.value]]

StartFails(t, c) ==
    /\ CookieHit(t, c)
    /\ Fails
    /\ HandleError(t)
    /\ UNCHANGED <<cache, sessions, idles>>

SessionRunning(t, c) ==
    /\ CookieHit(t, c)
    /\ c.name # Idled
    /\ StartsRunning(cache[c.value])
    /\ Continue(t, "forward", req[t])
    /\ UNCHANGED <<cache, sessions, idles>>

(* The loop ends here, and the user is sent to the auth service. *)
SessionStopped(t, c) ==
    /\ CookieHit(t, c)
    /\ c.name # Idled
    /\ StartsStopped(cache[c.value])
    /\ cache' = [cache EXCEPT ![c.value] = NoNs]
    /\ Continue(t, "cookies",
                [Expire(req[t], NamesOf(req[t].sent)) EXCEPT !.left = {}])
    /\ UNCHANGED <<sessions, idles>>

IdledWaits(t, c) ==
    /\ CookieHit(t, c)
    /\ c.name = Idled
    /\ StartsStopped(cache[c.value])
    /\ Respond(t, "waiting", {}, {})
    /\ UNCHANGED <<cache, sessions, idles>>

IdledRuns(t, c) ==
    /\ CookieHit(t, c)
    /\ c.name = Idled
    /\ StartsRunning(cache[c.value])
    /\ Continue(t, "probe", [Rest(t, c) EXCEPT !.needsAuth = FALSE])
    /\ UNCHANGED <<cache, sessions, idles>>

(* Mutant: the idled cookie and its cache entry are kept. *)
ProbeServed_KeepsIdled(t) ==
    /\ pc[t] = "probe"
    /\ jenkins[ns[t]] = "running"
    /\ Continue(t, "cookies", req[t])
    /\ UNCHANGED <<cache, sessions, ns, jenkins, idles, faults>>

(* The login without a token that tells whether Jenkins is served yet. *)
ProbeServed(t) ==
    /\ pc[t] = "probe"
    /\ jenkins[ns[t]] = "running"
    /\ \E c \in req[t].sent :
          /\ c.name = Idled
          /\ cache' = [cache EXCEPT ![c.value] = NoNs]
    /\ Continue(t, "cookies", Expire(req[t], NamesOf(req[t].sent)))
    /\ UNCHANGED <<sessions, ns, jenkins, idles, faults>>

ProbeNotServed(t) ==
    /\ pc[t] = "probe"
    /\ NotServing(ns[t])
    /\ Continue(t, "cookies", [req[t] EXCEPT !.wrote = TRUE])
    /\ UNCHANGED <<cache, sessions, ns, idles>>

ProbeFails(t) ==
    /\ pc[t] = "probe"
    /\ Fails
    /\ HandleError(t)
    /\ UNCHANGED <<cache, sessions, ns, idles>>

EndOfCookies(t) ==
    /\ pc[t] = "cookies"
    /\ req[t].left = {}
    /\ IF req[t].needsAuth
       THEN Respond(t, "auth", NamesOf(req[t].sent), {})
       ELSE Respond(t, "blank", {}, {})
    /\ UNCHANGED <<cache, sessions, ns, jenkins, idles, faults>>

-----------------------------------------------------------------------------
(* The reverse proxy. *)

Known(t) == \E c \in req[t].sent : c.value \in sessions[ns[t]]

ForwardPage(t) ==
    /\ pc[t] = "forward"
    /\ jenkins[ns[t]] = "running"
    /\ Known(t)
    /\ t \notin Denied
    /\ Respond(t, "page", {}, {})
    /\ UNCHANGED <<cache, sessions, ns, jenkins, idles, faults>>

ForwardForbidden(t) ==
    /\ pc[t] = "forward"
    /\ jenkins[ns[t]] = "running"
    /\ ~Known(t) \/ t \in Denied
    /\ Continue(t, "onError", req[t])
    /\ UNCHANGED <<cache, sessions, ns, jenkins, idles, faults>>

(* 502, 503, 504, or no answer in time: redirected to the same page. *)
ForwardUnavailable(t) ==
    /\ pc[t] = "forward"
    /\ NotServing(ns[t])
    /\ Respond(t, "self", {}, {})
    /\ UNCHANGED <<cache, sessions, ns, idles>>

InvalidateSession(t) ==
    LET old == SessionCookies(req[t].sent)
    IN /\ cache' = [v \in Values |->
                       IF \E c \in old : c.value = v THEN NoNs ELSE cache[v]]
       /\ Respond(t, "self", NamesOf(old), {})

SeveralSessions(t) == \E c, d \in SessionCookies(req[t].sent) : c # d

OnErrorSeveral(t) ==
    /\ pc[t] = "onError"
    /\ SeveralSessions(t)
    /\ InvalidateSession(t)
    /\ UNCHANGED <<sessions, ns, jenkins, idles, faults>>

(* Mutant: the outcome of the check is inverted. *)
OnErrorValid_Inverted(t) ==
    /\ pc[t] = "onError"
    /\ ~SeveralSessions(t)
    /\ jenkins[ns[t]] = "running"
    /\ Known(t)
    /\ InvalidateSession(t)
    /\ UNCHANGED <<sessions, ns, jenkins, idles, faults>>

(* checkSessionValidity: Jenkins' front page with the session cookie. *)
OnErrorValid(t) ==
    /\ pc[t] = "onError"
    /\ ~SeveralSessions(t)
    /\ jenkins[ns[t]] = "running"
    /\ Known(t)
    /\ Respond(t, "self", {}, {})
    /\ UNCHANGED <<cache, sessions, ns, jenkins, idles, faults>>

(* Mutant: a session that Jenkins does not know is kept. *)
OnErrorInvalid_Keeps(t) ==
    /\ pc[t] = "onError"
    /\ ~SeveralSessions(t)
    /\ jenkins[ns[t]] = "running"
    /\ ~Known(t)
    /\ Respond(t, "self", {}, {})
    /\ UNCHANGED <<cache, sessions, ns, jenkins, idles, faults>>

OnErrorInvalid(t) ==
    /\ pc[t] = "onError"
    /\ ~SeveralSessions(t)
    /\ jenkins[ns[t]] = "running"
    /\ ~Known(t)
    /\ InvalidateSession(t)
    /\ UNCHANGED <<sessions, ns, jenkins, idles, faults>>

OnErrorUnchecked(t) ==
    /\ pc[t] = "onError"
    /\ ~SeveralSessions(t)
    /\ NotServing(ns[t])
    /\ Respond(t, "self", {}, {})
    /\ UNCHANGED <<cache, sessions, ns, idles>>

TokenStep(t) ==
    \/ TokenFails(t) \/ TokenIdled(t) \/ TokenRunning(t)
    \/ Login(t) \/ LoginRefused(t) \/ LoginWithoutSession(t)

CookieStep(t) ==
    \/ \E c \in req[t].left :
          \/ CookieOld(t, c) \/ StartFails(t, c)
          \/ SessionRunning(t, c) \/ SessionStopped(t, c)
          \/ IdledWaits(t, c) \/ IdledRuns(t, c)
    \/ ProbeServed(t) \/ ProbeNotServed(t) \/ ProbeFails(t)
    \/ EndOfCookies(t)

ForwardStep(t) ==
    \/ ForwardPage(t) \/ ForwardForbidden(t) \/ ForwardUnavailable(t)
    \/ OnErrorSeveral(t) \/ OnErrorValid(t)
    \/ OnErrorInvalid(t) \/ OnErrorUnchecked(t)

HandlerStep(t) == TokenStep(t) \/ CookieStep(t) \/ ForwardStep(t)

=============================================================================
