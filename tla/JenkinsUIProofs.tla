--------------------------- MODULE JenkinsUIProofs ---------------------------
(***************************************************************************)
(* Proofs about JenkinsUI, for any number of tabs, tenants and cookies.    *)
(***************************************************************************)
EXTENDS JenkinsUI, TLAPS

-----------------------------------------------------------------------------
(* Types: what each helper of the handlers leaves behind. *)

LEMMA NamesType ==
    ASSUME NEW cookies \in SUBSET Cookie
    PROVE  /\ NamesOf(cookies) \in SUBSET Names
           /\ SessionCookies(cookies) \in SUBSET Cookie
BY DEF NamesOf, SessionCookies, Cookie

LEMMA NewRequestType ==
    ASSUME NEW cookies \in SUBSET Cookie
    PROVE  NewRequest(cookies) \in Request
BY DEF NewRequest, Request

(* The local part of the types: what a handler's return or its going on    *)
(* can change.                                                             *)
LocalTypeOK ==
    /\ BrowserTypeOK
    /\ pc \in [Tabs -> Steps]
    /\ req \in [Tabs -> Request]

LEMMA RespondType ==
    ASSUME LocalTypeOK, NEW t \in Tabs, NEW answer \in Answers,
           NEW expire \in SUBSET Names, NEW set \in SUBSET Cookie,
           Respond(t, answer, expire, set)
    PROVE  LocalTypeOK'
<1>1. req[t] \in Request
    BY DEF LocalTypeOK
<1>2. req[t].expire \in SUBSET Names
    BY <1>1 DEF Request
<1> DEFINE R == [answer : Answers, expire : SUBSET Names, set : SUBSET Cookie]
           r == IF req[t].wrote
                THEN [answer |-> "waiting", expire |-> req[t].expire, set |-> {}]
                ELSE [answer |-> answer, expire |-> req[t].expire \cup expire,
                      set |-> set]
<1>3. r \in R
    BY <1>2 DEF Answers
<1>4. response' = [response EXCEPT ![t] = r]
    BY DEF Respond
<1>5. response \in [Tabs -> R]
    BY DEF LocalTypeOK, BrowserTypeOK
<1>6. response' \in [Tabs -> R]
    BY <1>3, <1>4, <1>5
<1>7. pc' \in [Tabs -> Steps]
    BY DEF Respond, Goto, LocalTypeOK, Steps
<1>8. req' \in [Tabs -> Request]
    <2>1. NewRequest({}) \in Request
        BY NewRequestType
    <2> QED BY <2>1 DEF Respond, LocalTypeOK
<1> QED BY <1>6, <1>7, <1>8 DEF Respond, LocalTypeOK, BrowserTypeOK

LEMMA ContinueType ==
    ASSUME LocalTypeOK, NEW t \in Tabs, NEW step \in Steps, NEW r \in Request,
           Continue(t, step, r)
    PROVE  LocalTypeOK'
BY DEF Continue, Goto, LocalTypeOK, browserVars, BrowserTypeOK

LEMMA ExpireType ==
    ASSUME NEW r \in Request, NEW names \in SUBSET Names
    PROVE  Expire(r, names) \in Request
BY DEF Expire, Request

LEMMA TypeSplit ==
    TypeOK <=> /\ PodsTypeOK
               /\ LocalTypeOK
               /\ cache \in [Values -> Namespaces \cup {NoNs}]
               /\ sessions \in [Namespaces -> SUBSET Values]
               /\ ns \in [Tabs -> Namespaces \cup {NoNs}]
               /\ lapses \in 0..MaxLapses
BY DEF TypeOK, LocalTypeOK, HandlerTypeOK

(* A step of a handler can only spend a fault and wake a pod. *)
PodsKept ==
    /\ faults' \in {faults, faults + 1}
    /\ UNCHANGED idles
    /\ \A n \in Namespaces :
          \/ jenkins'[n] = jenkins[n]
          \/ jenkins[n] = "idled" /\ jenkins'[n] = "starting"

LEMMA HandlerPods ==
    ASSUME TypeOK, NEW t \in Tabs, HandlerStep(t)
    PROVE  PodsKept /\ PodsTypeOK'
<1> USE DEF TypeOK, PodsTypeOK, PodsKept, PodStates
<1>1. CASE UNCHANGED <<jenkins, faults, idles>>
    BY <1>1
<1>2. CASE Fails /\ UNCHANGED idles
    BY <1>2, PodsAssumption DEF Fails, Fault
<1>3. ASSUME NEW n, StartsStopped(n), UNCHANGED idles
      PROVE  PodsKept /\ PodsTypeOK'
    BY <1>3, PodsAssumption DEF StartsStopped, UnIdle, Healthy, Fault
<1>4. ASSUME NEW n, NotServing(n), UNCHANGED idles
      PROVE  PodsKept /\ PodsTypeOK'
    BY <1>4, PodsAssumption DEF NotServing, Healthy, Fault
<1>5. \/ UNCHANGED <<jenkins, faults, idles>>
      \/ Fails /\ UNCHANGED idles
      \/ \E n : StartsStopped(n) /\ UNCHANGED idles
      \/ \E n : NotServing(n) /\ UNCHANGED idles
    <2>1. CASE TokenStep(t)
        BY <2>1 DEF TokenStep, TokenFails, TokenIdled, TokenRunning, Login,
           LoginRefused, LoginWithoutSession, StartsRunning
    <2>2. CASE CookieStep(t)
        <3>1. ASSUME NEW c, \/ CookieOld(t, c) \/ StartFails(t, c)
                            \/ SessionRunning(t, c) \/ SessionStopped(t, c)
                            \/ IdledWaits(t, c) \/ IdledRuns(t, c)
              PROVE  \/ UNCHANGED <<jenkins, faults, idles>>
                     \/ Fails /\ UNCHANGED idles
                     \/ \E n : StartsStopped(n) /\ UNCHANGED idles
            BY <3>1 DEF CookieOld, StartFails, SessionRunning, SessionStopped,
               IdledWaits, IdledRuns, StartsRunning
        <3> QED
            BY <2>2, <3>1 DEF CookieStep, ProbeServed, ProbeNotServed,
               ProbeFails, EndOfCookies
    <2>3. CASE ForwardStep(t)
        BY <2>3 DEF ForwardStep, ForwardPage, ForwardForbidden,
           ForwardUnavailable, OnErrorSeveral, OnErrorValid, OnErrorInvalid,
           OnErrorUnchecked
    <2> QED
        BY <2>1, <2>2, <2>3 DEF HandlerStep
<1> QED
    BY <1>1, <1>2, <1>3, <1>4, <1>5

(* The cookies of a handler's request, as far as it looks at them. *)
LEMMA RequestParts ==
    ASSUME LocalTypeOK, NEW t \in Tabs
    PROVE  /\ req[t] \in Request
           /\ req[t].sent \in SUBSET Cookie
           /\ req[t].left \in SUBSET Cookie
           /\ NamesOf(req[t].sent) \in SUBSET Names
           /\ NamesOf(SessionCookies(req[t].sent)) \in SUBSET Names
<1>1. req[t] \in Request
    BY DEF LocalTypeOK
<1>2. req[t].sent \in SUBSET Cookie /\ req[t].left \in SUBSET Cookie
    BY <1>1 DEF Request
<1> QED
    BY <1>1, <1>2, NamesType

LEMMA HandlerLocal ==
    ASSUME TypeOK, NEW t \in Tabs, HandlerStep(t)
    PROVE  LocalTypeOK'
<1>0. LocalTypeOK
    BY TypeSplit
<1>1. /\ req[t] \in Request
      /\ NamesOf(req[t].sent) \in SUBSET Names
      /\ NamesOf(SessionCookies(req[t].sent)) \in SUBSET Names
      /\ {} \in SUBSET Names
      /\ {} \in SUBSET Cookie
      /\ Answers = {"none", "self", "auth", "waiting", "blank", "page", "error"}
    BY <1>0, RequestParts DEF Answers
<1>2. /\ req[t].sent \in SUBSET Cookie
      /\ req[t].left \in SUBSET Cookie
    BY <1>0, RequestParts
<1>3. CASE TokenStep(t)
    <2>1. CASE TokenFails(t)
        BY <2>1, <1>0, <1>1, RespondType DEF TokenFails, HandleError
    <2>2. CASE TokenIdled(t)
        <3>1. PICK uuid \in Fresh :
                  Respond(t, "self", NamesOf(SessionCookies(req[t].sent)),
                          {[name |-> Idled, value |-> uuid]})
            BY <2>2 DEF TokenIdled
        <3>2. {[name |-> Idled, value |-> uuid]} \in SUBSET Cookie
            BY DEF Fresh, Cookie, Names
        <3> QED
            BY <3>1, <3>2, <1>0, <1>1, RespondType
    <2>3. CASE TokenRunning(t)
        BY <2>3, <1>0, <1>1, ContinueType DEF TokenRunning, Steps
    <2>4. CASE Login(t)
        <3>1. PICK id \in Fresh, name \in SessionNames :
                  Respond(t, "self", NamesOf(req[t].sent),
                          {[name |-> name, value |-> id]})
            BY <2>4 DEF Login
        <3>2. {[name |-> name, value |-> id]} \in SUBSET Cookie
            BY DEF Fresh, Cookie, Names
        <3> QED
            BY <3>1, <3>2, <1>0, <1>1, RespondType
    <2>5. CASE LoginRefused(t) \/ LoginWithoutSession(t)
        BY <2>5, <1>0, <1>1, RespondType DEF LoginRefused, LoginWithoutSession
    <2> QED
        BY <1>3, <2>1, <2>2, <2>3, <2>4, <2>5 DEF TokenStep
<1>4. ASSUME NEW c \in req[t].left,
             \/ CookieOld(t, c) \/ StartFails(t, c)
             \/ SessionRunning(t, c) \/ SessionStopped(t, c)
             \/ IdledWaits(t, c) \/ IdledRuns(t, c)
      PROVE  LocalTypeOK'
    <2>1. Rest(t, c) \in Request
        BY <1>1 DEF Rest, Request
    <2>2. CASE CookieOld(t, c)
        <3>1. {c.name} \in SUBSET Names
            BY <1>2 DEF Cookie
        <3>2. Expire(Rest(t, c), {c.name}) \in Request
            BY <2>1, <3>1, ExpireType
        <3> QED
            BY <2>2, <3>2, <1>0, ContinueType DEF CookieOld, Steps
    <2>3. CASE StartFails(t, c) \/ IdledWaits(t, c)
        BY <2>3, <1>0, <1>1, RespondType DEF StartFails, HandleError, IdledWaits
    <2>4. CASE SessionRunning(t, c)
        BY <2>4, <1>0, <1>1, ContinueType DEF SessionRunning, Steps
    <2>5. CASE SessionStopped(t, c)
        <3> DEFINE e == Expire(req[t], NamesOf(req[t].sent))
        <3>1. e \in Request
            BY <1>1, ExpireType
        <3>2. [e EXCEPT !.left = {}] \in Request
            BY <3>1 DEF Request
        <3> QED
            BY <2>5, <3>2, <1>0, ContinueType DEF SessionStopped, Steps
    <2>6. CASE IdledRuns(t, c)
        <3>1. [Rest(t, c) EXCEPT !.needsAuth = FALSE] \in Request
            BY <2>1 DEF Request
        <3> QED
            BY <2>6, <3>1, <1>0, ContinueType DEF IdledRuns, Steps
    <2> QED
        BY <1>4, <2>2, <2>3, <2>4, <2>5, <2>6
<1>5. CASE CookieStep(t)
    <2>1. CASE ProbeServed(t)
        <3>1. Expire(req[t], NamesOf(req[t].sent)) \in Request
            BY <1>1, ExpireType
        <3> QED
            BY <2>1, <3>1, <1>0, ContinueType DEF ProbeServed, Steps
    <2>2. CASE ProbeNotServed(t)
        <3>1. [req[t] EXCEPT !.wrote = TRUE] \in Request
            BY <1>1 DEF Request
        <3> QED
            BY <2>2, <3>1, <1>0, ContinueType DEF ProbeNotServed, Steps
    <2>3. CASE ProbeFails(t) \/ EndOfCookies(t)
        BY <2>3, <1>0, <1>1, RespondType DEF ProbeFails, HandleError, EndOfCookies
    <2> QED
        BY <1>4, <1>5, <2>1, <2>2, <2>3 DEF CookieStep
<1>6. CASE ForwardStep(t)
    <2>1. CASE ForwardForbidden(t)
        BY <2>1, <1>0, <1>1, ContinueType DEF ForwardForbidden, Steps
    <2>2. CASE ~ForwardForbidden(t)
        BY <2>2, <1>6, <1>0, <1>1, RespondType DEF ForwardStep, ForwardPage,
           ForwardUnavailable, OnErrorSeveral, OnErrorValid, OnErrorInvalid,
           OnErrorUnchecked, InvalidateSession
    <2> QED
        BY <2>1, <2>2
<1> QED
    BY <1>3, <1>5, <1>6 DEF HandlerStep

(* What a step does to the cache and to the sessions of the Jenkinses: it  *)
(* issues a fresh value, or it only forgets.                               *)
Issues(t, v, new) ==
    /\ v \in Fresh
    /\ cache' = [cache EXCEPT ![v] = ns[t]]
    /\ IF new
       THEN /\ sessions' = [sessions EXCEPT ![ns[t]] = @ \cup {v}]
            /\ jenkins[ns[t]] = "running"
            /\ UNCHANGED jenkins
       ELSE UNCHANGED sessions

Forgets ==
    /\ cache' \in [Values -> Namespaces \cup {NoNs}]
    /\ sessions' \in [Namespaces -> SUBSET Values]
    /\ \A v \in Values : cache'[v] \in {cache[v], NoNs}
    /\ \A n \in Namespaces : sessions'[n] \subseteq sessions[n]

LEMMA HandlerForgets ==
    ASSUME TypeOK, NEW t \in Tabs, HandlerStep(t),
           ~TokenIdled(t), ~Login(t)
    PROVE  Forgets
<1>0. /\ cache \in [Values -> Namespaces \cup {NoNs}]
      /\ sessions \in [Namespaces -> SUBSET Values]
    BY TypeSplit
<1>1. CASE UNCHANGED <<cache, sessions>>
    BY <1>0, <1>1 DEF Forgets
<1>2. ASSUME NEW c, cache' = [cache EXCEPT ![c.value] = NoNs],
             UNCHANGED sessions
      PROVE  Forgets
    BY <1>0, <1>2 DEF Forgets
<1>3. CASE InvalidateSession(t) /\ UNCHANGED sessions
    BY <1>0, <1>3 DEF Forgets, InvalidateSession
<1>4. CASE TokenStep(t)
    BY <1>1, <1>4 DEF TokenStep, TokenFails, TokenRunning, LoginRefused,
       LoginWithoutSession
<1>5. CASE CookieStep(t)
    BY <1>1, <1>2, <1>5 DEF CookieStep, CookieOld, StartFails, SessionRunning,
       SessionStopped, IdledWaits, IdledRuns, ProbeServed, ProbeNotServed,
       ProbeFails, EndOfCookies
<1>6. CASE ForwardStep(t)
    BY <1>1, <1>3, <1>6 DEF ForwardStep, ForwardPage, ForwardForbidden,
       ForwardUnavailable, OnErrorSeveral, OnErrorValid, OnErrorInvalid,
       OnErrorUnchecked
<1> QED
    BY <1>4, <1>5, <1>6 DEF HandlerStep

LEMMA HandlerIssues ==
    ASSUME NEW t \in Tabs, TokenIdled(t) \/ Login(t)
    PROVE  \E v \in Values, new \in BOOLEAN : Issues(t, v, new)
<1>1. CASE TokenIdled(t)
    <2>1. PICK v \in Fresh : cache' = [cache EXCEPT ![v] = ns[t]]
        BY <1>1 DEF TokenIdled
    <2>2. Issues(t, v, FALSE)
        BY <1>1, <2>1 DEF Issues, TokenIdled
    <2> QED
        BY <2>2 DEF Fresh
<1>2. CASE Login(t)
    <2>1. PICK v \in Fresh :
              /\ sessions' = [sessions EXCEPT ![ns[t]] = @ \cup {v}]
              /\ cache' = [cache EXCEPT ![v] = ns[t]]
        BY <1>2 DEF Login
    <2>2. Issues(t, v, TRUE)
        BY <1>2, <2>1 DEF Issues, Login
    <2> QED
        BY <2>2 DEF Fresh
<1> QED
    BY <1>1, <1>2

(* A handler's namespace is the one it arrived with until a cookie gives it. *)
LEMMA HandlerNs ==
    ASSUME TypeOK, NEW t \in Tabs, HandlerStep(t)
    PROVE  \/ UNCHANGED ns
           \/ \E c \in req[t].left : CookieHit(t, c)
<1>1. CASE TokenStep(t)
    BY <1>1 DEF TokenStep, TokenFails, TokenIdled, TokenRunning, Login,
       LoginRefused, LoginWithoutSession
<1>2. CASE CookieStep(t)
    BY <1>2 DEF CookieStep, CookieOld, StartFails, SessionRunning,
       SessionStopped, IdledWaits, IdledRuns, ProbeServed, ProbeNotServed,
       ProbeFails, EndOfCookies
<1>3. CASE ForwardStep(t)
    BY <1>3 DEF ForwardStep, ForwardPage, ForwardForbidden,
       ForwardUnavailable, OnErrorSeveral, OnErrorValid, OnErrorInvalid,
       OnErrorUnchecked
<1> QED
    BY <1>1, <1>2, <1>3 DEF HandlerStep

LEMMA HandlerType ==
    ASSUME TypeOK, NEW t \in Tabs, Handle(t)
    PROVE  TypeOK'
<1>0. /\ HandlerStep(t)
      /\ lapses' = lapses
    BY DEF Handle
<1>1. PodsTypeOK'
    BY <1>0, HandlerPods
<1>2. LocalTypeOK'
    BY <1>0, HandlerLocal
<1>3. /\ cache \in [Values -> Namespaces \cup {NoNs}]
      /\ sessions \in [Namespaces -> SUBSET Values]
      /\ ns \in [Tabs -> Namespaces \cup {NoNs}]
      /\ lapses \in 0..MaxLapses
    BY TypeSplit
<1>4. /\ cache' \in [Values -> Namespaces \cup {NoNs}]
      /\ sessions' \in [Namespaces -> SUBSET Values]
    <2>1. CASE Forgets
        BY <2>1 DEF Forgets
    <2>2. ASSUME NEW v \in Values, NEW new \in BOOLEAN, Issues(t, v, new)
          PROVE  /\ cache' \in [Values -> Namespaces \cup {NoNs}]
                 /\ sessions' \in [Namespaces -> SUBSET Values]
        BY <1>3, <2>2 DEF Issues
    <2> QED
        BY <1>0, <2>1, <2>2, HandlerForgets, HandlerIssues
<1>5. ns' \in [Tabs -> Namespaces \cup {NoNs}]
    <2>1. CASE UNCHANGED ns
        BY <1>3, <2>1
    <2>2. ASSUME NEW c \in req[t].left, CookieHit(t, c)
          PROVE  ns' \in [Tabs -> Namespaces \cup {NoNs}]
        <3>1. c.value \in Values
            BY RequestParts, TypeSplit DEF Cookie
        <3> QED
            BY <1>3, <2>2, <3>1 DEF CookieHit
    <2> QED
        BY <1>0, <2>1, <2>2, HandlerNs
<1> QED
    BY <1>0, <1>1, <1>2, <1>3, <1>4, <1>5 DEF TypeOK, LocalTypeOK, HandlerTypeOK

LEMMA TypeInit == Init => TypeOK
<1> SUFFICES ASSUME Init PROVE TypeOK
    OBVIOUS
<1>1. PodsTypeOK
    BY PodsAssumption DEF Init, PodsInit, PodsTypeOK
<1>2. BrowserTypeOK
    BY DEF Init, BrowserInit, BrowserTypeOK, NoResponse, Answers, TabStates
<1>3. HandlerTypeOK
    BY NewRequestType DEF Init, HandlerInit, HandlerTypeOK, Steps
<1> QED
    BY <1>1, <1>2, <1>3, JenkinsUIAssumption DEF Init, TypeOK

LEMMA TypeStep ==
    ASSUME TypeOK, [Next]_vars
    PROVE  TypeOK'
<1>0. /\ PodsTypeOK
      /\ LocalTypeOK
      /\ cache \in [Values -> Namespaces \cup {NoNs}]
      /\ sessions \in [Namespaces -> SUBSET Values]
      /\ ns \in [Tabs -> Namespaces \cup {NoNs}]
      /\ lapses \in 0..MaxLapses
    BY TypeSplit
<1>1. ASSUME NEW t \in Tabs, OpenPage(t) \/ Poll(t)
      PROVE  TypeOK'
    <2>0. /\ Arrive(t)
          /\ UNCHANGED <<jar, response>>
          /\ tab' = [tab EXCEPT ![t] = "sent"]
          /\ \E script \in BOOLEAN : xhr' = [xhr EXCEPT ![t] = script]
        BY <1>1 DEF OpenPage, Poll, Send
    <2>1. LocalTypeOK'
        <3>1. NewRequest(jar) \in Request
            BY <1>0, NewRequestType DEF LocalTypeOK, BrowserTypeOK
        <3> QED
            BY <1>0, <2>0, <3>1 DEF Arrive, Goto, LocalTypeOK, BrowserTypeOK,
               TabStates, Steps
    <2> QED
        BY <1>0, <1>1, <2>1 DEF TypeOK, LocalTypeOK, HandlerTypeOK,
           OpenPage, Poll, Send, Arrive, PodsTypeOK
<1>2. ASSUME NEW t \in Tabs, NEW n \in Namespaces, LogIn(t, n)
      PROVE  TypeOK'
    <2>1. LocalTypeOK'
        BY <1>0, <1>2, NewRequestType DEF LogIn, Send, ArriveWithToken, Goto,
           LocalTypeOK, BrowserTypeOK, TabStates, Steps
    <2> QED
        BY <1>0, <1>2, <2>1 DEF TypeOK, LocalTypeOK, HandlerTypeOK,
           LogIn, Send, ArriveWithToken, PodsTypeOK
<1>3. ASSUME NEW t \in Tabs, Answered(t)
      PROVE  TypeOK'
    <2>1. response[t] \in [answer : Answers, expire : SUBSET Names,
                           set : SUBSET Cookie]
        BY <1>0 DEF LocalTypeOK, BrowserTypeOK
    <2>2. jar' \subseteq Cookie
        BY <1>0, <1>3, <2>1 DEF Answered, Receive, Stored, LocalTypeOK,
           BrowserTypeOK
    <2>3. tab' \in [Tabs -> TabStates]
        <3>1. response[t].answer \in {"self", "auth", "waiting", "blank",
                                      "page", "error"}
            BY <1>3, <2>1 DEF Answered, Receive, Answers
        <3>2. ScriptDoes[response[t].answer] \in TabStates
            BY <3>1 DEF ScriptDoes, TabStates
        <3>3. PageShows[response[t].answer] \in TabStates
            BY <3>1 DEF PageShows, TabStates
        <3> QED
            BY <1>0, <1>3, <3>2, <3>3 DEF Answered, Receive, LocalTypeOK,
               BrowserTypeOK
    <2>4. LocalTypeOK'
        BY <1>0, <1>3, <2>2, <2>3 DEF Answered, Receive, LocalTypeOK,
           BrowserTypeOK, NoResponse, Answers, handlerVars
    <2> QED
        BY <1>0, <1>3, <2>4 DEF TypeOK, LocalTypeOK, HandlerTypeOK,
           Answered, PodsTypeOK, podVars, handlerVars
<1>4. ASSUME NEW t \in Tabs, Reload(t) \/ GoOn(t)
      PROVE  TypeOK'
    <2>1. LocalTypeOK'
        BY <1>0, <1>4 DEF Reload, GoOn, Browse, LocalTypeOK, BrowserTypeOK,
           TabStates, handlerVars
    <2> QED
        BY <1>0, <1>4, <2>1 DEF TypeOK, LocalTypeOK, HandlerTypeOK,
           Reload, GoOn, PodsTypeOK, podVars, handlerVars
<1>5. ASSUME NEW v \in Values, CacheExpires(v) \/ CleanUp(v)
      PROVE  TypeOK'
    <2>1. LocalTypeOK' /\ PodsTypeOK'
        BY <1>0, <1>5 DEF CacheExpires, CleanUp, LocalTypeOK, BrowserTypeOK,
           browserVars, PodsTypeOK, podVars
    <2>2. cache' \in [Values -> Namespaces \cup {NoNs}]
        BY <1>0, <1>5 DEF CacheExpires, CleanUp
    <2>3. sessions' \in [Namespaces -> SUBSET Values]
        BY <1>0, <1>5 DEF CacheExpires, CleanUp
    <2>4. ns' = ns /\ lapses' \in 0..MaxLapses
        BY <1>0, <1>5, JenkinsUIAssumption DEF CacheExpires, CleanUp
    <2> QED
        BY <1>0, <2>1, <2>2, <2>3, <2>4 DEF TypeOK, LocalTypeOK, HandlerTypeOK
<1>6. CASE Restart
    <2>1. \A t \in Tabs :
             [NoResponse EXCEPT !.answer = "error"] \in
                 [answer : Answers, expire : SUBSET Names, set : SUBSET Cookie]
        BY DEF NoResponse, Answers
    <2>2. LocalTypeOK'
        BY <1>0, <1>6, <2>1, NewRequestType DEF Restart, LocalTypeOK,
           BrowserTypeOK, Steps
    <2> QED
        BY <1>0, <1>6, <2>2, JenkinsUIAssumption
           DEF TypeOK, LocalTypeOK, HandlerTypeOK, Restart, PodsTypeOK, podVars
<1>7. ASSUME NEW n \in Namespaces, Stop(n) \/ Comes(n) \/ Woken(n)
      PROVE  TypeOK'
    <2>1. PodsTypeOK'
        BY <1>0, <1>7, PodsAssumption DEF Stop, Comes, Woken, IdlePod,
           PodStarts, UserWakes, PodsTypeOK, PodStates
    <2>2. LocalTypeOK'
        BY <1>0, <1>7 DEF Stop, Comes, Woken, LocalTypeOK, BrowserTypeOK,
           browserVars, handlerVars
    <2> QED
        BY <1>0, <1>7, <2>1, <2>2 DEF TypeOK, LocalTypeOK, HandlerTypeOK,
           Stop, Comes, Woken, handlerVars
<1>8. CASE UNCHANGED vars
    BY <1>8 DEF vars, TypeOK, PodsTypeOK, BrowserTypeOK, HandlerTypeOK
<1> QED
    BY <1>1, <1>2, <1>3, <1>4, <1>5, <1>6, <1>7, <1>8, HandlerType
       DEF Next, TabStep

(* Whatever the tabs, the pods and the proxy do, the state stays typed.    *)
THEOREM TypeCorrect == Spec => []TypeOK
<1>1. Init => TypeOK
    BY TypeInit
<1>2. TypeOK /\ [Next]_vars => TypeOK'
    BY TypeStep
<1> QED
    BY <1>1, <1>2, PTL DEF Spec

-----------------------------------------------------------------------------
(* The cookies: what a handler leaves in the browser's hands and its own.  *)

Token == {"token", "login"}

Frame(t) ==
    /\ UNCHANGED jar
    /\ \A u \in Tabs : u # t => /\ pc'[u] = pc[u]
                                /\ req'[u] = req[u]
                                /\ response'[u] = response[u]

Returns(t, set) ==
    /\ pc'[t] = "idle"
    /\ req'[t] = NewRequest({})
    /\ response'[t].set \subseteq set

GoesOn(t) ==
    /\ UNCHANGED response
    /\ req'[t].sent = req[t].sent
    /\ req'[t].left \subseteq req[t].left
    /\ pc[t] \in Token <=> pc'[t] \in Token

LEMMA RespondMoves ==
    ASSUME LocalTypeOK, NEW t \in Tabs, NEW answer, NEW expire, NEW set,
           Respond(t, answer, expire, set)
    PROVE  Frame(t) /\ Returns(t, set)
BY DEF Respond, Goto, Frame, Returns, LocalTypeOK, BrowserTypeOK

LEMMA ContinueMoves ==
    ASSUME LocalTypeOK, NEW t \in Tabs, NEW step, NEW r,
           r.sent = req[t].sent, r.left \subseteq req[t].left,
           pc[t] \in Token <=> step \in Token,
           Continue(t, step, r)
    PROVE  Frame(t) /\ GoesOn(t)
BY DEF Continue, Goto, Frame, GoesOn, LocalTypeOK, browserVars

LEMMA ExpireKeeps ==
    ASSUME NEW r \in Request, NEW names
    PROVE  /\ Expire(r, names).sent = r.sent
           /\ Expire(r, names).left = r.left
BY DEF Expire, Request

(* Only a login and an idled cookie put a value into the browser.          *)
LEMMA HandlerMoves ==
    ASSUME TypeOK, NEW t \in Tabs, HandlerStep(t),
           ~TokenIdled(t), ~Login(t)
    PROVE  /\ Forgets
           /\ Frame(t)
           /\ Returns(t, {}) \/ GoesOn(t)
<1>0. LocalTypeOK /\ req[t] \in Request
    BY TypeSplit, RequestParts
<1>1. Forgets
    BY HandlerForgets
<1> DEFINE Moves == Frame(t) /\ (Returns(t, {}) \/ GoesOn(t))
<1>2. ASSUME NEW answer, NEW expire, Respond(t, answer, expire, {})
      PROVE  Moves
    BY <1>0, <1>2, RespondMoves
<1>3. ASSUME NEW step, NEW r, Continue(t, step, r), r.sent = req[t].sent,
             r.left \subseteq req[t].left, pc[t] \in Token <=> step \in Token
      PROVE  Moves
    BY <1>0, <1>3, ContinueMoves
<1> HIDE DEF Moves
<1>4. ASSUME TokenStep(t) PROVE Moves
    BY <1>4, <1>2, <1>3 DEF TokenStep, TokenFails, HandleError, TokenRunning,
       LoginRefused, LoginWithoutSession, Token
<1>5. ASSUME NEW c \in req[t].left,
             \/ CookieOld(t, c) \/ StartFails(t, c)
             \/ SessionRunning(t, c) \/ SessionStopped(t, c)
             \/ IdledWaits(t, c) \/ IdledRuns(t, c)
      PROVE  Moves
    <2>0. /\ Rest(t, c) \in Request
          /\ Rest(t, c).sent = req[t].sent
          /\ Rest(t, c).left \subseteq req[t].left
        BY <1>0 DEF Rest, Request
    <2>1. ASSUME CookieOld(t, c) PROVE Moves
        <3> DEFINE r == Expire(Rest(t, c), {c.name})
        <3>1. r.sent = req[t].sent /\ r.left \subseteq req[t].left
            BY <2>0, ExpireKeeps
        <3>2. pc[t] = "cookies" /\ Continue(t, "cookies", r)
            BY <2>1 DEF CookieOld, Looks
        <3> QED
            BY <3>1, <3>2, <1>3
    <2>2. ASSUME StartFails(t, c) \/ IdledWaits(t, c) PROVE Moves
        BY <2>2, <1>2 DEF StartFails, HandleError, IdledWaits
    <2>3. ASSUME SessionRunning(t, c) PROVE Moves
        BY <2>3, <1>3 DEF SessionRunning, CookieHit, Looks, Token
    <2>4. ASSUME SessionStopped(t, c) PROVE Moves
        <3> DEFINE r == [Expire(req[t], NamesOf(req[t].sent))
                             EXCEPT !.left = {}]
        <3>1. r.sent = req[t].sent /\ r.left \subseteq req[t].left
            <4>1. r.sent = Expire(req[t], NamesOf(req[t].sent)).sent
                OBVIOUS
            <4>2. r.left = {} \/ r.left = req[t].left
                BY <1>0 DEF Expire, Request
            <4> QED
                BY <1>0, <4>1, <4>2, ExpireKeeps
        <3>2. pc[t] = "cookies" /\ Continue(t, "cookies", r)
            BY <2>4 DEF SessionStopped, CookieHit, Looks
        <3> QED
            BY <3>1, <3>2, <1>3
    <2>5. ASSUME IdledRuns(t, c) PROVE Moves
        <3> DEFINE r == [Rest(t, c) EXCEPT !.needsAuth = FALSE]
        <3>1. r.sent = req[t].sent /\ r.left \subseteq req[t].left
            BY <2>0 DEF Request
        <3>2. pc[t] = "cookies" /\ Continue(t, "probe", r)
            BY <2>5 DEF IdledRuns, CookieHit, Looks
        <3> QED
            BY <3>1, <3>2, <1>3 DEF Token
    <2> QED
        BY <1>5, <2>1, <2>2, <2>3, <2>4, <2>5
<1>6. ASSUME CookieStep(t) PROVE Moves
    <2>1. ASSUME ProbeServed(t) PROVE Moves
        <3> DEFINE r == Expire(req[t], NamesOf(req[t].sent))
        <3>1. r.sent = req[t].sent /\ r.left \subseteq req[t].left
            BY <1>0, ExpireKeeps
        <3>2. pc[t] = "probe" /\ Continue(t, "cookies", r)
            BY <2>1 DEF ProbeServed
        <3> QED
            BY <3>1, <3>2, <1>3 DEF Token
    <2>2. ASSUME ProbeNotServed(t) PROVE Moves
        <3> DEFINE r == [req[t] EXCEPT !.wrote = TRUE]
        <3>1. r.sent = req[t].sent /\ r.left \subseteq req[t].left
            BY <1>0 DEF Request
        <3>2. pc[t] = "probe" /\ Continue(t, "cookies", r)
            BY <2>2 DEF ProbeNotServed
        <3> QED
            BY <3>1, <3>2, <1>3 DEF Token
    <2>3. ASSUME ProbeFails(t) \/ EndOfCookies(t) PROVE Moves
        BY <2>3, <1>2 DEF ProbeFails, HandleError, EndOfCookies
    <2> QED
        BY <1>5, <1>6, <2>1, <2>2, <2>3 DEF CookieStep
<1>7. ASSUME ForwardStep(t) PROVE Moves
    BY <1>7, <1>2, <1>3 DEF ForwardStep, ForwardPage, ForwardForbidden,
       ForwardUnavailable, OnErrorSeveral, OnErrorValid, OnErrorInvalid,
       OnErrorUnchecked, InvalidateSession, Token
<1>8. Moves
    BY <1>4, <1>6, <1>7 DEF HandlerStep
<1> QED
    BY <1>1, <1>8 DEF Moves

LEMMA HandlerHolds ==
    ASSUME TypeOK, LooksAtSent, NEW t \in Tabs, HandlerStep(t),
           ~TokenIdled(t), ~Login(t)
    PROVE  /\ UNCHANGED jar
           /\ LooksAtSent'
           /\ \A u \in Tabs : /\ InUse(u)' \subseteq InUse(u)
                              /\ response'[u].set \subseteq response[u].set
<1>1. Frame(t) /\ (Returns(t, {}) \/ GoesOn(t))
    BY HandlerMoves
<1>2. LooksAtSent'
    BY <1>1 DEF Frame, Returns, GoesOn, NewRequest, LooksAtSent
<1>3. ASSUME NEW u \in Tabs
      PROVE  /\ InUse(u)' \subseteq InUse(u)
             /\ response'[u].set \subseteq response[u].set
    BY <1>1 DEF Frame, Returns, GoesOn, NewRequest, InUse, Token
<1> QED
    BY <1>1, <1>2, <1>3 DEF Frame

(* An issued value is in one cookie: an idled one, or one of the session.  *)
LEMMA IssueHolds ==
    ASSUME TypeOK, NEW t \in Tabs, TokenIdled(t) \/ Login(t)
    PROVE  \E v \in Values, name \in Names, new \in BOOLEAN :
              /\ Issues(t, v, new)
              /\ new <=> name # Idled
              /\ Frame(t)
              /\ Returns(t, {[name |-> name, value |-> v]})
<1>0. LocalTypeOK
    BY TypeSplit
<1>1. CASE TokenIdled(t)
    <2>1. PICK v \in Fresh :
              /\ cache' = [cache EXCEPT ![v] = ns[t]]
              /\ Respond(t, "self", NamesOf(SessionCookies(req[t].sent)),
                         {[name |-> Idled, value |-> v]})
        BY <1>1 DEF TokenIdled
    <2>2. Issues(t, v, FALSE)
        BY <1>1, <2>1 DEF Issues, TokenIdled
    <2>3. Frame(t) /\ Returns(t, {[name |-> Idled, value |-> v]})
        BY <1>0, <2>1, RespondMoves
    <2>4. v \in Values /\ Idled \in Names
        BY DEF Fresh, Names
    <2> QED
        BY <2>2, <2>3, <2>4
<1>2. CASE Login(t)
    <2>1. PICK v \in Fresh, name \in SessionNames :
              /\ sessions' = [sessions EXCEPT ![ns[t]] = @ \cup {v}]
              /\ cache' = [cache EXCEPT ![v] = ns[t]]
              /\ Respond(t, "self", NamesOf(req[t].sent),
                         {[name |-> name, value |-> v]})
        BY <1>2 DEF Login
    <2>2. Issues(t, v, TRUE)
        BY <1>2, <2>1 DEF Issues, Login
    <2>3. Frame(t) /\ Returns(t, {[name |-> name, value |-> v]})
        BY <1>0, <2>1, RespondMoves
    <2>4. v \in Values /\ name \in Names /\ name # Idled
        BY BrowserAssumption DEF Fresh, Names
    <2> QED
        BY <2>2, <2>3, <2>4
<1> QED
    BY <1>1, <1>2

(* Where a handler's namespace comes from. *)
LEMMA HandlerAt ==
    ASSUME TypeOK, NEW t \in Tabs, HandlerStep(t),
           pc'[t] \notin {"idle", "cookies"}
    PROVE  \/ /\ TokenRunning(t)
              /\ pc'[t] = "login"
           \/ /\ \E c \in req[t].left : SessionRunning(t, c)
              /\ pc'[t] = "forward"
           \/ /\ \E c \in req[t].left : IdledRuns(t, c)
              /\ pc'[t] = "probe"
           \/ /\ ForwardForbidden(t)
              /\ pc'[t] = "onError"
<1>0. pc \in [Tabs -> Steps]
    BY DEF TypeOK, HandlerTypeOK
<1>1. ASSUME NEW answer, NEW expire, NEW set, Respond(t, answer, expire, set)
      PROVE  pc'[t] = "idle"
    BY <1>0, <1>1 DEF Respond, Goto
<1>2. ASSUME NEW step, NEW r, Continue(t, step, r)
      PROVE  pc'[t] = step
    BY <1>0, <1>2 DEF Continue, Goto
<1>3. CASE TokenStep(t)
    BY <1>1, <1>2, <1>3 DEF TokenStep, TokenFails, HandleError, TokenIdled,
       TokenRunning, Login, LoginRefused, LoginWithoutSession
<1>4. CASE CookieStep(t)
    BY <1>1, <1>2, <1>4 DEF CookieStep, CookieOld, StartFails, HandleError,
       SessionRunning, SessionStopped, IdledWaits, IdledRuns, ProbeServed,
       ProbeNotServed, ProbeFails, EndOfCookies
<1>5. CASE ForwardStep(t)
    BY <1>1, <1>2, <1>5 DEF ForwardStep, ForwardPage, ForwardForbidden,
       ForwardUnavailable, OnErrorSeveral, OnErrorValid, OnErrorInvalid,
       OnErrorUnchecked, InvalidateSession
<1> QED
    BY <1>3, <1>4, <1>5 DEF HandlerStep

-----------------------------------------------------------------------------
(* A step of a handler preserves each part of the inductive invariant.     *)

LEMMA ForgetsRouting ==
    ASSUME TypeOK, RoutedToIssuer, OneIssuer, Forgets
    PROVE  RoutedToIssuer' /\ OneIssuer'
BY DEF RoutedToIssuer, OneIssuer, Forgets, TypeOK, HandlerTypeOK

LEMMA IssuesRouting ==
    ASSUME TypeOK, RoutedToIssuer, OneIssuer, NEW t \in Tabs,
           ns[t] \in Namespaces, NEW v \in Values, NEW new \in BOOLEAN,
           Issues(t, v, new)
    PROVE  RoutedToIssuer' /\ OneIssuer'
<1>0. /\ cache \in [Values -> Namespaces \cup {NoNs}]
      /\ sessions \in [Namespaces -> SUBSET Values]
    BY DEF TypeOK, HandlerTypeOK
<1>1. \A n \in Namespaces : v \notin sessions[n]
    BY DEF Issues, Fresh
<1>2. /\ cache'[v] = ns[t]
      /\ \A w \in Values : w # v => cache'[w] = cache[w]
    BY <1>0 DEF Issues
<1>3. \A n \in Namespaces :
          \/ sessions'[n] = sessions[n]
          \/ n = ns[t] /\ sessions'[n] = sessions[n] \cup {v}
    BY <1>0 DEF Issues
<1>4. RoutedToIssuer'
    BY <1>1, <1>2, <1>3 DEF RoutedToIssuer
<1>5. OneIssuer'
    BY <1>1, <1>3 DEF OneIssuer
<1> QED
    BY <1>4, <1>5

LEMMA HandlerRouting ==
    ASSUME IInv, NEW t \in Tabs, HandlerStep(t)
    PROVE  RoutedToIssuer' /\ OneIssuer' /\ StoppedForgets'
<1>0. TypeOK /\ RoutedToIssuer /\ OneIssuer /\ StoppedForgets
    BY DEF IInv
<1>1. \A n \in Namespaces :
          jenkins'[n] # "running" => jenkins[n] # "running"
    BY <1>0, HandlerPods DEF PodsKept
<1>2. CASE Forgets
    <2>1. StoppedForgets'
        BY <1>0, <1>1, <1>2 DEF StoppedForgets, Forgets
    <2> QED
        BY <1>0, <1>2, <2>1, ForgetsRouting
<1>3. CASE TokenIdled(t) \/ Login(t)
    <2>1. PICK v \in Values, new \in BOOLEAN : Issues(t, v, new)
        BY <1>3, HandlerIssues
    <2>2. ns[t] \in Namespaces
        BY <1>3 DEF TokenIdled, Login, IInv, KnowsNs
    <2>3. StoppedForgets'
        <3>1. CASE new
            <4>1. \A n \in Namespaces :
                     jenkins'[n] # "running" =>
                         n # ns[t] /\ sessions'[n] = sessions[n]
                BY <1>0, <2>1, <3>1 DEF Issues, TypeOK, HandlerTypeOK
            <4> QED
                BY <1>0, <1>1, <4>1 DEF StoppedForgets
        <3>2. CASE ~new
            BY <1>0, <1>1, <2>1, <3>2 DEF StoppedForgets, Issues
        <3> QED
            BY <3>1, <3>2
    <2> QED
        BY <1>0, <2>1, <2>2, <2>3, IssuesRouting
<1> QED
    BY <1>0, <1>2, <1>3, HandlerForgets

LEMMA HandlerCookies ==
    ASSUME IInv, NEW t \in Tabs, HandlerStep(t)
    PROVE  IdledApart' /\ LooksAtSent'
<1>0. TypeOK /\ IdledApart /\ LooksAtSent
    BY DEF IInv
<1>1. CASE ~TokenIdled(t) /\ ~Login(t)
    <2>1. LooksAtSent'
        BY <1>0, <1>1, HandlerHolds
    <2>2. \A u \in Tabs : (jar \cup InUse(u) \cup response[u].set)' \subseteq
                            jar \cup InUse(u) \cup response[u].set
        BY <1>0, <1>1, HandlerHolds
    <2>3. \A n \in Namespaces : sessions'[n] \subseteq sessions[n]
        BY <1>0, <1>1, HandlerForgets DEF Forgets
    <2>4. IdledApart'
        BY <1>0, <2>2, <2>3 DEF IdledApart
    <2> QED
        BY <2>1, <2>4
<1>2. CASE TokenIdled(t) \/ Login(t)
    <2>1. PICK v \in Values, name \in Names, new \in BOOLEAN :
              /\ Issues(t, v, new)
              /\ new <=> name # Idled
              /\ Frame(t)
              /\ Returns(t, {[name |-> name, value |-> v]})
        BY <1>0, <1>2, IssueHolds
    <2>2. LooksAtSent'
        BY <1>0, <2>1 DEF Frame, Returns, NewRequest, LooksAtSent
    <2>3. \A u \in Tabs : (jar \cup InUse(u) \cup response[u].set)' \subseteq
                jar \cup InUse(u) \cup response[u].set
                    \cup {[name |-> name, value |-> v]}
        BY <2>1 DEF Frame, Returns, NewRequest, InUse
    <2>4. \A u \in Tabs : \A c \in jar \cup InUse(u) \cup response[u].set :
              c.value # v
        BY <2>1 DEF Issues, Fresh, Held
    <2>5. \A n \in Namespaces :
              \/ sessions'[n] = sessions[n]
              \/ new /\ sessions'[n] \subseteq sessions[n] \cup {v}
        BY <1>0, <2>1 DEF Issues, TypeOK, HandlerTypeOK
    <2>6. \A n \in Namespaces : v \notin sessions[n]
        BY <2>1 DEF Issues, Fresh
    <2>7. ASSUME NEW u \in Tabs,
                 NEW c \in (jar \cup InUse(u) \cup response[u].set)',
                 c.name = Idled, NEW n \in Namespaces
          PROVE  c.value \notin sessions'[n]
        <3>1. CASE c \in jar \cup InUse(u) \cup response[u].set
            <4>1. c.value # v /\ c.value \notin sessions[n]
                BY <1>0, <2>4, <2>7, <3>1 DEF IdledApart
            <4> QED
                BY <2>5, <4>1
        <3>2. CASE c = [name |-> name, value |-> v]
            <4>1. ~new /\ c.value = v
                BY <2>1, <2>7, <3>2
            <4> QED
                BY <2>5, <2>6, <4>1
        <3> QED
            BY <2>3, <2>7, <3>1, <3>2
    <2>8. IdledApart'
        BY <2>7 DEF IdledApart
    <2> QED
        BY <2>2, <2>8
<1> QED
    BY <1>1, <1>2

(* What KnowsNs says of one tab. *)
Knows(t) ==
    /\ pc[t] \in {"token", "login", "probe", "forward", "onError"} =>
          ns[t] \in Namespaces
    /\ pc[t] \in {"forward", "onError"} =>
          \E c \in SessionCookies(req[t].sent) :
              cache[c.value] \in {ns[t], NoNs}

LEMMA KnowsSplit ==
    /\ KnowsNs <=> \A t \in Tabs : Knows(t)
    /\ KnowsNs' <=> \A t \in Tabs : Knows(t)'
BY DEF KnowsNs, Knows

(* A value that is forwarded for is never issued again. *)
LEMMA OthersKnow ==
    ASSUME TypeOK, NEW u \in Tabs, Knows(u),
           pc'[u] = pc[u], ns'[u] = ns[u], req'[u] = req[u],
           Forgets \/ \E t \in Tabs, v \in Values, new \in BOOLEAN :
                         Issues(t, v, new)
    PROVE  Knows(u)'
<1>0. CASE pc[u] \notin {"forward", "onError"}
    BY <1>0 DEF Knows
<1>1. CASE pc[u] \in {"forward", "onError"}
    <2>1. PICK c \in SessionCookies(req[u].sent) :
              cache[c.value] \in {ns[u], NoNs}
        BY <1>1 DEF Knows
    <2>2. c \in InUse(u) /\ c.value \in Values
        <3>1. req[u].sent \in SUBSET Cookie
            BY RequestParts, TypeSplit
        <3> QED
            BY <1>1, <3>1 DEF SessionCookies, InUse, Cookie
    <2>3. cache'[c.value] \in {cache[c.value], NoNs}
        <3>1. CASE Forgets
            BY <2>2, <3>1 DEF Forgets
        <3>2. ASSUME NEW t \in Tabs, NEW v \in Values, NEW new \in BOOLEAN,
                     Issues(t, v, new)
              PROVE  cache'[c.value] = cache[c.value]
            <4>1. v # c.value
                BY <2>2, <3>2 DEF Issues, Fresh, Held
            <4> QED
                BY <2>2, <3>2, <4>1 DEF Issues, TypeOK, HandlerTypeOK
        <3> QED
            BY <3>1, <3>2
    <2>4. cache'[c.value] \in {ns'[u], NoNs}
        BY <2>1, <2>3
    <2> QED
        BY <1>1, <2>1, <2>4 DEF Knows
<1> QED
    BY <1>0, <1>1

LEMMA HandlerKnows ==
    ASSUME IInv, NEW t \in Tabs, HandlerStep(t)
    PROVE  KnowsNs'
<1>0. TypeOK /\ Knows(t) /\ \A u \in Tabs : Knows(u)
    BY KnowsSplit DEF IInv
<1>1. Forgets \/ \E v \in Values, new \in BOOLEAN : Issues(t, v, new)
    BY <1>0, HandlerForgets, HandlerIssues
<1>2. Frame(t)
    BY <1>0, HandlerMoves, IssueHolds
<1>3. ASSUME NEW u \in Tabs, u # t
      PROVE  Knows(u)'
    <2>1. ns'[u] = ns[u]
        BY <1>0, <1>3, HandlerNs DEF CookieHit, TypeOK, HandlerTypeOK
    <2> QED
        BY <1>0, <1>1, <1>2, <1>3, <2>1, OthersKnow DEF Frame
<1>4. Knows(t)'
    <2>0. /\ req[t].sent \in SUBSET Cookie
          /\ req[t].left \subseteq req[t].sent
          /\ ns \in [Tabs -> Namespaces \cup {NoNs}]
          /\ cache \in [Values -> Namespaces \cup {NoNs}]
        BY <1>0, RequestParts, TypeSplit DEF IInv, LooksAtSent
    <2>1. CASE pc'[t] \in {"idle", "cookies"}
        BY <2>1 DEF Knows
    <2>2. CASE TokenRunning(t) /\ pc'[t] = "login"
        BY <1>0, <2>2 DEF TokenRunning, Knows
    <2>3. ASSUME NEW c \in req[t].left, pc'[t] \in {"forward", "probe"},
                 SessionRunning(t, c) \/ (IdledRuns(t, c) /\ pc'[t] = "probe")
          PROVE  Knows(t)'
        <3>1. /\ c.value \in Values
              /\ ns'[t] = cache[c.value]
              /\ cache[c.value] \in Namespaces
              /\ UNCHANGED cache
            BY <2>0, <2>3 DEF SessionRunning, IdledRuns, CookieHit, Cookie
        <3>2. CASE pc'[t] = "probe"
            BY <3>1, <3>2 DEF Knows
        <3>3. CASE pc'[t] = "forward"
            <4>1. req'[t] = req[t]
                BY <1>0, <2>3, <3>3 DEF SessionRunning, Continue, TypeOK,
                   HandlerTypeOK
            <4>2. c \in SessionCookies(req'[t].sent)
                BY <2>0, <2>3, <3>3, <4>1 DEF SessionRunning, SessionCookies
            <4> QED
                BY <3>1, <3>3, <4>2 DEF Knows
        <3> QED
            BY <2>3, <3>2, <3>3
    <2>4. CASE ForwardForbidden(t) /\ pc'[t] = "onError"
        <3>1. req'[t] = req[t]
            BY <1>0, <2>4 DEF ForwardForbidden, Continue, TypeOK,
               HandlerTypeOK
        <3> QED
            BY <1>0, <2>4, <3>1 DEF ForwardForbidden, Knows
    <2> QED
        BY <1>0, <2>1, <2>2, <2>3, <2>4, HandlerAt
<1> QED
    BY <1>3, <1>4, KnowsSplit

LEMMA HandlerInv ==
    ASSUME IInv, NEW t \in Tabs, Handle(t)
    PROVE  IInv'
<1>1. TypeOK'
    BY HandlerType DEF IInv
<1>2. HandlerStep(t)
    BY DEF Handle
<1> QED
    BY <1>1, <1>2, HandlerRouting, HandlerCookies, HandlerKnows DEF IInv

-----------------------------------------------------------------------------
(* So does any other step. *)

Arrives(t) ==
    \/ OpenPage(t) \/ Poll(t)
    \/ \E n \in Namespaces : LogIn(t, n)

TabMoves(t) == Answered(t) \/ Reload(t) \/ GoOn(t)

PodMoves == \E n \in Namespaces : Stop(n) \/ Comes(n) \/ Woken(n)

CacheMoves == \E v \in Values : CacheExpires(v) \/ CleanUp(v)

Others ==
    \/ \E t \in Tabs : Arrives(t) \/ TabMoves(t)
    \/ CacheMoves \/ PodMoves \/ Restart
    \/ UNCHANGED vars

LEMMA NextSplit ==
    ASSUME [Next]_vars
    PROVE  Others \/ \E t \in Tabs : Handle(t)
BY DEF Next, TabStep, Others, Arrives, TabMoves, PodMoves, CacheMoves

LEMMA OthersForget ==
    ASSUME TypeOK, Others
    PROVE  Forgets
<1>0. /\ cache \in [Values -> Namespaces \cup {NoNs}]
      /\ sessions \in [Namespaces -> SUBSET Values]
    BY TypeSplit
<1>1. ASSUME UNCHANGED <<cache, sessions>>
      PROVE  Forgets
    BY <1>0, <1>1 DEF Forgets
<1>2. ASSUME NEW t \in Tabs, Arrives(t) \/ TabMoves(t)
      PROVE  UNCHANGED <<cache, sessions>>
    BY <1>2 DEF Arrives, OpenPage, Poll, LogIn, Arrive, ArriveWithToken,
       TabMoves, Answered, Reload, GoOn, handlerVars
<1>3. CASE CacheMoves
    BY <1>0, <1>3 DEF CacheMoves, CacheExpires, CleanUp, Forgets
<1>4. CASE PodMoves
    <2>1. ASSUME NEW n \in Namespaces, Stop(n)
          PROVE  Forgets
        BY <1>0, <2>1 DEF Stop, Forgets
    <2>2. ASSUME NEW n \in Namespaces, Comes(n) \/ Woken(n)
          PROVE  UNCHANGED <<cache, sessions>>
        BY <2>2 DEF Comes, Woken, handlerVars
    <2> QED
        BY <1>1, <1>4, <2>1, <2>2 DEF PodMoves
<1>5. CASE Restart
    BY <1>0, <1>5 DEF Restart, Forgets
<1>6. CASE UNCHANGED vars
    BY <1>1, <1>6 DEF vars
<1> QED
    BY <1>1, <1>2, <1>3, <1>4, <1>5, <1>6 DEF Others

LEMMA OthersRouting ==
    ASSUME IInv, Others
    PROVE  RoutedToIssuer' /\ OneIssuer' /\ StoppedForgets'
<1>0. TypeOK /\ RoutedToIssuer /\ OneIssuer /\ StoppedForgets
    BY DEF IInv
<1>1. Forgets
    BY <1>0, OthersForget
<1>2. RoutedToIssuer' /\ OneIssuer'
    BY <1>0, <1>1, ForgetsRouting
<1>3. ASSUME UNCHANGED jenkins
      PROVE  StoppedForgets'
    BY <1>0, <1>1, <1>3 DEF StoppedForgets, Forgets
<1>4. ASSUME PodMoves
      PROVE  StoppedForgets'
    <2>1. /\ jenkins \in [Namespaces -> PodStates]
          /\ sessions \in [Namespaces -> SUBSET Values]
        BY <1>0 DEF TypeOK, PodsTypeOK, HandlerTypeOK
    <2>2. ASSUME NEW m \in Namespaces, Stop(m)
          PROVE  StoppedForgets'
        BY <1>0, <2>1, <2>2 DEF Stop, IdlePod, StoppedForgets
    <2>3. ASSUME NEW m \in Namespaces, Comes(m) \/ Woken(m)
          PROVE  StoppedForgets'
        BY <1>0, <2>1, <2>3 DEF Comes, PodStarts, Woken, UserWakes,
           handlerVars, StoppedForgets
    <2> QED
        BY <1>4, <2>2, <2>3 DEF PodMoves
<1>5. ASSUME ~PodMoves
      PROVE  UNCHANGED jenkins
    <2>1. ASSUME NEW t \in Tabs, Arrives(t) \/ TabMoves(t)
          PROVE  UNCHANGED jenkins
        BY <2>1 DEF Arrives, OpenPage, Poll, LogIn, Arrive, ArriveWithToken,
           TabMoves, Answered, Reload, GoOn, podVars
    <2>2. CASE CacheMoves
        BY <2>2 DEF CacheMoves, CacheExpires, CleanUp, podVars
    <2> QED
        BY <1>5, <2>1, <2>2 DEF Others, Restart, podVars, vars
<1> QED
    BY <1>2, <1>3, <1>4, <1>5

(* The request a handler begins with: the browser's cookies, or none that  *)
(* it looks at.                                                            *)
LEMMA ArrivesMoves ==
    ASSUME TypeOK, NEW t \in Tabs, Arrives(t)
    PROVE  /\ Frame(t)
           /\ UNCHANGED <<response, cache, sessions>>
           /\ req'[t] = NewRequest(jar)
           /\ pc'[t] \in {"cookies", "token"}
           /\ pc'[t] = "token" => ns'[t] \in Namespaces
           /\ \A u \in Tabs : u # t => ns'[u] = ns[u]
<1>0. LocalTypeOK /\ ns \in [Tabs -> Namespaces \cup {NoNs}]
    BY TypeSplit
<1>1. CASE OpenPage(t) \/ Poll(t)
    <2>1. Arrive(t) /\ UNCHANGED <<jar, response>>
        BY <1>1 DEF OpenPage, Poll, Send
    <2> QED
        BY <1>0, <2>1 DEF Arrive, Goto, Frame, LocalTypeOK
<1>2. ASSUME NEW n \in Namespaces, LogIn(t, n)
      PROVE  /\ Frame(t)
             /\ UNCHANGED <<response, cache, sessions>>
             /\ req'[t] = NewRequest(jar)
             /\ pc'[t] = "token"
             /\ ns'[t] \in Namespaces
             /\ \A u \in Tabs : u # t => ns'[u] = ns[u]
    <2>1. ArriveWithToken(t, n) /\ UNCHANGED <<jar, response>>
        BY <1>2 DEF LogIn, Send
    <2> QED
        BY <1>0, <2>1 DEF ArriveWithToken, Goto, Frame, LocalTypeOK
<1> QED
    BY <1>1, <1>2 DEF Arrives

LEMMA StillMoves ==
    ASSUME TypeOK, CacheMoves \/ PodMoves \/ UNCHANGED vars
    PROVE  UNCHANGED <<jar, response, pc, ns, req>>
BY DEF CacheMoves, CacheExpires, CleanUp, PodMoves, Stop, Comes, Woken,
   browserVars, handlerVars, vars

LEMMA TabMovesKeep ==
    ASSUME TypeOK, NEW t \in Tabs, TabMoves(t)
    PROVE  /\ UNCHANGED <<pc, ns, req>>
           /\ jar' \subseteq jar \cup response[t].set
           /\ \A u \in Tabs : response'[u].set \subseteq response[u].set
<1>1. CASE Answered(t)
    BY <1>1 DEF Answered, Receive, Stored, NoResponse, handlerVars, TypeOK,
       BrowserTypeOK
<1>2. CASE Reload(t) \/ GoOn(t)
    BY <1>2 DEF Reload, GoOn, Browse, handlerVars
<1> QED
    BY <1>1, <1>2 DEF TabMoves

LEMMA RestartMoves ==
    ASSUME TypeOK, Restart
    PROVE  /\ UNCHANGED <<jar, ns>>
           /\ \A u \in Tabs : /\ response'[u].set \subseteq response[u].set
                              /\ req'[u] = NewRequest({})
                              /\ pc'[u] = "idle"
BY DEF Restart, NoResponse, TypeOK, BrowserTypeOK

LEMMA OthersCookies ==
    ASSUME IInv, Others
    PROVE  IdledApart' /\ LooksAtSent'
<1>0. TypeOK /\ IdledApart /\ LooksAtSent
    BY DEF IInv
<1>1. \A n \in Namespaces : sessions'[n] \subseteq sessions[n]
    BY <1>0, OthersForget DEF Forgets
<1>2. ASSUME NEW t \in Tabs, Arrives(t)
      PROVE  IdledApart' /\ LooksAtSent'
    <2>1. LooksAtSent'
        BY <1>0, <1>2, ArrivesMoves DEF LooksAtSent, Frame, NewRequest
    <2>2. \A u \in Tabs : (jar \cup InUse(u) \cup response[u].set)' \subseteq
                            jar \cup InUse(u) \cup response[u].set
        BY <1>0, <1>2, ArrivesMoves DEF Frame, InUse, NewRequest
    <2> QED
        BY <1>0, <1>1, <2>1, <2>2 DEF IdledApart
<1>3. ASSUME NEW t \in Tabs, TabMoves(t)
      PROVE  IdledApart' /\ LooksAtSent'
    <2>0. /\ UNCHANGED <<pc, ns, req>>
          /\ jar' \subseteq jar \cup response[t].set
          /\ \A u \in Tabs : response'[u].set \subseteq response[u].set
        BY <1>0, <1>3, TabMovesKeep
    <2>1. LooksAtSent'
        BY <1>0, <2>0 DEF LooksAtSent
    <2>2. ASSUME NEW u \in Tabs,
                 NEW c \in (jar \cup InUse(u) \cup response[u].set)'
          PROVE  \E w \in Tabs : c \in jar \cup InUse(w) \cup response[w].set
        BY <2>0, <2>2 DEF InUse
    <2> QED
        BY <1>0, <1>1, <2>1, <2>2 DEF IdledApart
<1>4. CASE CacheMoves \/ PodMoves \/ UNCHANGED vars
    <2>0. UNCHANGED <<jar, response, pc, ns, req>>
        BY <1>0, <1>4, StillMoves
    <2>1. LooksAtSent'
        BY <1>0, <2>0 DEF LooksAtSent
    <2>2. \A u \in Tabs : InUse(u)' = InUse(u)
        BY <2>0 DEF InUse
    <2> QED
        BY <1>0, <1>1, <2>0, <2>1, <2>2 DEF IdledApart
<1>5. CASE Restart
    <2>1. LooksAtSent'
        BY <1>0, <1>5, RestartMoves DEF LooksAtSent, NewRequest
    <2>2. \A u \in Tabs : (jar \cup InUse(u) \cup response[u].set)' \subseteq
                            jar \cup InUse(u) \cup response[u].set
        BY <1>0, <1>5, RestartMoves DEF InUse, NewRequest
    <2> QED
        BY <1>0, <1>1, <2>1, <2>2 DEF IdledApart
<1> QED
    BY <1>2, <1>3, <1>4, <1>5 DEF Others

LEMMA OthersKnows ==
    ASSUME IInv, Others
    PROVE  KnowsNs'
<1>0. TypeOK /\ \A t \in Tabs : Knows(t)
    BY KnowsSplit DEF IInv
<1>1. Forgets
    BY <1>0, OthersForget
<1>2. ASSUME NEW t \in Tabs, Arrives(t), NEW u \in Tabs
      PROVE  Knows(u)'
    <2>1. CASE u = t
        BY <1>0, <1>2, <2>1, ArrivesMoves DEF Knows
    <2>2. CASE u # t
        BY <1>0, <1>1, <1>2, <2>2, ArrivesMoves, OthersKnow DEF Frame
    <2> QED
        BY <2>1, <2>2
<1>3. ASSUME UNCHANGED <<pc, ns, req>>, NEW u \in Tabs
      PROVE  Knows(u)'
    BY <1>0, <1>1, <1>3, OthersKnow
<1>4. CASE Restart
    BY <1>0, <1>4, RestartMoves, KnowsSplit DEF Knows
<1>5. ASSUME NEW u \in Tabs, ~Restart
      PROVE  Knows(u)'
    BY <1>0, <1>2, <1>3, <1>5, StillMoves, TabMovesKeep DEF Others
<1> QED
    BY <1>4, <1>5, KnowsSplit

LEMMA InvInit == Init => IInv
<1> SUFFICES ASSUME Init PROVE IInv
    OBVIOUS
<1>1. TypeOK
    BY TypeInit
<1>2. RoutedToIssuer /\ StoppedForgets /\ OneIssuer /\ IdledApart
    BY DEF Init, HandlerInit, RoutedToIssuer, StoppedForgets, OneIssuer,
       IdledApart
<1>3. LooksAtSent /\ KnowsNs
    BY DEF Init, HandlerInit, LooksAtSent, KnowsNs, NewRequest
<1> QED
    BY <1>1, <1>2, <1>3 DEF IInv

LEMMA InvStep ==
    ASSUME IInv, [Next]_vars
    PROVE  IInv'
<1>1. CASE Others
    <2>1. TypeOK'
        BY TypeStep DEF IInv
    <2> QED
        BY <1>1, <2>1, OthersRouting, OthersCookies, OthersKnows DEF IInv
<1>2. ASSUME NEW t \in Tabs, Handle(t)
      PROVE  IInv'
    BY <1>2, HandlerInv
<1> QED
    BY <1>1, <1>2, NextSplit

(* The inductive invariant holds in every state. *)
THEOREM Invariant == Spec => []IInv
<1>1. Init => IInv
    BY InvInit
<1>2. IInv /\ [Next]_vars => IInv'
    BY InvStep
<1> QED
    BY <1>1, <1>2, PTL DEF Spec

(* A session is only ever routed to the Jenkins that issued it, for any    *)
(* number of tabs, tenants, cookies, idlings, faults and restarts.         *)
THEOREM Routed == Spec => []RoutedToIssuer
<1>1. IInv => RoutedToIssuer
    BY DEF IInv
<1> QED
    BY <1>1, Invariant, PTL

-----------------------------------------------------------------------------
(* What LiveSessionKept says of one value in one step. *)
Dropped(v) ==
    /\ cache[v] # NoNs
    /\ v \in sessions[cache[v]]
    /\ Held(v)
    /\ cache'[v] = NoNs

Excused ==
    \/ lapses' # lapses
    \/ \E t \in Tabs : pc[t] = "onError" /\ SeveralSessions(t)

LEMMA OthersKeep ==
    ASSUME IInv, Others, NEW v \in Values, Dropped(v)
    PROVE  Excused
<1>0. /\ cache \in [Values -> Namespaces \cup {NoNs}]
      /\ lapses \in Nat
    BY JenkinsUIAssumption DEF IInv, TypeOK, HandlerTypeOK
<1>1. ~UNCHANGED cache
    BY DEF Dropped
<1>2. ASSUME NEW t \in Tabs, Arrives(t) \/ TabMoves(t)
      PROVE  UNCHANGED cache
    BY <1>2 DEF Arrives, OpenPage, Poll, LogIn, Arrive, ArriveWithToken,
       TabMoves, Answered, Reload, GoOn, handlerVars
<1>3. ASSUME PodMoves \/ UNCHANGED vars
      PROVE  UNCHANGED cache
    BY <1>3 DEF PodMoves, Stop, Comes, Woken, handlerVars, vars
<1>4. ASSUME NEW w \in Values, CleanUp(w)
      PROVE  FALSE
    BY <1>0, <1>4 DEF CleanUp, Dropped
<1>5. ASSUME (\E w \in Values : CacheExpires(w)) \/ Restart
      PROVE  Excused
    BY <1>0, <1>5 DEF CacheExpires, Restart, Excused
<1> QED
    BY <1>1, <1>2, <1>3, <1>4, <1>5 DEF Others, CacheMoves

LEMMA HandlerKeeps ==
    ASSUME IInv, NEW t \in Tabs, HandlerStep(t), NEW v \in Values, Dropped(v)
    PROVE  Excused
<1>0. /\ cache \in [Values -> Namespaces \cup {NoNs}]
      /\ cache[v] \in Namespaces
      /\ ~UNCHANGED cache
      /\ req[t].sent \in SUBSET Cookie
    <2>1. TypeOK
        BY DEF IInv
    <2> QED
        BY <2>1, RequestParts, TypeSplit DEF TypeOK, HandlerTypeOK, Dropped
<1>1. ASSUME TokenIdled(t) \/ Login(t)
      PROVE  FALSE
    <2>1. PICK w \in Values, new \in BOOLEAN : Issues(t, w, new)
        BY <1>1, HandlerIssues
    <2>2. ns[t] \in Namespaces
        BY <1>1 DEF TokenIdled, Login, IInv, KnowsNs
    <2> QED
        BY <1>0, <2>1, <2>2, NoNsAssumption DEF Issues, Dropped
<1>2. ASSUME NEW c \in req[t].left, SessionStopped(t, c)
      PROVE  FALSE
    <2>1. c.value = v
        BY <1>0, <1>2 DEF SessionStopped, Dropped
    <2>2. jenkins[cache[v]] # "running"
        BY <1>2, <2>1 DEF SessionStopped, StartsStopped
    <2> QED
        BY <1>0, <2>2 DEF IInv, StoppedForgets, Dropped
<1>3. ASSUME ProbeServed(t)
      PROVE  FALSE
    <2>1. PICK c \in req[t].sent :
              /\ c.name = Idled
              /\ cache' = [cache EXCEPT ![c.value] = NoNs]
        BY <1>3 DEF ProbeServed
    <2>2. c.value = v
        BY <1>0, <2>1 DEF Dropped
    <2>3. c \in InUse(t)
        BY <1>3, <2>1 DEF ProbeServed, InUse
    <2> QED
        BY <1>0, <2>1, <2>2, <2>3 DEF IInv, IdledApart, Dropped
<1>4. ASSUME OnErrorSeveral(t)
      PROVE  Excused
    BY <1>4 DEF OnErrorSeveral, Excused
<1>5. ASSUME OnErrorInvalid(t)
      PROVE  FALSE
    <2>1. PICK c \in SessionCookies(req[t].sent) : c.value = v
        BY <1>0, <1>5 DEF OnErrorInvalid, InvalidateSession, Dropped
    <2>2. PICK d \in SessionCookies(req[t].sent) :
              cache[d.value] \in {ns[t], NoNs}
        BY <1>5 DEF OnErrorInvalid, IInv, KnowsNs
    <2>3. c = d
        BY <1>5 DEF OnErrorInvalid, SeveralSessions
    <2>4. v \in sessions[ns[t]]
        BY <1>0, <2>1, <2>2, <2>3 DEF Dropped
    <2> QED
        BY <1>5, <2>1, <2>4 DEF OnErrorInvalid, Known, SessionCookies
<1>6. CASE TokenStep(t)
    BY <1>0, <1>1, <1>6 DEF TokenStep, TokenFails, TokenRunning, LoginRefused,
       LoginWithoutSession
<1>7. CASE CookieStep(t)
    BY <1>0, <1>2, <1>3, <1>7 DEF CookieStep, CookieOld, StartFails,
       SessionRunning, IdledWaits, IdledRuns, ProbeNotServed, ProbeFails,
       EndOfCookies
<1>8. CASE ForwardStep(t)
    BY <1>0, <1>4, <1>5, <1>8 DEF ForwardStep, ForwardPage, ForwardForbidden,
       ForwardUnavailable, OnErrorValid, OnErrorUnchecked
<1> QED
    BY <1>6, <1>7, <1>8 DEF HandlerStep

(* A session that its Jenkins still knows is only dropped when the cache   *)
(* lapses, or by a 403 for a browser with several session cookies.         *)
THEOREM LiveSessions == Spec => LiveSessionKept
<1>1. ASSUME IInv, [Next]_vars, NEW v \in Values, Dropped(v)
      PROVE  Excused
    BY <1>1, NextSplit, OthersKeep, HandlerKeeps DEF Handle
<1>2. IInv /\ [Next]_vars =>
          [\A v \in Values :
              /\ cache[v] # NoNs
              /\ v \in sessions[cache[v]]
              /\ Held(v)
              /\ cache'[v] = NoNs
              => \/ lapses' # lapses
                 \/ \E t \in Tabs : pc[t] = "onError" /\ SeveralSessions(t)]_vars
    BY <1>1 DEF Dropped, Excused
<1> QED
    BY <1>2, Invariant, PTL DEF Spec, LiveSessionKept

-----------------------------------------------------------------------------
(* Who waits, waits for a Jenkins that was started. *)

WaitOK(t) == OneAtATime(t) /\ (Waits(t) => Woke(ns[t]))

LEMMA StaysWoke ==
    ASSUME TypeOK, PodsKept, NEW n \in Namespaces, Woke(n)
    PROVE  Woke(n)'
<1>1. faults \in Nat /\ idles \in Nat
    BY PodsAssumption DEF TypeOK, PodsTypeOK
<1>2. n # NoNs
    BY DEF Woke
<1>3. ASSUME jenkins'[n] = "idled"
      PROVE  faults' + idles' > 0
    <2>1. jenkins[n] = "idled"
        BY <1>3 DEF PodsKept
    <2>2. faults + idles > 0
        BY <2>1 DEF Woke
    <2>3. idles' = idles /\ (faults' = faults \/ faults' = faults + 1)
        BY DEF PodsKept
    <2> QED
        BY <1>1, <2>2, <2>3
<1> QED
    BY <1>2, <1>3 DEF Woke

LEMMA RespondWaits ==
    ASSUME LocalTypeOK, NEW t \in Tabs, NEW answer, NEW expire, NEW set,
           OneAtATime(t), pc[t] # "idle", Respond(t, answer, expire, set),
           req[t].wrote \/ answer \in {"self", "waiting"} => Woke(ns[t])'
    PROVE  WaitOK(t)'
<1>1. tab[t] = "sent" /\ UNCHANGED tab
    BY DEF OneAtATime, Respond
<1>2. /\ pc'[t] = "idle"
      /\ req'[t].wrote = FALSE
      /\ response'[t].answer = IF req[t].wrote THEN "waiting" ELSE answer
    BY DEF Respond, Goto, NewRequest, LocalTypeOK, BrowserTypeOK
<1>3. Waits(t)' => Woke(ns[t])'
    BY <1>1, <1>2 DEF Waits
<1> QED
    BY <1>1, <1>2, <1>3 DEF WaitOK, OneAtATime

LEMMA ContinueWaits ==
    ASSUME LocalTypeOK, NEW t \in Tabs, NEW step, NEW r,
           OneAtATime(t), pc[t] # "idle", step # "idle", Continue(t, step, r),
           \/ Woke(ns[t])'
           \/ ~r.wrote /\ step \in {"cookies", "token"}
    PROVE  WaitOK(t)'
<1>1. /\ tab[t] = "sent"
      /\ response[t].answer = "none"
      /\ UNCHANGED <<tab, response>>
    BY DEF OneAtATime, Continue, browserVars
<1>2. pc'[t] = step /\ req'[t] = r
    BY DEF Continue, Goto, LocalTypeOK
<1>3. Waits(t)' => Woke(ns[t])'
    BY <1>1, <1>2 DEF Waits
<1> QED
    BY <1>1, <1>2, <1>3 DEF WaitOK, OneAtATime

(* A handler leaves its own tab in order, and the others alone.            *)
LEMMA HandlerWaits ==
    ASSUME IInv, NEW t \in Tabs, WaitOK(t), HandlerStep(t)
    PROVE  WaitOK(t)'
<1>0. /\ TypeOK
      /\ LocalTypeOK
      /\ OneAtATime(t)
      /\ PodsKept
      /\ ns \in [Tabs -> Namespaces \cup {NoNs}]
      /\ cache \in [Values -> Namespaces \cup {NoNs}]
      /\ req[t] \in Request
      /\ jenkins \in [Namespaces -> PodStates]
      /\ faults \in Nat /\ idles \in Nat
    BY HandlerPods, TypeSplit, RequestParts, PodsAssumption
       DEF IInv, WaitOK, TypeOK, PodsTypeOK
<1>1. ASSUME Waits(t), UNCHANGED ns
      PROVE  Woke(ns[t])'
    <2>1. Woke(ns[t]) /\ ns[t] \in Namespaces
        BY <1>0, <1>1 DEF WaitOK, Woke
    <2> QED
        BY <1>0, <1>1, <2>1, StaysWoke DEF Woke
<1>2. ASSUME NEW n \in Namespaces, UNCHANGED idles,
             StartsStopped(n) \/ StartsRunning(n) \/ Fails
      PROVE  Woke(n)'
    BY <1>0, <1>2, NoNsAssumption DEF StartsStopped, StartsRunning, Fails,
       UnIdle, Healthy, Fault, Woke
<1>3. CASE TokenStep(t)
    <2>1. pc[t] \in {"token", "login"}
        BY <1>3 DEF TokenStep, TokenFails, TokenIdled, TokenRunning, Login,
           LoginRefused, LoginWithoutSession
    <2>2. ns[t] \in Namespaces
        BY <2>1 DEF IInv, KnowsNs
    <2>3. Woke(ns[t])'
        <3>1. CASE pc[t] = "login"
            BY <1>1, <1>3, <3>1 DEF Waits, TokenStep, TokenFails, TokenIdled,
               TokenRunning, Login, LoginRefused, LoginWithoutSession
        <3>2. CASE pc[t] = "token"
            <4>1. /\ UNCHANGED <<ns, idles>>
                  /\ \/ StartsStopped(ns[t])
                     \/ StartsRunning(ns[t])
                     \/ Fails
                BY <1>3, <3>2 DEF TokenStep, TokenFails, TokenIdled,
                   TokenRunning, Login, LoginRefused, LoginWithoutSession
            <4> QED
                BY <1>2, <2>2, <4>1 DEF Woke
        <3> QED
            BY <2>1, <3>1, <3>2
    <2>4. CASE TokenRunning(t)
        BY <1>0, <2>1, <2>3, <2>4, ContinueWaits DEF TokenRunning
    <2>5. ASSUME NEW answer, NEW expire, NEW set,
                 Respond(t, answer, expire, set)
          PROVE  WaitOK(t)'
        BY <1>0, <2>1, <2>3, <2>5, RespondWaits
    <2> QED
        BY <1>3, <2>4, <2>5 DEF TokenStep, TokenFails, HandleError, TokenIdled,
           Login, LoginRefused, LoginWithoutSession
<1>4. ASSUME NEW c \in req[t].left, CookieHit(t, c), UNCHANGED idles,
             \/ StartsStopped(cache[c.value])
             \/ StartsRunning(cache[c.value])
             \/ Fails
      PROVE  Woke(ns[t])' /\ pc[t] # "idle"
    <2>1. cache[c.value] \in Namespaces
        BY <1>0, <1>4 DEF CookieHit, Looks, Request, Cookie
    <2>2. ns'[t] = cache[c.value]
        BY <1>0, <1>4 DEF CookieHit
    <2> DEFINE n == cache[c.value]
    <2>3. n # NoNs /\ (jenkins'[n] = "idled" => faults' + idles' > 0)
        <3> HIDE DEF n
        <3> QED
            BY <1>2, <1>4, <2>1 DEF n, Woke
    <2> QED
        BY <1>4, <2>2, <2>3 DEF Woke, CookieHit, Looks
<1>5. ASSUME NEW c \in req[t].left,
             \/ CookieOld(t, c) \/ StartFails(t, c)
             \/ SessionRunning(t, c) \/ SessionStopped(t, c)
             \/ IdledWaits(t, c) \/ IdledRuns(t, c)
      PROVE  WaitOK(t)'
    <2>1. CASE CookieOld(t, c)
        <3>1. Expire(Rest(t, c), {c.name}).wrote = req[t].wrote
            BY <1>0 DEF Expire, Rest, Request
        <3>2. CASE req[t].wrote
            <4>1. Woke(ns[t])'
                BY <1>1, <2>1, <3>2 DEF CookieOld, Waits
            <4> QED
                BY <1>0, <2>1, <4>1, ContinueWaits DEF CookieOld, Looks
        <3>3. CASE ~req[t].wrote
            BY <1>0, <2>1, <3>1, <3>3, ContinueWaits DEF CookieOld, Looks
        <3> QED
            BY <3>2, <3>3
    <2>2. CASE StartFails(t, c) \/ IdledWaits(t, c)
        <3>1. Woke(ns[t])' /\ pc[t] # "idle"
            BY <1>4, <2>2 DEF StartFails, IdledWaits
        <3> QED
            BY <1>0, <2>2, <3>1, RespondWaits DEF StartFails, HandleError,
               IdledWaits
    <2>3. CASE SessionRunning(t, c) \/ SessionStopped(t, c) \/ IdledRuns(t, c)
        <3>1. Woke(ns[t])' /\ pc[t] # "idle"
            BY <1>4, <2>3 DEF SessionRunning, SessionStopped, IdledRuns
        <3> QED
            BY <1>0, <2>3, <3>1, ContinueWaits DEF SessionRunning,
               SessionStopped, IdledRuns
    <2> QED
        BY <1>5, <2>1, <2>2, <2>3
<1>6. CASE ProbeServed(t) \/ ProbeNotServed(t) \/ ProbeFails(t)
    <2>1. Woke(ns[t])' /\ pc[t] # "idle"
        BY <1>1, <1>6 DEF ProbeServed, ProbeNotServed, ProbeFails, Waits
    <2> QED
        BY <1>0, <1>6, <2>1, RespondWaits, ContinueWaits
           DEF ProbeServed, ProbeNotServed, ProbeFails, HandleError
<1>7. CASE EndOfCookies(t)
    <2>1. req[t].wrote => Woke(ns[t])'
        BY <1>1, <1>7 DEF EndOfCookies, Waits
    <2> QED
        BY <1>0, <1>7, <2>1, RespondWaits DEF EndOfCookies
<1>8. CASE ForwardStep(t)
    <2>1. Woke(ns[t])' /\ pc[t] # "idle"
        BY <1>1, <1>8 DEF Waits, ForwardStep, ForwardPage, ForwardForbidden,
           ForwardUnavailable, OnErrorSeveral, OnErrorValid, OnErrorInvalid,
           OnErrorUnchecked
    <2>2. CASE ForwardForbidden(t)
        BY <1>0, <2>1, <2>2, ContinueWaits DEF ForwardForbidden
    <2>3. ASSUME NEW answer, NEW expire, NEW set,
                 Respond(t, answer, expire, set)
          PROVE  WaitOK(t)'
        BY <1>0, <2>1, <2>3, RespondWaits
    <2> QED
        BY <1>8, <2>2, <2>3 DEF ForwardStep, ForwardPage, ForwardUnavailable,
           OnErrorSeveral, OnErrorValid, OnErrorInvalid, OnErrorUnchecked,
           InvalidateSession
<1> QED
    BY <1>3, <1>5, <1>6, <1>7, <1>8 DEF HandlerStep, CookieStep

LEMMA HandlerSpares ==
    ASSUME TypeOK, NEW t \in Tabs, HandlerStep(t), NEW u \in Tabs, u # t
    PROVE  /\ UNCHANGED tab
           /\ pc'[u] = pc[u]
           /\ req'[u] = req[u]
           /\ response'[u] = response[u]
           /\ ns'[u] = ns[u]
<1>0. LocalTypeOK /\ ns \in [Tabs -> Namespaces \cup {NoNs}]
    BY TypeSplit
<1>1. ns'[u] = ns[u]
    BY <1>0, HandlerNs DEF CookieHit
<1>2. ASSUME NEW answer, NEW expire, NEW set, Respond(t, answer, expire, set)
      PROVE  /\ UNCHANGED tab
             /\ pc'[u] = pc[u]
             /\ req'[u] = req[u]
             /\ response'[u] = response[u]
    BY <1>0, <1>2 DEF Respond, Goto, LocalTypeOK, BrowserTypeOK
<1>3. ASSUME NEW step, NEW r, Continue(t, step, r)
      PROVE  /\ UNCHANGED tab
             /\ pc'[u] = pc[u]
             /\ req'[u] = req[u]
             /\ response'[u] = response[u]
    BY <1>0, <1>3 DEF Continue, Goto, LocalTypeOK, browserVars
<1>4. \/ \E answer, expire, set : Respond(t, answer, expire, set)
      \/ \E step, r : Continue(t, step, r)
    <2>1. CASE TokenStep(t)
        BY <2>1 DEF TokenStep, TokenFails, HandleError, TokenIdled,
           TokenRunning, Login, LoginRefused, LoginWithoutSession
    <2>2. CASE CookieStep(t)
        BY <2>2 DEF CookieStep, CookieOld, StartFails, HandleError,
           SessionRunning, SessionStopped, IdledWaits, IdledRuns, ProbeServed,
           ProbeNotServed, ProbeFails, EndOfCookies
    <2>3. CASE ForwardStep(t)
        BY <2>3 DEF ForwardStep, ForwardPage, ForwardForbidden,
           ForwardUnavailable, OnErrorSeveral, OnErrorValid, OnErrorInvalid,
           OnErrorUnchecked, InvalidateSession
    <2> QED
        BY <2>1, <2>2, <2>3 DEF HandlerStep
<1> QED
    BY <1>1, <1>2, <1>3, <1>4

LEMMA HandleWaits ==
    ASSUME IInv, WaitInv, NEW t \in Tabs, HandlerStep(t)
    PROVE  WaitInv'
<1>0. TypeOK /\ PodsKept /\ ns \in [Tabs -> Namespaces \cup {NoNs}]
    BY HandlerPods, TypeSplit DEF IInv
<1>1. WaitOK(t)'
    BY HandlerWaits DEF WaitInv, WaitOK
<1>2. ASSUME NEW u \in Tabs, u # t
      PROVE  WaitOK(u)'
    <2>1. /\ UNCHANGED tab
          /\ pc'[u] = pc[u]
          /\ req'[u] = req[u]
          /\ response'[u] = response[u]
          /\ ns'[u] = ns[u]
        BY <1>0, <1>2, HandlerSpares
    <2>2. OneAtATime(u)' /\ (Waits(u)' => Waits(u))
        BY <2>1 DEF WaitInv, OneAtATime, Waits
    <2>3. Waits(u) => Woke(ns[u])'
        <3>1. SUFFICES ASSUME Waits(u)
                       PROVE  Woke(ns[u])'
            OBVIOUS
        <3>2. Woke(ns[u]) /\ ns[u] \in Namespaces
            BY <1>0, <3>1 DEF WaitInv, Woke
        <3> QED
            BY <1>0, <2>1, <3>2, StaysWoke DEF Woke
    <2> QED
        BY <2>2, <2>3 DEF WaitOK
<1> QED
    BY <1>1, <1>2 DEF WaitInv, WaitOK

(* Steps outside the handlers start requests and bring answers, and a pod  *)
(* that is stopped is counted.                                             *)
LEMMA OthersWait ==
    ASSUME TypeOK, WaitInv, Others
    PROVE  WaitInv'
<1>0. /\ LocalTypeOK
      /\ ns \in [Tabs -> Namespaces \cup {NoNs}]
      /\ jenkins \in [Namespaces -> PodStates]
      /\ faults \in Nat /\ idles \in Nat
    BY TypeSplit, PodsAssumption DEF TypeOK, PodsTypeOK
<1>1. ASSUME NEW t \in Tabs, Arrives(t)
      PROVE  WaitInv'
    <2>1. /\ tab[t] # "sent"
          /\ tab' = [tab EXCEPT ![t] = "sent"]
          /\ UNCHANGED <<response, jenkins, faults, idles>>
          /\ pc'[t] \in {"cookies", "token"}
          /\ ~req'[t].wrote
          /\ \A u \in Tabs \ {t} : /\ pc'[u] = pc[u]
                                   /\ req'[u] = req[u]
                                   /\ ns'[u] = ns[u]
        <3>1. CASE OpenPage(t) \/ Poll(t)
            BY <1>0, <3>1 DEF OpenPage, Poll, Send, Arrive, Goto, NewRequest,
               LocalTypeOK
        <3>2. ASSUME NEW n \in Namespaces, LogIn(t, n)
              PROVE  /\ tab[t] # "sent"
                     /\ tab' = [tab EXCEPT ![t] = "sent"]
                     /\ UNCHANGED <<response, jenkins, faults, idles>>
                     /\ pc'[t] \in {"cookies", "token"}
                     /\ ~req'[t].wrote
                     /\ \A u \in Tabs \ {t} : /\ pc'[u] = pc[u]
                                              /\ req'[u] = req[u]
                                              /\ ns'[u] = ns[u]
            BY <1>0, <3>2 DEF LogIn, Send, ArriveWithToken, Goto, NewRequest,
               LocalTypeOK
        <3> QED
            BY <1>1, <3>1, <3>2 DEF Arrives
    <2>2. tab \in [Tabs -> TabStates]
        BY <1>0 DEF LocalTypeOK, BrowserTypeOK
    <2>3. WaitOK(t)'
        BY <2>1, <2>2 DEF WaitInv, WaitOK, OneAtATime, Waits
    <2>4. ASSUME NEW u \in Tabs, u # t
          PROVE  WaitOK(u)'
        BY <2>1, <2>2, <2>4 DEF WaitInv, WaitOK, OneAtATime, Waits, Woke
    <2> QED
        BY <2>3, <2>4 DEF WaitInv, WaitOK
<1>2. ASSUME NEW t \in Tabs, TabMoves(t)
      PROVE  WaitInv'
    <2>1. UNCHANGED <<pc, req, ns, jenkins, faults, idles>>
        BY <1>2 DEF TabMoves, Answered, Reload, GoOn, handlerVars, podVars
    <2>2. /\ tab \in [Tabs -> TabStates]
          /\ response \in [Tabs -> [answer : Answers, expire : SUBSET Names,
                                    set : SUBSET Cookie]]
        BY <1>0 DEF LocalTypeOK, BrowserTypeOK
    <2>3. CASE Answered(t)
        <3>1. /\ response[t].answer # "none"
              /\ response'[t].answer = "none"
              /\ tab'[t] = "waiting" => response[t].answer \in {"self", "waiting"}
              /\ \A u \in Tabs \ {t} : /\ tab'[u] = tab[u]
                                       /\ response'[u] = response[u]
            BY <2>2, <2>3 DEF Answered, Receive, NoResponse, ScriptDoes,
               PageShows, Answers
        <3>2. pc[t] = "idle"
            BY <3>1 DEF WaitInv, OneAtATime
        <3>3. \A u \in Tabs : OneAtATime(u)' /\ (Waits(u)' => Waits(u))
            BY <2>1, <3>1, <3>2 DEF WaitInv, OneAtATime, Waits
        <3> QED
            BY <2>1, <3>3 DEF WaitInv, Woke
    <2>4. CASE Reload(t) \/ GoOn(t)
        <3>1. /\ tab' = [tab EXCEPT ![t] = "ready"]
              /\ tab[t] # "sent"
              /\ UNCHANGED response
            BY <2>4 DEF Reload, GoOn, Browse
        <3>2. \A u \in Tabs : OneAtATime(u)' /\ (Waits(u)' => Waits(u))
            BY <2>1, <2>2, <3>1 DEF WaitInv, OneAtATime, Waits
        <3> QED
            BY <2>1, <3>2 DEF WaitInv, Woke
    <2> QED
        BY <1>2, <2>3, <2>4 DEF TabMoves
<1>3. ASSUME CacheMoves \/ PodMoves \/ UNCHANGED vars
      PROVE  WaitInv'
    <2>1. UNCHANGED <<tab, response, pc, ns, req>>
        BY <1>3, StillMoves DEF CacheMoves, CacheExpires, CleanUp, PodMoves,
           Stop, Comes, Woken, browserVars, vars
    <2>2. ASSUME NEW n \in Namespaces, Woke(n)
          PROVE  Woke(n)'
        <3>1. CASE UNCHANGED <<jenkins, faults, idles>>
            BY <2>2, <3>1 DEF Woke
        <3>2. CASE PodMoves
            BY <1>0, <2>2, <3>2 DEF PodMoves, Stop, IdlePod, Comes, PodStarts,
               Woken, UserWakes, Woke
        <3> QED
            BY <1>3, <3>1, <3>2 DEF CacheMoves, CacheExpires, CleanUp, podVars,
               vars
    <2>3. \A u \in Tabs : OneAtATime(u)' /\ (Waits(u)' => Waits(u))
        BY <2>1 DEF WaitInv, OneAtATime, Waits
    <2>4. ASSUME NEW u \in Tabs, Waits(u)
          PROVE  Woke(ns[u])'
        <3>1. Woke(ns[u]) /\ ns[u] \in Namespaces
            BY <1>0, <2>4 DEF WaitInv, Woke
        <3> QED
            BY <2>1, <2>2, <3>1 DEF Woke
    <2> QED
        BY <2>3, <2>4 DEF WaitInv
<1>4. ASSUME Restart
      PROVE  WaitInv'
    <2>1. /\ UNCHANGED <<tab, ns, jenkins, faults, idles>>
          /\ \A u \in Tabs :
                /\ pc'[u] = "idle"
                /\ ~req'[u].wrote
                /\ response'[u].answer = IF pc[u] = "idle"
                                         THEN response[u].answer ELSE "error"
        BY <1>4 DEF Restart, NewRequest, NoResponse, podVars
    <2>2. \A u \in Tabs : OneAtATime(u)' /\ (Waits(u)' => Waits(u))
        BY <2>1 DEF WaitInv, OneAtATime, Waits
    <2> QED
        BY <2>1, <2>2 DEF WaitInv, Woke
<1> QED
    BY <1>1, <1>2, <1>3, <1>4 DEF Others

(* A tab that shows the waiting page has a Jenkins that the proxy has      *)
(* started, for any number of tabs, tenants, faults, idlings and restarts. *)
THEOREM WaitsForWoken == Spec => []WaitMeansWoken
<1>1. Init => WaitInv
    BY DEF Init, BrowserInit, HandlerInit, NewRequest, NoResponse, WaitInv,
       OneAtATime, Waits
<1>2. IInv /\ WaitInv /\ [Next]_vars => WaitInv'
    BY NextSplit, HandleWaits, OthersWait DEF IInv, Handle
<1>3. WaitInv => WaitMeansWoken
    BY DEF WaitInv, WaitMeansWoken, Waits, Woke
<1> QED
    BY <1>1, <1>2, <1>3, Invariant, PTL DEF Spec

-----------------------------------------------------------------------------
(* The refinement of SessionRouter: its actions are Issues and Forgets.    *)

HeldValues == {v \in Values : Held(v)}

(* A value is held in the next state only for a cookie there was before,   *)
(* or if it is new.                                                        *)
LEMMA HeldBy ==
    ASSUME NEW new,
           \A u \in Tabs : \A c \in (jar \cup InUse(u) \cup response[u].set)' :
               \/ c.value \in new
               \/ \E w \in Tabs : c \in jar \cup InUse(w) \cup response[w].set,
           jar' \subseteq jar \/ Tabs # {}
    PROVE  HeldValues' \subseteq HeldValues \cup new
<1> SUFFICES ASSUME NEW v \in Values, Held(v)'
             PROVE  Held(v) \/ v \in new
    BY DEF HeldValues
<1>1. PICK c : /\ c \in jar' \/ \E u \in Tabs : c \in InUse(u)' \cup response'[u].set
               /\ c.value = v
    BY DEF Held
<1>2. \/ c.value \in new
      \/ c \in jar
      \/ \E w \in Tabs : c \in InUse(w) \cup response[w].set
    <2>1. CASE Tabs = {}
        BY <1>1, <2>1
    <2>2. ASSUME NEW t \in Tabs
          PROVE  \/ c.value \in new
                 \/ c \in jar
                 \/ \E w \in Tabs : c \in InUse(w) \cup response[w].set
        BY <1>1, <2>2
    <2> QED
        BY <2>1, <2>2
<1>3. c.value \in new \/ c \in jar \cup UNION {InUse(w) \cup response[w].set : w \in Tabs}
    BY <1>2
<1> QED
    BY <1>1, <1>3 DEF Held

(* A step that sets no cookie makes no value held.                         *)
LEMMA HeldShrinks ==
    ASSUME IInv, Others \/ (\E t \in Tabs : /\ HandlerStep(t)
                                           /\ ~TokenIdled(t) /\ ~Login(t))
    PROVE  HeldValues' \subseteq HeldValues
<1>0. TypeOK /\ LooksAtSent
    BY DEF IInv
<1> DEFINE Keeps == \A u \in Tabs : \A c \in (jar \cup InUse(u) \cup response[u].set)' :
                \E w \in Tabs : c \in jar \cup InUse(w) \cup response[w].set
<1>1. ASSUME Keeps, jar' \subseteq jar \/ Tabs # {}
      PROVE  HeldValues' \subseteq HeldValues
    <2>1. \A u \in Tabs : \A c \in (jar \cup InUse(u) \cup response[u].set)' :
               \/ c.value \in {}
               \/ \E w \in Tabs : c \in jar \cup InUse(w) \cup response[w].set
        BY <1>1
    <2>2. HeldValues' \subseteq HeldValues \cup {}
        BY <1>1, <2>1, HeldBy
    <2> QED
        BY <2>2
<1>2. ASSUME NEW t \in Tabs, HandlerStep(t), ~TokenIdled(t), ~Login(t)
      PROVE  HeldValues' \subseteq HeldValues
    <2>1. Keeps /\ jar' \subseteq jar
        BY <1>0, <1>2, HandlerHolds
    <2> QED
        BY <1>1, <2>1
<1>3. ASSUME NEW t \in Tabs, Arrives(t)
      PROVE  HeldValues' \subseteq HeldValues
    <2>1. Keeps /\ jar' \subseteq jar
        BY <1>0, <1>3, ArrivesMoves DEF Frame, InUse, NewRequest
    <2> QED
        BY <1>1, <2>1
<1>4. ASSUME NEW t \in Tabs, TabMoves(t)
      PROVE  HeldValues' \subseteq HeldValues
    <2>1. /\ UNCHANGED <<pc, ns, req>>
          /\ jar' \subseteq jar \cup response[t].set
          /\ \A u \in Tabs : response'[u].set \subseteq response[u].set
        BY <1>0, <1>4, TabMovesKeep
    <2>2. Keeps
        BY <2>1 DEF InUse
    <2> QED
        BY <1>1, <2>2
<1>5. CASE CacheMoves \/ PodMoves \/ UNCHANGED vars
    <2>1. UNCHANGED <<jar, response, pc, ns, req>>
        BY <1>0, <1>5, StillMoves
    <2>2. Keeps /\ jar' \subseteq jar
        BY <2>1 DEF InUse
    <2> QED
        BY <1>1, <2>2
<1>6. CASE Restart
    <2>1. Keeps /\ jar' \subseteq jar
        BY <1>0, <1>6, RestartMoves DEF InUse, NewRequest
    <2> QED
        BY <1>1, <2>1
<1> QED
    BY <1>2, <1>3, <1>4, <1>5, <1>6 DEF Others

(* Only an issued value becomes held. *)
LEMMA IssueHeld ==
    ASSUME TypeOK, NEW t \in Tabs, TokenIdled(t) \/ Login(t)
    PROVE  \E v \in Values, new \in BOOLEAN :
              /\ Issues(t, v, new)
              /\ HeldValues' \subseteq HeldValues \cup {v}
<1>1. PICK v \in Values, name \in Names, new \in BOOLEAN :
          /\ Issues(t, v, new)
          /\ Frame(t)
          /\ Returns(t, {[name |-> name, value |-> v]})
    BY IssueHolds
<1>2. /\ jar' \subseteq jar
      /\ \A u \in Tabs : \A c \in (jar \cup InUse(u) \cup response[u].set)' :
              \/ c.value \in {v}
              \/ \E w \in Tabs : c \in jar \cup InUse(w) \cup response[w].set
    BY <1>1 DEF Frame, Returns, NewRequest, InUse
<1>3. HeldValues' \subseteq HeldValues \cup {v}
    BY <1>2, HeldBy
<1> QED
    BY <1>1, <1>3

LEMMA RouterForgets ==
    ASSUME Forgets, HeldValues' \subseteq HeldValues
    PROVE  Router!Forget
BY DEF Forgets, Router!Forget, HeldValues

LEMMA RouterIssues ==
    ASSUME NEW t \in Tabs, ns[t] \in Namespaces, NEW v \in Values,
           NEW new \in BOOLEAN, Issues(t, v, new),
           HeldValues' \subseteq HeldValues \cup {v}
    PROVE  Router!LogIn(v, ns[t]) \/ Router!ShowWaiting(v, ns[t])
<1>1. Router!Unused(v)
    BY DEF Issues, Fresh, Router!Unused
<1>2. Router!Hand(v, ns[t])
    BY <1>1 DEF Issues, Router!Hand, HeldValues
<1> QED
    BY <1>2 DEF Issues, Router!LogIn, Router!ShowWaiting

(* A value that is held is never routed anew, for any number of tabs,      *)
(* tenants, cookies, idlings, faults and restarts (ImplementsRouter;       *)
(* ui_requests.go, OnErrorUIRequest).                                      *)
THEOREM Refinement == Spec => ImplementsRouter
<1>1. Init => Router!Init
    BY DEF Init, BrowserInit, HandlerInit, NoResponse, NewRequest, Router!Init,
       Held, InUse
<1>2. ASSUME IInv, [Next]_vars
      PROVE  [Router!Next]_(Router!router)
    <2>1. CASE Others
        BY <1>2, <2>1, OthersForget, HeldShrinks, RouterForgets
           DEF IInv, Router!Next
    <2>2. ASSUME NEW t \in Tabs, HandlerStep(t)
          PROVE  Router!Next
        <3>1. CASE ~TokenIdled(t) /\ ~Login(t)
            BY <1>2, <2>2, <3>1, HandlerForgets, HeldShrinks, RouterForgets
               DEF IInv, Router!Next
        <3>2. CASE TokenIdled(t) \/ Login(t)
            <4>1. ns[t] \in Namespaces
                BY <1>2, <3>2 DEF TokenIdled, Login, IInv, KnowsNs
            <4> QED
                BY <1>2, <3>2, <4>1, IssueHeld, RouterIssues
                   DEF IInv, Router!Next
        <3> QED
            BY <3>1, <3>2
    <2> QED
        BY <1>2, <2>1, <2>2, NextSplit DEF Handle
<1> QED
    BY <1>1, <1>2, Invariant, PTL DEF Spec, ImplementsRouter, Router!Spec

=============================================================================
