---------------------------- MODULE SessionRouter ----------------------------
(***************************************************************************)
(* What the cookies of the proxy promise a user, without tabs, handlers,   *)
(* pods or redirects: a value that a browser is given stands for one       *)
(* Jenkins, by a session there or by an idled cookie, and for no other as  *)
(* long as anybody holds it. It can be forgotten, and is then of no use.   *)
(***************************************************************************)
CONSTANTS
    Values,
    Namespaces,
    NoNs

VARIABLES
    route,     \* the namespace each value is for
    sessions,  \* the values each Jenkins knows as a session
    held       \* the values in the browser, on their way or in use

router == <<route, sessions, held>>

Init ==
    /\ route = [v \in Values |-> NoNs]
    /\ sessions = [n \in Namespaces |-> {}]
    /\ held = {}

Unused(v) ==
    /\ v \notin held
    /\ route[v] = NoNs
    /\ \A n \in Namespaces : v \notin sessions[n]

(* A new value, which reaches the browser or not. *)
Hand(v, n) ==
    /\ Unused(v)
    /\ route' = [route EXCEPT ![v] = n]
    /\ held' \subseteq held \cup {v}

LogIn(v, n) ==
    /\ Hand(v, n)
    /\ sessions' = [sessions EXCEPT ![n] = @ \cup {v}]

ShowWaiting(v, n) ==
    /\ Hand(v, n)
    /\ UNCHANGED sessions

(* By the proxy, by Jenkins, by the browser. *)
Forget ==
    /\ route' \in [Values -> Namespaces \cup {NoNs}]
    /\ \A v \in Values : route'[v] \in {route[v], NoNs}
    /\ sessions' \in [Namespaces -> SUBSET Values]
    /\ \A n \in Namespaces : sessions'[n] \subseteq sessions[n]
    /\ held' \subseteq held

Next ==
    \/ \E v \in Values, n \in Namespaces : LogIn(v, n) \/ ShowWaiting(v, n)
    \/ Forget

Spec == Init /\ [][Next]_router

=============================================================================
