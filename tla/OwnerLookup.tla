----------------------------- MODULE OwnerLookup ----------------------------
(***************************************************************************)
(* Whose Jenkins a delivery for a repository is for: getUserWithRetry and  *)
(* getUser of internal/proxy/github.go, the TenantCache between them and   *)
(* the two services they ask, wit for the owner of the repository and the  *)
(* tenant service for the owner's Jenkins namespace. The entries of the    *)
(* cache do not depend on each other, so that one repository is enough.    *)
(*                                                                         *)
(* A tick is a second. Nothing keeps absolute times: the cache entry has   *)
(* the ticks it has left, a caller the ticks since its try or its sleep    *)
(* began, and what is no longer true an age, which stops at Old.           *)
(***************************************************************************)
EXTENDS Naturals

CONSTANTS
    Callers,     \* goroutines: handlers of deliveries and the replay loop
    Users,       \* identities known to wit and to the tenant service
    Namespaces,  \* their Jenkins namespaces
    Retry,       \* defaultRetry
    TTL,         \* life of an entry of TenantCache
    Slow,        \* the ticks a try, or a sleep, takes at most
    MaxMoves     \* bound: changes of owners and of homes

NoUser == "nobody"
NoNamespace == "none"

ASSUME OwnerLookupAssumption ==
    /\ Retry \in Nat \ {0}
    /\ TTL \in Nat
    /\ Slow \in Nat \ {0}
    /\ MaxMoves \in Nat
    /\ NoUser \notin Users
    /\ NoNamespace \notin Namespaces

VARIABLES
    owners,     \* users that have the repository in one of their spaces
    home,       \* the Jenkins namespace of each user, if there is one
    ownedAge,   \* ticks since a user had the repository
    homeAge,    \* ticks since a namespace was the user's
    moves,      \* changes so far
    cached,     \* TenantCache: the namespace of the repository
    life,       \* TenantCache: the ticks the entry has left
    pc,         \* where each caller is
    try,        \* the number of its try
    elapsed,    \* ticks since its try, or its sleep, began
    failedFor,  \* ticks since its first try failed
    owner,      \* the owner that wit named to it
    ns          \* the namespace it has found

worldVars == <<owners, home, ownedAge, homeAge, moves>>
cacheVars == <<cached, life>>
callerVars == <<pc, try, elapsed, failedFor, owner, ns>>
vars == <<owners, home, ownedAge, homeAge, moves, cached, life, pc, try,
          elapsed, failedFor, owner, ns>>

Steps == {"idle", "get", "wit", "tenant", "set", "sleep"}

Stale == TTL + Slow
Old == Stale + 1

TypeOK ==
    /\ owners \subseteq Users
    /\ home \in [Users -> Namespaces \cup {NoNamespace}]
    /\ ownedAge \in [Users -> 0..Old]
    /\ homeAge \in [Users -> [Namespaces -> 0..Old]]
    /\ moves \in 0..MaxMoves
    /\ cached \in Namespaces \cup {NoNamespace}
    /\ life \in 0..TTL
    /\ pc \in [Callers -> Steps]
    /\ try \in [Callers -> 1..Retry]
    /\ elapsed \in [Callers -> 0..Slow]
    /\ failedFor \in [Callers -> 0..Retry]
    /\ owner \in [Callers -> Users \cup {NoUser}]
    /\ ns \in [Callers -> Namespaces \cup {NoNamespace}]
    /\ \A c \in Callers : pc[c] = "tenant" => owner[c] # NoUser
    /\ \A c \in Callers : pc[c] = "set" => ns[c] # NoNamespace
    /\ \A c \in Callers : pc[c] = "sleep" => try[c] < Retry

Init ==
    /\ owners \in SUBSET Users
    /\ home \in [Users -> Namespaces \cup {NoNamespace}]
    /\ ownedAge = [u \in Users |-> IF u \in owners THEN 0 ELSE Old]
    /\ homeAge = [u \in Users |->
                     [n \in Namespaces |-> IF n = home[u] THEN 0 ELSE Old]]
    /\ moves = 0
    /\ cached = NoNamespace
    /\ life = 0
    /\ pc = [c \in Callers |-> "idle"]
    /\ try = [c \in Callers |-> 1]
    /\ elapsed = [c \in Callers |-> 0]
    /\ failedFor = [c \in Callers |-> 0]
    /\ owner = [c \in Callers |-> NoUser]
    /\ ns = [c \in Callers |-> NoNamespace]

-----------------------------------------------------------------------------
Goto(c, step) == pc' = [pc EXCEPT ![c] = step]

Restart(c, step) ==
    /\ Goto(c, step)
    /\ elapsed' = [elapsed EXCEPT ![c] = 0]

Return(c, n) ==
    /\ Restart(c, "idle")
    /\ try' = [try EXCEPT ![c] = 1]
    /\ failedFor' = [failedFor EXCEPT ![c] = 0]
    /\ owner' = [owner EXCEPT ![c] = NoUser]
    /\ ns' = [ns EXCEPT ![c] = n]

Begin(c) ==
    /\ pc[c] = "idle"
    /\ Restart(c, "get")
    /\ ns' = [ns EXCEPT ![c] = NoNamespace]
    /\ UNCHANGED <<worldVars, cacheVars, try, failedFor, owner>>

(* Mutant: an entry that is used lives on. *)
CacheHit_Renews(c) ==
    /\ pc[c] = "get"
    /\ cached # NoNamespace
    /\ Return(c, cached)
    /\ life' = TTL
    /\ UNCHANGED <<worldVars, cached>>

CacheHit(c) ==
    /\ pc[c] = "get"
    /\ cached # NoNamespace
    /\ Return(c, cached)
    /\ UNCHANGED <<worldVars, cacheVars>>

CacheMiss(c) ==
    /\ pc[c] = "get"
    /\ cached = NoNamespace
    /\ Goto(c, "wit")
    /\ UNCHANGED <<worldVars, cacheVars, try, elapsed, failedFor, owner, ns>>

(* wit lists the codebases with this URL, of any space and in any order;   *)
(* the owner of the first one whose space it includes is taken, and nobody *)
(* is one if there is none.                                                *)
OwnedBy == IF owners = {} THEN {NoUser} ELSE owners

SearchCodebase(c) ==
    /\ pc[c] = "wit"
    /\ \E u \in OwnedBy \ {NoUser} : owner' = [owner EXCEPT ![c] = u]
    /\ Goto(c, "tenant")
    /\ UNCHANGED <<worldVars, cacheVars, try, elapsed, failedFor, ns>>

(* The tenant of a user, and of its namespaces the one of type jenkins. *)
JenkinsOf(u) == home[u]

(* Mutant: the answer is used without a look at its error. *)
GetTenantInfo_IgnoresError(c) ==
    /\ pc[c] = "tenant"
    /\ ns' = [ns EXCEPT ![c] = JenkinsOf(owner[c])]
    /\ Goto(c, "set")
    /\ UNCHANGED <<worldVars, cacheVars, try, elapsed, failedFor, owner>>

GetTenantInfo(c) ==
    /\ pc[c] = "tenant"
    /\ JenkinsOf(owner[c]) # NoNamespace
    /\ ns' = [ns EXCEPT ![c] = JenkinsOf(owner[c])]
    /\ Goto(c, "set")
    /\ UNCHANGED <<worldVars, cacheVars, try, elapsed, failedFor, owner>>

(* An entry that another caller has set in the meantime is overwritten.    *)
SetDefault(c) ==
    /\ pc[c] = "set"
    /\ cached' = ns[c]
    /\ life' = TTL
    /\ Return(c, ns[c])
    /\ UNCHANGED worldVars

(* A service fails, or knows no owner or no namespace. What was learned in *)
(* this try is dropped and the caller sleeps before the next one.          *)
TryAgain(c) ==
    /\ pc[c] \in {"wit", "tenant"}
    /\ try[c] < Retry
    /\ failedFor' = [failedFor EXCEPT ![c] = IF try[c] = 1 THEN 0 ELSE @]
    /\ Restart(c, "sleep")
    /\ UNCHANGED <<worldVars, cacheVars, try, owner, ns>>

(* Mutant: the last try is left out. *)
GiveUp_Early(c) ==
    /\ pc[c] \in {"wit", "tenant"}
    /\ try[c] + 1 >= Retry
    /\ Return(c, NoNamespace)
    /\ UNCHANGED <<worldVars, cacheVars>>

(* The error of the last try is the caller's. *)
GiveUp(c) ==
    /\ pc[c] \in {"wit", "tenant"}
    /\ try[c] = Retry
    /\ Return(c, NoNamespace)
    /\ UNCHANGED <<worldVars, cacheVars>>

(* Mutant: the tries are not counted. *)
WakeUp_KeepsCount(c) ==
    /\ pc[c] = "sleep"
    /\ elapsed[c] > 0
    /\ owner' = [owner EXCEPT ![c] = NoUser]
    /\ Restart(c, "get")
    /\ UNCHANGED <<worldVars, cacheVars, try, failedFor, ns>>

WakeUp(c) ==
    /\ pc[c] = "sleep"
    /\ elapsed[c] > 0
    /\ try' = [try EXCEPT ![c] = @ + 1]
    /\ owner' = [owner EXCEPT ![c] = NoUser]
    /\ Restart(c, "get")
    /\ UNCHANGED <<worldVars, cacheVars, failedFor, ns>>

-----------------------------------------------------------------------------
(* The world: a repository gets other owners, a user another namespace,    *)
(* and time passes. An entry of the cache is found until its last tick.    *)
OwnersChange ==
    /\ moves < MaxMoves
    /\ moves' = moves + 1
    /\ owners' \in SUBSET Users
    /\ ownedAge' = [u \in Users |-> IF u \in owners' THEN 0 ELSE ownedAge[u]]
    /\ UNCHANGED <<home, homeAge, cacheVars, callerVars>>

HomeChanges(u) ==
    /\ moves < MaxMoves
    /\ moves' = moves + 1
    /\ \E n \in Namespaces \cup {NoNamespace} :
          /\ home' = [home EXCEPT ![u] = n]
          /\ homeAge' = [homeAge EXCEPT ![u] =
                [m \in Namespaces |-> IF m = n THEN 0 ELSE homeAge[u][m]]]
    /\ UNCHANGED <<owners, ownedAge, cacheVars, callerVars>>

Older(age) == IF age < Old THEN age + 1 ELSE age

Tick ==
    /\ \A c \in Callers : elapsed[c] < Slow
    /\ ownedAge' = [u \in Users |->
          IF u \in owners THEN 0 ELSE Older(ownedAge[u])]
    /\ homeAge' = [u \in Users |-> [n \in Namespaces |->
          IF n = home[u] THEN 0 ELSE Older(homeAge[u][n])]]
    /\ cached' = IF life = 0 THEN NoNamespace ELSE cached
    /\ life' = IF life = 0 THEN 0 ELSE life - 1
    /\ elapsed' = [c \in Callers |-> IF pc[c] = "idle" THEN 0 ELSE elapsed[c] + 1]
    /\ failedFor' = [c \in Callers |->
          IF (try[c] > 1 \/ pc[c] = "sleep") /\ failedFor[c] < Retry
          THEN failedFor[c] + 1
          ELSE failedFor[c]]
    /\ UNCHANGED <<owners, home, moves, pc, try, owner, ns>>

CallerStep(c) ==
    \/ CacheHit(c) \/ CacheMiss(c)
    \/ SearchCodebase(c) \/ GetTenantInfo(c) \/ SetDefault(c)
    \/ TryAgain(c) \/ GiveUp(c) \/ WakeUp(c)

Next ==
    \/ \E c \in Callers : Begin(c) \/ CallerStep(c)
    \/ OwnersChange
    \/ \E u \in Users : HomeChanges(u)
    \/ Tick

Spec == Init /\ [][Next]_vars

(* Goroutines run, calls return and time passes. That calls return is an   *)
(* assumption about wit: its client, unlike the tenant service's, has no   *)
(* timeout. Deliveries and changes need not come.                          *)
FairSpec ==
    Spec /\ WF_vars(Tick) /\ \A c \in Callers : WF_vars(CallerStep(c))

-----------------------------------------------------------------------------
Returns(c) == pc[c] # "idle" /\ pc'[c] = "idle"

(* A namespace that a lookup returns belonged, no longer ago than the life *)
(* of an entry and one slow try, to a user who had the repository within   *)
(* the same time, although entries are filled from answers older than      *)
(* themselves and older answers overwrite newer ones (getUser). The two    *)
(* ages are bounded apart: the services are asked one after the other, and *)
(* what they say may never have been true together.                        *)
RecentlyOf(n) ==
    \E u \in Users : ownedAge[u] <= Stale /\ homeAge[u][n] <= Stale

FreshEnough ==
    [][\A c \in Callers :
          Returns(c) /\ ns'[c] # NoNamespace => RecentlyOf(ns'[c])]_vars

(* A lookup fails only if its tries have failed for Retry - 1 seconds: a   *)
(* shorter failure of the services costs no delivery (getUserWithRetry).   *)
OutageTolerated ==
    [][\A c \in Callers :
          Returns(c) /\ ns'[c] = NoNamespace => failedFor[c] >= Retry - 1]_vars

(* Every lookup ends, whatever the services answer. *)
LookupEnds == \A c \in Callers : pc[c] # "idle" ~> pc[c] = "idle"

=============================================================================
