------------------------------ MODULE AuthKeys ------------------------------
(***************************************************************************)
(* The public keys of the auth client (internal/auth/auth.go): requests    *)
(* that check the key of a token, the fetch that singleUpdate lets through *)
(* once, and the timers that let it through again.                         *)
(*                                                                         *)
(* singleUpdate is a resync.Once: Do looks at a flag, takes a mutex, looks *)
(* again, runs the function, sets the flag and releases the mutex; Reset   *)
(* clears the flag under the mutex.                                        *)
(***************************************************************************)
EXTENDS Naturals

CONSTANTS
    Callers,       \* goroutines that check tokens
    Starter,       \* the goroutine that NewClient starts, one of them
    Kids,          \* key ids
    MaxTimers,     \* bound: timers pending when a request begins
    MaxFaults,     \* bound: fetches that fail
    MaxRotations   \* bound: changes of the published keys

NoKid == "none"
NoCaller == "nobody"

ASSUME AuthKeysAssumption ==
    /\ Starter \in Callers
    /\ NoCaller \notin Callers
    /\ NoKid \notin Kids
    /\ MaxTimers \in Nat
    /\ MaxFaults \in Nat
    /\ MaxRotations \in Nat

VARIABLES
    published,   \* the keys that the auth service publishes
    publicKeys,  \* the keys that the client knows
    done,        \* singleUpdate: its flag
    holder,      \* singleUpdate: who holds its mutex
    timers,      \* pending calls of Reset (time.AfterFunc)
    pc,          \* where each caller is
    kid,         \* the key it needs
    err,         \* did the update it made fail?
    rejected,    \* keys that a token was turned down for
    faults,      \* fetches that failed
    rotations    \* changes of the published keys

onceVars == <<done, holder, timers>>
callerVars == <<pc, kid, err, rejected>>
vars == <<published, publicKeys, done, holder, timers, pc, kid, err, rejected,
          faults, rotations>>

Steps == {"idle", "once", "lock", "fetch", "after", "reload"}

TypeOK ==
    /\ published \subseteq Kids
    /\ publicKeys \subseteq Kids
    /\ done \in BOOLEAN
    /\ holder \in Callers \cup {NoCaller}
    /\ timers \in Nat
    /\ pc \in [Callers -> Steps]
    /\ kid \in [Callers -> Kids \cup {NoKid}]
    /\ \A c \in Callers : pc[c] = "reload" => kid[c] # NoKid
    /\ err \in [Callers -> BOOLEAN]
    /\ rejected \subseteq Kids
    /\ faults \in 0..MaxFaults
    /\ rotations \in 0..MaxRotations

(* NewClient fetches the keys in a goroutine of its own. *)
Init ==
    /\ published \in (SUBSET Kids) \ {{}}
    /\ publicKeys = {}
    /\ done = FALSE
    /\ holder = NoCaller
    /\ timers = 0
    /\ pc = [c \in Callers |-> IF c = Starter THEN "once" ELSE "idle"]
    /\ kid = [c \in Callers |-> NoKid]
    /\ err = [c \in Callers |-> FALSE]
    /\ rejected = {}
    /\ faults = 0
    /\ rotations = 0

-----------------------------------------------------------------------------
Goto(c, step) == pc' = [pc EXCEPT ![c] = step]

Return(c) ==
    /\ Goto(c, "idle")
    /\ kid' = [kid EXCEPT ![c] = NoKid]
    /\ err' = [err EXCEPT ![c] = FALSE]

(* A token with a known key is checked at once and changes nothing; for    *)
(* another one the keys are updated first.                                 *)
Check(c, k) ==
    /\ pc[c] = "idle"
    /\ timers < MaxTimers
    /\ k \notin publicKeys
    /\ kid' = [kid EXCEPT ![c] = k]
    /\ Goto(c, "once")
    /\ UNCHANGED <<published, publicKeys, onceVars, err, rejected, faults,
                   rotations>>

(* Mutant: who comes during a fetch does not wait for it. *)
DoLooks_SkipsIfBusy(c) ==
    /\ pc[c] = "once"
    /\ Goto(c, IF done \/ holder # NoCaller THEN "after" ELSE "lock")
    /\ UNCHANGED <<published, publicKeys, onceVars, kid, err, rejected, faults,
                   rotations>>

(* Mutant: a flag without a mutex takes the place of singleUpdate. *)
DoLooks_NoMutex(c) ==
    /\ pc[c] = "once"
    /\ Goto(c, IF done THEN "after" ELSE "fetch")
    /\ UNCHANGED <<published, publicKeys, onceVars, kid, err, rejected, faults,
                   rotations>>

(* Do returns without an error of its own if the update is done already.   *)
DoLooks(c) ==
    /\ pc[c] = "once"
    /\ Goto(c, IF done THEN "after" ELSE "lock")
    /\ UNCHANGED <<published, publicKeys, onceVars, kid, err, rejected, faults,
                   rotations>>

DoLocks(c) ==
    /\ pc[c] = "lock"
    /\ holder = NoCaller
    /\ IF done
       THEN Goto(c, "after") /\ UNCHANGED holder
       ELSE Goto(c, "fetch") /\ holder' = c
    /\ UNCHANGED <<published, publicKeys, done, timers, kid, err, rejected,
                   faults, rotations>>

(* Mutant: what is stored is the id asked for. *)
Fetched_StoresAsked(c, keys, failed) ==
    /\ publicKeys' = publicKeys \cup {kid[c]}
    /\ err' = [err EXCEPT ![c] = failed]
    /\ done' = TRUE
    /\ holder' = NoCaller
    /\ Goto(c, "after")

(* Mutant: after an error Reset is called inside Do, and waits for it. *)
Fetched_ResetsInside(c, keys, failed) ==
    /\ publicKeys' = publicKeys \cup keys
    /\ err' = [err EXCEPT ![c] = failed]
    /\ done' = TRUE
    /\ holder' = IF failed THEN c ELSE NoCaller
    /\ Goto(c, "after")

(* updatePublicKeys stores the keys it can parse, all or some, and fails   *)
(* if there is one that it cannot; Do is done either way.                  *)
Fetched(c, keys, failed) ==
    /\ publicKeys' = publicKeys \cup keys
    /\ err' = [err EXCEPT ![c] = failed]
    /\ done' = TRUE
    /\ holder' = NoCaller
    /\ Goto(c, "after")

FetchSucceeds(c) ==
    /\ pc[c] = "fetch"
    /\ Fetched(c, published, FALSE)
    /\ UNCHANGED <<published, timers, kid, rejected, faults, rotations>>

FetchFails(c) ==
    /\ pc[c] = "fetch"
    /\ faults < MaxFaults
    /\ faults' = faults + 1
    /\ \E keys \in SUBSET published : Fetched(c, keys, TRUE)
    /\ UNCHANGED <<published, timers, kid, rejected, rotations>>

(* Mutant: an error does not reset. *)
AfterError_NoReset(c) ==
    /\ pc[c] = "after"
    /\ err[c]
    /\ rejected' = rejected \cup ({kid[c]} \ {NoKid})
    /\ Return(c)
    /\ UNCHANGED <<published, publicKeys, onceVars, faults, rotations>>

(* An error lets the next update through at once; the check ends with it.  *)
AfterError(c) ==
    /\ pc[c] = "after"
    /\ err[c]
    /\ holder = NoCaller
    /\ done' = FALSE
    /\ rejected' = rejected \cup ({kid[c]} \ {NoKid})
    /\ Return(c)
    /\ UNCHANGED <<published, publicKeys, holder, timers, faults, rotations>>

(* Mutant: no timer is started. *)
AfterSuccess_NoTimer(c) ==
    /\ pc[c] = "after"
    /\ ~err[c]
    /\ Goto(c, IF kid[c] = NoKid THEN "idle" ELSE "reload")
    /\ UNCHANGED <<published, publicKeys, onceVars, kid, err, rejected, faults,
                   rotations>>

(* Without one it is let through later, whether or not Do ran the update.  *)
AfterSuccess(c) ==
    /\ pc[c] = "after"
    /\ ~err[c]
    /\ timers' = timers + 1
    /\ Goto(c, IF kid[c] = NoKid THEN "idle" ELSE "reload")
    /\ UNCHANGED <<published, publicKeys, done, holder, kid, err, rejected,
                   faults, rotations>>

Reload(c) ==
    /\ pc[c] = "reload"
    /\ rejected' = rejected \cup ({kid[c]} \ publicKeys)
    /\ Return(c)
    /\ UNCHANGED <<published, publicKeys, onceVars, faults, rotations>>

TimerFires ==
    /\ timers > 0
    /\ holder = NoCaller
    /\ timers' = timers - 1
    /\ done' = FALSE
    /\ UNCHANGED <<published, publicKeys, holder, callerVars, faults,
                   rotations>>

(* The auth service changes its keys. *)
Rotate ==
    /\ rotations < MaxRotations
    /\ rotations' = rotations + 1
    /\ published' \in (SUBSET Kids) \ {{}}
    /\ UNCHANGED <<publicKeys, onceVars, callerVars, faults>>

CallerStep(c) ==
    \/ DoLooks(c) \/ DoLocks(c)
    \/ FetchSucceeds(c) \/ FetchFails(c)
    \/ AfterError(c) \/ AfterSuccess(c)
    \/ Reload(c)

Next ==
    \/ \E c \in Callers : CallerStep(c) \/ (\E k \in Kids : Check(c, k))
    \/ TimerFires
    \/ Rotate

Spec == Init /\ [][Next]_vars

(* Goroutines run, the fetch returns (util.HTTPClient has a timeout) and   *)
(* timers fire, each of them although others use the mutex as well (a      *)
(* waiter gets a mutex of Go within bounded time); a user whose token is   *)
(* rejected comes again with it.                                           *)
Fairness ==
    /\ \A c \in Callers : SF_vars(CallerStep(c))
    /\ SF_vars(TimerFires)
    /\ \A k \in Kids : SF_vars(\E c \in Callers : Check(c, k))

FairSpec == Spec /\ Fairness

-----------------------------------------------------------------------------
(* The flag is never left set for good: a timer or a caller on its way     *)
(* will clear it. Otherwise keys would never be fetched again              *)
(* (updatePublicKeysOnce).                                                 *)
ResetComes ==
    done => timers > 0 \/ \E c \in Callers : pc[c] = "after"

(* A token with a published key is never turned down while the keys have   *)
(* not changed and no fetch has failed, also by those who come while the   *)
(* first fetch is under way (rsaPublicKeyForID).                           *)
FirstFetchAwaited ==
    faults + rotations = 0 => rejected \cap published = {}

(* What makes the refinement inductive: who fetches holds the mutex and    *)
(* has found the flag clear under it.                                      *)
FetcherHolds ==
    \A c \in Callers : pc[c] = "fetch" => holder = c /\ ~done

Updates == INSTANCE KeyUpdates WITH
    known    <- publicKeys,
    updating <- {c \in Callers : pc[c] = "fetch"},
    updated  <- done

(* Refinement: however callers, timers and failures interleave, keys are   *)
(* fetched by one caller at a time and once between two resets, and no     *)
(* reset comes during a fetch; a known key is never lost                   *)
(* (updatePublicKeysOnce).                                                 *)
ImplementsUpdates == Updates!Spec

(* Every check ends, also for those who wait for another one's fetch.      *)
CheckEnds == \A c \in Callers : pc[c] # "idle" ~> pc[c] = "idle"

(* A key that stays published is known in the end, after any rotation and  *)
(* any failed fetch.                                                       *)
KeysArrive ==
    \A k \in Kids : k \in published ~> k \in publicKeys \/ k \notin published

=============================================================================
