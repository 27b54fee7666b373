----------------------------- MODULE KeyUpdates -----------------------------
(***************************************************************************)
(* What updatePublicKeysOnce of internal/auth/auth.go says of itself:      *)
(* "keys would be fetched only once even if the func is called by several  *)
(* go routines at once", and can be fetched again after a reset. Callers,  *)
(* timers and the parts of resync.Once are left out.                       *)
(***************************************************************************)
CONSTANTS
    Callers,
    Kids

VARIABLES
    published,  \* the keys of the auth service
    known,      \* the keys of the client
    updating,   \* who fetches them now
    updated     \* have they been fetched since the last reset?

keys == <<published, known, updating, updated>>

Init ==
    /\ published \in (SUBSET Kids) \ {{}}
    /\ known = {}
    /\ updating = {}
    /\ updated = FALSE

Begin(c) ==
    /\ ~updated
    /\ updating = {}
    /\ updating' = {c}
    /\ UNCHANGED <<published, known, updated>>

(* Known keys are added to, and by an update alone; one that fails may     *)
(* have brought some.                                                      *)
End(c) ==
    /\ updating = {c}
    /\ updating' = {}
    /\ updated' = TRUE
    /\ known \subseteq known' /\ known' \subseteq known \cup published
    /\ UNCHANGED published

(* The next update is let through, but not beside one that is under way. *)
Reset ==
    /\ updating = {}
    /\ updated' = FALSE
    /\ UNCHANGED <<published, known, updating>>

Rotate ==
    /\ published' \in (SUBSET Kids) \ {{}}
    /\ UNCHANGED <<known, updating, updated>>

Next ==
    \/ \E c \in Callers : Begin(c) \/ End(c)
    \/ Reset
    \/ Rotate

Spec == Init /\ [][Next]_keys

=============================================================================
