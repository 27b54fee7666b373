--------------------------- MODULE WebhookMailbox ---------------------------
(***************************************************************************)
(* What the proxy promises GitHub, without handlers, loops, retries or     *)
(* processes: a mailbox. A delivery is put in at most once and leaves only *)
(* when it is settled, and a delivery is accepted only if it was put in.   *)
(***************************************************************************)
CONSTANT Hooks

VARIABLES
    open,      \* deliveries that may still be put in
    pending,   \* deliveries in the mailbox
    accepted,  \* deliveries whose sender has been told so
    settled    \* deliveries nothing more is owed to

mailbox == <<open, pending, accepted, settled>>

(* With a retry limit of 0 deliveries are settled from the start. *)
Init ==
    /\ open = Hooks
    /\ pending = {}
    /\ accepted = {}
    /\ settled \in SUBSET Hooks

PutIn(h) ==
    /\ h \in open
    /\ open' = open \ {h}
    /\ pending' = pending \cup {h}
    /\ UNCHANGED <<accepted, settled>>

(* Deliveries that are turned away, passed through, or cut off by a crash. *)
LetGo(H) ==
    /\ open' = open \ H
    /\ accepted' = accepted \ H
    /\ UNCHANGED <<pending, settled>>

Accept(h) ==
    /\ h \notin open
    /\ h \in pending \cup settled
    /\ accepted' = accepted \cup {h}
    /\ UNCHANGED <<open, pending, settled>>

Settle(h) ==
    /\ h \notin open
    /\ settled' = settled \cup {h}
    /\ UNCHANGED <<open, pending, accepted>>

TakeOut(h) ==
    /\ h \in settled
    /\ pending' = pending \ {h}
    /\ UNCHANGED <<open, accepted, settled>>

(* A delivery the mailbox itself spoils. *)
Discard(h) ==
    /\ h \notin open
    /\ pending' = pending \ {h}
    /\ settled' = settled \cup {h}
    /\ UNCHANGED <<open, accepted>>

Next ==
    \/ \E H \in SUBSET Hooks : LetGo(H)
    \/ \E h \in Hooks : \/ PutIn(h)
                        \/ Accept(h)
                        \/ Settle(h)
                        \/ TakeOut(h)
                        \/ Discard(h)

Spec == Init /\ [][Next]_mailbox

=============================================================================
