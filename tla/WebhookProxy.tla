---------------------------- MODULE WebhookProxy ----------------------------
(***************************************************************************)
(* The webhook path as a whole: handlers, one replay loop per proxy, the   *)
(* database they share, the pods, and proxies that crash and come back.    *)
(***************************************************************************)
EXTENDS ReplayLoop, FiniteSets

CONSTANT MaxCrashes   \* bound: crashes of proxies in one behaviour

ASSUME CrashAssumption ==
    /\ MaxCrashes \in Nat
    /\ IsFiniteSet(Proxies)

VARIABLE crashes

vars == <<platformVars, storeVars, handlerVars, loopVars, crashes>>

TypeOK ==
    /\ PlatformTypeOK
    /\ StoreTypeOK
    /\ HandlerTypeOK
    /\ LoopTypeOK
    /\ crashes \in 0..MaxCrashes

Init ==
    /\ PlatformInit
    /\ StoreInit
    /\ HandlerInit
    /\ LoopInit
    /\ crashes = 0

(* The process dies and is started again: its handlers are gone, and with  *)
(* them the responses net/http had not sent yet; its loop starts anew; the *)
(* database stays.                                                         *)
Crash(p) ==
    LET gone == {h \in Hooks : at[h] = p /\ pc[h] \in Active}  IN
    /\ crashes < MaxCrashes
    /\ crashes' = crashes + 1
    /\ pc' = [h \in Hooks |-> IF h \in gone THEN "dead" ELSE pc[h]]
    /\ reply' = [h \in Hooks |-> IF h \in gone THEN 0 ELSE reply[h]]
    /\ visits' = {h \in visits : at[h] # p}
    /\ lpc' = [lpc EXCEPT ![p] = "users"]
    /\ todo' = [todo EXCEPT ![p] = {}]
    /\ batch' = [batch EXCEPT ![p] = {}]
    /\ UNCHANGED <<at, cur, failures, spoiled, storeVars, platformVars>>

Environment ==
    \E ns \in Namespaces : PodStarts(ns) \/ IdlePod(ns) \/ UserWakes(ns)

Next ==
    \/ \E h \in Hooks, p \in Proxies : Arrive(h, p) /\ UNCHANGED <<loopVars, crashes>>
    \/ \E h \in Hooks : HandlerStep(h) /\ UNCHANGED <<loopVars, crashes>>
    \/ \E h \in Hooks : RecordVisit(h) /\ UNCHANGED <<loopVars, crashes>>
    \/ \E p \in Proxies : LoopStep(p) /\ UNCHANGED crashes
    \/ \E p \in Proxies : Crash(p)
    \/ Environment /\ UNCHANGED <<deliveryVars, storeVars, handlerVars, loopVars, crashes>>

Spec == Init /\ [][Next]_vars

(* Fairness: the Go scheduler runs every goroutine that can run, a call    *)
(* returns sooner or later, and a pod that was started comes up. Nothing   *)
(* makes a webhook arrive, a user wake a Jenkins or the idler stop one.    *)
Fairness ==
    /\ \A h \in Hooks : WF_vars(HandlerStep(h) /\ UNCHANGED <<loopVars, crashes>>)
    /\ \A p \in Proxies : WF_vars(LoopStep(p) /\ UNCHANGED crashes)
    /\ \A ns \in Namespaces :
          WF_vars(PodStarts(ns) /\ UNCHANGED <<deliveryVars, storeVars,
                                              handlerVars, loopVars, crashes>>)

FairSpec == Spec /\ Fairness

-----------------------------------------------------------------------------
(* What the webhook path promises. *)

(* A delivery is settled when nothing more is owed to it: Jenkins has      *)
(* processed it or thrown it away, its retries are used up, or the         *)
(* database lost its row.                                                  *)
Settled(h) ==
    \/ received[h] > 0
    \/ h \in refused
    \/ failures[h] >= MaxRequestRetry
    \/ h \in spoiled

(* A delivery that GitHub saw accepted with 202 is in the table until it   *)
(* is settled: no interleaving of the handler, the loops of all proxies    *)
(* and their crashes drops it (storeGHRequest, ProcessBuffer).             *)
AcceptedKept ==
    \A h \in Hooks : reply[h] = 202 => h \in requests \/ Settled(h)

(* What makes AcceptedKept inductive. Kept holds from the insert of a row  *)
(* on; the counters of the table and of every copy of a row lag behind the *)
(* attempts that really failed, so a loop that gives a row up has cause;   *)
(* a loop about to delete holds a settled row; a delivery that can still   *)
(* be buffered has neither a row nor an answer; and no loop holds one.     *)
Kept(h) == h \in requests \/ Settled(h)

StoredKept ==
    \A h \in Hooks :
        reply[h] = 202 \/ pc[h] \in {"readStats", "createStats", "updateStats"}
            => Kept(h)

CountersLag ==
    /\ \A h \in Hooks : retries[h] <= failures[h]
    /\ \A p \in Proxies :
          /\ cur[p].retries <= failures[cur[p].id]
          /\ \A r \in batch[p] : r.retries <= failures[r.id]

LoopJustified ==
    \A p \in Proxies :
        /\ lpc[p] = "increment" => cur[p].retries < failures[cur[p].id]
        /\ lpc[p] = "delete" => Settled(cur[p].id)

OpenStates == {"unseen", "resolve", "state", "store"}

OpenUntouched ==
    \A h \in Hooks :
        pc[h] \in OpenStates => h \notin requests /\ reply[h] = 0

CopiesClosed ==
    \A p \in Proxies :
        /\ lpc[p] \in {"send", "increment", "delete"} => pc[cur[p].id] \notin OpenStates
        /\ \A r \in batch[p] : pc[r.id] \notin OpenStates

IInv ==
    /\ TypeOK
    /\ StoredKept
    /\ CountersLag
    /\ LoopJustified
    /\ OpenUntouched
    /\ CopiesClosed

(* A handler that leaves a buffered delivery behind leaves it with a       *)
(* Jenkins that is up or coming up, unless the two calls of Start itself   *)
(* fail: whatever the statistics, the replay loop, other tenants' pods and *)
(* the idler have done since the state was read first. handleGitHubRequest *)
(* has to call Start on every path that follows a buffered row, because    *)
(* the loop itself never starts a Jenkins.                                 *)
BufferedMeansWoken ==
    [][\A h \in Hooks :
          h \in requests' /\ pc'[h] = "done" /\ pc[h] # "done" =>
              \/ jenkins'[owner'[h]] # "idled"
              \/ pc[h] \in {"start", "unidle"} /\ faults' > faults]_vars

(* With one proxy, a delivery is attempted at most MaxRequestRetry times   *)
(* without success, one more for every failing call and for every crash    *)
(* that kept the counter from being saved (github.go, the check of         *)
(* r.Retries, and IncrementRequestRetry).                                  *)
RetryBound ==
    Cardinality(Proxies) = 1 =>
        \A h \in Hooks : failures[h] <= MaxRequestRetry + faults + crashes

(* How many proxies have the counter of a row at each value up to the      *)
(* limit, for every way in which their counters may differ: there are      *)
(* (m + n)! / (m! n!) such spreads for n proxies and the limit m.          *)
Spread(y) ==
    [k \in 0..MaxRequestRetry |-> Cardinality({p \in Proxies : y[p] = k})]

Spreads == {Spread(y) : y \in [Proxies -> 0..MaxRequestRetry]}

(* Proxies that replay the same table, as during a rolling deployment,     *)
(* overwrite each other's counters with the value of their own copy plus   *)
(* one, so a counter may go back and the limit be exceeded without any     *)
(* failing call. Every failed attempt still uses up one spread of the      *)
(* counters for good: with one proxy there are MaxRequestRetry attempts,   *)
(* with two (MaxRequestRetry + 1) * (MaxRequestRetry + 2) / 2 - 1          *)
(* (github.go, the check of r.Retries; IncrementRequestRetry).             *)
OverlapRetryBound ==
    \A h \in Hooks : failures[h] < Cardinality(Spreads) + faults + crashes

(* Jenkins processes a delivery once for each proxy that may hold a copy   *)
(* of its row, and once more only for a lost answer, a failed delete or a  *)
(* crash between the answer and the delete.                                *)
DuplicateBound ==
    \A h \in Hooks : received[h] <= Cardinality(Proxies) + faults + crashes

(* A delivery that was answered with success is gone without a trace only  *)
(* if a call failed or a pod was idled after its state was read, or if     *)
(* Jenkins itself answers it with an error; a Jenkins that is still coming *)
(* up loses nothing (the choice between passing on and buffering in        *)
(* handleGitHubRequest, which writes the 200 before it forwards).          *)
LossNeedsCause ==
    faults + idles = 0 =>
        \A h \in Hooks \ Poison :
            pc[h] = "done" /\ reply[h] \in {200, 202} => Kept(h)

(* A row that was deleted never comes back: neither the counter update of  *)
(* another proxy that still holds a copy nor a late handler recreates it   *)
(* (DeleteRequest, updateRequest, CreateRequest).                          *)
NoResurrection ==
    [][\A h \in Hooks :
          h \in requests' /\ h \notin requests => pc[h] = "store"]_vars

(* If the Jenkins of a namespace is up for good, the deliveries buffered   *)
(* for it leave the table, whatever the Jenkins of other namespaces and    *)
(* deliveries that Jenkins never accepts do (ProcessBuffer).               *)
BufferDrains ==
    \A ns \in Namespaces :
        <>[](jenkins[ns] = "running") =>
            \A h \in Hooks :
                (h \in requests /\ owner[h] = ns) ~> (h \notin requests)

(* Refinement: seen from GitHub, the webhook path is the mailbox of        *)
(* WebhookMailbox. A row is the letter; reply 202 is the acceptance.       *)
Mailbox == INSTANCE WebhookMailbox WITH
    open     <- {h \in Hooks : pc[h] \in OpenStates},
    pending  <- requests,
    accepted <- {h \in Hooks : reply[h] = 202},
    settled  <- {h \in Hooks : Settled(h)}

(* No delivery is buffered twice, none is accepted that was not buffered,  *)
(* and no row - accepted or not - leaves the table before it is settled.   *)
ImplementsMailbox == Mailbox!Spec

-----------------------------------------------------------------------------
(* What the comments of the code say, and the code does not do. *)

(* github.go: "If Jenkins is idle/stating, we need to cache the request    *)
(* and return success". A buffered delivery whose handler has returned was *)
(* answered with 202, if no call failed.                                   *)
CachedMeansSuccess ==
    faults = 0 =>
        \A h \in Hooks : h \in requests /\ pc[h] = "done" => reply[h] = 202

(* proxy.go: "If the request comes from Github, it buffers it and replays  *)
(* if Jenkins is not available." A delivery answered with success was      *)
(* taken by Jenkins or is, or was, in the table.                           *)
BufferedIfUnavailable ==
    \A h \in Hooks :
        pc[h] = "done" /\ reply[h] \in {200, 202} =>
            h \in requests \/ Settled(h)

=============================================================================
