----------------------------- MODULE ReplayLoop -----------------------------
(***************************************************************************)
(* ProcessBuffer of internal/proxy/github.go: the one goroutine of each    *)
(* proxy that replays buffered deliveries. It works on a copy of the rows  *)
(* of one namespace at a time; the rows, the pods and the loops of other   *)
(* proxies move on meanwhile.                                              *)
(***************************************************************************)
EXTENDS WebhookHandler

CONSTANT MaxRequestRetry   \* configuration: attempts before a row is dropped

ASSUME LoopAssumption == MaxRequestRetry \in Nat

VARIABLES
    lpc,       \* control state of the loop of each proxy
    todo,      \* namespaces the present pass still has to visit
    batch,     \* rows of the namespace being visited, not yet tried
    cur,       \* the row in hand
    failures,  \* history: failed attempts at each delivery
    spoiled    \* history: rows dropped because of their own storage

loopVars == <<lpc, todo, batch, cur, failures, spoiled>>

LoopStates == {"users", "requests", "row", "send", "increment", "delete"}

LoopTypeOK ==
    /\ lpc \in [Proxies -> LoopStates]
    /\ todo \in [Proxies -> SUBSET Namespaces]
    /\ batch \in [Proxies -> SUBSET Row]
    /\ cur \in [Proxies -> Row]
    /\ failures \in [Hooks -> Nat]
    /\ spoiled \subseteq Hooks

LoopInit ==
    /\ lpc = [p \in Proxies |-> "users"]
    /\ todo = [p \in Proxies |-> {}]
    /\ batch = [p \in Proxies |-> {}]
    /\ cur = [p \in Proxies |-> [id |-> CHOOSE h \in Hooks : TRUE, retries |-> 0]]
    /\ failures = [h \in Hooks |-> 0]
    /\ spoiled = {}

LoopGoto(p, from, to) ==
    /\ lpc[p] = from
    /\ lpc' = [lpc EXCEPT ![p] = to]

(* break out of the loop over the rows of a namespace. *)
Break(p, from) ==
    /\ LoopGoto(p, from, "requests")
    /\ batch' = [batch EXCEPT ![p] = {}]

-----------------------------------------------------------------------------

(* A pass begins, after the sleep, with the namespaces that have rows. *)
GetUsers(p) ==
    \/ /\ LoopGoto(p, "users", "requests")
       /\ todo' = [todo EXCEPT ![p] = Users]
       /\ UNCHANGED <<batch, cur, failures, spoiled>>
       /\ UNCHANGED <<handlerVars, storeVars, platformVars>>
    \/ /\ lpc[p] = "users"
       /\ Fault
       /\ UNCHANGED <<loopVars, handlerVars, storeVars, podVars, deliveryVars>>

(* The next namespace of the pass, in whatever order the query gave them;  *)
(* a namespace whose rows cannot be read is skipped.                       *)
GetRequests(p) ==
    \/ \E ns \in todo[p] :
          /\ todo' = [todo EXCEPT ![p] = @ \ {ns}]
          /\ \/ /\ LoopGoto(p, "requests", "row")
                /\ batch' = [batch EXCEPT ![p] = RowsOf(ns)]
                /\ UNCHANGED <<cur, failures, spoiled>>
                /\ UNCHANGED <<handlerVars, storeVars, platformVars>>
             \/ /\ lpc[p] = "requests"
                /\ Fault
                /\ UNCHANGED <<lpc, batch, cur, failures, spoiled>>
                /\ UNCHANGED <<handlerVars, storeVars, podVars, deliveryVars>>
    \/ /\ todo[p] = {}
       /\ LoopGoto(p, "requests", "users")
       /\ UNCHANGED <<todo, batch, cur, failures, spoiled>>
       /\ UNCHANGED <<handlerVars, storeVars, platformVars>>

(* Mutant: a Jenkins that is not running ends the pass for all tenants. *)
CheckRow_EndsPass(p) ==
    /\ \E r \in batch[p] : \E ns \in Lookup[r.id] :
          \/ /\ jenkins[ns] = "running"
             /\ LoopGoto(p, "row", "send")
             /\ cur' = [cur EXCEPT ![p] = r]
             /\ batch' = [batch EXCEPT ![p] = @ \ {r}]
             /\ UNCHANGED todo
          \/ /\ jenkins[ns] # "running"
             /\ Break(p, "row")
             /\ todo' = [todo EXCEPT ![p] = {}]
             /\ UNCHANGED cur
    /\ UNCHANGED <<failures, spoiled, handlerVars, storeVars, platformVars>>

(* One row: its owner is looked up anew and the state of that namespace's  *)
(* Jenkins is read; unless it is running the rest of the namespace is left *)
(* for a later pass. The statistics row is made if it is missing.          *)
CheckRow(p) ==
    /\ batch[p] # {}
    /\ \/ \E r \in batch[p] : \E ns \in Lookup[r.id] :
             /\ \/ CreateStatistics(owner[r.id]) /\ Healthy
                \/ Fault /\ UNCHANGED storeVars
             /\ \/ /\ jenkins[ns] = "running"
                   /\ LoopGoto(p, "row", "send")
                   /\ cur' = [cur EXCEPT ![p] = r]
                   /\ batch' = [batch EXCEPT ![p] = @ \ {r}]
                \/ /\ jenkins[ns] # "running"
                   /\ Break(p, "row")
                   /\ UNCHANGED cur
       \/ /\ Break(p, "row")
          /\ Fault
          /\ UNCHANGED <<cur, storeVars>>
    /\ UNCHANGED <<todo, failures, spoiled, handlerVars, podVars, deliveryVars>>

EndOfRows(p) ==
    /\ batch[p] = {}
    /\ LoopGoto(p, "row", "requests")
    /\ UNCHANGED <<todo, batch, cur, failures, spoiled>>
    /\ UNCHANGED <<handlerVars, storeVars, platformVars>>

(* Mutant: an error status settles the row as well. *)
Send_AnyAnswerSettles(p) ==
    LET h == cur[p].id  IN
    /\ cur[p].retries < MaxRequestRetry
    /\ \/ /\ \/ Answers200(h, owner[h])
             \/ Answers4xx(h, owner[h])
             \/ AnswersError(h, owner[h])
          /\ LoopGoto(p, "send", "delete")
          /\ UNCHANGED failures
       \/ /\ ConnectionFails \/ AnswerLost(h, owner[h])
          /\ LoopGoto(p, "send", "increment")
          /\ failures' = [failures EXCEPT ![h] = @ + 1]
    /\ UNCHANGED <<todo, batch, cur, spoiled, handlerVars, storeVars, podVars>>

(* Mutant: the limit is compared with <= and allows one attempt too many. *)
Send_OneTooMany(p) ==
    LET h == cur[p].id  IN
    /\ cur[p].retries <= MaxRequestRetry
    /\ AnswersError(h, owner[h])
    /\ LoopGoto(p, "send", "increment")
    /\ failures' = [failures EXCEPT ![h] = @ + 1]
    /\ UNCHANGED <<todo, batch, cur, spoiled, handlerVars, storeVars, podVars>>

(* The attempt, unless the row has used up its retries. It goes to the     *)
(* host of the row, the Jenkins of the namespace the row was made for.     *)
(* 200, 404 and 400 settle the row; all else counts as a failure.          *)
Send(p) ==
    LET h == cur[p].id  IN
    /\ cur[p].retries < MaxRequestRetry
    /\ \/ /\ Answers200(h, owner[h]) \/ Answers4xx(h, owner[h])
          /\ LoopGoto(p, "send", "delete")
          /\ UNCHANGED failures
       \/ /\ \/ AnswersError(h, owner[h])
             \/ ConnectionFails
             \/ AnswerLost(h, owner[h])
          /\ LoopGoto(p, "send", "increment")
          /\ failures' = [failures EXCEPT ![h] = @ + 1]
    /\ UNCHANGED <<todo, batch, cur, spoiled, handlerVars, storeVars, podVars>>

GiveUp(p) ==
    /\ cur[p].retries >= MaxRequestRetry
    /\ LoopGoto(p, "send", "delete")
    /\ UNCHANGED <<todo, batch, cur, failures, spoiled>>
    /\ UNCHANGED <<handlerVars, storeVars, platformVars>>

(* DeleteRequest for a row that cannot be used any more; if the delete     *)
(* fails as well, the row stays.                                           *)
Drop(h) ==
    \/ /\ DeleteRequest(h)
       /\ spoiled' = spoiled \cup {h}
    \/ UNCHANGED <<storeVars, spoiled>>

(* A row from which no request can be made is dropped. *)
DropUnformattable(p) ==
    /\ Break(p, "send")
    /\ Fault
    /\ Drop(cur[p].id)
    /\ UNCHANGED <<todo, cur, failures, handlerVars, podVars, deliveryVars>>

(* Mutant: the counter of the copy goes down. *)
IncrementRetry_Decrements(p) ==
    /\ Break(p, "increment")
    /\ UpdateRequest(cur[p].id, cur[p].retries - 1)
    /\ UNCHANGED <<todo, cur, failures, spoiled, handlerVars, platformVars>>

(* IncrementRequestRetry: the counter of the copy is increased and the row *)
(* saved; if that fails the row is deleted. Then the rows after it wait    *)
(* for a later pass.                                                       *)
IncrementRetry(p) ==
    /\ Break(p, "increment")
    /\ \/ /\ UpdateRequest(cur[p].id, cur[p].retries + 1)
          /\ Healthy
          /\ UNCHANGED spoiled
       \/ /\ Fault
          /\ Drop(cur[p].id)
    /\ UNCHANGED <<todo, cur, failures, handlerVars, podVars, deliveryVars>>

(* Mutant: the loop goes on without deleting the row. *)
DeleteSettled_Keeps(p) ==
    /\ LoopGoto(p, "delete", "row")
    /\ UNCHANGED <<todo, batch, cur, failures, spoiled>>
    /\ UNCHANGED <<handlerVars, storeVars, platformVars>>

(* The settled row is deleted; if that fails it stays for a later pass. *)
DeleteSettled(p) ==
    /\ LoopGoto(p, "delete", "row")
    /\ \/ DeleteRequest(cur[p].id) /\ Healthy
       \/ Fault /\ UNCHANGED storeVars
    /\ UNCHANGED <<todo, batch, cur, failures, spoiled>>
    /\ UNCHANGED <<handlerVars, podVars, deliveryVars>>

LoopStep(p) ==
    \/ GetUsers(p)
    \/ GetRequests(p)
    \/ CheckRow(p)
    \/ EndOfRows(p)
    \/ Send(p)
    \/ GiveUp(p)
    \/ DropUnformattable(p)
    \/ IncrementRetry(p)
    \/ DeleteSettled(p)

=============================================================================
