---------------------------- MODULE RequestStore ----------------------------
(***************************************************************************)
(* The tables of internal/storage as the webhook path uses them.           *)
(*                                                                         *)
(* A row of table requests stands for one buffered delivery: its primary   *)
(* key is the delivery, owner is its Namespace column (and, through the    *)
(* route made from it, its Host column), retries its Retries column.       *)
(* Table statistics is reduced to which namespaces have a row, the part    *)
(* that decides between CreateStatistics and UpdateStatistics.             *)
(*                                                                         *)
(* Every operation is one SQL statement and therefore one step; an         *)
(* operation that fails changes nothing and is written by its caller as    *)
(* Fault /\ UNCHANGED storeVars.                                           *)
(***************************************************************************)
EXTENDS Platform

VARIABLES
    requests,   \* deliveries with a row in table requests
    owner,      \* the namespace a delivery was resolved to (Namespace column)
    retries,    \* the Retries column
    statistics  \* namespaces with a row in table statistics

storeVars == <<requests, owner, retries, statistics>>

(* A row as the replay loop holds it in memory. *)
Row == [id : Hooks, retries : Nat]

StoreTypeOK ==
    /\ requests \subseteq Hooks
    /\ owner \in [Hooks -> Namespaces]
    /\ retries \in [Hooks -> Nat]
    /\ statistics \subseteq Namespaces

StoreInit ==
    /\ requests = {}
    /\ owner = [h \in Hooks |-> CHOOSE ns \in Namespaces : TRUE]
    /\ retries = [h \in Hooks |-> 0]
    /\ statistics = {}

CreateRequest(h) ==
    /\ requests' = requests \cup {h}
    /\ retries' = [retries EXCEPT ![h] = 0]
    /\ UNCHANGED <<owner, statistics>>

(* DELETE of a row that is already gone is no error. *)
DeleteRequest(h) ==
    /\ requests' = requests \ {h}
    /\ UNCHANGED <<owner, retries, statistics>>

(* Mutant: a Save that inserts the row when the update finds none. *)
UpdateRequest_Upsert(h, n) ==
    /\ retries' = [retries EXCEPT ![h] = n]
    /\ requests' = requests \cup {h}
    /\ UNCHANGED <<owner, statistics>>

(* UPDATE of the whole row by primary key: the value computed in memory    *)
(* overwrites the column; a row that is gone is not created again.         *)
UpdateRequest(h, n) ==
    /\ retries' = IF h \in requests THEN [retries EXCEPT ![h] = n] ELSE retries
    /\ UNCHANGED <<requests, owner, statistics>>

CreateStatistics(ns) ==
    /\ statistics' = statistics \cup {ns}
    /\ UNCHANGED <<requests, owner, retries>>

(* GetUsers and GetRequests. *)
Users == {owner[h] : h \in requests}

RowsOf(ns) ==
    {[id |-> h, retries |-> retries[h]] : h \in {k \in requests : owner[k] = ns}}

=============================================================================
