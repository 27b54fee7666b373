--------------------------- MODULE UsageStatistics ---------------------------
(***************************************************************************)
(* The statistics row of one tenant: recordStatistics reads it, changes    *)
(* its copy and writes all of it back, in as many goroutines as there are  *)
(* visits and buffered deliveries. The rows of tenants are independent.    *)
(*                                                                         *)
(* visitLock is held around the write alone. The write is one statement,   *)
(* so that the lock orders nothing that the database does not.             *)
(***************************************************************************)
EXTENDS Naturals

CONSTANTS
    Recorders,   \* goroutines that record
    NoRow,       \* the tenant has no row
    MaxTime,     \* bound: the clock
    MaxFaults    \* bound: statements that fail

ASSUME StatisticsAssumption ==
    /\ MaxTime \in Nat \ {0}
    /\ MaxFaults \in Nat

VARIABLES
    now,      \* the clock, in seconds
    row,      \* the tenant's row, if there is one
    pc,       \* where each recorder is
    event,    \* what it records
    copy,     \* what it has read and changed
    lasting,  \* history: the last times written that nobody could lose
    faults    \* statements that failed

vars == <<now, row, pc, event, copy, lasting, faults>>

Times == 0..MaxTime

(* The columns last_accessed and last_buffered_request; 0 is no time. *)
Statistics == [LastAccessed : Times, LastBufferedRequest : Times]

ASSUME NoRowAssumption == NoRow \notin Statistics

NewStatistics(la, lbr) == [LastAccessed |-> la, LastBufferedRequest |-> lbr]

Steps == {"idle", "read", "create", "update"}

TypeOK ==
    /\ now \in 1..MaxTime
    /\ row \in Statistics \cup {NoRow}
    /\ pc \in [Recorders -> Steps]
    /\ event \in [Recorders -> Statistics]
    /\ copy \in [Recorders -> Statistics]
    /\ lasting \in Statistics
    /\ faults \in 0..MaxFaults

Nothing == NewStatistics(0, 0)

Init ==
    /\ now = 1
    /\ row = NoRow
    /\ pc = [r \in Recorders |-> "idle"]
    /\ event = [r \in Recorders |-> Nothing]
    /\ copy = [r \in Recorders |-> Nothing]
    /\ lasting = Nothing
    /\ faults = 0

-----------------------------------------------------------------------------
(* Statistics s with the times that are given in e. *)
With(s, e) ==
    NewStatistics(
        IF e.LastAccessed # 0 THEN e.LastAccessed ELSE s.LastAccessed,
        IF e.LastBufferedRequest # 0 THEN e.LastBufferedRequest
                                     ELSE s.LastBufferedRequest)

Busy == {r \in Recorders : pc[r] # "idle"}

(* Mutant: the time is rounded up. *)
Record_RoundsUp(r) ==
    /\ pc[r] = "idle"
    /\ \E e \in {NewStatistics(now + 1, 0), NewStatistics(0, now + 1)} :
          event' = [event EXCEPT ![r] = e]
    /\ pc' = [pc EXCEPT ![r] = "read"]
    /\ UNCHANGED <<now, row, copy, lasting, faults>>

(* A visit or a buffered delivery is recorded with the time of the call. *)
Record(r) ==
    /\ pc[r] = "idle"
    /\ \E e \in {NewStatistics(now, 0), NewStatistics(0, now)} :
          event' = [event EXCEPT ![r] = e]
    /\ pc' = [pc EXCEPT ![r] = "read"]
    /\ UNCHANGED <<now, row, copy, lasting, faults>>

ReadNew(r) ==
    /\ pc[r] = "read"
    /\ row = NoRow
    /\ pc' = [pc EXCEPT ![r] = "create"]
    /\ UNCHANGED <<now, row, event, copy, lasting, faults>>

Read(r) ==
    /\ pc[r] = "read"
    /\ row # NoRow
    /\ copy' = [copy EXCEPT ![r] = With(row, event[r])]
    /\ pc' = [pc EXCEPT ![r] = "update"]
    /\ UNCHANGED <<now, row, event, lasting, faults>>

Return(r) ==
    /\ pc' = [pc EXCEPT ![r] = "idle"]
    /\ event' = [event EXCEPT ![r] = Nothing]
    /\ copy' = [copy EXCEPT ![r] = Nothing]
    /\ UNCHANGED now

(* s is not behind t. *)
Covers(s, t) ==
    /\ s.LastAccessed >= t.LastAccessed
    /\ s.LastBufferedRequest >= t.LastBufferedRequest

(* q will overwrite what r is about to write: it holds a copy that it read *)
(* too early, or it has yet to read and comes with an older time. One that *)
(* is about to insert a row is none: it will find that there is one.       *)
Threatens(q, r) ==
    \/ pc[q] = "update" /\ ~Covers(copy[q], event[r])
    \/ pc[q] = "read" /\ ~Covers(With(event[r], event[q]), event[r])

Recorded(r, statistics) ==
    /\ row' = statistics
    /\ lasting' = IF \E q \in Recorders \ {r} : Threatens(q, r)
                   THEN lasting ELSE With(lasting, event[r])
    /\ Return(r)
    /\ UNCHANGED faults

CreateStatistics(r) ==
    /\ pc[r] = "create"
    /\ row = NoRow
    /\ Recorded(r, event[r])

(* Mutant: the insert replaces the row that is there. *)
CreateConflicts_Overwrites(r) ==
    /\ pc[r] = "create"
    /\ row # NoRow
    /\ Recorded(r, event[r])

(* Another one has created the row: the primary key is taken. *)
CreateConflicts(r) ==
    /\ pc[r] = "create"
    /\ row # NoRow
    /\ Return(r)
    /\ UNCHANGED <<row, lasting, faults>>

UpdateStatistics(r) ==
    /\ pc[r] = "update"
    /\ Recorded(r, copy[r])

StatementFails(r) ==
    /\ r \in Busy
    /\ faults < MaxFaults
    /\ faults' = faults + 1
    /\ Return(r)
    /\ UNCHANGED <<row, lasting>>

Tick ==
    /\ now < MaxTime
    /\ now' = now + 1
    /\ UNCHANGED <<row, pc, event, copy, lasting, faults>>

Next ==
    \/ \E r \in Recorders :
          \/ Record(r) \/ ReadNew(r) \/ Read(r)
          \/ CreateStatistics(r) \/ CreateConflicts(r) \/ UpdateStatistics(r)
          \/ StatementFails(r)
    \/ Tick

Spec == Init /\ [][Next]_vars

-----------------------------------------------------------------------------
(* Recorders that cross overwrite each other, and a time can be lost. But  *)
(* only so: a time that was written stays, or gives way to a later one of  *)
(* its column, unless another recorder then already held a copy without it *)
(* or was on its way with an older one. Neither a recorder that loses the  *)
(* insert of the row nor a failing statement nor one that comes later ever *)
(* takes it back (recordStatistics).                                       *)
RecordedKept ==
    lasting # Nothing => row # NoRow /\ Covers(row, lasting)

=============================================================================
