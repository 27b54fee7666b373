------------------------ MODULE UsageStatisticsProofs ------------------------
(***************************************************************************)
(* Proofs about UsageStatistics, for any number of recorders.              *)
(***************************************************************************)
EXTENDS UsageStatistics, TLAPS

LEMMA StatisticsType ==
    ASSUME NEW la \in Times, NEW lbr \in Times
    PROVE  /\ NewStatistics(la, lbr) \in Statistics
           /\ NewStatistics(la, lbr).LastAccessed = la
           /\ NewStatistics(la, lbr).LastBufferedRequest = lbr
BY DEF NewStatistics, Statistics

LEMMA NothingType == Nothing \in Statistics
BY StatisticsType, StatisticsAssumption DEF Nothing, Times

LEMMA WithType ==
    ASSUME NEW s \in Statistics, NEW e \in Statistics
    PROVE  With(s, e) \in Statistics
BY StatisticsType DEF With, Statistics

(* The tenant's row and the recorders' copies are rows of the table. *)
THEOREM TypeCorrect == Spec => []TypeOK
<1>1. Init => TypeOK
    BY NothingType, StatisticsAssumption DEF Init, TypeOK, Steps
<1>2. ASSUME TypeOK, [Next]_vars
      PROVE  TypeOK'
    <2>1. ASSUME NEW r \in Recorders, Record(r)
          PROVE  TypeOK'
        <3>1. now \in Times /\ 0 \in Times
            BY <1>2, StatisticsAssumption DEF TypeOK, Times
        <3>2. event' \in [Recorders -> Statistics]
            BY <1>2, <2>1, <3>1, StatisticsType DEF TypeOK, Record
        <3> QED
            BY <1>2, <2>1, <3>2 DEF TypeOK, Record, Steps
    <2>2. ASSUME NEW r \in Recorders, ReadNew(r)
          PROVE  TypeOK'
        BY <1>2, <2>2 DEF TypeOK, ReadNew, Steps
    <2>3. ASSUME NEW r \in Recorders, Read(r)
          PROVE  TypeOK'
        <3>1. With(row, event[r]) \in Statistics
            BY <1>2, <2>3, WithType DEF TypeOK, Read
        <3> QED
            BY <1>2, <2>3, <3>1 DEF TypeOK, Read, Steps
    <2>4. ASSUME NEW r \in Recorders, NEW s \in Statistics, Recorded(r, s)
          PROVE  TypeOK'
        <3>1. With(lasting, event[r]) \in Statistics
            BY <1>2, WithType DEF TypeOK
        <3> QED
            BY <1>2, <2>4, <3>1, NothingType DEF TypeOK, Recorded, Return, Steps
    <2>5. ASSUME NEW r \in Recorders, CreateStatistics(r) \/ UpdateStatistics(r)
          PROVE  TypeOK'
        BY <1>2, <2>4, <2>5 DEF TypeOK, CreateStatistics, UpdateStatistics
    <2>6. ASSUME NEW r \in Recorders, CreateConflicts(r)
          PROVE  TypeOK'
        BY <1>2, <2>6, NothingType DEF TypeOK, CreateConflicts, Return, Steps
    <2>7. ASSUME NEW r \in Recorders, StatementFails(r)
          PROVE  TypeOK'
        <3>1. faults' \in 0..MaxFaults
            BY <1>2, <2>7, StatisticsAssumption DEF TypeOK, StatementFails
        <3> QED
            BY <1>2, <2>7, <3>1, NothingType
               DEF TypeOK, StatementFails, Return, Steps
    <2>8. CASE Tick
        BY <1>2, <2>8, StatisticsAssumption DEF TypeOK, Tick
    <2>9. CASE UNCHANGED vars
        BY <1>2, <2>9 DEF TypeOK, vars
    <2> QED
        BY <1>2, <2>1, <2>2, <2>3, <2>5, <2>6, <2>7, <2>8, <2>9 DEF Next
<1> QED
    BY <1>1, <1>2, PTL DEF Spec

-----------------------------------------------------------------------------
(* The inductive invariant. The row covers what lasts; a recorder on its   *)
(* way to read the row comes with a time that is not behind it, and one    *)
(* that has read has a copy that is not, because otherwise it would have   *)
(* been a threat when the time was written.                                *)
IInv ==
    /\ TypeOK
    /\ lasting # Nothing => row # NoRow
    /\ row # NoRow => Covers(row, lasting)
    /\ lasting.LastAccessed <= now /\ lasting.LastBufferedRequest <= now
    /\ \A r \in Recorders :
          /\ event[r].LastAccessed <= now
          /\ event[r].LastBufferedRequest <= now
          /\ pc[r] = "read" => Covers(With(lasting, event[r]), lasting)
          /\ pc[r] = "update" =>
                /\ row # NoRow
                /\ Covers(copy[r], lasting)
                /\ Covers(copy[r], event[r])

LEMMA WithCovers ==
    ASSUME NEW s \in Statistics, NEW t \in Statistics, NEW e \in Statistics
    PROVE  /\ Covers(s, t) /\ Covers(s, e) => Covers(s, With(t, e))
           /\ Covers(With(t, e), t) /\ Covers(s, t) =>
                 Covers(With(s, e), t) /\ Covers(With(s, e), e)
BY DEF Covers, With, NewStatistics, Statistics, Times

(* An event that is behind neither t nor d is not behind t with d's times. *)
LEMMA LaterEvent ==
    ASSUME NEW t \in Statistics, NEW d \in Statistics, NEW e \in Statistics,
           Covers(With(t, e), t), Covers(With(d, e), d)
    PROVE  Covers(With(With(t, d), e), With(t, d))
BY DEF Covers, With, NewStatistics, Statistics, Times

LEMMA InvInit == Init => IInv
<1> SUFFICES ASSUME Init PROVE IInv
    OBVIOUS
<1>1. TypeOK
    BY NothingType, StatisticsAssumption DEF Init, TypeOK, Steps
<1>2. Nothing.LastAccessed = 0 /\ Nothing.LastBufferedRequest = 0
    BY DEF Nothing, NewStatistics
<1> QED
    BY <1>1, <1>2 DEF Init, IInv

(* Only what r has at hand changes: the others keep what they have. *)
LEMMA RecordInv ==
    ASSUME IInv, NEW r \in Recorders, Record(r), TypeOK'
    PROVE  IInv'
<1>0. TypeOK /\ now \in Nat /\ now # 0 /\ lasting \in Statistics
    BY StatisticsAssumption DEF IInv, TypeOK
<1>1. /\ \A q \in Recorders : q # r => event'[q] = event[q] /\ pc'[q] = pc[q]
      /\ pc'[r] = "read"
      /\ UNCHANGED <<now, row, copy, lasting>>
    BY <1>0 DEF Record, TypeOK
<1>2. \/ event'[r].LastAccessed = now /\ event'[r].LastBufferedRequest = 0
      \/ event'[r].LastAccessed = 0 /\ event'[r].LastBufferedRequest = now
    BY <1>0 DEF Record, TypeOK, NewStatistics
<1>3. Covers(With(lasting, event'[r]), lasting)
    BY <1>0, <1>2 DEF IInv, Covers, With, NewStatistics, Statistics, Times
<1> QED
    BY <1>0, <1>1, <1>2, <1>3 DEF IInv

LEMMA ReadInv ==
    ASSUME IInv, NEW r \in Recorders, Read(r) \/ ReadNew(r), TypeOK'
    PROVE  IInv'
<1>0. TypeOK
    BY DEF IInv
<1>1. /\ UNCHANGED <<now, row, event, lasting>>
      /\ \A q \in Recorders : q # r => copy'[q] = copy[q] /\ pc'[q] = pc[q]
      /\ pc'[r] # "read"
    BY <1>0 DEF Read, ReadNew, TypeOK
<1>2. pc'[r] = "update" =>
          row # NoRow /\ Covers(copy'[r], lasting) /\ Covers(copy'[r], event[r])
    <2>1. CASE Read(r)
        <3>1. row \in Statistics /\ event[r] \in Statistics
              /\ lasting \in Statistics
            BY <1>0, <2>1 DEF Read, TypeOK
        <3>2. Covers(row, lasting) /\ Covers(With(lasting, event[r]), lasting)
            BY <2>1 DEF IInv, Read
        <3>3. copy'[r] = With(row, event[r])
            BY <1>0, <2>1 DEF Read, TypeOK
        <3> QED
            BY <2>1, <3>1, <3>2, <3>3, WithCovers DEF Read
    <2>2. CASE ReadNew(r)
        BY <1>0, <2>2 DEF ReadNew, TypeOK
    <2> QED
        BY <2>1, <2>2
<1> QED
    BY <1>1, <1>2 DEF IInv

(* A recorder that returns leaves the others' parts as they are. *)
LEMMA ReturnKeeps ==
    ASSUME TypeOK, NEW r \in Recorders, Return(r)
    PROVE  /\ now' = now
           /\ pc'[r] = "idle" /\ event'[r] = Nothing
           /\ \A q \in Recorders : q # r =>
                 /\ pc'[q] = pc[q] /\ event'[q] = event[q]
                 /\ copy'[q] = copy[q]
BY DEF Return, TypeOK

LEMMA ReturnInv ==
    ASSUME IInv, NEW r \in Recorders, Return(r), UNCHANGED <<row, lasting>>,
           TypeOK'
    PROVE  IInv'
<1>0. TypeOK /\ now \in Nat
    BY StatisticsAssumption DEF IInv, TypeOK
<1>1. event'[r].LastAccessed <= now' /\ event'[r].LastBufferedRequest <= now'
    BY <1>0, ReturnKeeps DEF Nothing, NewStatistics
<1> QED
    BY <1>0, <1>1, ReturnKeeps DEF IInv

LEMMA RecordedInv ==
    ASSUME IInv, NEW r \in Recorders, TypeOK',
           CreateStatistics(r) \/ UpdateStatistics(r)
    PROVE  IInv'
<1>0. /\ TypeOK
      /\ now \in Nat
      /\ event \in [Recorders -> Statistics]
      /\ copy \in [Recorders -> Statistics]
      /\ lasting \in Statistics
      /\ Return(r)
      /\ lasting' = IF \E q \in Recorders \ {r} : Threatens(q, r)
                    THEN lasting ELSE With(lasting, event[r])
    BY StatisticsAssumption DEF IInv, TypeOK, CreateStatistics,
       UpdateStatistics, Recorded
<1>1. row' \in Statistics /\ Covers(row', lasting) /\ Covers(row', event[r])
    <2>1. CASE CreateStatistics(r)
        <3>1. row' = event[r] /\ lasting = Nothing
            BY <2>1 DEF CreateStatistics, Recorded, IInv
        <3> QED
            BY <1>0, <3>1 DEF Covers, Nothing, NewStatistics, Statistics, Times
    <2>2. CASE UpdateStatistics(r)
        BY <1>0, <2>2 DEF UpdateStatistics, Recorded, IInv
    <2> QED
        BY <2>1, <2>2
<1>2. row' # NoRow /\ Covers(row', lasting')
    BY <1>0, <1>1, WithCovers, NoRowAssumption
<1>3. lasting'.LastAccessed <= now' /\ lasting'.LastBufferedRequest <= now'
    BY <1>0, ReturnKeeps DEF IInv, With, NewStatistics
<1>4. ASSUME NEW q \in Recorders
      PROVE  /\ event'[q].LastAccessed <= now'
             /\ event'[q].LastBufferedRequest <= now'
             /\ pc'[q] = "read" => Covers(With(lasting', event'[q]), lasting')
             /\ pc'[q] = "update" =>
                   Covers(copy'[q], lasting') /\ Covers(copy'[q], event'[q])
    <2>1. CASE q = r
        BY <1>0, <2>1, ReturnKeeps DEF Nothing, NewStatistics
    <2>2. CASE q # r
        <3>1. /\ now' = now /\ pc'[q] = pc[q]
              /\ event'[q] = event[q] /\ copy'[q] = copy[q]
              /\ event[q] \in Statistics /\ copy[q] \in Statistics
              /\ event[r] \in Statistics
            BY <1>0, <2>2, ReturnKeeps
        <3>2. pc[q] = "read" => Covers(With(lasting', event[q]), lasting')
            <4> SUFFICES ASSUME pc[q] = "read"
                         PROVE  Covers(With(lasting', event[q]), lasting')
                OBVIOUS
            <4>1. Covers(With(lasting, event[q]), lasting)
                BY DEF IInv
            <4>2. lasting' # lasting =>
                      /\ Covers(With(event[r], event[q]), event[r])
                      /\ lasting' = With(lasting, event[r])
                BY <1>0, <2>2 DEF Threatens
            <4> QED
                BY <1>0, <3>1, <4>1, <4>2, LaterEvent
        <3>3. pc[q] = "update" => Covers(copy[q], lasting')
            <4> SUFFICES ASSUME pc[q] = "update"
                         PROVE  Covers(copy[q], lasting')
                OBVIOUS
            <4>1. Covers(copy[q], lasting)
                BY DEF IInv
            <4>2. lasting' # lasting =>
                      /\ Covers(copy[q], event[r])
                      /\ lasting' = With(lasting, event[r])
                BY <1>0, <2>2 DEF Threatens
            <4> QED
                BY <1>0, <3>1, <4>1, <4>2, WithCovers
        <3> QED
            BY <3>1, <3>2, <3>3 DEF IInv
    <2> QED
        BY <2>1, <2>2
<1> QED
    BY <1>2, <1>3, <1>4 DEF IInv

(* A time that was written where nobody threatened it stays, for any       *)
(* number of recorders and failing statements.                             *)
THEOREM RecordedStays == Spec => []RecordedKept
<1>1. ASSUME IInv, TypeOK', [Next]_vars
      PROVE  IInv'
    <2>1. ASSUME NEW r \in Recorders, CreateConflicts(r) \/ StatementFails(r)
          PROVE  IInv'
        BY <1>1, <2>1, ReturnInv DEF CreateConflicts, StatementFails
    <2>2. CASE Tick
        <3>1. TypeOK /\ now \in Nat /\ now' = now + 1
            BY <1>1, <2>2, StatisticsAssumption DEF IInv, TypeOK, Tick
        <3>2. \A r \in Recorders :
                 /\ event'[r].LastAccessed <= now'
                 /\ event'[r].LastBufferedRequest <= now'
            <4> SUFFICES ASSUME NEW r \in Recorders
                         PROVE  /\ event'[r].LastAccessed <= now'
                                /\ event'[r].LastBufferedRequest <= now'
                OBVIOUS
            <4>1. /\ event[r] \in Statistics
                  /\ event[r].LastAccessed <= now
                  /\ event[r].LastBufferedRequest <= now
                BY <1>1, <3>1 DEF IInv, TypeOK
            <4> QED
                BY <2>2, <3>1, <4>1 DEF Tick, Statistics, Times
        <3>3. /\ lasting'.LastAccessed <= now'
              /\ lasting'.LastBufferedRequest <= now'
            <4>1. lasting \in Statistics
                BY <3>1 DEF TypeOK
            <4> QED
                BY <1>1, <2>2, <3>1, <4>1 DEF Tick, IInv, Statistics, Times
        <3> QED
            BY <1>1, <2>2, <3>1, <3>2, <3>3 DEF Tick, IInv
    <2>3. CASE UNCHANGED vars
        BY <1>1, <2>3 DEF IInv, vars
    <2> QED
        BY <1>1, <2>1, <2>2, <2>3, RecordInv, ReadInv, RecordedInv DEF Next
<1>2. IInv => RecordedKept
    BY DEF IInv, RecordedKept
<1> QED
    BY <1>1, <1>2, InvInit, TypeCorrect, PTL DEF Spec

=============================================================================
