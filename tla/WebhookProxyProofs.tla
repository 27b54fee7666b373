------------------------- MODULE WebhookProxyProofs -------------------------
(***************************************************************************)
(* Theorems about the webhook path, for every set of deliveries, tenants   *)
(* and proxies and every value of the bounds.                              *)
(***************************************************************************)
EXTENDS WebhookProxy, TLAPS

(* The steps of Next, each with what it leaves alone. *)
ArriveStep(h, p) == Arrive(h, p) /\ UNCHANGED <<loopVars, crashes>>
HandleStep(h) == HandlerStep(h) /\ UNCHANGED <<loopVars, crashes>>
VisitStep(h) == RecordVisit(h) /\ UNCHANGED <<loopVars, crashes>>
ReplayStep(p) == LoopStep(p) /\ UNCHANGED crashes
EnvStep == Environment /\ UNCHANGED <<deliveryVars, storeVars, handlerVars, loopVars, crashes>>

LEMMA NextCases ==
    ASSUME Next
    PROVE  \/ \E h \in Hooks, p \in Proxies : ArriveStep(h, p)
           \/ \E h \in Hooks : HandleStep(h) \/ VisitStep(h)
           \/ \E p \in Proxies : ReplayStep(p) \/ Crash(p)
           \/ EnvStep
  BY DEF Next, ArriveStep, HandleStep, VisitStep, ReplayStep, EnvStep

USE DEF HandlerStates, LoopStates, PodStates, Row, PodsTypeOK, deliveryVars

-----------------------------------------------------------------------------
(* Type correctness. *)

LEMMA TypeInit == Init => TypeOK
  <1> SUFFICES ASSUME Init PROVE TypeOK
    OBVIOUS
  <1>1. PlatformTypeOK
    BY PodsAssumption, PlatformAssumption DEF Init, PlatformInit, PodsInit, PlatformTypeOK
  <1>2. StoreTypeOK
    BY PodsAssumption, PlatformAssumption DEF Init, StoreInit, StoreTypeOK
  <1>3. HandlerTypeOK
    BY HandlerAssumption DEF Init, HandlerInit, HandlerTypeOK
  <1>4. LoopTypeOK
    BY PodsAssumption, PlatformAssumption DEF Init, LoopInit, LoopTypeOK
  <1>5. crashes \in 0..MaxCrashes
    BY CrashAssumption DEF Init
  <1> QED
    BY <1>1, <1>2, <1>3, <1>4, <1>5 DEF TypeOK

LEMMA TypeArrive ==
    ASSUME TypeOK, NEW h \in Hooks, NEW p \in Proxies, ArriveStep(h, p)
    PROVE  TypeOK'
  <1>1. PlatformTypeOK' /\ StoreTypeOK' /\ LoopTypeOK' /\ (crashes \in 0..MaxCrashes)'
    BY DEF TypeOK, ArriveStep, Arrive, platformVars, storeVars, loopVars,
           PlatformTypeOK, StoreTypeOK, LoopTypeOK
  <1>2. HandlerTypeOK'
    BY DEF TypeOK, ArriveStep, Arrive, HandlerTypeOK
  <1> QED
    BY <1>1, <1>2 DEF TypeOK

LEMMA TypeHandle ==
    ASSUME TypeOK, NEW h \in Hooks, HandleStep(h)
    PROVE  TypeOK'
  <1> USE DEF Goto, Reply, Healthy, Fault
  <1>1. PlatformTypeOK'
    BY PodsAssumption, PlatformAssumption DEF TypeOK, HandleStep, HandlerStep, PlatformTypeOK,
       platformVars, podVars, deliveryVars, ResolveOwner, CheckState,
       StoreRequest, ReadStats, CreateStats, UpdateStats, Start, StartUnIdle,
       Forward, UnIdle, Answers200, Answers4xx, AnswersError, ConnectionFails,
       AnswerLost, StoreTypeOK
  <1>2. StoreTypeOK'
    <2> USE DEF TypeOK, StoreTypeOK, storeVars
    <2>1. CASE ResolveOwner(h)
      BY <2>1, HandlerAssumption DEF ResolveOwner
    <2>2. CASE StoreRequest(h)
      BY <2>2 DEF StoreRequest, CreateRequest
    <2>3. CASE CreateStats(h)
      BY <2>3 DEF CreateStats, CreateStatistics
    <2>4. CASE UNCHANGED storeVars
      BY <2>4
    <2> QED
      BY <2>1, <2>2, <2>3, <2>4 DEF HandleStep, HandlerStep, CheckState,
         ReadStats, UpdateStats, Start, StartUnIdle, Forward
  <1>3. HandlerTypeOK'
    BY DEF TypeOK, HandleStep, HandlerStep, HandlerTypeOK, handlerVars,
       ResolveOwner, CheckState, StoreRequest, ReadStats, CreateStats,
       UpdateStats, Start, StartUnIdle, Forward
  <1>4. LoopTypeOK' /\ (crashes \in 0..MaxCrashes)'
    BY DEF TypeOK, HandleStep, LoopTypeOK, loopVars
  <1> QED
    BY <1>1, <1>2, <1>3, <1>4 DEF TypeOK

LEMMA TypeVisit ==
    ASSUME TypeOK, NEW h \in Hooks, VisitStep(h)
    PROVE  TypeOK'
  <1>1. PlatformTypeOK'
    BY PodsAssumption, PlatformAssumption DEF TypeOK, VisitStep, RecordVisit, PlatformTypeOK,
       podVars, deliveryVars, Healthy, Fault
  <1>2. StoreTypeOK' /\ HandlerTypeOK'
    BY DEF TypeOK, VisitStep, RecordVisit, StoreTypeOK, HandlerTypeOK,
       storeVars, CreateStatistics
  <1>3. LoopTypeOK' /\ (crashes \in 0..MaxCrashes)'
    BY DEF TypeOK, VisitStep, LoopTypeOK, loopVars
  <1> QED
    BY <1>1, <1>2, <1>3 DEF TypeOK

LEMMA TypeReplay ==
    ASSUME TypeOK, NEW p \in Proxies, ReplayStep(p)
    PROVE  TypeOK'
  <1> USE DEF LoopGoto, Break, Healthy, Fault, Drop
  <1>1. PlatformTypeOK'
    <2> USE PodsAssumption, PlatformAssumption DEF TypeOK, PlatformTypeOK, podVars, deliveryVars
    <2>1. CASE Send(p)
      <3>1. cur[p].id \in Hooks
        BY DEF LoopTypeOK
      <3> QED
        BY <2>1, <3>1 DEF Send, Answers200, Answers4xx, AnswersError,
           ConnectionFails, AnswerLost
    <2>2. CASE UNCHANGED <<podVars, deliveryVars>> /\ (Healthy \/ Fault)
      BY <2>2
    <2> QED
      BY <2>1, <2>2 DEF ReplayStep, LoopStep, platformVars, GetUsers,
         GetRequests, CheckRow, EndOfRows, GiveUp, DropUnformattable,
         IncrementRetry, DeleteSettled
  <1>2. StoreTypeOK'
    <2> USE DEF TypeOK, StoreTypeOK, LoopTypeOK, storeVars, DeleteRequest
    <2>1. CASE CheckRow(p)
      BY <2>1 DEF CheckRow, CreateStatistics
    <2>2. CASE DropUnformattable(p)
      BY <2>2 DEF DropUnformattable
    <2>3. CASE IncrementRetry(p)
      BY <2>3 DEF IncrementRetry, UpdateRequest
    <2>4. CASE DeleteSettled(p)
      BY <2>4 DEF DeleteSettled
    <2>5. CASE UNCHANGED storeVars
      BY <2>5
    <2> QED
      BY <2>1, <2>2, <2>3, <2>4, <2>5
      DEF ReplayStep, LoopStep, GetUsers, GetRequests, EndOfRows, Send, GiveUp
  <1>3. HandlerTypeOK' /\ (crashes \in 0..MaxCrashes)'
    <2>1. UNCHANGED <<handlerVars, crashes>>
      <3>1. CASE GetUsers(p) \/ GetRequests(p) \/ CheckRow(p)
        BY <3>1 DEF ReplayStep, GetUsers, GetRequests, CheckRow
      <3>2. CASE EndOfRows(p) \/ Send(p) \/ GiveUp(p)
        BY <3>2 DEF ReplayStep, EndOfRows, Send, GiveUp
      <3>3. CASE DropUnformattable(p) \/ IncrementRetry(p) \/ DeleteSettled(p)
        BY <3>3 DEF ReplayStep, DropUnformattable, IncrementRetry, DeleteSettled
      <3> QED
        BY <3>1, <3>2, <3>3 DEF ReplayStep, LoopStep
    <2> QED
      BY <2>1 DEF TypeOK, HandlerTypeOK, handlerVars
  <1>4. LoopTypeOK'
    <2> USE DEF TypeOK, LoopTypeOK, StoreTypeOK
    <2>1. CASE GetUsers(p)
      <3>1. CASE UNCHANGED loopVars
        BY <3>1 DEF loopVars
      <3>2. CASE ~UNCHANGED loopVars
        <4>1. /\ lpc' = [lpc EXCEPT ![p] = "requests"]
              /\ todo' = [todo EXCEPT ![p] = Users]
              /\ UNCHANGED <<batch, cur, failures, spoiled>>
          BY <2>1, <3>2 DEF GetUsers
        <4>2. Users \in SUBSET Namespaces
          BY DEF Users
        <4> QED
          BY <4>1, <4>2 DEF LoopStates
      <3> QED
        BY <3>1, <3>2
    <2>2. CASE GetRequests(p)
      <3>1. \A ns : RowsOf(ns) \in SUBSET Row
        BY DEF RowsOf
      <3>2. batch' \in [Proxies -> SUBSET Row]
        BY <2>2, <3>1 DEF GetRequests
      <3>3. todo' \in [Proxies -> SUBSET Namespaces]
        BY <2>2 DEF GetRequests
      <3> QED
        BY <2>2, <3>2, <3>3 DEF GetRequests
    <2>3. CASE CheckRow(p)
      <3>1. CASE Break(p, "row") /\ UNCHANGED cur
        BY <2>3, <3>1 DEF CheckRow
      <3>2. CASE \E r \in batch[p] : cur' = [cur EXCEPT ![p] = r]
                                    /\ batch' = [batch EXCEPT ![p] = @ \ {r}]
        <4>1. cur' \in [Proxies -> Row] /\ batch' \in [Proxies -> SUBSET Row]
          BY <3>2
        <4>2. lpc' \in [Proxies -> LoopStates] /\ UNCHANGED <<todo, failures, spoiled>>
          BY <2>3 DEF CheckRow
        <4> QED
          BY <4>1, <4>2
      <3> QED
        BY <2>3, <3>1, <3>2 DEF CheckRow
    <2>4. CASE EndOfRows(p)
      BY <2>4 DEF EndOfRows
    <2>5. CASE Send(p)
      <3>1. /\ \E s \in LoopStates : lpc' = [lpc EXCEPT ![p] = s]
            /\ failures' \in {failures, [failures EXCEPT ![cur[p].id] = @ + 1]}
            /\ UNCHANGED <<todo, batch, cur, spoiled>>
        BY <2>5 DEF Send, LoopStates
      <3>2. cur[p].id \in Hooks
        OBVIOUS
      <3>3. failures' \in [Hooks -> Nat]
        BY <3>1, <3>2
      <3> QED
        BY <3>1, <3>3
    <2>6. CASE GiveUp(p)
      BY <2>6 DEF GiveUp
    <2>7. CASE DropUnformattable(p)
      BY <2>7 DEF DropUnformattable
    <2>8. CASE IncrementRetry(p)
      BY <2>8 DEF IncrementRetry
    <2>9. CASE DeleteSettled(p)
      BY <2>9 DEF DeleteSettled
    <2> QED
      BY <2>1, <2>2, <2>3, <2>4, <2>5, <2>6, <2>7, <2>8, <2>9
      DEF ReplayStep, LoopStep
  <1> QED
    BY <1>1, <1>2, <1>3, <1>4 DEF TypeOK

LEMMA TypeCrash ==
    ASSUME TypeOK, NEW p \in Proxies, Crash(p)
    PROVE  TypeOK'
  <1>1. PlatformTypeOK' /\ StoreTypeOK'
    BY DEF TypeOK, Crash, PlatformTypeOK, StoreTypeOK, platformVars, storeVars
  <1>2. HandlerTypeOK'
    BY DEF TypeOK, Crash, HandlerTypeOK
  <1>3. LoopTypeOK'
    BY DEF TypeOK, Crash, LoopTypeOK
  <1>4. (crashes \in 0..MaxCrashes)'
    BY CrashAssumption DEF TypeOK, Crash
  <1> QED
    BY <1>1, <1>2, <1>3, <1>4 DEF TypeOK

LEMMA TypeEnv ==
    ASSUME TypeOK, EnvStep
    PROVE  TypeOK'
  <1>1. PlatformTypeOK'
    BY PodsAssumption, PlatformAssumption DEF TypeOK, EnvStep, Environment, PlatformTypeOK,
       PodStarts, IdlePod, UserWakes
  <1>2. StoreTypeOK' /\ HandlerTypeOK' /\ LoopTypeOK' /\ (crashes \in 0..MaxCrashes)'
    BY DEF TypeOK, EnvStep, StoreTypeOK, HandlerTypeOK, LoopTypeOK, storeVars,
       handlerVars, loopVars
  <1> QED
    BY <1>1, <1>2 DEF TypeOK

LEMMA TypeNext == TypeOK /\ [Next]_vars => TypeOK'
  <1> SUFFICES ASSUME TypeOK, [Next]_vars PROVE TypeOK'
    OBVIOUS
  <1>1. CASE Next
    BY <1>1, NextCases, TypeArrive, TypeHandle, TypeVisit, TypeReplay,
       TypeCrash, TypeEnv
  <1>2. CASE UNCHANGED vars
    BY <1>2 DEF TypeOK, vars, PlatformTypeOK, StoreTypeOK, HandlerTypeOK,
       LoopTypeOK, platformVars, storeVars, handlerVars, loopVars
  <1> QED
    BY <1>1, <1>2

(* Every variable keeps its type; in particular no step of the loop makes  *)
(* a retry counter or a row that the table could not hold.                 *)
THEOREM TypeCorrect == Spec => []TypeOK
  BY TypeInit, TypeNext, PTL DEF Spec

-----------------------------------------------------------------------------
(* What every step leaves behind. *)

(* What settles a delivery is never taken back. *)
Grows ==
    /\ \A h \in Hooks : received[h] <= received'[h] /\ failures[h] <= failures'[h]
    /\ refused \subseteq refused'
    /\ spoiled \subseteq spoiled'

(* A row leaves the table only when its delivery is, or becomes, settled. *)
RemovalJustified ==
    \A h \in Hooks : h \in requests /\ h \notin requests' => Settled(h)'

LEMMA SettledStays ==
    ASSUME TypeOK, TypeOK', Grows, NEW h \in Hooks, Settled(h)
    PROVE  Settled(h)'
  <1>1. /\ received[h] \in Nat /\ received'[h] \in Nat
        /\ failures[h] \in Nat /\ failures'[h] \in Nat
    BY DEF TypeOK, PlatformTypeOK, LoopTypeOK
  <1> QED
    BY <1>1, LoopAssumption DEF Grows, Settled

(* Steps in which no attempt is made change none of the counts. *)
LEMMA QuietGrows ==
    ASSUME TypeOK, UNCHANGED <<received, refused, failures, spoiled>>
    PROVE  Grows
  BY DEF Grows, TypeOK, PlatformTypeOK, LoopTypeOK

LEMMA HandleGrows ==
    ASSUME TypeOK, NEW h \in Hooks, HandleStep(h)
    PROVE  Grows
  <1>1. UNCHANGED <<failures, spoiled>>
    BY DEF HandleStep, loopVars
  <1>2. CASE Forward(h)
    BY <1>1, <1>2 DEF Forward, Grows, Answers200, Answers4xx, AnswersError,
       ConnectionFails, AnswerLost, deliveryVars, TypeOK, PlatformTypeOK, LoopTypeOK
  <1>3. CASE UNCHANGED <<received, refused>>
    BY <1>1, <1>3, QuietGrows
  <1> QED
    BY <1>2, <1>3 DEF HandleStep, HandlerStep, ResolveOwner, CheckState,
       StoreRequest, ReadStats, CreateStats, UpdateStats, Start, StartUnIdle,
       platformVars, deliveryVars

LEMMA ReplayGrows ==
    ASSUME TypeOK, NEW p \in Proxies, ReplayStep(p)
    PROVE  Grows
  <1> USE DEF TypeOK, PlatformTypeOK, LoopTypeOK
  <1>1. cur[p].id \in Hooks
    OBVIOUS
  <1>2. CASE Send(p)
    <2>1. UNCHANGED spoiled
      BY <1>2 DEF Send
    <2>2. \A h \in Hooks : failures[h] <= failures'[h]
      BY <1>1, <1>2 DEF Send
    <2>3. (\A h \in Hooks : received[h] <= received'[h]) /\ refused \subseteq refused'
      BY <1>1, <1>2 DEF Send, Answers200, Answers4xx, AnswersError,
         ConnectionFails, AnswerLost, deliveryVars
    <2> QED
      BY <2>1, <2>2, <2>3 DEF Grows
  <1>3. CASE UNCHANGED <<received, refused, failures>> /\ spoiled \subseteq spoiled'
    BY <1>3 DEF Grows
  <1> QED
    BY <1>2, <1>3 DEF ReplayStep, LoopStep, GetUsers, GetRequests, CheckRow,
       EndOfRows, GiveUp, DropUnformattable, IncrementRetry, DeleteSettled,
       Drop, loopVars, platformVars, deliveryVars

LEMMA NextGrows ==
    ASSUME TypeOK, [Next]_vars
    PROVE  Grows
  <1>1. CASE Next
    <2>1. ASSUME NEW h \in Hooks, NEW p \in Proxies, ArriveStep(h, p)  PROVE Grows
      BY <2>1, QuietGrows DEF ArriveStep, Arrive, loopVars, platformVars
    <2>2. ASSUME NEW h \in Hooks, VisitStep(h)  PROVE Grows
      BY <2>2, QuietGrows DEF VisitStep, RecordVisit, loopVars, deliveryVars
    <2>3. ASSUME NEW p \in Proxies, Crash(p)  PROVE Grows
      BY <2>3, QuietGrows DEF Crash, platformVars
    <2>4. ASSUME EnvStep  PROVE Grows
      BY <2>4, QuietGrows DEF EnvStep, Environment, PodStarts, IdlePod,
         UserWakes, loopVars
    <2> QED
      BY <1>1, <2>1, <2>2, <2>3, <2>4, NextCases, HandleGrows, ReplayGrows
  <1>2. CASE UNCHANGED vars
    BY <1>2, QuietGrows DEF vars, platformVars, loopVars
  <1> QED
    BY <1>1, <1>2

-----------------------------------------------------------------------------
(* The inductive invariant. *)

LEMMA IInvInit == Init => IInv
  <1> SUFFICES ASSUME Init PROVE IInv
    OBVIOUS
  <1>1. TypeOK
    BY TypeInit
  <1>2. /\ pc = [h \in Hooks |-> "unseen"]
        /\ reply = [h \in Hooks |-> 0]
        /\ requests = {}
    BY DEF Init, HandlerInit, StoreInit
  <1>3. StoredKept /\ OpenUntouched
    BY <1>2 DEF StoredKept, OpenUntouched
  <1>4. /\ retries = [h \in Hooks |-> 0]
        /\ failures = [h \in Hooks |-> 0]
        /\ batch = [p \in Proxies |-> {}]
        /\ \A p \in Proxies : cur[p].retries = 0
        /\ lpc = [p \in Proxies |-> "users"]
    BY DEF Init, StoreInit, LoopInit
  <1>5. CountersLag /\ LoopJustified
    BY <1>1, <1>4 DEF CountersLag, LoopJustified, TypeOK, LoopTypeOK
  <1>6. CopiesClosed
    BY <1>4 DEF CopiesClosed
  <1> QED
    BY <1>1, <1>3, <1>5, <1>6 DEF IInv

(* Only the loop removes rows: a settled one, or one it spoils. *)
LEMMA RemovalNext ==
    ASSUME IInv, [Next]_vars, TypeOK'
    PROVE  RemovalJustified
  <1> USE DEF IInv
  <1>0. \A h \in Hooks : Settled(h) => Settled(h)'
    BY NextGrows, SettledStays
  <1>1. ASSUME requests \subseteq requests'  PROVE RemovalJustified
    BY <1>1 DEF RemovalJustified
  <1>2. ASSUME NEW p \in Proxies, ReplayStep(p)  PROVE RemovalJustified
    <2>1. CASE DeleteSettled(p)
      <3>1. Settled(cur[p].id)
        BY <2>1 DEF DeleteSettled, LoopGoto, LoopJustified
      <3>2. requests \ requests' \subseteq {cur[p].id}
        BY <2>1 DEF DeleteSettled, DeleteRequest, storeVars
      <3> QED
        BY <1>0, <3>1, <3>2 DEF RemovalJustified
    <2>2. CASE DropUnformattable(p) \/ IncrementRetry(p)
      <3>1. \/ requests' = requests
            \/ requests' = requests \ {cur[p].id} /\ cur[p].id \in spoiled'
        BY <2>2 DEF DropUnformattable, IncrementRetry, Drop, DeleteRequest,
           UpdateRequest, storeVars
      <3> QED
        BY <3>1 DEF RemovalJustified, Settled
    <2>3. CASE requests' = requests
      BY <1>1, <2>3
    <2> QED
      BY <1>2, <2>1, <2>2, <2>3 DEF ReplayStep, LoopStep, GetUsers,
         GetRequests, CheckRow, EndOfRows, Send, GiveUp, storeVars,
         CreateStatistics
  <1>3. ASSUME NEW h \in Hooks, HandleStep(h)  PROVE requests \subseteq requests'
    BY <1>3 DEF HandleStep, HandlerStep, ResolveOwner, CheckState,
       StoreRequest, ReadStats, CreateStats, UpdateStats, Start, StartUnIdle,
       Forward, CreateRequest, CreateStatistics, storeVars
  <1>4. CASE Next
    BY <1>1, <1>2, <1>3, <1>4, NextCases DEF ArriveStep, Arrive, VisitStep,
       RecordVisit, Crash, EnvStep, CreateStatistics, storeVars
  <1>5. CASE UNCHANGED vars
    BY <1>1, <1>5 DEF vars, storeVars
  <1> QED
    BY <1>4, <1>5

LEMMA KeptStays ==
    ASSUME IInv, [Next]_vars, TypeOK', NEW h \in Hooks, Kept(h)
    PROVE  Kept(h)'
  BY RemovalNext, NextGrows, SettledStays DEF Kept, RemovalJustified, IInv

LEMMA StoredKeptNext ==
    ASSUME IInv, [Next]_vars, TypeOK'
    PROVE  StoredKept'
  <1> DEFINE Stored(h) == \/ reply[h] = 202
                          \/ pc[h] \in {"readStats", "createStats", "updateStats"}
  <1> USE DEF Goto, Reply
  <1> SUFFICES ASSUME NEW h \in Hooks, Stored(h)'  PROVE Kept(h)'
    BY DEF StoredKept
  <1>1. CASE Stored(h)
    BY <1>1, KeptStays DEF StoredKept, IInv
  <1>2. CASE StoreRequest(h)
    BY <1>2 DEF StoreRequest, CreateRequest, Kept, Reply, IInv, TypeOK, HandlerTypeOK
  <1>3. ASSUME ~Stored(h)  PROVE StoreRequest(h)
    <2> USE <1>3 DEF IInv, TypeOK, HandlerTypeOK
    <2>1. ASSUME NEW k \in Hooks, HandleStep(k)  PROVE StoreRequest(h)
      BY <2>1 DEF HandleStep, HandlerStep, ResolveOwner, CheckState,
         StoreRequest, ReadStats, CreateStats, UpdateStats, Start,
         StartUnIdle, Forward
    <2>2. ASSUME NEW k \in Hooks, NEW p \in Proxies, ArriveStep(k, p)  PROVE FALSE
      BY <2>2 DEF ArriveStep, Arrive
    <2>3. ASSUME NEW p \in Proxies, Crash(p)  PROVE FALSE
      BY <2>3 DEF Crash
    <2>4. CASE UNCHANGED <<pc, reply>>
      BY <2>4
    <2>5. ASSUME NEW p \in Proxies, ReplayStep(p)  PROVE UNCHANGED <<pc, reply>>
      BY <2>5 DEF ReplayStep, LoopStep, GetUsers, GetRequests, CheckRow,
         EndOfRows, Send, GiveUp, DropUnformattable, IncrementRetry,
         DeleteSettled, handlerVars
    <2> QED
      BY <2>1, <2>2, <2>3, <2>4, <2>5, NextCases DEF VisitStep, RecordVisit,
         EnvStep, handlerVars, vars
  <1> QED
    BY <1>1, <1>2, <1>3

LEMMA CountersLagNext ==
    ASSUME IInv, [Next]_vars, TypeOK'
    PROVE  CountersLag'
  <1> USE DEF IInv, TypeOK, PlatformTypeOK, StoreTypeOK, LoopTypeOK
  <1>0. \A h \in Hooks : /\ failures[h] \in Nat /\ failures'[h] \in Nat
                         /\ retries[h] \in Nat
                         /\ failures[h] <= failures'[h]
    BY NextGrows DEF Grows
  <1>1. ASSUME NEW p \in Proxies, ReplayStep(p)  PROVE CountersLag'
    <2> USE <1>1 DEF LoopGoto, Break
    <2>1. ASSUME NEW h \in Hooks  PROVE retries'[h] <= failures'[h]
      <3>1. CASE retries'[h] = retries[h]
        BY <1>0, <3>1 DEF CountersLag
      <3>2. CASE IncrementRetry(p)
        <4>1. cur[p].retries < failures[cur[p].id]
          BY <3>2 DEF IncrementRetry, LoopJustified
        <4>2. \/ retries' = retries
              \/ retries' = [retries EXCEPT ![cur[p].id] = cur[p].retries + 1]
          BY <3>2 DEF IncrementRetry, UpdateRequest, Drop, DeleteRequest, storeVars
        <4>3. cur[p] \in Row /\ failures' = failures
          BY <3>2 DEF IncrementRetry
        <4> QED
          BY <1>0, <3>1, <4>1, <4>2, <4>3
      <3> QED
        BY <3>1, <3>2 DEF ReplayStep, LoopStep, GetUsers, GetRequests,
           CheckRow, EndOfRows, Send, GiveUp, DropUnformattable,
           DeleteSettled, Drop, DeleteRequest, CreateStatistics, storeVars
    <2>2. ASSUME NEW q \in Proxies
          PROVE  \/ batch'[q] \subseteq batch[q]
                 \/ \E ns \in Namespaces : batch'[q] = RowsOf(ns)
      <3>1. CASE GetRequests(p)
        BY <2>2, <3>1 DEF GetRequests
      <3>2. CASE CheckRow(p)
        BY <2>2, <3>2 DEF CheckRow
      <3>3. CASE ~GetRequests(p) /\ ~CheckRow(p)
        <4>1. batch' = batch \/ batch' = [batch EXCEPT ![p] = {}]
          BY <3>3 DEF ReplayStep, LoopStep, GetUsers, EndOfRows, Send, GiveUp,
             DropUnformattable, IncrementRetry, DeleteSettled, loopVars
        <4> QED
          BY <2>2, <4>1
      <3> QED
        BY <3>1, <3>2, <3>3
    <2>3. ASSUME NEW q \in Proxies  PROVE cur'[q] = cur[q] \/ cur'[q] \in batch[q]
      BY <2>3 DEF ReplayStep, LoopStep, GetUsers, GetRequests, CheckRow,
         EndOfRows, Send, GiveUp, DropUnformattable, IncrementRetry,
         DeleteSettled, loopVars
    <2>4. ASSUME NEW q \in Proxies, NEW r \in batch'[q]
          PROVE  r.retries <= failures'[r.id]
      <3>1. CASE r \in batch[q]
        <4>1. r.retries <= failures[r.id] /\ r \in Row
          BY <3>1 DEF CountersLag
        <4> QED
          BY <1>0, <4>1
      <3>2. ASSUME NEW ns \in Namespaces, r \in RowsOf(ns)
            PROVE  r.retries <= failures'[r.id]
        <4>1. r.id \in Hooks /\ r.retries = retries[r.id]
          BY <3>2 DEF RowsOf
        <4> QED
          BY <1>0, <4>1 DEF CountersLag
      <3> QED
        BY <2>2, <2>4, <3>1, <3>2
    <2>5. ASSUME NEW q \in Proxies  PROVE cur'[q].retries <= failures'[cur'[q].id]
      <3>1. /\ cur'[q].retries <= failures[cur'[q].id]
            /\ cur'[q] \in Row
        BY <2>3 DEF CountersLag
      <3> QED
        BY <1>0, <3>1
    <2> QED
      BY <2>1, <2>4, <2>5 DEF CountersLag
  <1>2. ASSUME /\ UNCHANGED <<cur, failures>>
               /\ \A p \in Proxies : batch'[p] \subseteq batch[p]
               /\ \A h \in Hooks : retries'[h] \in {0, retries[h]}
        PROVE  CountersLag'
    BY <1>0, <1>2 DEF CountersLag
  <1>3. ASSUME NEW h \in Hooks, HandleStep(h)  PROVE CountersLag'
    <2>1. \A k \in Hooks : retries'[k] \in {0, retries[k]}
      BY <1>3 DEF HandleStep, HandlerStep, ResolveOwner, CheckState,
         StoreRequest, ReadStats, CreateStats, UpdateStats, Start,
         StartUnIdle, Forward, CreateRequest, CreateStatistics, storeVars
    <2> QED
      BY <1>2, <1>3, <2>1 DEF HandleStep, loopVars
  <1>4. ASSUME NEW p \in Proxies, Crash(p)  PROVE CountersLag'
    BY <1>2, <1>4 DEF Crash, storeVars
  <1>5. CASE UNCHANGED <<cur, failures, batch, retries>>
    BY <1>2, <1>5
  <1> QED
    BY <1>1, <1>3, <1>4, <1>5, NextCases DEF ArriveStep, Arrive, VisitStep,
       RecordVisit, EnvStep, CreateStatistics, storeVars, loopVars, vars

LEMMA LoopJustifiedNext ==
    ASSUME IInv, [Next]_vars, TypeOK'
    PROVE  LoopJustified'
  <1> USE DEF IInv, TypeOK, PlatformTypeOK, StoreTypeOK, LoopTypeOK
  <1>0. \A h \in Hooks : /\ failures[h] \in Nat /\ failures'[h] \in Nat
                         /\ received[h] \in Nat
                         /\ failures[h] <= failures'[h]
                         /\ Settled(h) => Settled(h)'
    BY NextGrows, SettledStays DEF Grows
  <1> SUFFICES ASSUME NEW q \in Proxies
               PROVE  /\ lpc'[q] = "increment" => cur'[q].retries < failures'[cur'[q].id]
                      /\ lpc'[q] = "delete" => Settled(cur[q].id)' /\ cur'[q] = cur[q]
    BY DEF LoopJustified, Settled
  <1>1. CASE lpc'[q] \notin {"increment", "delete"}
    BY <1>1
  <1>2. CASE lpc'[q] = lpc[q] /\ cur'[q] = cur[q]
    <2>1. cur[q] \in Row
      OBVIOUS
    <2> QED
      BY <1>0, <1>2, <2>1 DEF LoopJustified
  <1>3. CASE Send(q)
    <2>1. /\ cur' = cur /\ cur[q] \in Row
          /\ cur[q].retries <= failures[cur[q].id]
      BY <1>3 DEF Send, CountersLag
    <2>2. lpc'[q] = "increment" => failures'[cur[q].id] = failures[cur[q].id] + 1
      BY <1>3, <2>1 DEF Send, LoopGoto
    <2>3. lpc'[q] = "delete" => \/ received'[cur[q].id] = received[cur[q].id] + 1
                              \/ cur[q].id \in refused'
      BY <1>3, <2>1 DEF Send, LoopGoto, Answers200, Answers4xx
    <2> QED
      BY <1>0, <2>1, <2>2, <2>3 DEF Settled
  <1>4. CASE GiveUp(q)
    <2>1. /\ cur' = cur /\ cur[q] \in Row /\ lpc'[q] = "delete"
          /\ cur[q].retries >= MaxRequestRetry
          /\ cur[q].retries <= failures[cur[q].id]
      BY <1>4 DEF GiveUp, LoopGoto, CountersLag
    <2>2. Settled(cur[q].id)
      BY <1>0, <2>1, LoopAssumption DEF Settled
    <2> QED
      BY <1>0, <2>1, <2>2
  <1>5. ASSUME NEW p \in Proxies, ReplayStep(p)
        PROVE  \/ lpc'[q] \notin {"increment", "delete"}
               \/ lpc'[q] = lpc[q] /\ cur'[q] = cur[q]
               \/ Send(q)
               \/ GiveUp(q)
    BY <1>5 DEF ReplayStep, LoopStep, GetUsers, GetRequests, CheckRow,
       EndOfRows, DropUnformattable, IncrementRetry, DeleteSettled, Send,
       GiveUp, LoopGoto, Break, loopVars
  <1>6. ASSUME NEW p \in Proxies, Crash(p)
        PROVE  \/ lpc'[q] \notin {"increment", "delete"}
               \/ lpc'[q] = lpc[q] /\ cur'[q] = cur[q]
    BY <1>6 DEF Crash
  <1>7. CASE UNCHANGED <<lpc, cur>>
    BY <1>2, <1>7
  <1> QED
    BY <1>1, <1>2, <1>3, <1>4, <1>5, <1>6, <1>7, NextCases DEF ArriveStep,
       HandleStep, VisitStep, EnvStep, loopVars, vars

LEMMA OpenUntouchedNext ==
    ASSUME IInv, [Next]_vars, TypeOK'
    PROVE  OpenUntouched'
  <1> USE DEF IInv, TypeOK, HandlerTypeOK, OpenStates
  <1> SUFFICES ASSUME NEW h \in Hooks, pc'[h] \in OpenStates
               PROVE  h \notin requests' /\ reply'[h] = 0
    BY DEF OpenUntouched
  <1>1. CASE pc[h] \in OpenStates /\ reply'[h] = reply[h]
             /\ (h \in requests' => h \in requests)
    BY <1>1 DEF OpenUntouched
  <1>2. ASSUME NEW k \in Hooks, HandleStep(k)
        PROVE  pc[h] \in OpenStates /\ reply'[h] = reply[h]
               /\ (h \in requests' => h \in requests)
    BY <1>2 DEF HandleStep, HandlerStep, ResolveOwner, CheckState,
       StoreRequest, ReadStats, CreateStats, UpdateStats, Start, StartUnIdle,
       Forward, Goto, Reply, CreateRequest, CreateStatistics, storeVars
  <1>3. ASSUME NEW p \in Proxies, ReplayStep(p)
        PROVE  UNCHANGED <<pc, reply>> /\ requests' \subseteq requests
    BY <1>3 DEF ReplayStep, LoopStep, GetUsers, GetRequests, CheckRow,
       EndOfRows, Send, GiveUp, DropUnformattable, IncrementRetry,
       DeleteSettled, Drop, DeleteRequest, UpdateRequest, CreateStatistics,
       storeVars, handlerVars
  <1>4. ASSUME NEW p \in Proxies, Crash(p)
        PROVE  pc[h] \in OpenStates /\ reply'[h] = reply[h] /\ UNCHANGED requests
    BY <1>4 DEF Crash, storeVars, Active
  <1>5. ASSUME NEW k \in Hooks, NEW p \in Proxies, ArriveStep(k, p)
        PROVE  pc[h] \in OpenStates /\ UNCHANGED <<reply, requests>>
    BY <1>5 DEF ArriveStep, Arrive, storeVars
  <1>6. CASE UNCHANGED <<pc, reply, requests>>
    BY <1>1, <1>6
  <1> QED
    BY <1>1, <1>2, <1>3, <1>4, <1>5, <1>6, NextCases DEF VisitStep,
       RecordVisit, EnvStep, CreateStatistics, handlerVars, storeVars, vars

(* A handler that has left the open states does not come back to them. *)
LEMMA ClosedStays ==
    ASSUME TypeOK, [Next]_vars, NEW h \in Hooks, pc[h] \notin OpenStates
    PROVE  pc'[h] \notin OpenStates
  <1> USE DEF TypeOK, HandlerTypeOK, OpenStates
  <1>1. ASSUME NEW k \in Hooks, HandleStep(k)  PROVE pc'[h] \notin OpenStates
    BY <1>1 DEF HandleStep, HandlerStep, ResolveOwner, CheckState,
       StoreRequest, ReadStats, CreateStats, UpdateStats, Start, StartUnIdle,
       Forward, Goto, Reply
  <1>2. ASSUME NEW p \in Proxies, ReplayStep(p)  PROVE UNCHANGED pc
    BY <1>2 DEF ReplayStep, LoopStep, GetUsers, GetRequests, CheckRow,
       EndOfRows, Send, GiveUp, DropUnformattable, IncrementRetry,
       DeleteSettled, handlerVars
  <1>3. ASSUME NEW p \in Proxies, Crash(p)  PROVE pc'[h] \notin OpenStates
    BY <1>3 DEF Crash
  <1>4. ASSUME NEW k \in Hooks, NEW p \in Proxies, ArriveStep(k, p)
        PROVE  pc'[h] \notin OpenStates
    BY <1>4 DEF ArriveStep, Arrive
  <1> QED
    BY <1>1, <1>2, <1>3, <1>4, NextCases DEF VisitStep, RecordVisit, EnvStep,
       handlerVars, vars

LEMMA CopiesClosedNext ==
    ASSUME IInv, [Next]_vars, TypeOK'
    PROVE  CopiesClosed'
  <1> USE DEF IInv, TypeOK, StoreTypeOK, LoopTypeOK
  <1> DEFINE Held == {"send", "increment", "delete"}
  <1>1. \A h \in Hooks : pc[h] \notin OpenStates => pc'[h] \notin OpenStates
    BY ClosedStays
  <1>2. ASSUME NEW q \in Proxies,
               \/ batch'[q] \subseteq batch[q]
               \/ \E ns \in Namespaces : batch'[q] = RowsOf(ns),
               NEW r \in batch'[q]
        PROVE  pc'[r.id] \notin OpenStates
    <2>1. CASE r \in batch[q]
      <3>1. r \in Row /\ pc[r.id] \notin OpenStates
        BY <2>1 DEF CopiesClosed
      <3> QED
        BY <1>1, <3>1
    <2>2. ASSUME NEW ns \in Namespaces, r \in RowsOf(ns)
          PROVE  pc'[r.id] \notin OpenStates
      <3>1. r.id \in requests
        BY <2>2 DEF RowsOf
      <3> QED
        BY <1>1, <3>1 DEF OpenUntouched
    <2> QED
      BY <1>2, <2>1, <2>2
  <1>3. ASSUME NEW q \in Proxies, lpc'[q] \in Held,
               \/ lpc[q] \in Held /\ cur'[q] = cur[q]
               \/ cur'[q] \in batch[q]
        PROVE  pc'[cur'[q].id] \notin OpenStates
    <2>1. cur'[q] \in Row /\ pc[cur'[q].id] \notin OpenStates
      BY <1>3 DEF CopiesClosed
    <2> QED
      BY <1>1, <2>1
  <1>4. ASSUME NEW p \in Proxies, ReplayStep(p), NEW q \in Proxies
        PROVE  /\ \/ batch'[q] \subseteq batch[q]
                  \/ \E ns \in Namespaces : batch'[q] = RowsOf(ns)
               /\ lpc'[q] \in Held => \/ lpc[q] \in Held /\ cur'[q] = cur[q]
                                     \/ cur'[q] \in batch[q]
    <2> USE <1>4 DEF LoopGoto, Break, loopVars
    <2>1. \/ batch'[q] \subseteq batch[q]
          \/ \E ns \in Namespaces : batch'[q] = RowsOf(ns)
      BY DEF ReplayStep, LoopStep, GetUsers, GetRequests, CheckRow,
         EndOfRows, Send, GiveUp, DropUnformattable, IncrementRetry, DeleteSettled
    <2>2. lpc'[q] \in Held => \/ lpc[q] \in Held /\ cur'[q] = cur[q]
                             \/ cur'[q] \in batch[q]
      BY DEF ReplayStep, LoopStep, GetUsers, GetRequests, CheckRow,
         EndOfRows, Send, GiveUp, DropUnformattable, IncrementRetry, DeleteSettled
    <2> QED
      BY <2>1, <2>2
  <1>5. ASSUME NEW p \in Proxies, Crash(p), NEW q \in Proxies
        PROVE  /\ batch'[q] \subseteq batch[q]
               /\ cur'[q] = cur[q]
               /\ lpc'[q] \in Held => lpc[q] \in Held
    BY <1>5 DEF Crash
  <1>6. CASE UNCHANGED <<lpc, cur, batch>>
    BY <1>2, <1>3, <1>6 DEF CopiesClosed
  <1> QED
    BY <1>2, <1>3, <1>4, <1>5, <1>6, NextCases DEF CopiesClosed, ArriveStep,
       HandleStep, VisitStep, EnvStep, loopVars, vars

-----------------------------------------------------------------------------
(* Theorems of the specification. *)

LEMMA IInvNext == IInv /\ [Next]_vars => IInv'
  <1> SUFFICES ASSUME IInv, [Next]_vars PROVE IInv'
    OBVIOUS
  <1>1. TypeOK'
    BY TypeNext DEF IInv
  <1> QED
    BY <1>1, StoredKeptNext, CountersLagNext, LoopJustifiedNext,
       OpenUntouchedNext, CopiesClosedNext DEF IInv

LEMMA Inductive == Spec => []IInv
  BY IInvInit, IInvNext, PTL DEF Spec

(* A delivery answered with 202 is buffered until it is settled, whatever  *)
(* the number of proxies, faults, crashes and idled pods.                  *)
THEOREM AcceptedIsKept == Spec => []AcceptedKept
  <1>1. IInv => AcceptedKept
    BY DEF IInv, StoredKept, Kept, AcceptedKept
  <1> QED
    BY <1>1, Inductive, PTL

(* Rows appear in the table only by the insert of their own handler. *)
THEOREM RowsStayDeleted == Spec => NoResurrection
  <1>1. ASSUME IInv, [Next]_vars
        PROVE  [\A h \in Hooks :
                   h \in requests' /\ h \notin requests => pc[h] = "store"]_vars
    <2> SUFFICES ASSUME NEW h \in Hooks, h \in requests', h \notin requests
                 PROVE  pc[h] = "store"
      OBVIOUS
    <2>1. ASSUME NEW k \in Hooks, HandleStep(k)  PROVE pc[h] = "store"
      BY <2>1 DEF HandleStep, HandlerStep, ResolveOwner, CheckState,
         StoreRequest, ReadStats, CreateStats, UpdateStats, Start,
         StartUnIdle, Forward, Goto, CreateRequest, CreateStatistics, storeVars
    <2>2. ASSUME NEW p \in Proxies, ReplayStep(p)  PROVE FALSE
      BY <2>2 DEF ReplayStep, LoopStep, GetUsers, GetRequests, CheckRow,
         EndOfRows, Send, GiveUp, DropUnformattable, IncrementRetry,
         DeleteSettled, Drop, DeleteRequest, UpdateRequest, CreateStatistics,
         storeVars
    <2>3. ~UNCHANGED requests
      OBVIOUS
    <2> QED
      BY <1>1, <2>1, <2>2, <2>3, NextCases DEF ArriveStep, Arrive, VisitStep,
         RecordVisit, Crash, EnvStep, CreateStatistics, storeVars, vars
  <1> QED
    BY <1>1, Inductive, PTL DEF NoResurrection, Spec

-----------------------------------------------------------------------------
(* Refinement: every step of the webhook path is a step of the mailbox. *)

LEMMA MailboxInit == Init => Mailbox!Init
  BY DEF Init, HandlerInit, StoreInit, OpenStates, Mailbox!Init

(* A step that touches nothing the mailbox sees. *)
LEMMA MailboxStutter ==
    ASSUME \A h \in Hooks : /\ pc[h] \in OpenStates <=> pc'[h] \in OpenStates
                            /\ reply[h] = 202 <=> reply'[h] = 202
                            /\ Settled(h) <=> Settled(h)',
           UNCHANGED requests
    PROVE  UNCHANGED Mailbox!mailbox
  BY DEF Mailbox!mailbox

LEMMA SettledSame ==
    ASSUME UNCHANGED <<received, refused, failures, spoiled>>
    PROVE  \A h \in Hooks : Settled(h) <=> Settled(h)'
  BY DEF Settled

LEMMA MailboxHandle ==
    ASSUME IInv, TypeOK', NEW h \in Hooks, HandleStep(h)
    PROVE  [Mailbox!Next]_(Mailbox!mailbox)
  <1> USE DEF IInv, TypeOK, HandlerTypeOK, OpenStates
  <1>1. CASE Forward(h)
    <2>1. /\ pc[h] = "forward" /\ pc' = [pc EXCEPT ![h] = "done"]
          /\ UNCHANGED <<reply, requests, failures, spoiled>>
      BY <1>1 DEF HandleStep, Forward, Goto, loopVars, storeVars
    <2>2. \/ UNCHANGED <<received, refused>>
          \/ /\ \A k \in Hooks \ {h} : Settled(k) <=> Settled(k)'
             /\ Settled(h)'
      <3>1. \/ UNCHANGED <<received, refused>>
            \/ received' = [received EXCEPT ![h] = @ + 1] /\ UNCHANGED refused
            \/ refused' = refused \cup {h} /\ UNCHANGED received
        BY <1>1 DEF Forward, Answers200, Answers4xx, AnswersError,
           ConnectionFails, AnswerLost, deliveryVars
      <3> QED
        BY <2>1, <3>1 DEF Settled, PlatformTypeOK
    <2>3. CASE UNCHANGED <<received, refused>>
      BY <2>1, <2>3, SettledSame, MailboxStutter
    <2>4. CASE /\ \A k \in Hooks \ {h} : Settled(k) <=> Settled(k)'
               /\ Settled(h)'
      <3>1. Mailbox!Settle(h)
        BY <2>1, <2>4 DEF Mailbox!Settle
      <3> QED
        BY <3>1 DEF Mailbox!Next
    <2> QED
      BY <2>2, <2>3, <2>4
  <1>2. ASSUME ~Forward(h)
        PROVE  \A k \in Hooks : Settled(k) <=> Settled(k)'
    <2>1. UNCHANGED <<received, refused, failures, spoiled>>
      BY <1>2 DEF HandleStep, HandlerStep, ResolveOwner, CheckState,
         StoreRequest, ReadStats, CreateStats, UpdateStats, Start,
         StartUnIdle, platformVars, deliveryVars, loopVars
    <2> QED
      BY <2>1, SettledSame
  <1>3. ASSUME \A k \in Hooks : Settled(k) <=> Settled(k)',
               \/ UNCHANGED <<reply, requests>> /\ pc' = [pc EXCEPT ![h] = "done"]
                  /\ pc[h] \notin OpenStates
               \/ UNCHANGED <<reply, requests>> /\ pc[h] \in OpenStates
                  /\ \E c \in OpenStates : pc' = [pc EXCEPT ![h] = c]
               \/ UNCHANGED <<reply, requests>> /\ pc[h] \notin OpenStates
                  /\ \E c \in HandlerStates \ OpenStates : pc' = [pc EXCEPT ![h] = c]
        PROVE  UNCHANGED Mailbox!mailbox
    BY <1>3, MailboxStutter
  <1>4. ASSUME \A k \in Hooks : Settled(k) <=> Settled(k)',
               UNCHANGED requests,
               \E c \in HandlerStates \ OpenStates : pc' = [pc EXCEPT ![h] = c],
               \E n \in {200, 500} : reply' = [reply EXCEPT ![h] = n]
        PROVE  Mailbox!Next
    <2>1. Mailbox!LetGo({h})
      BY <1>4 DEF Mailbox!LetGo
    <2> QED
      BY <2>1 DEF Mailbox!Next
  <1>5. ASSUME \A k \in Hooks : Settled(k) <=> Settled(k)',
               UNCHANGED requests,
               pc[h] \in {"createStats", "updateStats"},
               pc' = [pc EXCEPT ![h] = "start"],
               reply' = [reply EXCEPT ![h] = 202]
        PROVE  Mailbox!Next
    <2>1. h \in requests \/ Settled(h)
      BY <1>5 DEF StoredKept, Kept
    <2>2. Mailbox!Accept(h)
      BY <1>5, <2>1 DEF Mailbox!Accept
    <2> QED
      BY <2>2 DEF Mailbox!Next
  <1>6. CASE ResolveOwner(h) \/ CheckState(h) \/ ReadStats(h)
    BY <1>2, <1>3, <1>4, <1>6 DEF ResolveOwner, CheckState, ReadStats,
       Forward, Goto, Reply, storeVars
  <1>7. CASE StoreRequest(h)
    <2>1. \A k \in Hooks : Settled(k) <=> Settled(k)'
      BY <1>2, <1>7 DEF StoreRequest, Forward, Goto, Reply
    <2>2. CASE Goto(h, "store", "readStats") /\ CreateRequest(h)
      <3>1. Mailbox!PutIn(h)
        BY <2>1, <2>2 DEF Mailbox!PutIn, Goto, CreateRequest
      <3> QED
        BY <3>1 DEF Mailbox!Next
    <2>3. CASE Reply(h, "store", "start", 500) /\ UNCHANGED storeVars
      BY <1>4, <2>1, <2>3 DEF Reply, storeVars
    <2> QED
      BY <1>7, <2>2, <2>3 DEF StoreRequest
  <1>8. CASE CreateStats(h) \/ UpdateStats(h)
    BY <1>2, <1>4, <1>5, <1>8 DEF CreateStats, UpdateStats, Forward, Goto,
       Reply, CreateStatistics, storeVars
  <1>9. CASE Start(h) \/ StartUnIdle(h)
    BY <1>2, <1>3, <1>9 DEF Start, StartUnIdle, Forward, Goto, storeVars
  <1> QED
    BY <1>1, <1>6, <1>7, <1>8, <1>9 DEF HandleStep, HandlerStep

LEMMA MailboxReplay ==
    ASSUME IInv, TypeOK', NEW p \in Proxies, ReplayStep(p)
    PROVE  [Mailbox!Next]_(Mailbox!mailbox)
  <1> USE DEF IInv, TypeOK, PlatformTypeOK, LoopTypeOK
  <1>0. UNCHANGED <<pc, reply>>
    BY DEF ReplayStep, LoopStep, GetUsers, GetRequests, CheckRow, EndOfRows,
       Send, GiveUp, DropUnformattable, IncrementRetry, DeleteSettled, handlerVars
  <1>1. PICK h \in Hooks : h = cur[p].id
    OBVIOUS
  <1>2. lpc[p] \in {"send", "increment", "delete"} => pc[h] \notin OpenStates
    BY <1>1 DEF CopiesClosed
  <1>3. CASE Send(p)
    <2>1. /\ lpc[p] = "send" /\ UNCHANGED <<requests, spoiled>>
          /\ failures' \in {failures, [failures EXCEPT ![h] = @ + 1]}
          /\ received' \in {received, [received EXCEPT ![h] = @ + 1]}
          /\ refused' \in {refused, refused \cup {h}}
      BY <1>1, <1>3 DEF Send, LoopGoto, Answers200, Answers4xx, AnswersError,
         ConnectionFails, AnswerLost, deliveryVars, storeVars
    <2>2. \A k \in Hooks \ {h} : Settled(k) <=> Settled(k)'
      BY <1>1, <2>1 DEF Settled
    <2>3. CASE Settled(h)'
      <3>1. Mailbox!Settle(h)
        BY <1>0, <1>1, <1>2, <2>1, <2>2, <2>3 DEF Mailbox!Settle
      <3> QED
        BY <1>1, <3>1 DEF Mailbox!Next
    <2>4. CASE ~Settled(h)'
      <3>1. ~Settled(h)
        BY <1>1, <2>1, <2>4, LoopAssumption DEF Settled
      <3> QED
        BY <1>0, <2>1, <2>2, <2>4, <3>1, MailboxStutter
    <2> QED
      BY <2>3, <2>4
  <1>4. CASE DropUnformattable(p) \/ IncrementRetry(p)
    <2>1. /\ lpc[p] \in {"send", "increment"}
          /\ UNCHANGED <<received, refused, failures>>
          /\ \/ UNCHANGED <<requests, spoiled>>
             \/ requests' = requests \ {h} /\ spoiled' = spoiled \cup {h}
      BY <1>1, <1>4 DEF DropUnformattable, IncrementRetry, Break, LoopGoto, Drop,
         DeleteRequest, UpdateRequest, storeVars, deliveryVars
    <2>2. CASE UNCHANGED <<requests, spoiled>>
      BY <1>0, <2>1, <2>2, SettledSame, MailboxStutter
    <2>3. CASE requests' = requests \ {h} /\ spoiled' = spoiled \cup {h}
      <3>1. Settled(h)' /\ \A k \in Hooks \ {h} : Settled(k) <=> Settled(k)'
        BY <2>1, <2>3 DEF Settled
      <3>2. Mailbox!Discard(h)
        BY <1>0, <1>1, <1>2, <2>1, <2>3, <3>1 DEF Mailbox!Discard
      <3> QED
        BY <1>1, <3>2 DEF Mailbox!Next
    <2> QED
      BY <2>1, <2>2, <2>3
  <1>5. CASE DeleteSettled(p)
    <2>1. /\ lpc[p] = "delete"
          /\ requests' \in {requests, requests \ {h}}
          /\ UNCHANGED <<received, refused, failures, spoiled>>
      BY <1>1, <1>5 DEF DeleteSettled, LoopGoto, DeleteRequest, storeVars, deliveryVars
    <2>2. Settled(h)
      BY <1>1, <2>1 DEF LoopJustified
    <2>3. CASE requests' = requests
      BY <1>0, <2>1, <2>3, SettledSame, MailboxStutter
    <2>4. CASE requests' = requests \ {h}
      <3>1. Mailbox!TakeOut(h)
        BY <1>0, <1>1, <2>1, <2>2, <2>4, SettledSame DEF Mailbox!TakeOut
      <3> QED
        BY <1>1, <3>1 DEF Mailbox!Next
    <2> QED
      BY <2>1, <2>3, <2>4
  <1>6. CASE UNCHANGED <<requests, received, refused, failures, spoiled>>
    BY <1>0, <1>6, SettledSame, MailboxStutter
  <1> QED
    BY <1>3, <1>4, <1>5, <1>6 DEF ReplayStep, LoopStep, GetUsers,
       GetRequests, CheckRow, EndOfRows, GiveUp, CreateStatistics, storeVars,
       loopVars, platformVars, deliveryVars

LEMMA MailboxCrash ==
    ASSUME IInv, NEW p \in Proxies, Crash(p)
    PROVE  Mailbox!Next
  <1>0. PICK gone \in SUBSET Hooks : gone = {h \in Hooks : at[h] = p /\ pc[h] \in Active}
    OBVIOUS
  <1>1. /\ pc' = [h \in Hooks |-> IF h \in gone THEN "dead" ELSE pc[h]]
        /\ reply' = [h \in Hooks |-> IF h \in gone THEN 0 ELSE reply[h]]
        /\ UNCHANGED <<requests, received, refused, failures, spoiled>>
    BY <1>0 DEF Crash, storeVars, platformVars
  <1>2. Mailbox!LetGo(gone)
    BY <1>1, SettledSame DEF Mailbox!LetGo, OpenStates
  <1> QED
    BY <1>2 DEF Mailbox!Next

LEMMA MailboxNext ==
    ASSUME IInv, [Next]_vars
    PROVE  [Mailbox!Next]_(Mailbox!mailbox)
  <1>0. TypeOK'
    BY TypeNext DEF IInv
  <1>1. ASSUME NEW h \in Hooks, NEW p \in Proxies, ArriveStep(h, p)
        PROVE  UNCHANGED Mailbox!mailbox
    <2>1. /\ UNCHANGED <<requests, reply, received, refused, failures, spoiled>>
          /\ pc[h] = "unseen" /\ pc' = [pc EXCEPT ![h] = "resolve"]
      BY <1>1 DEF ArriveStep, Arrive, platformVars, storeVars, loopVars
    <2> QED
      BY <2>1, SettledSame, MailboxStutter DEF IInv, TypeOK, HandlerTypeOK, OpenStates
  <1>2. CASE UNCHANGED <<pc, reply, requests, received, refused, failures, spoiled>>
    BY <1>2, SettledSame, MailboxStutter
  <1> QED
    BY <1>0, <1>1, <1>2, NextCases, MailboxHandle, MailboxReplay, MailboxCrash
    DEF VisitStep, RecordVisit, EnvStep, Environment, PodStarts, IdlePod,
        UserWakes, CreateStatistics, storeVars, handlerVars, loopVars,
        platformVars, deliveryVars, vars

(* The handlers, loops, tables, crashes and failures of the webhook path   *)
(* implement the mailbox.                                                  *)
THEOREM Refinement == Spec => ImplementsMailbox
  BY MailboxInit, MailboxNext, Inductive, PTL
  DEF ImplementsMailbox, Spec, Mailbox!Spec

=============================================================================
