------------------------- MODULE WebhookBoundsProofs -------------------------
(***************************************************************************)
(* More about the webhook path: a buffered delivery has its Jenkins woken, *)
(* and attempts and duplicates stay bounded.                               *)
(***************************************************************************)
EXTENDS WebhookProxyProofs, FiniteSetTheorems

-----------------------------------------------------------------------------
(* What every step does to the counts of what went wrong and to the pods.  *)

LEMMA FaultCount ==
    ASSUME faults \in Nat, Healthy \/ Fault
    PROVE  /\ faults' \in Nat /\ faults <= faults'
           /\ Fault => faults' = faults + 1
BY DEF Healthy, Fault

LEMMA CountsGrow ==
    ASSUME TypeOK, [Next]_vars
    PROVE  /\ faults \in Nat /\ faults' \in Nat /\ faults <= faults'
           /\ idles \in Nat /\ idles' \in Nat /\ idles <= idles'
           /\ crashes \in Nat /\ crashes' \in Nat /\ crashes <= crashes'
           /\ \A ns \in Namespaces :
                 jenkins[ns] # "idled" /\ jenkins'[ns] = "idled" => idles' > 0
<1>0. /\ faults \in Nat /\ idles \in Nat /\ crashes \in Nat
      /\ jenkins \in [Namespaces -> PodStates] /\ owner \in [Hooks -> Namespaces]
    BY PodsAssumption, CrashAssumption
       DEF TypeOK, PlatformTypeOK, PodsTypeOK, StoreTypeOK
<1> USE DEF podVars, deliveryVars
<1>1. ASSUME NEW h \in Hooks, HandleStep(h) \/ VisitStep(h)
      PROVE  /\ Healthy \/ Fault
             /\ UNCHANGED <<idles, crashes>>
             /\ \A ns \in Namespaces :
                   jenkins[ns] # "idled" => jenkins'[ns] # "idled"
    <2>1. CASE StartUnIdle(h)
        <3>1. CASE HandleStep(h)
            BY <1>0, <2>1, <3>1
               DEF HandleStep, StartUnIdle, UnIdle, PodStates
        <3>2. CASE VisitStep(h)
            BY <1>0, <3>2 DEF VisitStep, RecordVisit, PodStates
        <3> QED
            BY <1>1, <3>1, <3>2
    <2>2. CASE ~StartUnIdle(h)
        BY <1>0, <1>1, <2>2
           DEF HandleStep, VisitStep, HandlerStep, RecordVisit, ResolveOwner,
               CheckState, StoreRequest, ReadStats, CreateStats, UpdateStats,
               Start, Forward, Answers200, Answers4xx, AnswersError,
               ConnectionFails, AnswerLost, platformVars, Healthy
    <2> QED
        BY <2>1, <2>2
<1>2. ASSUME NEW p \in Proxies, ReplayStep(p)
      PROVE  /\ Healthy \/ Fault
             /\ UNCHANGED <<idles, crashes, jenkins>>
    BY <1>2 DEF ReplayStep, LoopStep, GetUsers, GetRequests, CheckRow,
       EndOfRows, Send, GiveUp, DropUnformattable, IncrementRetry,
       DeleteSettled, Answers200, Answers4xx, AnswersError, ConnectionFails,
       AnswerLost, platformVars, Healthy
<1>3. ASSUME NEW p \in Proxies, Crash(p)
      PROVE  UNCHANGED <<jenkins, faults, idles>> /\ crashes' = crashes + 1
    BY <1>3 DEF Crash, platformVars
<1>4. CASE EnvStep
    BY <1>0, <1>4 DEF EnvStep, Environment, PodStarts, IdlePod, UserWakes,
       PodStates
<1>5. ASSUME NEW h \in Hooks, NEW p \in Proxies, ArriveStep(h, p)
      PROVE  UNCHANGED <<jenkins, faults, idles, crashes>>
    BY <1>5 DEF ArriveStep, Arrive, platformVars
<1>6. CASE UNCHANGED vars
    BY <1>0, <1>6 DEF vars, platformVars
<1> QED
    BY <1>0, <1>1, <1>2, <1>3, <1>4, <1>5, <1>6, NextCases, FaultCount

(* Rows are made at one place only, and only there a namespace is chosen. *)
LEMMA RowsMade ==
    ASSUME TypeOK, [Next]_vars, NEW h \in Hooks
    PROVE  /\ h \in requests' /\ h \notin requests =>
                 StoreRequest(h) /\ retries'[h] = 0
           /\ owner'[h] # owner[h] => ResolveOwner(h)
<1> USE DEF TypeOK, StoreTypeOK, HandlerTypeOK
<1>1. ASSUME NEW k \in Hooks, HandleStep(k)
      PROVE  /\ h \in requests' /\ h \notin requests =>
                   StoreRequest(h) /\ retries'[h] = 0
             /\ owner'[h] # owner[h] => ResolveOwner(h)
    <2>1. CASE ResolveOwner(k)
        BY <2>1 DEF ResolveOwner, storeVars
    <2>2. CASE StoreRequest(k)
        BY <2>2 DEF StoreRequest, CreateRequest, storeVars
    <2>3. CASE UNCHANGED <<requests, owner>>
        BY <2>3
    <2> QED
        BY <1>1, <2>1, <2>2, <2>3 DEF HandleStep, HandlerStep, CheckState,
           ReadStats, CreateStats, UpdateStats, Start, StartUnIdle, Forward,
           CreateStatistics, storeVars
<1>2. ASSUME NEW p \in Proxies, ReplayStep(p)
      PROVE  requests' \subseteq requests /\ UNCHANGED owner
    BY <1>2 DEF ReplayStep, LoopStep, GetUsers, GetRequests, CheckRow,
       EndOfRows, Send, GiveUp, DropUnformattable, IncrementRetry,
       DeleteSettled, Drop, DeleteRequest, UpdateRequest, CreateStatistics,
       storeVars
<1>3. CASE UNCHANGED <<requests, owner>>
    BY <1>3
<1> QED
    BY <1>1, <1>2, <1>3, NextCases DEF ArriveStep, Arrive, VisitStep,
       RecordVisit, Crash, EnvStep, CreateStatistics, storeVars, vars

-----------------------------------------------------------------------------
(* A delivery that is passed on directly is not buffered. *)
ForwardUnbuffered ==
    \A h \in Hooks : pc[h] = "forward" => h \notin requests

(* The steps with which a handler gets to its last two states. *)
LEMMA HandlerEnds ==
    ASSUME TypeOK, [Next]_vars, NEW h \in Hooks
    PROVE  /\ pc'[h] = "forward" /\ pc[h] # "forward" => CheckState(h)
           /\ pc'[h] = "done" /\ pc[h] # "done" =>
                 ResolveOwner(h) \/ CheckState(h) \/ Start(h)
                     \/ StartUnIdle(h) \/ Forward(h)
<1> USE DEF TypeOK, HandlerTypeOK
<1>1. ASSUME NEW k \in Hooks, HandleStep(k)
      PROVE  /\ pc'[h] = "forward" /\ pc[h] # "forward" => CheckState(h)
             /\ pc'[h] = "done" /\ pc[h] # "done" =>
                   ResolveOwner(h) \/ CheckState(h) \/ Start(h)
                       \/ StartUnIdle(h) \/ Forward(h)
    <2>1. CASE ResolveOwner(k) \/ CheckState(k)
        BY <2>1 DEF ResolveOwner, CheckState, Goto, Reply
    <2>2. CASE StoreRequest(k) \/ ReadStats(k) \/ CreateStats(k) \/ UpdateStats(k)
        BY <2>2 DEF StoreRequest, ReadStats, CreateStats, UpdateStats, Goto, Reply
    <2>3. CASE Start(k) \/ StartUnIdle(k) \/ Forward(k)
        BY <2>3 DEF Start, StartUnIdle, Forward, Goto
    <2> QED
        BY <1>1, <2>1, <2>2, <2>3 DEF HandleStep, HandlerStep
<1>2. ASSUME NEW p \in Proxies, ReplayStep(p)
      PROVE  UNCHANGED pc
    BY <1>2 DEF ReplayStep, LoopStep, GetUsers, GetRequests, CheckRow,
       EndOfRows, Send, GiveUp, DropUnformattable, IncrementRetry,
       DeleteSettled, handlerVars
<1>3. ASSUME NEW p \in Proxies, Crash(p)
      PROVE  pc'[h] \in {pc[h], "dead"}
    BY <1>3 DEF Crash
<1>4. ASSUME NEW k \in Hooks, NEW p \in Proxies, ArriveStep(k, p)
      PROVE  pc'[h] \in {pc[h], "resolve"}
    BY <1>4 DEF ArriveStep, Arrive
<1> QED
    BY <1>1, <1>2, <1>3, <1>4, NextCases DEF VisitStep, RecordVisit, EnvStep,
       handlerVars, vars

LEMMA UnbufferedNext ==
    ASSUME IInv, ForwardUnbuffered, [Next]_vars
    PROVE  ForwardUnbuffered'
<1> USE DEF IInv
<1> SUFFICES ASSUME NEW h \in Hooks, pc'[h] = "forward"
             PROVE  h \notin requests'
    BY DEF ForwardUnbuffered
<1>1. ~StoreRequest(h)
    BY DEF StoreRequest, Goto, Reply, TypeOK, HandlerTypeOK
<1>2. h \notin requests
    BY HandlerEnds
       DEF ForwardUnbuffered, OpenUntouched, OpenStates, CheckState, Goto, Reply
<1> QED
    BY <1>1, <1>2, RowsMade

(* With a row, a handler can only end in one of the two steps of Start:    *)
(* before the insert there is no row, and what is passed on has none.      *)
LEMMA EndsWoken ==
    ASSUME IInv, ForwardUnbuffered, [Next]_vars, NEW h \in Hooks,
           h \in requests', pc'[h] = "done", pc[h] # "done"
    PROVE  \/ jenkins'[owner'[h]] # "idled"
           \/ pc[h] \in {"start", "unidle"} /\ faults' > faults
<1> USE DEF IInv
<1>1. h \in requests
    BY RowsMade DEF StoreRequest, Goto, Reply, TypeOK, HandlerTypeOK
<1>2. ~ResolveOwner(h) /\ ~CheckState(h) /\ ~Forward(h)
    BY <1>1 DEF ResolveOwner, CheckState, Forward, Goto, Reply,
       ForwardUnbuffered, OpenUntouched, OpenStates
<1>3. owner'[h] = owner[h] /\ owner[h] \in Namespaces
    BY <1>2, RowsMade DEF TypeOK, StoreTypeOK
<1>4. Fault => faults' > faults
    BY PodsAssumption DEF Fault, TypeOK, PlatformTypeOK, PodsTypeOK
<1>5. CASE Start(h)
    <2>1. pc[h] = "start"
        BY <1>5 DEF Start, Goto
    <2>2. CASE ~Fault
        <3>1. /\ pc'[h] = IF jenkins[owner[h]] = "idled"
                          THEN "unidle" ELSE "done"
              /\ jenkins' = jenkins
            BY <1>5, <2>2
               DEF Start, Goto, TypeOK, HandlerTypeOK, platformVars, podVars
        <3> QED
            BY <1>3, <3>1
    <2> QED
        BY <1>4, <2>1, <2>2
<1>6. CASE StartUnIdle(h)
    <2>1. pc[h] = "unidle"
        BY <1>6 DEF StartUnIdle, Goto
    <2>2. CASE ~Fault
        BY <1>3, <1>6, <2>2
           DEF StartUnIdle, UnIdle, TypeOK, PlatformTypeOK, PodsTypeOK
    <2> QED
        BY <1>4, <2>1, <2>2
<1> QED
    BY <1>2, <1>5, <1>6, HandlerEnds

(* A handler that ends with its delivery in the table ends with a Jenkins  *)
(* that is up or coming up, or in a failing call of Start, whatever other  *)
(* calls failed and whichever pods the idler stopped before.               *)
THEOREM BufferedIsWoken == Spec => BufferedMeansWoken
<1>1. Init => ForwardUnbuffered
    BY DEF Init, HandlerInit, StoreInit, ForwardUnbuffered
<1>2. IInv /\ ForwardUnbuffered /\ [Next]_vars => ForwardUnbuffered'
    BY UnbufferedNext
<1>3. IInv /\ ForwardUnbuffered /\ [Next]_vars =>
        [\A h \in Hooks :
            h \in requests' /\ pc'[h] = "done" /\ pc[h] # "done" =>
                \/ jenkins'[owner'[h]] # "idled"
                \/ pc[h] \in {"start", "unidle"} /\ faults' > faults]_vars
    BY EndsWoken
<1> QED
    BY <1>1, <1>2, <1>3, Inductive, PTL DEF Spec, BufferedMeansWoken
-----------------------------------------------------------------------------
(* A delivery is passed on only to a Jenkins that runs, and only those     *)
(* that were passed on have the 200; as long as nothing fails and no pod   *)
(* is idled, Jenkins has it when the handler is done.                      *)
PassedOn ==
    \A h \in Hooks :
        /\ reply[h] = 200 => pc[h] \in {"forward", "done"}
        /\ faults + idles = 0 =>
              /\ pc[h] = "forward" => jenkins[owner[h]] = "running"
              /\ pc[h] = "done" /\ reply[h] = 200 /\ h \notin Poison => Kept(h)

LEMMA RunningStays ==
    ASSUME TypeOK, [Next]_vars, NEW ns \in Namespaces,
           jenkins[ns] = "running", jenkins'[ns] # "running"
    PROVE  idles' > 0
<1>0. idles \in Nat /\ jenkins \in [Namespaces -> PodStates]
    BY PodsAssumption DEF TypeOK, PlatformTypeOK, PodsTypeOK
<1> USE DEF podVars, deliveryVars
<1>1. ASSUME NEW h \in Hooks, HandleStep(h) \/ VisitStep(h)
      PROVE  jenkins'[ns] = "running"
    <2>1. CASE StartUnIdle(h)
        <3>1. owner[h] \in Namespaces
            BY DEF TypeOK, StoreTypeOK
        <3>2. CASE HandleStep(h)
            BY <1>0, <2>1, <3>1, <3>2 DEF StartUnIdle, UnIdle
        <3>3. CASE VisitStep(h)
            BY <3>3 DEF VisitStep, RecordVisit
        <3> QED
            BY <1>1, <3>2, <3>3
    <2>2. CASE ~StartUnIdle(h)
        BY <1>1, <2>2
           DEF HandleStep, VisitStep, HandlerStep, RecordVisit, ResolveOwner,
               CheckState, StoreRequest, ReadStats, CreateStats, UpdateStats,
               Start, Forward, platformVars
    <2> QED
        BY <2>1, <2>2
<1>2. ASSUME NEW p \in Proxies, ReplayStep(p)
      PROVE  UNCHANGED jenkins
    BY <1>2 DEF ReplayStep, LoopStep, GetUsers, GetRequests, CheckRow,
       EndOfRows, Send, GiveUp, DropUnformattable, IncrementRetry,
       DeleteSettled, platformVars
<1>3. CASE EnvStep
    BY <1>0, <1>3 DEF EnvStep, Environment, PodStarts, IdlePod, UserWakes
<1>4. CASE UNCHANGED jenkins
    BY <1>4
<1> QED
    BY <1>1, <1>2, <1>3, <1>4, NextCases DEF ArriveStep, Arrive, Crash, vars,
       platformVars

(* How a handler comes by its 200 and ends with it. *)
LEMMA PassingSteps ==
    ASSUME TypeOK, [Next]_vars, NEW h \in Hooks,
           reply[h] = 200 => pc[h] \in {"forward", "done"}
    PROVE  /\ reply'[h] = 200 => pc'[h] \in {"forward", "done"}
           /\ pc'[h] = "done" /\ reply'[h] = 200 =>
                 (pc[h] = "done" /\ reply[h] = 200) \/ Forward(h)
<1> USE DEF TypeOK, HandlerTypeOK
<1>1. ASSUME HandleStep(h)
      PROVE  /\ reply'[h] = 200 => pc'[h] \in {"forward", "done"}
             /\ pc'[h] = "done" /\ reply'[h] = 200 => Forward(h)
    <2>1. CASE ResolveOwner(h) \/ CheckState(h)
        BY <2>1 DEF ResolveOwner, CheckState, Goto, Reply
    <2>2. CASE StoreRequest(h) \/ ReadStats(h) \/ CreateStats(h) \/ UpdateStats(h)
        BY <2>2 DEF StoreRequest, ReadStats, CreateStats, UpdateStats, Goto, Reply
    <2>3. CASE Start(h) \/ StartUnIdle(h) \/ Forward(h)
        BY <2>3 DEF Start, StartUnIdle, Forward, Goto
    <2> QED
        BY <1>1, <2>1, <2>2, <2>3 DEF HandleStep, HandlerStep
<1>2. ASSUME NEW k \in Hooks \ {h}, HandleStep(k)
      PROVE  pc'[h] = pc[h] /\ reply'[h] = reply[h]
    BY <1>2 DEF HandleStep, HandlerStep, ResolveOwner, CheckState,
       StoreRequest, ReadStats, CreateStats, UpdateStats, Start, StartUnIdle,
       Forward, Goto, Reply
<1>3. ASSUME NEW p \in Proxies, ReplayStep(p)
      PROVE  UNCHANGED <<pc, reply>>
    BY <1>3 DEF ReplayStep, LoopStep, GetUsers, GetRequests, CheckRow,
       EndOfRows, Send, GiveUp, DropUnformattable, IncrementRetry,
       DeleteSettled, handlerVars
<1>4. ASSUME NEW p \in Proxies, Crash(p)
      PROVE  \/ pc'[h] = pc[h] /\ reply'[h] = reply[h]
             \/ reply'[h] = 0
    BY <1>4 DEF Crash
<1>5. ASSUME NEW k \in Hooks, NEW p \in Proxies, ArriveStep(k, p)
      PROVE  reply'[h] = reply[h] /\ (k # h => pc'[h] = pc[h])
             /\ (k = h => pc[h] = "unseen")
    BY <1>5 DEF ArriveStep, Arrive
<1>6. CASE UNCHANGED <<pc, reply>>
    BY <1>6
<1> QED
    BY <1>1, <1>2, <1>3, <1>4, <1>5, <1>6, NextCases DEF VisitStep,
       RecordVisit, EnvStep, handlerVars, vars

LEMMA PassedOnNext ==
    ASSUME IInv, PassedOn, [Next]_vars, TypeOK'
    PROVE  PassedOn'
<1>0. TypeOK /\ \A h \in Hooks : pc[h] \in HandlerStates
    BY DEF IInv, TypeOK, HandlerTypeOK
<1> SUFFICES ASSUME NEW h \in Hooks
             PROVE  /\ reply'[h] = 200 => pc'[h] \in {"forward", "done"}
                    /\ faults' + idles' = 0 =>
                          /\ pc'[h] = "forward" => jenkins'[owner'[h]] = "running"
                          /\ pc'[h] = "done" /\ reply'[h] = 200 /\ h \notin Poison
                                 => Kept(h)'
    BY DEF PassedOn
<1>1. /\ reply'[h] = 200 => pc'[h] \in {"forward", "done"}
      /\ pc'[h] = "done" /\ reply'[h] = 200 =>
            (pc[h] = "done" /\ reply[h] = 200) \/ Forward(h)
    BY <1>0, PassingSteps DEF PassedOn
<1>2. ASSUME faults' + idles' = 0
      PROVE  faults' = 0 /\ idles' = 0 /\ faults = 0 /\ idles = 0
    BY <1>0, <1>2, CountsGrow
<1>3. ASSUME faults' + idles' = 0, pc'[h] = "forward"
      PROVE  jenkins'[owner'[h]] = "running"
    <2>1. owner[h] \in Namespaces
        BY <1>0 DEF TypeOK, StoreTypeOK
    <2>2. jenkins[owner[h]] = "running" /\ pc[h] # "resolve"
        <3>1. CASE pc[h] = "forward"
            BY <1>2, <1>3, <3>1 DEF PassedOn
        <3>2. CASE CheckState(h)
            BY <1>0, <1>3, <3>2 DEF CheckState, Goto, Reply, TypeOK, HandlerTypeOK
        <3> QED
            BY <1>0, <1>3, <3>1, <3>2, HandlerEnds
    <2>3. owner'[h] = owner[h]
        <3>1. ~ResolveOwner(h)
            BY <2>2 DEF ResolveOwner, Goto, Reply
        <3> QED
            BY <1>0, <3>1, RowsMade
    <2> QED
        BY <1>0, <1>2, <1>3, <2>1, <2>2, <2>3, RunningStays
<1>4. ASSUME faults' + idles' = 0, pc'[h] = "done", reply'[h] = 200, h \notin Poison
      PROVE  Kept(h)'
    <2>1. CASE pc[h] = "done" /\ reply[h] = 200
        <3>1. Kept(h)
            BY <1>2, <1>4, <2>1 DEF PassedOn
        <3> QED
            BY <3>1, KeptStays, RemovalNext, NextGrows, SettledStays DEF IInv
    <2>2. CASE Forward(h)
        <3>1. jenkins[owner[h]] = "running"
            BY <1>2, <1>4, <2>2 DEF PassedOn, Forward, Goto
        <3>2. ~Fault
            BY <1>2, <1>4 DEF Fault
        <3>3. Answers200(h, owner[h])
            BY <1>4, <2>2, <3>1, <3>2 DEF Forward, Answers4xx, AnswersError,
               ConnectionFails, AnswerLost
        <3>4. received'[h] = received[h] + 1 /\ received[h] \in Nat
            BY <1>0, <3>3 DEF Answers200, TypeOK, PlatformTypeOK
        <3> QED
            BY <3>4 DEF Kept, Settled
    <2> QED
        BY <1>1, <1>4, <2>1, <2>2
<1> QED
    BY <1>1, <1>3, <1>4

(* A delivery answered with success is lost only if a call failed, a pod   *)
(* was idled, or Jenkins itself answers it with an error (LossNeedsCause;  *)
(* handleGitHubRequest).                                                   *)
THEOREM LossHasCause == Spec => []LossNeedsCause
<1>1. Init => PassedOn
    BY DEF Init, HandlerInit, PassedOn
<1>2. IInv /\ PassedOn /\ [Next]_vars => PassedOn'
    BY PassedOnNext, TypeNext DEF IInv
<1>3. IInv /\ PassedOn => LossNeedsCause
    BY DEF IInv, PassedOn, LossNeedsCause, StoredKept
<1> QED
    BY <1>1, <1>2, <1>3, Inductive, PTL DEF Spec

-----------------------------------------------------------------------------
(* The copies of rows that a loop holds: one of each row, and none of a    *)
(* delivery that is passed on directly.                                    *)
Held == {"send", "increment", "delete"}

CopiesUnique ==
    \A q \in Proxies :
        /\ \A r \in batch[q], s \in batch[q] : r.id = s.id => r = s
        /\ lpc[q] \in Held => \A r \in batch[q] : r.id # cur[q].id

CopiesBuffered ==
    \A q \in Proxies :
        /\ lpc[q] \in Held => pc[cur[q].id] # "forward"
        /\ \A r \in batch[q] : pc[r.id] # "forward"

CopiesInv == CopiesUnique /\ CopiesBuffered

(* What a step may do to the copies of one loop. *)
KeepsCopies(q) ==
    /\ batch'[q] = batch[q]
    /\ cur'[q] = cur[q]
    /\ lpc'[q] \in Held => lpc[q] \in Held
    /\ lpc'[q] = "send" => lpc[q] = "send"
EmptiesCopies(q) == batch'[q] = {} /\ lpc'[q] \notin Held
FetchesCopies(q) ==
    /\ \E ns \in Namespaces : batch'[q] = RowsOf(ns)
    /\ lpc'[q] = "row"
    /\ UNCHANGED requests
TakesCopy(q) ==
    /\ cur'[q] \in batch[q]
    /\ batch'[q] = batch[q] \ {cur'[q]}
    /\ lpc'[q] = "send"

LEMMA CopySteps ==
    ASSUME TypeOK, [Next]_vars, NEW q \in Proxies
    PROVE  KeepsCopies(q) \/ EmptiesCopies(q) \/ FetchesCopies(q) \/ TakesCopy(q)
<1> USE DEF TypeOK, LoopTypeOK
<1>1. ASSUME NEW p \in Proxies, ReplayStep(p)
      PROVE  KeepsCopies(q) \/ EmptiesCopies(q) \/ FetchesCopies(q) \/ TakesCopy(q)
    <2>1. CASE p # q
        <3>1. KeepsCopies(q)
            BY <1>1, <2>1
               DEF KeepsCopies, ReplayStep, LoopStep, GetUsers, GetRequests,
                   CheckRow, EndOfRows, Send, GiveUp, DropUnformattable,
                   IncrementRetry, DeleteSettled, LoopGoto, Break, loopVars
        <3> QED
            BY <3>1
    <2>2. CASE p = q
        <3> USE <2>2 DEF LoopGoto, Break, Held
        <3>1. CASE GetUsers(p) \/ EndOfRows(p) \/ Send(p) \/ GiveUp(p)
                      \/ DeleteSettled(p)
            BY <3>1 DEF KeepsCopies, GetUsers, EndOfRows, Send, GiveUp,
               DeleteSettled, loopVars
        <3>2. CASE DropUnformattable(p) \/ IncrementRetry(p)
            BY <3>2 DEF EmptiesCopies, DropUnformattable, IncrementRetry
        <3>3. CASE GetRequests(p)
            BY <3>3 DEF GetRequests, FetchesCopies, KeepsCopies, storeVars
        <3>4. CASE CheckRow(p)
            BY <3>4 DEF CheckRow, TakesCopy, EmptiesCopies
        <3> QED
            BY <1>1, <3>1, <3>2, <3>3, <3>4 DEF ReplayStep, LoopStep
    <2> QED
        BY <2>1, <2>2
<1>2. ASSUME NEW p \in Proxies, Crash(p)
      PROVE  KeepsCopies(q) \/ EmptiesCopies(q)
    BY <1>2 DEF Crash, KeepsCopies, EmptiesCopies, Held
<1>3. CASE UNCHANGED <<lpc, cur, batch>>
    BY <1>3 DEF KeepsCopies
<1> QED
    BY <1>1, <1>2, <1>3, NextCases DEF ArriveStep, HandleStep, VisitStep,
       EnvStep, loopVars, vars

LEMMA CopiesUniqueNext ==
    ASSUME TypeOK, CopiesUnique, [Next]_vars, TypeOK'
    PROVE  CopiesUnique'
<1> SUFFICES ASSUME NEW q \in Proxies
             PROVE  /\ \A r \in batch'[q], s \in batch'[q] : r.id = s.id => r = s
                    /\ lpc'[q] \in Held => \A r \in batch'[q] : r.id # cur'[q].id
    BY DEF CopiesUnique
<1> USE DEF CopiesUnique
<1>1. CASE KeepsCopies(q)
    BY <1>1 DEF KeepsCopies
<1>2. CASE EmptiesCopies(q)
    BY <1>2 DEF EmptiesCopies
<1>3. CASE FetchesCopies(q)
    <2>1. PICK ns \in Namespaces : batch'[q] = RowsOf(ns)
        BY <1>3 DEF FetchesCopies
    <2>2. \A r \in batch'[q] : r = [id |-> r.id, retries |-> retries[r.id]]
        BY <2>1 DEF RowsOf
    <2>3. \A r \in batch'[q], s \in batch'[q] : r.id = s.id => r = s
        BY <2>2
    <2> QED
        BY <1>3, <2>3 DEF FetchesCopies, Held
<1>4. CASE TakesCopy(q)
    <2>1. cur'[q] \in batch[q] /\ batch'[q] = batch[q] \ {cur'[q]}
        BY <1>4 DEF TakesCopy
    <2>2. \A r \in batch[q], s \in batch[q] : r.id = s.id => r = s
        OBVIOUS
    <2> QED
        BY <2>1, <2>2
<1> QED
    BY <1>1, <1>2, <1>3, <1>4, CopySteps

LEMMA CopiesBufferedNext ==
    ASSUME IInv, ForwardUnbuffered, CopiesBuffered, [Next]_vars, TypeOK'
    PROVE  CopiesBuffered'
<1> USE DEF IInv, TypeOK, StoreTypeOK, LoopTypeOK
<1>1. \A h \in Hooks :
          pc[h] \notin OpenStates /\ pc[h] # "forward" => pc'[h] # "forward"
    BY HandlerEnds DEF CheckState, Goto, Reply, OpenStates
<1> SUFFICES ASSUME NEW q \in Proxies
             PROVE  /\ lpc'[q] \in Held => pc'[cur'[q].id] # "forward"
                    /\ \A r \in batch'[q] : pc'[r.id] # "forward"
    BY DEF CopiesBuffered
<1>2. \A r \in batch[q] : r.id \in Hooks /\ pc'[r.id] # "forward"
    <2>1. \A r \in batch[q] : r.id \in Hooks
        BY DEF Row
    <2>2. \A r \in batch[q] : pc[r.id] \notin OpenStates /\ pc[r.id] # "forward"
        BY DEF CopiesBuffered, CopiesClosed
    <2> QED
        BY <1>1, <2>1, <2>2
<1>3. lpc[q] \in Held => pc'[cur[q].id] # "forward"
    <2>1. cur[q].id \in Hooks
        BY DEF Row
    <2>2. lpc[q] \in Held =>
              pc[cur[q].id] \notin OpenStates /\ pc[cur[q].id] # "forward"
        BY DEF CopiesBuffered, CopiesClosed, Held
    <2> QED
        BY <1>1, <2>1, <2>2
<1>4. CASE KeepsCopies(q)
    BY <1>2, <1>3, <1>4 DEF KeepsCopies
<1>5. CASE EmptiesCopies(q)
    BY <1>5 DEF EmptiesCopies
<1>6. CASE FetchesCopies(q)
    <2>1. PICK ns \in Namespaces : batch'[q] = RowsOf(ns)
        BY <1>6 DEF FetchesCopies
    <2>2. \A r \in batch'[q] : r.id \in requests
        BY <2>1 DEF RowsOf
    <2>3. \A h \in requests : pc'[h] # "forward"
        BY <1>1 DEF OpenUntouched, ForwardUnbuffered
    <2> QED
        BY <1>6, <2>2, <2>3 DEF FetchesCopies, Held
<1>7. CASE TakesCopy(q)
    BY <1>2, <1>7 DEF TakesCopy
<1> QED
    BY <1>4, <1>5, <1>6, <1>7, CopySteps

-----------------------------------------------------------------------------
(* With one proxy, the counter of a row lags behind the attempts that have *)
(* failed by no more than the calls and crashes that went wrong and, while *)
(* the loop is about to save it, by one.                                   *)
OneProxy == \E p : Proxies = {p}

Wrong == faults + crashes

Due(h) == IF \E p \in Proxies : lpc[p] = "increment" /\ cur[p].id = h
          THEN 1 ELSE 0

CopiesFresh ==
    \A p \in Proxies :
        /\ \A r \in batch[p] : r.id \in requests /\ r.retries = retries[r.id]
        /\ lpc[p] \in {"send", "increment"} =>
              cur[p].id \in requests /\ cur[p].retries = retries[cur[p].id]
        /\ lpc[p] = "increment" => cur[p].retries < MaxRequestRetry

AttemptsCounted ==
    \A h \in requests :
        /\ retries[h] <= MaxRequestRetry
        /\ failures[h] <= retries[h] + Due(h) + Wrong

OpenUntried == \A h \in Hooks : pc[h] \in OpenStates => failures[h] = 0

AttemptsBounded ==
    \A h \in Hooks : failures[h] <= MaxRequestRetry + Wrong

RetryInv ==
    OneProxy =>
        CopiesFresh /\ AttemptsCounted /\ OpenUntried /\ AttemptsBounded

LEMMA SumGrows ==
    ASSUME NEW a \in Nat, NEW b \in Nat, NEW c \in Nat, NEW d \in Nat,
           a <= c, b <= d
    PROVE  /\ a + b \in Nat /\ c + d \in Nat /\ a + b <= c + d
           /\ a < c \/ b < d => a + b + 1 <= c + d
OBVIOUS

LEMMA WrongGrows ==
    ASSUME TypeOK, [Next]_vars
    PROVE  /\ Wrong \in Nat /\ Wrong' \in Nat /\ Wrong <= Wrong'
           /\ Fault \/ (\E p \in Proxies : Crash(p)) => Wrong + 1 <= Wrong'
<1>1. /\ faults \in Nat /\ faults' \in Nat /\ faults <= faults'
      /\ crashes \in Nat /\ crashes' \in Nat /\ crashes <= crashes'
    BY CountsGrow
<1>2. Fault \/ (\E p \in Proxies : Crash(p)) =>
          faults < faults' \/ crashes < crashes'
    BY <1>1 DEF Fault, Crash
<1> QED
    BY <1>1, <1>2, SumGrows DEF Wrong

(* What a step that is not one of a loop does to the table. *)
LEMMA TableSteps ==
    ASSUME TypeOK, [Next]_vars, ~\E p \in Proxies : ReplayStep(p)
    PROVE  /\ UNCHANGED failures
           /\ requests \subseteq requests'
           /\ \A h \in requests : retries'[h] = retries[h] \/ StoreRequest(h)
           /\ UNCHANGED loopVars \/ \E p \in Proxies : Crash(p)
<1> USE DEF TypeOK, StoreTypeOK
<1>1. ASSUME NEW k \in Hooks, HandleStep(k)
      PROVE  /\ UNCHANGED loopVars
             /\ requests \subseteq requests'
             /\ \A h \in requests : retries'[h] = retries[h] \/ StoreRequest(h)
    <2>1. CASE StoreRequest(k)
        BY <1>1, <2>1 DEF HandleStep, StoreRequest, CreateRequest, storeVars
    <2>2. CASE UNCHANGED <<requests, retries>>
        BY <1>1, <2>2 DEF HandleStep
    <2> QED
        BY <1>1, <2>1, <2>2 DEF HandleStep, HandlerStep, ResolveOwner,
           CheckState, ReadStats, CreateStats, UpdateStats, Start,
           StartUnIdle, Forward, CreateStatistics, storeVars
<1>2. CASE UNCHANGED <<requests, retries>> /\ UNCHANGED loopVars
    BY <1>2 DEF loopVars
<1>3. ASSUME NEW p \in Proxies, Crash(p)
      PROVE  UNCHANGED <<requests, retries, failures>>
    BY <1>3 DEF Crash, storeVars
<1> QED
    BY <1>1, <1>2, <1>3, NextCases DEF ArriveStep, Arrive, VisitStep,
       RecordVisit, EnvStep, CreateStatistics, storeVars, loopVars, vars

LEMMA StoredOnce ==
    ASSUME IInv, NEW h \in requests  PROVE ~StoreRequest(h)
BY DEF IInv, TypeOK, StoreTypeOK, OpenUntouched, OpenStates, StoreRequest, Goto, Reply

LEMMA FreshNext ==
    ASSUME IInv, NEW p, Proxies = {p}, CopiesUnique, CopiesFresh, [Next]_vars
    PROVE  CopiesFresh'
<1> USE DEF IInv, TypeOK, StoreTypeOK, LoopTypeOK
<1>0. /\ batch[p] \subseteq Row /\ cur[p] \in Row /\ p \in Proxies
      /\ batch \in [Proxies -> SUBSET Row] /\ lpc \in [Proxies -> LoopStates]
      /\ cur \in [Proxies -> Row]
    OBVIOUS
<1> SUFFICES
        /\ \A r \in batch'[p] : r.id \in requests' /\ r.retries = retries'[r.id]
        /\ lpc'[p] \in {"send", "increment"} =>
              cur'[p].id \in requests' /\ cur'[p].retries = retries'[cur'[p].id]
        /\ lpc'[p] = "increment" => cur'[p].retries < MaxRequestRetry
    BY DEF CopiesFresh
<1>1. /\ \A r \in batch[p] : r.id \in requests /\ r.retries = retries[r.id]
      /\ lpc[p] \in {"send", "increment"} =>
            cur[p].id \in requests /\ cur[p].retries = retries[cur[p].id]
      /\ lpc[p] = "increment" => cur[p].retries < MaxRequestRetry
    BY <1>0 DEF CopiesFresh
<1> HIDE DEF IInv, TypeOK, StoreTypeOK, LoopTypeOK
<1>2. CASE ReplayStep(p)
    <2> USE DEF LoopGoto, Break
    <2>1. CASE GetUsers(p) \/ EndOfRows(p) \/ GiveUp(p)
        BY <1>0, <1>1, <2>1 DEF GetUsers, EndOfRows, GiveUp, storeVars, loopVars
    <2>2. CASE GetRequests(p)
        <3>1. CASE \E ns : batch' = [batch EXCEPT ![p] = RowsOf(ns)] /\ lpc'[p] = "row"
            <4>1. PICK ns : batch'[p] = RowsOf(ns)
                BY <1>0, <3>1
            <4>2. \A r \in RowsOf(ns) : r.id \in requests /\ r.retries = retries[r.id]
                BY DEF RowsOf
            <4> QED
                BY <2>2, <3>1, <4>1, <4>2 DEF GetRequests, storeVars
        <3>2. CASE UNCHANGED <<batch, cur>> /\ lpc'[p] \in {"requests", "users"}
            BY <1>1, <2>2, <3>2 DEF GetRequests, storeVars
        <3> QED
            BY <1>0, <2>2, <3>1, <3>2 DEF GetRequests
    <2>3. CASE CheckRow(p)
        <3>1. UNCHANGED <<requests, retries>>
            BY <2>3 DEF CheckRow, CreateStatistics, storeVars
        <3>2. CASE TakesCopy(p)
            BY <1>1, <3>1, <3>2 DEF TakesCopy
        <3>3. CASE EmptiesCopies(p)
            BY <3>3 DEF EmptiesCopies, Held
        <3>4. TakesCopy(p) \/ EmptiesCopies(p)
            BY <1>0, <2>3 DEF CheckRow, TakesCopy, EmptiesCopies, Held
        <3> QED
            BY <3>2, <3>3, <3>4
    <2>4. CASE Send(p)
        BY <1>0, <1>1, <2>4 DEF Send, storeVars
    <2>5. CASE DropUnformattable(p) \/ IncrementRetry(p)
        BY <1>0, <2>5 DEF DropUnformattable, IncrementRetry
    <2>6. CASE DeleteSettled(p)
        <3>1. /\ lpc[p] = "delete" /\ lpc'[p] = "row" /\ batch' = batch
              /\ retries' = retries
              /\ \A h \in requests : h # cur[p].id => h \in requests'
            BY <1>0, <2>6 DEF DeleteSettled, DeleteRequest, storeVars
        <3>2. \A r \in batch[p] : r.id # cur[p].id
            BY <1>0, <3>1 DEF CopiesUnique, Held
        <3> QED
            BY <1>1, <3>1, <3>2
    <2> QED
        BY <1>2, <2>1, <2>2, <2>3, <2>4, <2>5, <2>6 DEF ReplayStep, LoopStep
<1>3. CASE ~ReplayStep(p)
    <2>1. \A h \in requests : h \in requests' /\ retries'[h] = retries[h]
        BY <1>0, <1>3, TableSteps, StoredOnce DEF IInv
    <2>2. CASE UNCHANGED loopVars
        BY <1>1, <2>1, <2>2 DEF loopVars
    <2>3. CASE Crash(p)
        BY <1>0, <2>3 DEF Crash
    <2> QED
        BY <1>0, <1>3, <2>2, <2>3, TableSteps DEF IInv
<1> QED
    BY <1>2, <1>3

LEMMA UntriedNext ==
    ASSUME IInv, NEW p, Proxies = {p}, CopiesFresh, OpenUntried, [Next]_vars, TypeOK'
    PROVE  OpenUntried'
<1> SUFFICES ASSUME NEW h \in Hooks, pc'[h] \in OpenStates
             PROVE  failures'[h] = 0
    BY DEF OpenUntried
<1>1. pc[h] \in OpenStates
    BY ClosedStays DEF IInv
<1>2. h \notin requests /\ failures[h] = 0
    BY <1>1 DEF IInv, OpenUntouched, OpenUntried
<1>3. CASE Send(p)
    <2>1. cur[p].id # h /\ cur[p].id \in Hooks
        BY <1>2, <1>3 DEF CopiesFresh, Send, LoopGoto, IInv, TypeOK, StoreTypeOK
    <2> QED
        BY <1>2, <1>3, <2>1 DEF Send, IInv, TypeOK, LoopTypeOK
<1>4. CASE ReplayStep(p) /\ ~Send(p)
    BY <1>2, <1>4 DEF ReplayStep, LoopStep, GetUsers, GetRequests, CheckRow,
       EndOfRows, GiveUp, DropUnformattable, IncrementRetry, DeleteSettled,
       loopVars
<1> QED
    BY <1>2, <1>3, <1>4, TableSteps DEF IInv

(* The arithmetic of one delivery: f failures, n in the column, d due, w   *)
(* that went wrong.                                                        *)
LEMMA CountMore ==
    ASSUME NEW f \in Nat, NEW n \in Nat, NEW w \in Nat, NEW w2 \in Nat, w <= w2,
           NEW d \in {0, 1}
    PROVE  /\ f <= n + d + w => f <= n + d + w2
           /\ f <= n + 0 + w => f + 1 <= n + 1 + w2 /\ f <= n + d + w2
           /\ f <= n + 1 + w => f <= n + 1 + 0 + w2
           /\ f <= n + 1 + w /\ w + 1 <= w2 => f <= n + 0 + w2
           /\ f <= n + d + w /\ w + 1 <= w2 => f <= n + 0 + w2
OBVIOUS

LEMMA CountedNext ==
    ASSUME IInv, NEW p, Proxies = {p}, CopiesFresh, OpenUntried,
           AttemptsCounted, [Next]_vars, TypeOK'
    PROVE  AttemptsCounted'
<1> SUFFICES ASSUME NEW h \in requests'
             PROVE  /\ retries'[h] <= MaxRequestRetry
                    /\ failures'[h] <= retries'[h] + Due(h)' + Wrong'
    BY DEF AttemptsCounted
<1>1. /\ h \in Hooks /\ p \in Proxies /\ cur[p].id \in Hooks
      /\ retries \in [Hooks -> Nat] /\ failures \in [Hooks -> Nat]
      /\ lpc \in [Proxies -> LoopStates]
    <2>1. requests' \subseteq Hooks
        BY DEF TypeOK, StoreTypeOK
    <2>2. /\ p \in Proxies /\ cur \in [Proxies -> Row]
          /\ retries \in [Hooks -> Nat] /\ failures \in [Hooks -> Nat]
          /\ lpc \in [Proxies -> LoopStates]
        BY DEF IInv, TypeOK, StoreTypeOK, LoopTypeOK
    <2>3. cur[p].id \in Hooks
        BY <2>2 DEF Row
    <2> QED
        BY <2>1, <2>2, <2>3
<1>2. Wrong \in Nat /\ Wrong' \in Nat /\ Wrong <= Wrong'
    BY WrongGrows DEF IInv
<1>3. Due(h) = (IF lpc[p] = "increment" /\ cur[p].id = h THEN 1 ELSE 0)
    BY DEF Due
<1>4. Due(h)' = (IF lpc'[p] = "increment" /\ cur'[p].id = h THEN 1 ELSE 0)
    BY DEF Due
<1>5. CASE h \notin requests
    <2>1. StoreRequest(h) /\ retries'[h] = 0
        BY <1>1, <1>5, RowsMade DEF IInv
    <2>2. ~ReplayStep(p)
        BY <1>5 DEF ReplayStep, LoopStep, GetUsers, GetRequests, CheckRow,
           EndOfRows, Send, GiveUp, DropUnformattable, IncrementRetry,
           DeleteSettled, Drop, DeleteRequest, UpdateRequest,
           CreateStatistics, storeVars
    <2>3. failures'[h] = 0
        BY <1>1, <2>1, <2>2, TableSteps
           DEF IInv, StoreRequest, Goto, Reply, OpenUntried, OpenStates
    <2>4. Due(h)' \in Nat
        BY <1>4
    <2> QED
        BY <1>2, <2>1, <2>3, <2>4, LoopAssumption
<1>6. CASE h \in requests
    <2>0. /\ retries[h] \in Nat /\ failures[h] \in Nat
          /\ retries[h] <= MaxRequestRetry
          /\ failures[h] <= retries[h] + Due(h) + Wrong
          /\ Due(h) \in {0, 1}
        BY <1>1, <1>3, <1>6 DEF AttemptsCounted
    <2>1. CASE ~ReplayStep(p)
        <3>1. UNCHANGED failures /\ retries'[h] = retries[h]
            BY <1>6, <2>1, TableSteps, StoredOnce DEF IInv
        <3>2. CASE UNCHANGED loopVars
            <4>1. Due(h)' = Due(h)
                BY <1>3, <1>4, <3>2 DEF loopVars
            <4> QED
                BY <1>2, <2>0, <3>1, <4>1, CountMore
        <3>3. CASE Crash(p)
            <4>1. Due(h)' = 0
                BY <1>1, <1>4, <3>3 DEF Crash
            <4>2. Wrong + 1 <= Wrong'
                BY <1>1, <3>3, WrongGrows DEF IInv
            <4> QED
                BY <1>2, <2>0, <3>1, <4>1, <4>2, CountMore
        <3> QED
            BY <2>1, <3>2, <3>3, TableSteps DEF IInv
    <2>2. CASE Send(p) /\ cur[p].id = h
        <3>1. /\ Due(h) = 0 /\ retries'[h] = retries[h]
              /\ \/ failures'[h] = failures[h]
                 \/ failures'[h] = failures[h] + 1 /\ Due(h)' = 1
              /\ Due(h)' \in {0, 1}
            BY <1>1, <1>3, <1>4, <2>2 DEF Send, LoopGoto, storeVars
        <3> QED
            BY <1>2, <2>0, <3>1, CountMore
    <2>3. CASE IncrementRetry(p) /\ cur[p].id = h
        <3>1. Due(h) = 1 /\ Due(h)' = 0 /\ failures' = failures
            BY <1>1, <1>3, <1>4, <2>3 DEF IncrementRetry, Break, LoopGoto
        <3>2. CASE UpdateRequest(h, cur[p].retries + 1)
            <4>1. retries[h] < MaxRequestRetry /\ cur[p].retries = retries[h]
                BY <1>1, <2>3 DEF CopiesFresh, IncrementRetry, Break, LoopGoto
            <4>2. retries'[h] = retries[h] + 1
                BY <1>1, <1>6, <3>2, <4>1 DEF UpdateRequest
            <4>3. retries[h] + 1 <= MaxRequestRetry
                BY <2>0, <4>1, LoopAssumption
            <4> QED
                BY <1>2, <2>0, <3>1, <4>2, <4>3, CountMore
        <3>3. CASE Fault /\ Drop(h)
            <4>1. Wrong + 1 <= Wrong' /\ retries' = retries
                BY <3>3, WrongGrows DEF IInv, Drop, DeleteRequest, storeVars
            <4> QED
                BY <1>2, <2>0, <3>1, <4>1, CountMore
        <3> QED
            BY <2>3, <3>2, <3>3 DEF IncrementRetry
    <2>4. CASE /\ ReplayStep(p)
               /\ ~((Send(p) \/ IncrementRetry(p)) /\ cur[p].id = h)
        <3>1. failures'[h] = failures[h]
            BY <1>1, <2>4 DEF ReplayStep, LoopStep, GetUsers, GetRequests,
               CheckRow, EndOfRows, Send, GiveUp, DropUnformattable,
               IncrementRetry, DeleteSettled, loopVars
        <3>2. retries'[h] = retries[h]
            BY <1>1, <2>4 DEF ReplayStep, LoopStep, GetUsers, GetRequests,
               CheckRow, EndOfRows, Send, GiveUp, DropUnformattable,
               IncrementRetry, DeleteSettled, Drop, DeleteRequest,
               UpdateRequest, CreateStatistics, storeVars
        <3>3. Due(h)' = Due(h)
            BY <1>1, <1>3, <1>4, <2>4 DEF ReplayStep, LoopStep, GetUsers,
               GetRequests, CheckRow, EndOfRows, Send, GiveUp,
               DropUnformattable, IncrementRetry, DeleteSettled, LoopGoto,
               Break, loopVars
        <3> QED
            BY <1>2, <2>0, <3>1, <3>2, <3>3, CountMore
    <2> QED
        BY <2>1, <2>2, <2>3, <2>4
<1> QED
    BY <1>5, <1>6

LEMMA BoundedNext ==
    ASSUME IInv, NEW p, Proxies = {p}, CopiesFresh, AttemptsCounted,
           AttemptsBounded, [Next]_vars, TypeOK'
    PROVE  AttemptsBounded'
<1> SUFFICES ASSUME NEW h \in Hooks
             PROVE  failures'[h] <= MaxRequestRetry + Wrong'
    BY DEF AttemptsBounded
<1>1. /\ Wrong \in Nat /\ Wrong' \in Nat /\ Wrong <= Wrong'
      /\ failures[h] \in Nat /\ failures[h] <= MaxRequestRetry + Wrong
    <2>1. Wrong \in Nat /\ Wrong' \in Nat /\ Wrong <= Wrong'
        BY WrongGrows DEF IInv
    <2>2. failures[h] \in Nat
        BY DEF IInv, TypeOK, LoopTypeOK
    <2> QED
        BY <2>1, <2>2 DEF AttemptsBounded
<1>2. CASE failures'[h] = failures[h]
    BY <1>1, <1>2, LoopAssumption, SumGrows
<1>3. CASE failures'[h] # failures[h]
    <2>1. Send(p) /\ cur[p].id = h /\ failures'[h] = failures[h] + 1
        <3>1. ReplayStep(p)
            BY <1>3, TableSteps DEF IInv
        <3> QED
            BY <1>3, <3>1 DEF ReplayStep, LoopStep, GetUsers, GetRequests,
               CheckRow, EndOfRows, Send, GiveUp, DropUnformattable,
               IncrementRetry, DeleteSettled, loopVars, IInv, TypeOK, LoopTypeOK
    <2>2. h \in requests /\ retries[h] < MaxRequestRetry /\ Due(h) = 0
        BY <2>1 DEF CopiesFresh, Send, LoopGoto, Due
    <2>3. retries[h] \in Nat /\ failures[h] <= retries[h] + 0 + Wrong
        BY <2>2 DEF AttemptsCounted, IInv, TypeOK, StoreTypeOK
    <2>4. failures[h] + 1 <= retries[h] + 1 + Wrong'
        BY <1>1, <2>3, CountMore
    <2> QED
        BY <1>1, <2>1, <2>2, <2>3, <2>4, LoopAssumption
<1> QED
    BY <1>2, <1>3

LEMMA RetryInit == Init => RetryInv
<1> SUFFICES ASSUME Init  PROVE RetryInv
    OBVIOUS
<1>1. /\ requests = {} /\ failures = [h \in Hooks |-> 0]
      /\ batch = [p \in Proxies |-> {}] /\ lpc = [p \in Proxies |-> "users"]
      /\ faults = 0 /\ crashes = 0
    BY DEF Init, StoreInit, LoopInit, PlatformInit, PodsInit
<1>2. CopiesFresh
    BY <1>1 DEF CopiesFresh
<1>3. AttemptsCounted /\ OpenUntried
    BY <1>1 DEF AttemptsCounted, OpenUntried
<1>4. AttemptsBounded
    <2>1. Wrong = 0
        BY <1>1 DEF Wrong
    <2> QED
        BY <1>1, <2>1, LoopAssumption DEF AttemptsBounded
<1> QED
    BY <1>2, <1>3, <1>4 DEF RetryInv

LEMMA RetryNext ==
    ASSUME IInv, CopiesUnique, RetryInv, [Next]_vars, TypeOK'
    PROVE  RetryInv'
<1> SUFFICES ASSUME NEW p, Proxies = {p}
             PROVE  (CopiesFresh /\ AttemptsCounted /\ OpenUntried /\ AttemptsBounded)'
    BY DEF RetryInv, OneProxy
<1>1. CopiesFresh /\ AttemptsCounted /\ OpenUntried /\ AttemptsBounded
    BY DEF RetryInv, OneProxy
<1> QED
    BY <1>1, FreshNext, CountedNext, UntriedNext, BoundedNext

(* With one proxy, no interleaving of deliveries, failures and crashes     *)
(* lets a delivery be attempted more often than the bound allows.          *)
THEOREM AttemptsAreBounded == Spec => []RetryBound
<1>1. Init => CopiesUnique /\ RetryInv
    <2>1. Init => CopiesUnique
        BY DEF Init, LoopInit, CopiesUnique, Held
    <2> QED
        BY <2>1, RetryInit
<1>2. IInv /\ CopiesUnique /\ RetryInv /\ [Next]_vars => (CopiesUnique /\ RetryInv)'
    BY RetryNext, CopiesUniqueNext, TypeNext DEF IInv
<1>3. TypeOK /\ RetryInv => RetryBound
    <2> SUFFICES ASSUME TypeOK, RetryInv, Cardinality(Proxies) = 1, NEW h \in Hooks
                 PROVE  failures[h] <= MaxRequestRetry + faults + crashes
        BY DEF RetryBound
    <2>1. OneProxy
        BY FS_Singleton, CrashAssumption DEF OneProxy
    <2>2. failures[h] <= MaxRequestRetry + (faults + crashes)
        BY <2>1 DEF RetryInv, AttemptsBounded, Wrong
    <2> QED
        BY <2>2, LoopAssumption, PodsAssumption, CrashAssumption
           DEF TypeOK, PlatformTypeOK, PodsTypeOK, LoopTypeOK
<1> QED
    BY <1>1, <1>2, <1>3, Inductive, PTL DEF Spec, IInv

-----------------------------------------------------------------------------
(* Whoever holds a copy of a row can have Jenkins process the delivery     *)
(* once more as long as the row is there, or was there when the copy was   *)
(* made; a loop about to delete has used its copy up.                      *)
Holding(h) ==
    {p \in Proxies : \/ \E r \in batch[p] : r.id = h
                     \/ lpc[p] = "send" /\ cur[p].id = h}

Deleting(h) == {p \in Proxies : lpc[p] = "delete" /\ cur[p].id = h}

OpenUnprocessed ==
    \A h \in Hooks : pc[h] \in OpenStates \cup {"forward"} => received[h] = 0

ReceivedBounded ==
    \A h \in Hooks :
        /\ h \in requests => received[h] <= Cardinality(Deleting(h)) + Wrong
        /\ h \notin requests =>
              received[h] + Cardinality(Holding(h)) <= Cardinality(Proxies) + Wrong

LEMMA SubsetCards ==
    ASSUME NEW P, IsFiniteSet(P), NEW S \in SUBSET P, NEW T \in SUBSET P
    PROVE  /\ Cardinality(P) \in Nat
           /\ Cardinality(S) \in Nat /\ Cardinality(T) \in Nat
           /\ Cardinality(S) <= Cardinality(P)
           /\ S \subseteq T => Cardinality(S) <= Cardinality(T)
           /\ \A p : S \ {p} \subseteq T => Cardinality(S) <= Cardinality(T) + 1
           /\ \A p : p \in T /\ S \subseteq T \ {p} => Cardinality(S) + 1 <= Cardinality(T)
           /\ S \cap T = {} => Cardinality(S) + Cardinality(T) <= Cardinality(P)
<1>1. IsFiniteSet(S) /\ IsFiniteSet(T)
    BY FS_Subset
<1>2. /\ Cardinality(P) \in Nat
      /\ Cardinality(S) \in Nat /\ Cardinality(T) \in Nat
    BY <1>1, FS_CardinalityType
<1>3. Cardinality(S) <= Cardinality(P)
    BY FS_Subset
<1>4. S \subseteq T => Cardinality(S) <= Cardinality(T)
    BY <1>1, FS_Subset
<1>5. ASSUME NEW p, S \ {p} \subseteq T
      PROVE  Cardinality(S) <= Cardinality(T) + 1
    <2>1. Cardinality(S \ {p}) <= Cardinality(T)
        BY <1>1, <1>5, FS_Subset
    <2>2. Cardinality(S \ {p}) = IF p \in S THEN Cardinality(S) - 1 ELSE Cardinality(S)
        BY <1>1, FS_RemoveElement
    <2> QED
        BY <1>2, <2>1, <2>2
<1>6. ASSUME NEW p, p \in T, S \subseteq T \ {p}
      PROVE  Cardinality(S) + 1 <= Cardinality(T)
    <2>1. IsFiniteSet(T \ {p}) /\ Cardinality(T \ {p}) = Cardinality(T) - 1
        BY <1>1, <1>6, FS_RemoveElement
    <2>2. Cardinality(S) <= Cardinality(T \ {p})
        BY <1>6, <2>1, FS_Subset
    <2> QED
        BY <1>2, <2>1, <2>2
<1>7. ASSUME S \cap T = {}
      PROVE  Cardinality(S) + Cardinality(T) <= Cardinality(P)
    <2>1. Cardinality(S \cup T) = Cardinality(S) + Cardinality(T) - Cardinality(S \cap T)
        BY <1>1, FS_Union
    <2>2. Cardinality(S \cap T) = 0
        BY <1>7, FS_EmptySet
    <2>3. Cardinality(S \cup T) <= Cardinality(P)
        BY FS_Subset
    <2> QED
        BY <1>2, <2>1, <2>2, <2>3
<1> QED
    BY <1>2, <1>3, <1>4, <1>5, <1>6, <1>7

(* The arithmetic of one delivery: r received, d loops about to delete, k  *)
(* that hold a copy, n proxies, w that went wrong.                         *)
LEMMA StoredSum ==
    ASSUME NEW r \in Nat, NEW d \in Nat, NEW d2 \in Nat, NEW w \in Nat,
           NEW w2 \in Nat, w <= w2, r <= d + w
    PROVE  /\ d <= d2 => r <= d2 + w2
           /\ d <= d2 + 1 /\ w + 1 <= w2 => r <= d2 + w2
           /\ d + 1 <= d2 => r + 1 <= d2 + w2
           /\ d <= d2 /\ w + 1 <= w2 => r + 1 <= d2 + w2
OBVIOUS

LEMMA GoneSum ==
    ASSUME NEW r \in Nat, NEW k \in Nat, NEW k2 \in Nat, NEW n \in Nat,
           NEW w \in Nat, NEW w2 \in Nat, w <= w2, k2 <= k
    PROVE  /\ r + k <= n + w => r + k2 <= n + w2
           /\ r + k <= n + w /\ k2 + 1 <= k => r + 1 + k2 <= n + w2
           /\ r + k <= n + w /\ w + 1 <= w2 => r + 1 + k2 <= n + w2
           /\ \A d \in Nat : r <= d + w /\ d + k <= n => r + k2 <= n + w2
OBVIOUS

(* A step adds no holder of a delivery that has no row after it, unless a  *)
(* row of it is fetched, and never makes one of a loop that deletes.       *)
LEMMA HoldingShrinks ==
    ASSUME TypeOK, [Next]_vars, NEW h \in Hooks, h \notin requests'
    PROVE  Holding(h)' \subseteq Holding(h)
<1> SUFFICES ASSUME NEW q \in Proxies,
                    \/ \E r \in batch'[q] : r.id = h
                    \/ lpc'[q] = "send" /\ cur'[q].id = h
             PROVE  \/ \E r \in batch[q] : r.id = h
                    \/ lpc[q] = "send" /\ cur[q].id = h
    BY DEF Holding
<1>1. CASE KeepsCopies(q)
    BY <1>1 DEF KeepsCopies
<1>2. CASE EmptiesCopies(q)
    BY <1>2 DEF EmptiesCopies, Held
<1>3. CASE FetchesCopies(q)
    BY <1>3 DEF FetchesCopies, RowsOf
<1>4. CASE TakesCopy(q)
    BY <1>4 DEF TakesCopy
<1> QED
    BY <1>1, <1>2, <1>3, <1>4, CopySteps

LEMMA DeletingSteps ==
    ASSUME TypeOK, [Next]_vars, NEW h \in requests, h \in requests'
    PROVE  \/ Deleting(h) \subseteq Deleting(h)'
           \/ /\ \E p : Deleting(h) \ {p} \subseteq Deleting(h)'
              /\ Fault \/ \E p \in Proxies : Crash(p)
<1> USE DEF TypeOK, LoopTypeOK
<1>1. ASSUME NEW p \in Proxies, ReplayStep(p), ~DeleteSettled(p)
      PROVE  Deleting(h) \subseteq Deleting(h)'
    BY <1>1 DEF Deleting, ReplayStep, LoopStep, GetUsers, GetRequests, CheckRow,
       EndOfRows, Send, GiveUp, DropUnformattable, IncrementRetry, LoopGoto,
       Break, loopVars
<1>2. ASSUME NEW p \in Proxies, DeleteSettled(p)
      PROVE  \/ Deleting(h) \subseteq Deleting(h)'
             \/ (\E q : Deleting(h) \ {q} \subseteq Deleting(h)') /\ Fault
    <2>1. Deleting(h) \ {p} \subseteq Deleting(h)'
        BY <1>2 DEF Deleting, DeleteSettled, LoopGoto
    <2>2. CASE Fault
        BY <2>1, <2>2
    <2>3. CASE DeleteRequest(cur[p].id)
        BY <2>1, <2>3 DEF DeleteRequest, Deleting
    <2> QED
        BY <1>2, <2>2, <2>3 DEF DeleteSettled
<1>3. ASSUME NEW p \in Proxies, Crash(p)
      PROVE  Deleting(h) \ {p} \subseteq Deleting(h)'
    BY <1>3 DEF Crash, Deleting
<1>4. CASE UNCHANGED loopVars
    BY <1>4 DEF Deleting, loopVars
<1> QED
    BY <1>1, <1>2, <1>3, <1>4, TableSteps

(* Where a delivery is processed by Jenkins. *)
LEMMA ReceivedSteps ==
    ASSUME TypeOK, [Next]_vars, NEW h \in Hooks, received'[h] # received[h]
    PROVE  /\ received'[h] = received[h] + 1
           /\ UNCHANGED requests
           /\ \/ Forward(h) /\ UNCHANGED loopVars
              \/ \E p \in Proxies :
                    /\ lpc[p] = "send" /\ cur[p].id = h
                    /\ UNCHANGED <<batch, cur>>
                    /\ \/ lpc' = [lpc EXCEPT ![p] = "delete"]
                       \/ lpc' = [lpc EXCEPT ![p] = "increment"] /\ Fault
<1> USE DEF TypeOK, PlatformTypeOK
<1>1. ASSUME NEW k \in Hooks, HandleStep(k)
      PROVE  /\ k = h /\ Forward(h) /\ UNCHANGED loopVars
             /\ received'[h] = received[h] + 1
             /\ UNCHANGED requests
    <2>1. Forward(k)
        BY <1>1 DEF HandleStep, HandlerStep, ResolveOwner, CheckState,
           StoreRequest, ReadStats, CreateStats, UpdateStats, Start,
           StartUnIdle, platformVars, deliveryVars
    <2> QED
        BY <1>1, <2>1 DEF HandleStep, Forward, Answers200, Answers4xx,
           AnswersError, ConnectionFails, AnswerLost, deliveryVars, storeVars
<1>2. ASSUME NEW p \in Proxies, ReplayStep(p)
      PROVE  /\ lpc[p] = "send" /\ cur[p].id = h
             /\ UNCHANGED <<batch, cur, requests>>
             /\ received'[h] = received[h] + 1
             /\ \/ lpc' = [lpc EXCEPT ![p] = "delete"]
                \/ lpc' = [lpc EXCEPT ![p] = "increment"] /\ Fault
    <2>1. Send(p)
        BY <1>2 DEF ReplayStep, LoopStep, GetUsers, GetRequests, CheckRow,
           EndOfRows, GiveUp, DropUnformattable, IncrementRetry, DeleteSettled,
           platformVars, deliveryVars
    <2> QED
        BY <2>1 DEF Send, LoopGoto, Answers200, Answers4xx, AnswersError,
           ConnectionFails, AnswerLost, deliveryVars, storeVars
<1> QED
    BY <1>1, <1>2, NextCases DEF ArriveStep, Arrive, VisitStep, RecordVisit,
       Crash, EnvStep, platformVars, deliveryVars, vars

LEMMA UnprocessedNext ==
    ASSUME IInv, CopiesBuffered, OpenUnprocessed, [Next]_vars, TypeOK'
    PROVE  OpenUnprocessed'
<1> SUFFICES ASSUME NEW h \in Hooks, pc'[h] \in OpenStates \cup {"forward"}
             PROVE  received'[h] = 0
    BY DEF OpenUnprocessed
<1>1. pc[h] \in OpenStates \cup {"forward"}
    BY ClosedStays, HandlerEnds
       DEF IInv, CheckState, Goto, Reply, OpenStates
<1>2. received[h] = 0
    BY <1>1 DEF OpenUnprocessed
<1>3. ~Forward(h)
    BY DEF Forward, Goto, OpenStates, IInv, TypeOK, HandlerTypeOK
<1>4. ~\E p \in Proxies : lpc[p] = "send" /\ cur[p].id = h
    BY <1>1 DEF CopiesBuffered, Held, IInv, CopiesClosed
<1> QED
    BY <1>2, <1>3, <1>4, ReceivedSteps DEF IInv

LEMMA ReceivedNext ==
    ASSUME IInv, ForwardUnbuffered, CopiesInv, OpenUnprocessed, ReceivedBounded,
           [Next]_vars, TypeOK'
    PROVE  ReceivedBounded'
<1> SUFFICES ASSUME NEW h \in Hooks
             PROVE  /\ h \in requests' =>
                          received'[h] <= Cardinality(Deleting(h)') + Wrong'
                    /\ h \notin requests' =>
                          received'[h] + Cardinality(Holding(h)')
                              <= Cardinality(Proxies) + Wrong'
    BY DEF ReceivedBounded
<1> DEFINE n == Cardinality(Proxies)
           d == Cardinality(Deleting(h))
           d2 == Cardinality(Deleting(h)')
           k == Cardinality(Holding(h))
           k2 == Cardinality(Holding(h)')
<1>1. /\ Wrong \in Nat /\ Wrong' \in Nat /\ Wrong <= Wrong'
      /\ Fault \/ (\E p \in Proxies : Crash(p)) => Wrong + 1 <= Wrong'
    BY WrongGrows DEF IInv
<1>2. received[h] \in Nat /\ received'[h] \in Nat
    BY DEF IInv, TypeOK, PlatformTypeOK
<1>3. IsFiniteSet(Proxies) /\ n > 0
    BY CrashAssumption, HandlerAssumption, FS_EmptySet, FS_CardinalityType
<1>4. /\ Deleting(h) \in SUBSET Proxies /\ Deleting(h)' \in SUBSET Proxies
      /\ Holding(h) \in SUBSET Proxies /\ Holding(h)' \in SUBSET Proxies
    BY DEF Deleting, Holding
<1>5. /\ n \in Nat /\ d \in Nat /\ d2 \in Nat /\ k \in Nat /\ k2 \in Nat
    BY <1>3, <1>4, SubsetCards
<1>6. d + k <= n
    <2>1. Deleting(h) \cap Holding(h) = {}
        BY DEF Deleting, Holding, CopiesInv, CopiesUnique, Held
    <2> QED
        BY <1>3, <1>4, <2>1, SubsetCards
<1>7. h \notin requests' => k2 <= k
    BY <1>3, <1>4, SubsetCards, HoldingShrinks DEF IInv
<1>8. CASE h \in requests' /\ h \notin requests
    <2>1. StoreRequest(h)
        BY <1>8, RowsMade DEF IInv
    <2>2. received[h] = 0
        BY <2>1 DEF StoreRequest, Goto, Reply, OpenUnprocessed, OpenStates
    <2>3. received'[h] = 0
        BY <1>8, <2>2, ReceivedSteps DEF IInv
    <2> QED
        BY <1>1, <1>5, <1>8, <2>3
<1>9. CASE h \in requests' /\ h \in requests
    <2>1. received[h] <= d + Wrong
        BY <1>9 DEF ReceivedBounded
    <2>2. CASE received'[h] = received[h]
        <3>1. CASE Deleting(h) \subseteq Deleting(h)'
            <4>1. d <= d2
                BY <1>3, <1>4, <3>1, SubsetCards
            <4> QED
                BY <1>1, <1>2, <1>5, <1>9, <2>1, <2>2, <4>1, StoredSum
        <3>2. CASE /\ \E p : Deleting(h) \ {p} \subseteq Deleting(h)'
                   /\ Fault \/ \E q \in Proxies : Crash(q)
            <4>1. Wrong + 1 <= Wrong'
                BY <1>1, <3>2
            <4>2. PICK p : Deleting(h) \ {p} \subseteq Deleting(h)'
                BY <3>2
            <4>3. d <= d2 + 1
                BY <1>3, <1>4, <4>2, SubsetCards
            <4> QED
                BY <1>1, <1>2, <1>5, <1>9, <2>1, <2>2, <4>1, <4>3, StoredSum
        <3> QED
            BY <1>9, <3>1, <3>2, DeletingSteps DEF IInv
    <2>3. CASE received'[h] = received[h] + 1
        <3>0. received'[h] # received[h]
            BY <1>2, <2>3
        <3>1. PICK p \in Proxies :
                    /\ lpc[p] = "send" /\ cur[p].id = h
                    /\ UNCHANGED <<batch, cur>>
                    /\ \/ lpc' = [lpc EXCEPT ![p] = "delete"]
                       \/ lpc' = [lpc EXCEPT ![p] = "increment"] /\ Fault
            BY <1>9, <3>0, ReceivedSteps
               DEF IInv, Forward, Goto, ForwardUnbuffered
        <3>2. CASE lpc' = [lpc EXCEPT ![p] = "delete"]
            <4>1. p \in Deleting(h)' /\ Deleting(h) \subseteq Deleting(h)' \ {p}
                BY <3>1, <3>2 DEF Deleting, IInv, TypeOK, LoopTypeOK
            <4>2. d + 1 <= d2
                BY <1>3, <1>4, <4>1, SubsetCards
            <4> QED
                BY <1>1, <1>2, <1>5, <1>9, <2>1, <2>3, <4>2, StoredSum
        <3>3. CASE lpc' = [lpc EXCEPT ![p] = "increment"] /\ Fault
            <4>1. Deleting(h) \subseteq Deleting(h)'
                BY <3>1, <3>3 DEF Deleting, IInv, TypeOK, LoopTypeOK
            <4>2. d <= d2 /\ Wrong + 1 <= Wrong'
                BY <1>1, <1>3, <1>4, <3>3, <4>1, SubsetCards
            <4> QED
                BY <1>1, <1>2, <1>5, <1>9, <2>1, <2>3, <4>2, StoredSum
        <3> QED
            BY <3>1, <3>2, <3>3
    <2> QED
        BY <2>2, <2>3, ReceivedSteps DEF IInv
<1>10. CASE h \notin requests' /\ received'[h] = received[h]
    <2>1. CASE h \in requests
        <3>1. received[h] <= d + Wrong
            BY <2>1 DEF ReceivedBounded
        <3> QED
            BY <1>1, <1>2, <1>5, <1>6, <1>7, <1>10, <3>1, GoneSum
    <2>2. CASE h \notin requests
        <3>1. received[h] + k <= n + Wrong
            BY <2>2 DEF ReceivedBounded
        <3> QED
            BY <1>1, <1>2, <1>5, <1>7, <1>10, <3>1, GoneSum
    <2> QED
        BY <2>1, <2>2
<1>11. CASE h \notin requests' /\ received'[h] # received[h]
    <2>1. received'[h] = received[h] + 1 /\ h \notin requests
        BY <1>11, ReceivedSteps DEF IInv
    <2>2. received[h] + k <= n + Wrong
        BY <2>1 DEF ReceivedBounded
    <2>3. CASE Forward(h) /\ UNCHANGED loopVars
        <3>1. received[h] = 0 /\ Holding(h)' = {}
            BY <2>3 DEF Forward, Goto, OpenUnprocessed, CopiesInv,
               CopiesBuffered, Held, Holding, loopVars
        <3>2. k2 = 0 /\ received'[h] = 1
            BY <2>1, <3>1, FS_EmptySet
        <3> QED
            BY <1>1, <1>3, <1>5, <1>11, <3>2
    <2>4. ASSUME NEW p \in Proxies, lpc[p] = "send", cur[p].id = h,
                 UNCHANGED <<batch, cur>>,
                 \/ lpc' = [lpc EXCEPT ![p] = "delete"]
                 \/ lpc' = [lpc EXCEPT ![p] = "increment"]
          PROVE  received[h] + 1 + k2 <= n + Wrong'
        <3>1. p \in Holding(h)
            BY <2>4 DEF Holding
        <3>2. \A r \in batch[p] : r.id # h
            BY <2>4 DEF CopiesInv, CopiesUnique, Held
        <3>3. p \notin Holding(h)'
            BY <2>4, <3>2 DEF Holding, IInv, TypeOK, LoopTypeOK
        <3>4. Holding(h)' \subseteq Holding(h) \ {p}
            BY <1>11, <3>3, HoldingShrinks DEF IInv
        <3>5. k2 + 1 <= k
            BY <1>3, <1>4, <3>1, <3>4, SubsetCards
        <3> QED
            BY <1>1, <1>2, <1>5, <1>7, <1>11, <2>2, <3>5, GoneSum
    <2>5. CASE received[h] + 1 + k2 <= n + Wrong'
        BY <1>11, <2>1, <2>5
    <2> QED
        BY <1>11, <2>3, <2>4, <2>5, ReceivedSteps DEF IInv
<1> QED
    BY <1>8, <1>9, <1>10, <1>11

(* However many proxies replay a delivery, and however many handlers,      *)
(* failures and crashes interleave with them, Jenkins processes it no more *)
(* often than the bound says.                                              *)
THEOREM DuplicatesAreBounded == Spec => []DuplicateBound
<1> DEFINE Inv == ForwardUnbuffered /\ CopiesInv
                     /\ OpenUnprocessed /\ ReceivedBounded
<1>1. Init => Inv
    <2> SUFFICES ASSUME Init  PROVE Inv
        OBVIOUS
    <2>1. /\ requests = {} /\ received = [h \in Hooks |-> 0]
          /\ pc = [h \in Hooks |-> "unseen"]
          /\ batch = [p \in Proxies |-> {}] /\ lpc = [p \in Proxies |-> "users"]
          /\ faults = 0 /\ crashes = 0
        BY DEF Init, HandlerInit, StoreInit, LoopInit, PlatformInit, PodsInit
    <2>2. ForwardUnbuffered /\ CopiesInv /\ OpenUnprocessed
        BY <2>1 DEF ForwardUnbuffered, CopiesInv,
           CopiesUnique, CopiesBuffered, Held, OpenUnprocessed
    <2>3. \A h \in Hooks : Holding(h) = {}
        BY <2>1 DEF Holding
    <2>4. Wrong = 0 /\ Cardinality({}) = 0 /\ Cardinality(Proxies) \in Nat
        BY <2>1, CrashAssumption, FS_EmptySet, FS_CardinalityType DEF Wrong
    <2>5. ReceivedBounded
        BY <2>1, <2>3, <2>4 DEF ReceivedBounded
    <2> QED
        BY <2>2, <2>5
<1>2. IInv /\ Inv /\ [Next]_vars => Inv'
    <2> SUFFICES ASSUME IInv, Inv, [Next]_vars  PROVE Inv'
        OBVIOUS
    <2>1. TypeOK'
        BY TypeNext DEF IInv
    <2>2. ForwardUnbuffered'
        BY UnbufferedNext
    <2> QED
        BY <2>1, <2>2, CopiesUniqueNext, CopiesBufferedNext, UnprocessedNext,
           ReceivedNext DEF IInv, CopiesInv
<1>3. IInv /\ Inv => DuplicateBound
    <2> SUFFICES ASSUME IInv, Inv, NEW h \in Hooks
                 PROVE  received[h] <= Cardinality(Proxies) + faults + crashes
        BY DEF DuplicateBound
    <2>1. /\ faults \in Nat /\ crashes \in Nat /\ received[h] \in Nat
          /\ Wrong = faults + crashes
        BY PodsAssumption, CrashAssumption
           DEF IInv, TypeOK, PlatformTypeOK, PodsTypeOK, Wrong
    <2>2. /\ Deleting(h) \in SUBSET Proxies /\ Holding(h) \in SUBSET Proxies
          /\ IsFiniteSet(Proxies)
        BY CrashAssumption DEF Deleting, Holding
    <2>3. /\ Cardinality(Proxies) \in Nat
          /\ Cardinality(Deleting(h)) \in Nat /\ Cardinality(Holding(h)) \in Nat
          /\ Cardinality(Deleting(h)) <= Cardinality(Proxies)
        BY <2>2, SubsetCards
    <2>4. \/ received[h] <= Cardinality(Deleting(h)) + Wrong
          \/ received[h] + Cardinality(Holding(h)) <= Cardinality(Proxies) + Wrong
        BY DEF ReceivedBounded
    <2> QED
        BY <2>1, <2>3, <2>4
<1> QED
    BY <1>1, <1>2, <1>3, Inductive, PTL DEF Spec

=============================================================================
