--------------------------- MODULE LifecycleProofs ---------------------------
(***************************************************************************)
(* Proofs about Lifecycle and the requests of JenkinsAPI in it, for any    *)
(* number of servers, clients and namespaces.                              *)
(***************************************************************************)
EXTENDS Lifecycle, TLAPS

LifeTypeOK ==
    /\ phase \in Boot \cup {"up", "ended"}
    /\ serving \in [Servers -> {"new", "listening", "closed"}]
    /\ waiting \subseteq Workers
    /\ context \in {"open", "cancelled"}
    /\ grace \in 0..ShutdownTimeout

RequestTypeOK ==
    /\ step \in [Requests -> Steps]
    /\ op \in [Requests -> {"status", "start"}]
    /\ tenant \in [Requests -> Namespaces \cup {NoNamespace}]
    /\ \A r \in Requests :
          step[r] \in {"state", "unidle"} => tenant[r] # NoNamespace
    /\ answer \in [Requests -> Answers]
    /\ started \subseteq Namespaces

LEMMA TypeParts == TypeOK <=> PodsTypeOK /\ RequestTypeOK /\ LifeTypeOK
BY DEF TypeOK, APITypeOK, RequestTypeOK, LifeTypeOK

-----------------------------------------------------------------------------
(* Pods. *)

LEMMA FaultType ==
    ASSUME faults \in 0..MaxFaults, Healthy \/ Fault
    PROVE  faults' \in 0..MaxFaults
BY PodsAssumption DEF Healthy, Fault

LEMMA UnIdleType ==
    ASSUME PodsTypeOK, NEW ns \in Namespaces, UnIdle(ns), UNCHANGED idles
    PROVE  /\ PodsTypeOK'
           /\ \A n \in Namespaces : jenkins[n] # "idled" => jenkins'[n] # "idled"
           /\ faults' = faults => jenkins'[ns] # "idled"
<1>1. faults' \in 0..MaxFaults
    BY FaultType DEF PodsTypeOK, UnIdle
<1>2. faults' = faults => ~Fault
    BY PodsAssumption DEF PodsTypeOK, Fault
<1> QED
    BY <1>1, <1>2 DEF PodsTypeOK, PodStates, UnIdle

LEMMA PodsStepType ==
    ASSUME PodsTypeOK, RequestTypeOK, PodsStep
    PROVE  PodsTypeOK' /\ RequestTypeOK'
<1> PICK ns \in Namespaces :
        \/ PodStarts(ns) /\ UNCHANGED apiVars
        \/ UserWakes(ns) /\ UNCHANGED apiVars
        \/ IdlePod(ns) /\ started' = started \ {ns} /\ UNCHANGED requestVars
    BY DEF PodsStep
<1>1. PodsTypeOK'
    <2>1. CASE PodStarts(ns) \/ UserWakes(ns)
        BY <2>1 DEF PodsTypeOK, PodStates, PodStarts, UserWakes
    <2>2. CASE IdlePod(ns)
        <3>1. idles' \in 0..MaxIdles
            BY <2>2, PodsAssumption DEF PodsTypeOK, IdlePod
        <3> QED
            BY <2>2, <3>1 DEF PodsTypeOK, PodStates, IdlePod
    <2> QED
        BY <2>1, <2>2
<1>2. RequestTypeOK'
    BY DEF RequestTypeOK, apiVars, requestVars
<1> QED
    BY <1>1, <1>2

-----------------------------------------------------------------------------
(* Requests. *)

LEMMA ReplyType ==
    ASSUME RequestTypeOK, NEW r \in Requests, NEW code \in Answers,
           Reply(r, code), started' \subseteq Namespaces
    PROVE  RequestTypeOK'
BY DEF RequestTypeOK, Reply, Goto, Steps

LEMMA RequestStepType ==
    ASSUME PodsTypeOK, RequestTypeOK, NEW r \in Requests,
           Arrive(r) \/ RequestStep(r)
    PROVE  PodsTypeOK' /\ RequestTypeOK'
<1>0. NoAnswer \in Answers /\ {200, 401, 500, 503} \subseteq Answers
    BY DEF Answers
<1>1. CASE Arrive(r)
    <2>1. op' \in [Requests -> {"status", "start"}]
        BY <1>1 DEF RequestTypeOK, Arrive
    <2> QED
        BY <1>0, <1>1, <2>1
           DEF PodsTypeOK, RequestTypeOK, Arrive, Goto, Steps, podVars
<1>2. CASE UIDFromToken(r) \/ GetNamespace(r)
    <2>1. RequestTypeOK'
        BY <1>2, JenkinsAPIAssumption
           DEF RequestTypeOK, UIDFromToken, GetNamespace, Goto, Steps
    <2> QED
        BY <1>2, <2>1 DEF PodsTypeOK, UIDFromToken, GetNamespace, podVars
<1>3. CASE LookupFails(r)
    <2>1. RequestTypeOK'
        BY <1>0, <1>3, ReplyType DEF RequestTypeOK, LookupFails
    <2> QED
        BY <1>3, <2>1 DEF PodsTypeOK, LookupFails, podVars
<1>4. CASE State(r)
    <2>1. tenant[r] \in Namespaces
        BY <1>4 DEF RequestTypeOK, State
    <2>2. RequestTypeOK'
        <3>1. CASE Reply(r, 200)
            <4>1. started' \subseteq Namespaces
                BY <1>4, <2>1 DEF RequestTypeOK, State
            <4> QED
                BY <1>0, <3>1, <4>1, ReplyType
        <3>2. CASE Goto(r, "unidle") /\ UNCHANGED <<op, tenant, answer, started>>
            BY <2>1, <3>2, JenkinsAPIAssumption DEF RequestTypeOK, Goto, Steps
        <3> QED
            BY <1>4, <3>1, <3>2 DEF State
    <2>3. PodsTypeOK'
        BY <1>4, FaultType DEF PodsTypeOK, State, podVars
    <2> QED
        BY <2>2, <2>3
<1>5. CASE StateFails(r)
    <2>1. RequestTypeOK'
        BY <1>0, <1>5, ReplyType DEF RequestTypeOK, StateFails
    <2>2. PodsTypeOK'
        BY <1>5, FaultType DEF PodsTypeOK, StateFails, podVars
    <2> QED
        BY <2>1, <2>2
<1>6. CASE Start(r)
    <2>1. tenant[r] \in Namespaces
        BY <1>6 DEF RequestTypeOK, Start
    <2>2. started' \subseteq Namespaces
        BY <1>6, <2>1 DEF RequestTypeOK, Start
    <2>3. \E code \in Answers : Reply(r, code)
        BY <1>0, <1>6 DEF Start
    <2>4. RequestTypeOK'
        BY <2>2, <2>3, ReplyType
    <2>5. PodsTypeOK'
        BY <1>6, <2>1, UnIdleType DEF Start
    <2> QED
        BY <2>4, <2>5
<1> QED
    BY <1>1, <1>2, <1>3, <1>4, <1>5, <1>6 DEF RequestStep

(* A process that ends takes its requests with it. *)
LEMMA ExitType ==
    ASSUME RequestTypeOK, LifeTypeOK, Exit
    PROVE  RequestTypeOK' /\ LifeTypeOK'
BY JenkinsAPIAssumption DEF RequestTypeOK, LifeTypeOK, Exit, Steps

(* The actions of the process that do not end it. *)
LifeStep ==
    \/ Connect \/ Clusters \/ StartWorkers \/ SetupSignalChannel
    \/ \E s \in Servers : Listen(s) \/ Shutdown(s) \/ ListenAndServeFails(s)
    \/ StopLogging \/ Sigterm \/ Second

LEMMA LifeStepType ==
    ASSUME PodsTypeOK, RequestTypeOK, LifeTypeOK, LifeStep
    PROVE  PodsTypeOK' /\ RequestTypeOK' /\ LifeTypeOK'
<1>1. LifeTypeOK'
    <2>1. CASE Connect \/ Clusters \/ StartWorkers \/ SetupSignalChannel
        BY <2>1 DEF LifeTypeOK, Connect, Clusters, StartWorkers,
                    SetupSignalChannel, Become, Boot
    <2>2. ASSUME NEW s \in Servers,
                 Listen(s) \/ Shutdown(s) \/ ListenAndServeFails(s)
          PROVE  LifeTypeOK'
        BY <2>2 DEF LifeTypeOK, Listen, Shutdown, ListenAndServeFails
    <2>3. CASE StopLogging \/ Sigterm
        BY <2>3 DEF LifeTypeOK, StopLogging, Sigterm
    <2>4. CASE Second
        BY <2>4, LifecycleAssumption DEF LifeTypeOK, Second
    <2> QED
        BY <2>1, <2>2, <2>3, <2>4 DEF LifeStep
<1>2. UNCHANGED <<podVars, apiVars>> /\ (Healthy \/ Fault)
    BY DEF LifeStep, Connect, Clusters, StartWorkers, SetupSignalChannel,
           Listen, Shutdown, ListenAndServeFails, StopLogging, Sigterm, Second,
           Healthy
<1>3. PodsTypeOK'
    BY <1>2, FaultType DEF PodsTypeOK, podVars
<1>4. RequestTypeOK'
    BY <1>2 DEF RequestTypeOK, apiVars
<1> QED
    BY <1>1, <1>3, <1>4

(* Next, as the proofs take it apart. *)
LEMMA NextCases ==
    ASSUME Next
    PROVE  \/ LifeStep
           \/ Exit /\ (Healthy \/ Fault)
           \/ /\ PodsStep \/ (\E r \in Requests : Arrive(r) \/ RequestStep(r))
              /\ UNCHANGED lifeVars
BY DEF Next, LifeStep, Lives, Serves, BootFails, SigtermEarly, WaitReturns,
       Healthy

(* The pods, the requests and the process keep their types, and a request  *)
(* that asks the idler has a namespace to ask about.                       *)
THEOREM TypeCorrect == Spec => []TypeOK
<1>1. Init => TypeOK
    BY PodsAssumption, LifecycleAssumption
       DEF Init, APIInit, PodsInit, TypeOK, APITypeOK, PodsTypeOK, Steps,
           Answers, Boot
<1>2. TypeOK /\ [Next]_vars => TypeOK'
    <2> SUFFICES ASSUME TypeOK, [Next]_vars
                 PROVE  PodsTypeOK' /\ RequestTypeOK' /\ LifeTypeOK'
        BY TypeParts, PTL
    <2>0. PodsTypeOK /\ RequestTypeOK /\ LifeTypeOK
        BY TypeParts
    <2>1. CASE LifeStep
        BY <2>0, <2>1, LifeStepType
    <2>2. CASE Exit /\ (Healthy \/ Fault)
        <3>1. PodsTypeOK'
            BY <2>0, <2>2, FaultType DEF PodsTypeOK, Exit, podVars
        <3> QED
            BY <2>0, <2>2, <3>1, ExitType
    <2>3. CASE /\ PodsStep \/ (\E r \in Requests : Arrive(r) \/ RequestStep(r))
               /\ UNCHANGED lifeVars
        <3>1. LifeTypeOK'
            BY <2>0, <2>3 DEF LifeTypeOK, lifeVars
        <3> QED
            BY <2>0, <2>3, <3>1, PodsStepType, RequestStepType
    <2>4. CASE UNCHANGED vars
        BY <2>0, <2>4 DEF PodsTypeOK, RequestTypeOK, LifeTypeOK, vars
    <2> QED
        BY <2>1, <2>2, <2>3, <2>4, NextCases
<1> QED
    BY <1>1, <1>2, PTL DEF Spec

(* A start that was answered with 200 leaves its Jenkins up until the      *)
(* idler stops it, whatever other requests, users and the idler do between *)
(* its calls, and also if the process ends.                                *)
THEOREM Wakes == Spec => []StartWakes
<1>1. Init => StartWakes
    BY DEF Init, APIInit, StartWakes
<1>2. TypeOK /\ StartWakes /\ [Next]_vars => StartWakes'
    <2> SUFFICES ASSUME PodsTypeOK, RequestTypeOK, StartWakes, [Next]_vars
                 PROVE  StartWakes'
        BY TypeParts
    <2>1. CASE UNCHANGED <<podVars, started>>
        BY <2>1 DEF StartWakes, podVars
    <2>2. ASSUME NEW r \in Requests, State(r)
          PROVE  StartWakes'
        BY <2>2 DEF RequestTypeOK, StartWakes, State, podVars
    <2>3. ASSUME NEW r \in Requests, Start(r)
          PROVE  StartWakes'
        <3>1. tenant[r] \in Namespaces
            BY <2>3 DEF RequestTypeOK, Start
        <3>2. /\ \A n \in Namespaces :
                    jenkins[n] # "idled" => jenkins'[n] # "idled"
              /\ faults' = faults => jenkins'[tenant[r]] # "idled"
            BY <2>3, <3>1, UnIdleType DEF Start
        <3> QED
            BY <2>3, <3>1, <3>2 DEF RequestTypeOK, StartWakes, Start
    <2>4. CASE PodsStep
        <3> PICK ns \in Namespaces :
                \/ PodStarts(ns) /\ UNCHANGED apiVars
                \/ UserWakes(ns) /\ UNCHANGED apiVars
                \/ /\ IdlePod(ns)
                   /\ started' = started \ {ns}
                   /\ UNCHANGED requestVars
            BY <2>4 DEF PodsStep
        <3> QED
            BY DEF PodsTypeOK, RequestTypeOK, StartWakes, PodStarts, UserWakes,
                   IdlePod, apiVars
    <2>5. ASSUME NEW r \in Requests, Arrive(r) \/ RequestStep(r),
                 ~State(r), ~Start(r)
          PROVE  UNCHANGED <<podVars, started>>
        BY <2>5 DEF Arrive, RequestStep, UIDFromToken, GetNamespace,
                    LookupFails, StateFails
    <2>6. LifeStep \/ Exit \/ UNCHANGED vars => UNCHANGED <<podVars, started>>
        BY DEF LifeStep, Connect, Clusters, StartWorkers, SetupSignalChannel,
               Listen, Shutdown, ListenAndServeFails, StopLogging, Sigterm,
               Second, Exit, podVars, apiVars, vars
    <2> QED
        BY <2>1, <2>2, <2>3, <2>4, <2>5, <2>6, NextCases
<1> QED
    BY <1>1, <1>2, TypeCorrect, PTL DEF Spec

-----------------------------------------------------------------------------
(* The safety half of AllOrNothing. *)
NoHalfProcess ==
    /\ \A s \in Servers :
          serving[s] = "closed" => context = "cancelled" \/ phase = "ended"
    /\ context = "open" /\ phase \in {"notify", "up"} => waiting = Workers

(* While the process is not told to stop, every worker runs, and a server  *)
(* that does not serve any more tells it to (listenAndServe).              *)
THEOREM NoHalf == Spec => []NoHalfProcess
<1>1. Init => NoHalfProcess
    BY DEF Init, NoHalfProcess
<1>2. TypeOK /\ NoHalfProcess /\ [Next]_vars => NoHalfProcess'
    <2> SUFFICES ASSUME LifeTypeOK, NoHalfProcess, [Next]_vars
                 PROVE  NoHalfProcess'
        BY TypeParts
    <2>1. CASE Connect \/ Clusters \/ StartWorkers \/ SetupSignalChannel
        BY <2>1 DEF LifeTypeOK, NoHalfProcess, Connect, Clusters, StartWorkers,
                    SetupSignalChannel, Become
    <2>2. ASSUME NEW s \in Servers, Listen(s)
          PROVE  NoHalfProcess'
        BY <2>2 DEF LifeTypeOK, NoHalfProcess, Listen
    <2>3. ASSUME NEW s \in Servers, Shutdown(s) \/ ListenAndServeFails(s)
          PROVE  NoHalfProcess'
        BY <2>3 DEF LifeTypeOK, NoHalfProcess, Shutdown, ListenAndServeFails
    <2>4. CASE StopLogging \/ Sigterm \/ Second
        BY <2>4 DEF LifeTypeOK, NoHalfProcess, StopLogging, Sigterm, Second
    <2>5. CASE Exit
        BY <2>5 DEF NoHalfProcess, Exit
    <2>6. CASE UNCHANGED lifeVars \/ UNCHANGED vars
        BY <2>6 DEF NoHalfProcess, lifeVars, vars
    <2> QED
        BY <2>1, <2>2, <2>3, <2>4, <2>5, <2>6, NextCases DEF LifeStep
<1> QED
    BY <1>1, <1>2, TypeCorrect, PTL DEF Spec
=============================================================================
