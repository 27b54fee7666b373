---------------------------- MODULE AuthKeysProofs ----------------------------
(***************************************************************************)
(* Proofs about AuthKeys, for any number of goroutines and keys.           *)
(***************************************************************************)
EXTENDS AuthKeys, TLAPS

(* Requests and their keys: the values that each variable takes. *)
THEOREM TypeCorrect == Spec => []TypeOK
<1> DEFINE RestOK == /\ published \subseteq Kids
                     /\ publicKeys \subseteq Kids
                     /\ holder \in Callers \cup {NoCaller}
                     /\ timers \in Nat
                     /\ pc \in [Callers -> Steps]
                     /\ kid \in [Callers -> Kids \cup {NoKid}]
                     /\ \A c \in Callers : pc[c] = "reload" => kid[c] # NoKid
                     /\ err \in [Callers -> BOOLEAN]
                     /\ rejected \subseteq Kids
                     /\ faults \in 0..MaxFaults
                     /\ rotations \in 0..MaxRotations
<1>1. Init => TypeOK
    <2>1. Init => RestOK
        BY AuthKeysAssumption DEF Init, Steps
    <2>2. Init => done \in BOOLEAN
        BY DEF Init
    <2> QED
        BY <2>1, <2>2 DEF TypeOK
<1>2. ASSUME TypeOK, [Next]_vars
      PROVE  RestOK'
    <2>0. RestOK
        BY <1>2 DEF TypeOK
    <2>1. ASSUME NEW c \in Callers, DoLooks(c) \/ DoLocks(c)
          PROVE  RestOK'
        BY <2>0, <2>1 DEF Steps, DoLooks, DoLocks, Goto, onceVars
    <2>2. ASSUME NEW c \in Callers, FetchSucceeds(c) \/ FetchFails(c)
          PROVE  RestOK'
        <3>1. faults' \in 0..MaxFaults
            <4>1. CASE FetchSucceeds(c)
                BY <2>0, <4>1 DEF FetchSucceeds
            <4>2. CASE FetchFails(c)
                <5>1. faults < MaxFaults /\ faults' = faults + 1
                    BY <4>2 DEF FetchFails
                <5> QED
                    BY <2>0, <5>1, AuthKeysAssumption
            <4> QED
                BY <2>2, <4>1, <4>2
        <3>2. PICK keys \in SUBSET published, failed \in BOOLEAN :
                  Fetched(c, keys, failed)
            BY <2>2 DEF FetchSucceeds, FetchFails
        <3>3. /\ pc' \in [Callers -> Steps]
              /\ err' \in [Callers -> BOOLEAN]
              /\ publicKeys' \subseteq Kids
              /\ holder' \in Callers \cup {NoCaller}
              /\ \A d \in Callers : pc'[d] = "reload" => pc[d] = "reload"
            BY <2>0, <3>2 DEF Fetched, Goto, Steps
        <3> QED
            BY <2>0, <2>2, <3>1, <3>3 DEF FetchSucceeds, FetchFails
    <2>3. ASSUME NEW c \in Callers,
                 AfterError(c) \/ AfterSuccess(c) \/ Reload(c)
          PROVE  RestOK'
        <3>1. CASE AfterError(c)
            BY <2>0, <3>1 DEF Steps, AfterError, Return, Goto
        <3>2. CASE AfterSuccess(c)
            BY <2>0, <3>2 DEF Steps, AfterSuccess, Goto
        <3>3. CASE Reload(c)
            BY <2>0, <3>3 DEF Steps, Reload, Return, Goto, onceVars
        <3> QED
            BY <2>3, <3>1, <3>2, <3>3
    <2>4. ASSUME NEW c \in Callers, NEW k \in Kids, Check(c, k)
          PROVE  RestOK'
        BY <2>0, <2>4 DEF Steps, Check, Goto, onceVars
    <2>5. CASE TimerFires \/ Rotate
        BY <2>0, <2>5, AuthKeysAssumption DEF TimerFires, Rotate, onceVars,
           callerVars
    <2>6. CASE UNCHANGED vars
        BY <2>0, <2>6 DEF vars
    <2> QED
        BY <1>2, <2>1, <2>2, <2>3, <2>4, <2>5, <2>6 DEF Next, CallerStep
<1>3. ASSUME TypeOK, [Next]_vars
      PROVE  done' \in BOOLEAN
    BY <1>3 DEF TypeOK, Next, CallerStep, DoLooks, DoLocks, FetchSucceeds,
       FetchFails, Fetched, AfterError, AfterSuccess, Reload, Check,
       TimerFires, Rotate, onceVars, vars
<1>4. ASSUME TypeOK, [Next]_vars
      PROVE  TypeOK'
    BY <1>2, <1>3, <1>4 DEF TypeOK
<1> QED
    BY <1>1, <1>4, PTL DEF Spec

-----------------------------------------------------------------------------
(* Every step that sets the flag leaves a caller at "after", and a caller  *)
(* leaves it only by clearing the flag or by starting a timer; so keys can *)
(* always be fetched again.                                                *)
THEOREM ResetAlwaysComes == Spec => []ResetComes
<1>1. Init => ResetComes
    BY DEF Init, ResetComes
<1>2. ASSUME TypeOK, ResetComes, [Next]_vars
      PROVE  ResetComes'
    <2>0. pc \in [Callers -> Steps] /\ timers \in Nat
        BY <1>2 DEF TypeOK
    <2>1. ASSUME NEW c \in Callers, DoLooks(c) \/ DoLocks(c)
          PROVE  ResetComes'
        <3>1. \A d \in Callers : pc[d] = "after" => pc'[d] = "after"
            BY <2>0, <2>1 DEF DoLooks, DoLocks, Goto
        <3> QED
            BY <1>2, <2>1, <3>1 DEF ResetComes, DoLooks, DoLocks, onceVars
    <2>2. ASSUME NEW c \in Callers, FetchSucceeds(c) \/ FetchFails(c)
          PROVE  ResetComes'
        BY <2>0, <2>2 DEF ResetComes, FetchSucceeds, FetchFails, Fetched, Goto
    <2>3. ASSUME NEW c \in Callers, AfterError(c)
          PROVE  ResetComes'
        BY <2>3 DEF ResetComes, AfterError
    <2>4. ASSUME NEW c \in Callers, AfterSuccess(c)
          PROVE  ResetComes'
        BY <2>0, <2>4 DEF ResetComes, AfterSuccess
    <2>5. ASSUME NEW c \in Callers, Reload(c)
          PROVE  ResetComes'
        BY <1>2, <2>0, <2>5 DEF ResetComes, Reload, Return, Goto, onceVars
    <2>6. ASSUME NEW c \in Callers, NEW k \in Kids, Check(c, k)
          PROVE  ResetComes'
        BY <1>2, <2>0, <2>6 DEF ResetComes, Check, Goto, onceVars
    <2>7. CASE TimerFires
        BY <2>7 DEF ResetComes, TimerFires
    <2>8. CASE Rotate \/ UNCHANGED vars
        BY <1>2, <2>8 DEF ResetComes, Rotate, onceVars, callerVars, vars
    <2> QED
        BY <1>2, <2>1, <2>2, <2>3, <2>4, <2>5, <2>6, <2>7, <2>8
           DEF Next, CallerStep
<1> QED
    BY <1>1, <1>2, TypeCorrect, PTL DEF Spec

-----------------------------------------------------------------------------
(* While nothing has failed or changed, the flag says that the published   *)
(* keys are known, and so does having come past singleUpdate.              *)
FirstFetchInv ==
    faults + rotations = 0 =>
        /\ done => published \subseteq publicKeys
        /\ \A c \in Callers : pc[c] \in {"after", "reload"} =>
              published \subseteq publicKeys /\ ~err[c]
        /\ \A c \in Callers : pc[c] # "after" => ~err[c]
        /\ rejected \cap published = {}

(* Nobody with a published key is turned down while it is fetched first.   *)
THEOREM FirstFetch == Spec => []FirstFetchAwaited
<1>1. Init => FirstFetchInv
    BY DEF Init, FirstFetchInv
<1>2. ASSUME TypeOK, FirstFetchInv, [Next]_vars
      PROVE  FirstFetchInv'
    <2>0. /\ pc \in [Callers -> Steps]
          /\ err \in [Callers -> BOOLEAN]
          /\ faults \in Nat
          /\ rotations \in Nat
        BY <1>2, AuthKeysAssumption DEF TypeOK
    <2>1. ASSUME NEW c \in Callers, DoLooks(c) \/ DoLocks(c)
          PROVE  FirstFetchInv'
        BY <1>2, <2>0, <2>1 DEF FirstFetchInv, DoLooks, DoLocks, Goto, onceVars
    <2>2. ASSUME NEW c \in Callers, FetchSucceeds(c)
          PROVE  FirstFetchInv'
        BY <1>2, <2>0, <2>2 DEF FirstFetchInv, FetchSucceeds, Fetched, Goto
    <2>3. ASSUME NEW c \in Callers, FetchFails(c)
          PROVE  FirstFetchInv'
        BY <2>0, <2>3 DEF FirstFetchInv, FetchFails
    <2>4. ASSUME NEW c \in Callers, AfterError(c)
          PROVE  FirstFetchInv'
        BY <1>2, <2>0, <2>4 DEF FirstFetchInv, AfterError, Return, Goto
    <2>5. ASSUME NEW c \in Callers, AfterSuccess(c)
          PROVE  FirstFetchInv'
        BY <1>2, <2>0, <2>5 DEF FirstFetchInv, AfterSuccess, Goto
    <2>6. ASSUME NEW c \in Callers, Reload(c)
          PROVE  FirstFetchInv'
        BY <1>2, <2>0, <2>6 DEF FirstFetchInv, Reload, Return, Goto, onceVars
    <2>7. ASSUME NEW c \in Callers, NEW k \in Kids, Check(c, k)
          PROVE  FirstFetchInv'
        BY <1>2, <2>0, <2>7 DEF FirstFetchInv, Check, Goto, onceVars
    <2>8. CASE TimerFires
        BY <1>2, <2>8 DEF FirstFetchInv, TimerFires, callerVars
    <2>9. CASE Rotate
        BY <2>0, <2>9 DEF FirstFetchInv, Rotate
    <2>10. CASE UNCHANGED vars
        BY <1>2, <2>10 DEF FirstFetchInv, vars
    <2> QED
        BY <1>2, <2>1, <2>2, <2>3, <2>4, <2>5, <2>6, <2>7, <2>8, <2>9, <2>10
           DEF Next, CallerStep
<1>3. FirstFetchInv => FirstFetchAwaited
    BY DEF FirstFetchInv, FirstFetchAwaited
<1> QED
    BY <1>1, <1>2, <1>3, TypeCorrect, PTL DEF Spec

-----------------------------------------------------------------------------
(* The refinement of KeyUpdates. *)

LEMMA FetcherHoldsNext ==
    ASSUME TypeOK, FetcherHolds, [Next]_vars
    PROVE  FetcherHolds'
<1>0. pc \in [Callers -> Steps] /\ NoCaller \notin Callers
    BY AuthKeysAssumption DEF TypeOK
<1> USE DEF FetcherHolds
<1>1. ASSUME NEW c \in Callers, DoLooks(c)
      PROVE  FetcherHolds'
    BY <1>0, <1>1 DEF DoLooks, Goto, onceVars
<1>2. ASSUME NEW c \in Callers, DoLocks(c)
      PROVE  FetcherHolds'
    BY <1>0, <1>2 DEF DoLocks, Goto
<1>3. ASSUME NEW c \in Callers, FetchSucceeds(c) \/ FetchFails(c)
      PROVE  FetcherHolds'
    BY <1>0, <1>3 DEF FetchSucceeds, FetchFails, Fetched, Goto
<1>4. ASSUME NEW c \in Callers, AfterError(c)
      PROVE  FetcherHolds'
    BY <1>0, <1>4 DEF AfterError, Return, Goto
<1>5. ASSUME NEW c \in Callers, AfterSuccess(c) \/ Reload(c)
      PROVE  FetcherHolds'
    BY <1>0, <1>5 DEF AfterSuccess, Reload, Return, Goto, onceVars
<1>6. ASSUME NEW c \in Callers, NEW k \in Kids, Check(c, k)
      PROVE  FetcherHolds'
    BY <1>0, <1>6 DEF Check, Goto, onceVars
<1>7. CASE TimerFires
    BY <1>0, <1>7 DEF TimerFires, callerVars
<1>8. CASE Rotate \/ UNCHANGED vars
    BY <1>8 DEF Rotate, onceVars, callerVars, vars
<1> QED
    BY <1>1, <1>2, <1>3, <1>4, <1>5, <1>6, <1>7, <1>8 DEF Next, CallerStep

(* Who fetches, in the words of KeyUpdates. *)
Fetchers == {c \in Callers : pc[c] = "fetch"}

LEMMA FetchersAlone ==
    ASSUME FetcherHolds, NEW c \in Callers, pc[c] = "fetch"
    PROVE  Fetchers = {c}
BY DEF FetcherHolds, Fetchers

(* A step that moves a caller between other places changes nothing that    *)
(* KeyUpdates sees.                                                        *)
LEMMA NotFetching ==
    ASSUME TypeOK, NEW c \in Callers, NEW s \in Steps \ {"fetch"},
           pc[c] # "fetch", Goto(c, s)
    PROVE  Fetchers' = Fetchers
BY DEF TypeOK, Goto, Fetchers

LEMMA UpdatesStep ==
    ASSUME TypeOK, FetcherHolds, [Next]_vars
    PROVE  [Updates!Next]_(Updates!keys)
<1>0. pc \in [Callers -> Steps] /\ NoCaller \notin Callers
    BY AuthKeysAssumption DEF TypeOK
<1>1. ASSUME UNCHANGED <<published, publicKeys, done>>, Fetchers' = Fetchers
      PROVE  UNCHANGED Updates!keys
    BY <1>1 DEF Updates!keys, Fetchers
<1>2. ASSUME NEW c \in Callers, DoLooks(c)
      PROVE  UNCHANGED Updates!keys
    <2>1. Fetchers' = Fetchers
        BY <1>2, NotFetching DEF DoLooks, Steps
    <2> QED
        BY <1>1, <1>2, <2>1 DEF DoLooks, onceVars
<1>3. ASSUME NEW c \in Callers, DoLocks(c)
      PROVE  Updates!Begin(c) \/ UNCHANGED Updates!keys
    <2>1. CASE done
        <3>1. Fetchers' = Fetchers
            BY <1>3, <2>1, NotFetching DEF DoLocks, Steps
        <3> QED
            BY <1>1, <1>3, <2>1, <3>1 DEF DoLocks
    <2>2. CASE ~done
        <3>1. Fetchers = {}
            BY <1>0, <1>3 DEF DoLocks, FetcherHolds, Fetchers
        <3>2. Fetchers' = {c}
            BY <1>0, <1>3, <2>2, <3>1 DEF DoLocks, Goto, Fetchers
        <3> QED
            BY <1>3, <2>2, <3>1, <3>2 DEF DoLocks, Updates!Begin, Fetchers
    <2> QED
        BY <2>1, <2>2
<1>4. ASSUME NEW c \in Callers, FetchSucceeds(c) \/ FetchFails(c)
      PROVE  Updates!End(c)
    <2>1. Fetchers = {c}
        BY <1>4, FetchersAlone DEF FetchSucceeds, FetchFails
    <2>2. Fetchers' = {}
        BY <1>0, <1>4, <2>1 DEF FetchSucceeds, FetchFails, Fetched, Goto, Fetchers
    <2> QED
        BY <1>4, <2>1, <2>2
           DEF FetchSucceeds, FetchFails, Fetched, Updates!End, Fetchers
<1>5. ASSUME NEW c \in Callers, AfterError(c)
      PROVE  Updates!Reset
    <2>1. Fetchers = {}
        BY <1>0, <1>5 DEF AfterError, FetcherHolds, Fetchers
    <2>2. Fetchers' = Fetchers
        BY <1>5, NotFetching DEF AfterError, Return, Steps
    <2> QED
        BY <1>5, <2>1, <2>2 DEF AfterError, Updates!Reset, Fetchers
<1>6. ASSUME NEW c \in Callers, AfterSuccess(c) \/ Reload(c)
      PROVE  UNCHANGED Updates!keys
    <2>1. Fetchers' = Fetchers
        BY <1>6, NotFetching DEF AfterSuccess, Reload, Return, Steps
    <2> QED
        BY <1>1, <1>6, <2>1 DEF AfterSuccess, Reload, onceVars
<1>7. ASSUME NEW c \in Callers, NEW k \in Kids, Check(c, k)
      PROVE  UNCHANGED Updates!keys
    <2>1. Fetchers' = Fetchers
        BY <1>7, NotFetching DEF Check, Steps
    <2> QED
        BY <1>1, <1>7, <2>1 DEF Check, onceVars
<1>8. CASE TimerFires
    <2>1. Fetchers = {} /\ Fetchers' = Fetchers
        BY <1>0, <1>8 DEF TimerFires, callerVars, FetcherHolds, Fetchers
    <2>2. done' = FALSE /\ published' = published /\ publicKeys' = publicKeys
        BY <1>8 DEF TimerFires
    <2> QED
        BY <2>1, <2>2 DEF Updates!Next, Updates!Reset, Fetchers
<1>9. CASE Rotate
    <2>1. Fetchers' = Fetchers
        BY <1>9 DEF Rotate, callerVars, Fetchers
    <2>2. /\ published' \in (SUBSET Kids) \ {{}}
          /\ UNCHANGED <<publicKeys, done>>
        BY <1>9 DEF Rotate, onceVars
    <2> QED
        BY <2>1, <2>2 DEF Updates!Next, Updates!Rotate, Fetchers
<1>10. CASE UNCHANGED vars
    BY <1>1, <1>10 DEF vars, Fetchers
<1> QED
    BY <1>2, <1>3, <1>4, <1>5, <1>6, <1>7, <1>8, <1>9, <1>10
       DEF Next, CallerStep, Updates!Next

(* For any number of callers, keys are fetched by one of them at a time    *)
(* and once between two resets (ImplementsUpdates; updatePublicKeysOnce).  *)
THEOREM Refinement == Spec => ImplementsUpdates
<1>1. Init => FetcherHolds /\ Updates!Init
    BY DEF Init, FetcherHolds, Updates!Init
<1>2. TypeOK /\ FetcherHolds /\ [Next]_vars
          => FetcherHolds' /\ [Updates!Next]_(Updates!keys)
    BY FetcherHoldsNext, UpdatesStep
<1> QED
    BY <1>1, <1>2, TypeCorrect, PTL DEF Spec, ImplementsUpdates, Updates!Spec

=============================================================================
