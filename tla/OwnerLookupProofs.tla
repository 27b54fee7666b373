-------------------------- MODULE OwnerLookupProofs --------------------------
(***************************************************************************)
(* Proofs about OwnerLookup, for any number of callers, users, namespaces, *)
(* tries and moves.                                                        *)
(***************************************************************************)
EXTENDS OwnerLookup, TLAPS

Ages == 0..Old

LEMMA AgesType ==
    /\ Stale \in Nat /\ Old \in Nat /\ Old = Stale + 1 /\ Stale = TTL + Slow
    /\ 0 \in Ages /\ Old \in Ages
    /\ \A a \in Ages : Older(a) \in Ages /\ Older(a) <= a + 1
BY OwnerLookupAssumption DEF Ages, Stale, Old, Older

(* What a step of a caller leaves in its own variables is of its type. *)
LEMMA ReturnType ==
    ASSUME TypeOK, NEW c \in Callers,
           NEW n \in Namespaces \cup {NoNamespace}, Return(c, n)
    PROVE  /\ pc' \in [Callers -> Steps]
           /\ try' \in [Callers -> 1..Retry]
           /\ elapsed' \in [Callers -> 0..Slow]
           /\ failedFor' \in [Callers -> 0..Retry]
           /\ owner' \in [Callers -> Users \cup {NoUser}]
           /\ ns' \in [Callers -> Namespaces \cup {NoNamespace}]
           /\ \A d \in Callers : pc'[d] = "tenant" => owner'[d] # NoUser
           /\ \A d \in Callers : pc'[d] = "set" => ns'[d] # NoNamespace
           /\ \A d \in Callers : pc'[d] = "sleep" => try'[d] < Retry
BY OwnerLookupAssumption DEF TypeOK, Return, Restart, Goto, Steps

LEMMA CallerType ==
    ASSUME TypeOK, NEW c \in Callers, Begin(c) \/ CallerStep(c)
    PROVE  TypeOK'
<1>1. CASE Begin(c)
    BY <1>1, OwnerLookupAssumption
       DEF TypeOK, Begin, Restart, Goto, Steps, worldVars, cacheVars
<1>2. CASE CacheHit(c)
    <2>1. cached \in Namespaces \cup {NoNamespace} /\ Return(c, cached)
        BY <1>2 DEF TypeOK, CacheHit
    <2> QED
        BY <1>2, <2>1, ReturnType DEF TypeOK, CacheHit, worldVars, cacheVars
<1>3. CASE CacheMiss(c)
    BY <1>3 DEF TypeOK, CacheMiss, Goto, Steps, worldVars, cacheVars
<1>4. CASE SearchCodebase(c)
    <2>1. PICK u \in Users : owner' = [owner EXCEPT ![c] = u]
        BY <1>4 DEF TypeOK, SearchCodebase, OwnedBy
    <2> QED
        BY <1>4, <2>1, OwnerLookupAssumption
           DEF TypeOK, SearchCodebase, Goto, Steps, worldVars, cacheVars
<1>5. CASE GetTenantInfo(c)
    BY <1>5 DEF TypeOK, GetTenantInfo, JenkinsOf, Goto, Steps, worldVars, cacheVars
<1>6. CASE SetDefault(c)
    <2>1. ns[c] \in Namespaces \cup {NoNamespace} /\ Return(c, ns[c])
        BY <1>6 DEF TypeOK, SetDefault
    <2> QED
        BY <1>6, <2>1, ReturnType, OwnerLookupAssumption
           DEF TypeOK, SetDefault, worldVars
<1>7. CASE TryAgain(c)
    BY <1>7, OwnerLookupAssumption
       DEF TypeOK, TryAgain, Restart, Goto, Steps, worldVars, cacheVars
<1>8. CASE GiveUp(c)
    <2>1. NoNamespace \in Namespaces \cup {NoNamespace} /\ Return(c, NoNamespace)
        BY <1>8 DEF GiveUp
    <2> QED
        BY <1>8, <2>1, ReturnType DEF TypeOK, GiveUp, worldVars, cacheVars
<1>9. CASE WakeUp(c)
    <2>1. try[c] < Retry
        BY <1>9 DEF TypeOK, WakeUp
    <2> QED
        BY <1>9, <2>1, OwnerLookupAssumption
           DEF TypeOK, WakeUp, Restart, Goto, Steps, worldVars, cacheVars
<1> QED
    BY <1>1, <1>2, <1>3, <1>4, <1>5, <1>6, <1>7, <1>8, <1>9 DEF CallerStep

LEMMA WorldType ==
    ASSUME TypeOK,
           OwnersChange \/ (\E u \in Users : HomeChanges(u)) \/ Tick
    PROVE  TypeOK'
<1>1. CASE OwnersChange
    <2>1. ownedAge' \in [Users -> 0..Old]
        BY <1>1, AgesType DEF TypeOK, OwnersChange, Ages
    <2> QED
        BY <1>1, <2>1, OwnerLookupAssumption
           DEF TypeOK, OwnersChange, cacheVars, callerVars
<1>2. ASSUME NEW u \in Users, HomeChanges(u)
      PROVE  TypeOK'
    <2>1. PICK n \in Namespaces \cup {NoNamespace} :
              /\ home' = [home EXCEPT ![u] = n]
              /\ homeAge' = [homeAge EXCEPT ![u] =
                    [m \in Namespaces |-> IF m = n THEN 0 ELSE homeAge[u][m]]]
        BY <1>2 DEF HomeChanges
    <2>2. homeAge' \in [Users -> [Namespaces -> 0..Old]]
        BY <2>1, AgesType DEF TypeOK, Ages
    <2> QED
        BY <1>2, <2>1, <2>2, OwnerLookupAssumption
           DEF TypeOK, HomeChanges, cacheVars, callerVars
<1>3. CASE Tick
    <2>1. ownedAge' \in [Users -> 0..Old]
        BY <1>3, AgesType DEF TypeOK, Tick, Ages
    <2>2. homeAge' \in [Users -> [Namespaces -> 0..Old]]
        BY <1>3, AgesType DEF TypeOK, Tick, Ages
    <2>3. life' \in 0..TTL /\ cached' \in Namespaces \cup {NoNamespace}
        BY <1>3, OwnerLookupAssumption DEF TypeOK, Tick
    <2>4. elapsed' \in [Callers -> 0..Slow] /\ failedFor' \in [Callers -> 0..Retry]
        BY <1>3, OwnerLookupAssumption DEF TypeOK, Tick
    <2> QED
        BY <1>3, <2>1, <2>2, <2>3, <2>4 DEF TypeOK, Tick
<1> QED
    BY <1>1, <1>2, <1>3

(* The services, the cache and the callers keep their types; a caller that *)
(* asks for a tenant or sets the cache has something to ask for or to set. *)
THEOREM TypeCorrect == Spec => []TypeOK
<1>1. Init => TypeOK
    BY OwnerLookupAssumption, AgesType DEF Init, TypeOK, Steps, Ages
<1>2. TypeOK /\ [Next]_vars => TypeOK'
    <2>1. ASSUME TypeOK, UNCHANGED vars
          PROVE  TypeOK'
        BY <2>1 DEF TypeOK, vars
    <2> QED
        BY <2>1, CallerType, WorldType DEF Next
<1> QED
    BY <1>1, <1>2, PTL DEF Spec

-----------------------------------------------------------------------------
(* What is true now has no age. *)
WorldInv ==
    /\ \A u \in owners : ownedAge[u] = 0
    /\ \A u \in Users : home[u] # NoNamespace => homeAge[u][home[u]] = 0

(* What a caller holds is no older than its try. *)
HeldInv ==
    \A c \in Callers :
        /\ pc[c] \in {"tenant", "set"} =>
              owner[c] \in Users /\ ownedAge[owner[c]] <= elapsed[c]
        /\ pc[c] = "set" => homeAge[owner[c]][ns[c]] <= elapsed[c]

(* What the cache holds is no older than a try and the ticks it has used.  *)
CacheInv ==
    cached # NoNamespace =>
        \E u \in Users : /\ ownedAge[u] + life <= Stale
                         /\ homeAge[u][cached] + life <= Stale

(* A caller in a later try has seen a second pass for each earlier one.    *)
TriesInv ==
    \A c \in Callers :
        /\ try[c] <= failedFor[c] + 1
        /\ pc[c] = "sleep" /\ elapsed[c] > 0 => try[c] <= failedFor[c]

(* The inductive invariant. *)
IInv == TypeOK /\ WorldInv /\ HeldInv /\ CacheInv /\ TriesInv

LEMMA InvInit == Init => IInv
<1> SUFFICES ASSUME Init PROVE IInv
    OBVIOUS
<1>1. TypeOK
    BY OwnerLookupAssumption, AgesType DEF Init, TypeOK, Steps, Ages
<1> QED
    BY <1>1, OwnerLookupAssumption
       DEF Init, IInv, WorldInv, HeldInv, CacheInv, TriesInv, TypeOK

(* A return leaves nothing in the hands of a caller. *)
LEMMA ReturnInv ==
    ASSUME TypeOK, HeldInv, TriesInv, UNCHANGED worldVars,
           NEW c \in Callers, NEW n \in Namespaces \cup {NoNamespace},
           Return(c, n)
    PROVE  HeldInv' /\ TriesInv'
<1>1. /\ pc'[c] = "idle" /\ try'[c] = 1 /\ failedFor'[c] = 0
      /\ \A d \in Callers \ {c} :
            /\ pc'[d] = pc[d] /\ try'[d] = try[d] /\ elapsed'[d] = elapsed[d]
            /\ failedFor'[d] = failedFor[d] /\ owner'[d] = owner[d]
            /\ ns'[d] = ns[d]
    BY DEF TypeOK, Return, Restart, Goto
<1>2. HeldInv'
    BY <1>1 DEF HeldInv, worldVars
<1>3. TriesInv'
    BY <1>1 DEF TriesInv
<1> QED
    BY <1>2, <1>3

LEMMA CallerInv ==
    ASSUME IInv, NEW c \in Callers, Begin(c) \/ CallerStep(c)
    PROVE  WorldInv' /\ HeldInv' /\ CacheInv' /\ TriesInv'
<1>0. TypeOK /\ WorldInv /\ HeldInv /\ CacheInv /\ TriesInv
    BY DEF IInv
<1>1. CASE Begin(c)
    <2>1. HeldInv'
        BY <1>0, <1>1 DEF TypeOK, HeldInv, Begin, Restart, Goto, worldVars
    <2>2. TriesInv'
        BY <1>0, <1>1 DEF TypeOK, TriesInv, Begin, Restart, Goto
    <2> QED
        BY <1>0, <1>1, <2>1, <2>2
           DEF WorldInv, CacheInv, Begin, worldVars, cacheVars
<1>2. CASE CacheHit(c) \/ GiveUp(c)
    <2>1. /\ UNCHANGED <<worldVars, cacheVars>>
          /\ \E n \in Namespaces \cup {NoNamespace} : Return(c, n)
        BY <1>0, <1>2 DEF TypeOK, CacheHit, GiveUp
    <2>2. HeldInv' /\ TriesInv'
        BY <1>0, <2>1, ReturnInv DEF worldVars
    <2> QED
        BY <1>0, <2>1, <2>2 DEF WorldInv, CacheInv, worldVars, cacheVars
<1>3. CASE CacheMiss(c)
    <2>1. HeldInv'
        BY <1>0, <1>3 DEF TypeOK, HeldInv, CacheMiss, Goto, worldVars
    <2>2. TriesInv'
        BY <1>0, <1>3 DEF TypeOK, TriesInv, CacheMiss, Goto
    <2> QED
        BY <1>0, <1>3, <2>1, <2>2
           DEF WorldInv, CacheInv, CacheMiss, worldVars, cacheVars
<1>4. CASE SearchCodebase(c)
    <2>1. PICK u \in owners : owner' = [owner EXCEPT ![c] = u]
        BY <1>0, <1>4 DEF TypeOK, SearchCodebase, OwnedBy
    <2>2. u \in Users /\ ownedAge[u] = 0 /\ elapsed[c] \in 0..Slow
        BY <1>0, <2>1 DEF TypeOK, WorldInv
    <2>3. HeldInv'
        BY <1>0, <1>4, <2>1, <2>2
           DEF TypeOK, HeldInv, SearchCodebase, Goto, worldVars
    <2>4. TriesInv'
        BY <1>0, <1>4 DEF TypeOK, TriesInv, SearchCodebase, Goto
    <2> QED
        BY <1>0, <1>4, <2>3, <2>4
           DEF WorldInv, CacheInv, SearchCodebase, worldVars, cacheVars
<1>5. CASE GetTenantInfo(c)
    <2>1. /\ owner[c] \in Users /\ elapsed[c] \in 0..Slow
          /\ homeAge[owner[c]][home[owner[c]]] = 0
        BY <1>0, <1>5 DEF TypeOK, WorldInv, HeldInv, GetTenantInfo, JenkinsOf
    <2>2. HeldInv'
        BY <1>0, <1>5, <2>1
           DEF TypeOK, HeldInv, GetTenantInfo, JenkinsOf, Goto, worldVars
    <2>3. TriesInv'
        BY <1>0, <1>5 DEF TypeOK, TriesInv, GetTenantInfo, Goto
    <2> QED
        BY <1>0, <1>5, <2>2, <2>3
           DEF WorldInv, CacheInv, GetTenantInfo, worldVars, cacheVars
<1>6. CASE SetDefault(c)
    <2>1. ns[c] \in Namespaces \cup {NoNamespace} /\ Return(c, ns[c])
        BY <1>0, <1>6 DEF TypeOK, SetDefault
    <2>2. HeldInv' /\ TriesInv'
        BY <1>0, <1>6, <2>1, ReturnInv DEF SetDefault
    <2>3. /\ owner[c] \in Users /\ ns[c] \in Namespaces
          /\ ownedAge[owner[c]] <= elapsed[c]
          /\ homeAge[owner[c]][ns[c]] <= elapsed[c]
        BY <1>0, <1>6 DEF TypeOK, HeldInv, SetDefault
    <2>4. /\ elapsed[c] \in 0..Slow /\ ownedAge[owner[c]] \in Nat
          /\ homeAge[owner[c]][ns[c]] \in Nat
        BY <1>0, <2>3 DEF TypeOK
    <2>5. /\ ownedAge[owner[c]] + TTL <= Stale
          /\ homeAge[owner[c]][ns[c]] + TTL <= Stale
        BY <2>3, <2>4, OwnerLookupAssumption DEF Stale
    <2>6. CacheInv'
        BY <1>6, <2>3, <2>5 DEF CacheInv, SetDefault, worldVars
    <2> QED
        BY <1>0, <1>6, <2>2, <2>6 DEF WorldInv, SetDefault, worldVars
<1>7. CASE TryAgain(c)
    <2>1. HeldInv'
        BY <1>0, <1>7 DEF TypeOK, HeldInv, TryAgain, Restart, Goto, worldVars
    <2>2. TriesInv'
        BY <1>0, <1>7, OwnerLookupAssumption
           DEF TypeOK, TriesInv, TryAgain, Restart, Goto
    <2> QED
        BY <1>0, <1>7, <2>1, <2>2
           DEF WorldInv, CacheInv, TryAgain, worldVars, cacheVars
<1>8. CASE WakeUp(c)
    <2>1. HeldInv'
        BY <1>0, <1>8 DEF TypeOK, HeldInv, WakeUp, Restart, Goto, worldVars
    <2>2. TriesInv'
        BY <1>0, <1>8, OwnerLookupAssumption
           DEF TypeOK, TriesInv, WakeUp, Restart, Goto
    <2> QED
        BY <1>0, <1>8, <2>1, <2>2
           DEF WorldInv, CacheInv, WakeUp, worldVars, cacheVars
<1> QED
    BY <1>1, <1>2, <1>3, <1>4, <1>5, <1>6, <1>7, <1>8 DEF CallerStep

LEMMA MoveInv ==
    ASSUME IInv, OwnersChange \/ (\E u \in Users : HomeChanges(u))
    PROVE  WorldInv' /\ HeldInv' /\ CacheInv' /\ TriesInv'
<1>0. TypeOK /\ WorldInv /\ HeldInv /\ CacheInv /\ TriesInv
    BY DEF IInv
<1>1. UNCHANGED <<cacheVars, callerVars>>
    BY DEF OwnersChange, HomeChanges
<1>2. /\ \A u \in Users : ownedAge'[u] <= ownedAge[u]
      /\ \A u \in Users, n \in Namespaces : homeAge'[u][n] <= homeAge[u][n]
      /\ \A u \in Users : ownedAge[u] \in Nat /\ ownedAge'[u] \in Nat
      /\ \A u \in Users, n \in Namespaces :
            homeAge[u][n] \in Nat /\ homeAge'[u][n] \in Nat
      /\ WorldInv'
    <2>1. CASE OwnersChange
        BY <1>0, <2>1 DEF TypeOK, WorldInv, OwnersChange
    <2>2. ASSUME NEW u \in Users, HomeChanges(u)
          PROVE  <1>2!:
        <3>1. PICK n \in Namespaces \cup {NoNamespace} :
                  /\ home' = [home EXCEPT ![u] = n]
                  /\ homeAge' = [homeAge EXCEPT ![u] =
                        [m \in Namespaces |->
                            IF m = n THEN 0 ELSE homeAge[u][m]]]
            BY <2>2 DEF HomeChanges
        <3> QED
            BY <1>0, <2>2, <3>1 DEF TypeOK, WorldInv, HomeChanges
    <2> QED
        BY <2>1, <2>2
<1>3. HeldInv'
    <2> SUFFICES ASSUME NEW c \in Callers
                 PROVE  HeldInv!(c)'
        BY DEF HeldInv
    <2>1. elapsed[c] \in Nat /\ ns[c] \in Namespaces \cup {NoNamespace}
          /\ (pc[c] = "set" => ns[c] # NoNamespace)
        BY <1>0, OwnerLookupAssumption DEF TypeOK
    <2> QED
        BY <1>0, <1>1, <1>2, <2>1 DEF HeldInv, callerVars
<1>4. CacheInv'
    <2> SUFFICES ASSUME cached # NoNamespace
                 PROVE  CacheInv!2'
        BY <1>1 DEF CacheInv, cacheVars
    <2>1. PICK u \in Users : /\ ownedAge[u] + life <= Stale
                             /\ homeAge[u][cached] + life <= Stale
        BY <1>0 DEF CacheInv
    <2>2. cached \in Namespaces /\ life \in Nat /\ Stale \in Nat
        BY <1>0, AgesType, OwnerLookupAssumption DEF TypeOK
    <2>3. ownedAge'[u] + life <= Stale /\ homeAge'[u][cached] + life <= Stale
        BY <1>2, <2>1, <2>2
    <2> QED
        BY <1>1, <2>3 DEF cacheVars
<1>5. TriesInv'
    BY <1>0, <1>1 DEF TriesInv, callerVars
<1> QED
    BY <1>2, <1>3, <1>4, <1>5

LEMMA TickInv ==
    ASSUME IInv, Tick
    PROVE  WorldInv' /\ HeldInv' /\ CacheInv' /\ TriesInv'
<1>0. TypeOK /\ WorldInv /\ HeldInv /\ CacheInv /\ TriesInv
    BY DEF IInv
<1>1. WorldInv'
    BY <1>0 DEF TypeOK, WorldInv, Tick
<1>2. /\ \A u \in Users : ownedAge'[u] <= ownedAge[u] + 1
      /\ \A u \in Users, n \in Namespaces : homeAge'[u][n] <= homeAge[u][n] + 1
      /\ \A u \in Users : ownedAge[u] \in Nat /\ ownedAge'[u] \in Nat
      /\ \A u \in Users, n \in Namespaces :
            homeAge[u][n] \in Nat /\ homeAge'[u][n] \in Nat
    BY <1>0, AgesType DEF TypeOK, Tick, Ages
<1>3. HeldInv'
    <2> SUFFICES ASSUME NEW c \in Callers, pc[c] \in {"tenant", "set"}
                 PROVE  HeldInv!(c)'
        BY DEF HeldInv, Tick
    <2>1. /\ elapsed[c] \in Nat /\ elapsed'[c] = elapsed[c] + 1
          /\ ns[c] \in Namespaces \cup {NoNamespace}
          /\ (pc[c] = "set" => ns[c] # NoNamespace)
        BY <1>0, OwnerLookupAssumption DEF TypeOK, Tick
    <2> QED
        BY <1>0, <1>2, <2>1 DEF HeldInv, Tick
<1>4. CacheInv'
    <2> SUFFICES ASSUME cached' # NoNamespace
                 PROVE  CacheInv!2'
        BY DEF CacheInv
    <2>1. life # 0 /\ cached' = cached /\ life' = life - 1
        BY DEF Tick
    <2>2. PICK u \in Users : /\ ownedAge[u] + life <= Stale
                             /\ homeAge[u][cached] + life <= Stale
        BY <1>0, <2>1 DEF CacheInv
    <2>3. cached \in Namespaces /\ life \in Nat /\ Stale \in Nat
        BY <1>0, <2>1, AgesType, OwnerLookupAssumption DEF TypeOK
    <2>4. ownedAge'[u] + life' <= Stale /\ homeAge'[u][cached] + life' <= Stale
        BY <1>2, <2>1, <2>2, <2>3
    <2> QED
        BY <2>1, <2>4
<1>5. TriesInv'
    <2> SUFFICES ASSUME NEW c \in Callers
                 PROVE  TriesInv!(c)'
        BY DEF TriesInv
    <2>1. try[c] \in 1..Retry /\ failedFor[c] \in 0..Retry /\ elapsed[c] \in Nat
        BY <1>0, OwnerLookupAssumption DEF TypeOK
    <2>2. /\ pc'[c] = pc[c] /\ try'[c] = try[c]
          /\ failedFor'[c] = IF (try[c] > 1 \/ pc[c] = "sleep")
                                  /\ failedFor[c] < Retry
                             THEN failedFor[c] + 1
                             ELSE failedFor[c]
        BY DEF Tick
    <2> QED
        BY <1>0, <2>1, <2>2, OwnerLookupAssumption DEF TypeOK, TriesInv
<1> QED
    BY <1>1, <1>3, <1>4, <1>5

LEMMA Invariance == Spec => []IInv
<1>1. IInv /\ [Next]_vars => IInv'
    <2> SUFFICES ASSUME IInv, [Next]_vars
                 PROVE  IInv'
        OBVIOUS
    <2>1. CASE UNCHANGED vars
        BY <2>1 DEF IInv, TypeOK, WorldInv, HeldInv, CacheInv, TriesInv, vars
    <2>2. CASE Next
        <3>1. TypeOK'
            BY <2>2, CallerType, WorldType DEF IInv, Next
        <3> QED
            BY <2>2, <3>1, CallerInv, MoveInv, TickInv DEF IInv, Next
    <2> QED
        BY <2>1, <2>2
<1> QED
    BY <1>1, InvInit, PTL DEF Spec

(* The step in which a lookup returns. *)
LEMMA ReturnStep ==
    ASSUME IInv, Next, NEW c \in Callers, Returns(c)
    PROVE  CacheHit(c) \/ SetDefault(c) \/ GiveUp(c)
<1>0. pc \in [Callers -> Steps]
    BY DEF IInv, TypeOK
<1>1. ASSUME NEW d \in Callers, Begin(d) \/ CallerStep(d)
      PROVE  CacheHit(c) \/ SetDefault(c) \/ GiveUp(c)
    <2>1. CASE CacheHit(d) \/ SetDefault(d) \/ GiveUp(d)
        BY <1>0, <2>1 DEF Returns, CacheHit, SetDefault, GiveUp, Return,
                          Restart, Goto
    <2>2. CASE Begin(d) \/ CacheMiss(d) \/ SearchCodebase(d)
               \/ GetTenantInfo(d) \/ TryAgain(d) \/ WakeUp(d)
        BY <1>0, <2>2 DEF Returns, Begin, CacheMiss, SearchCodebase,
                          GetTenantInfo, TryAgain, WakeUp, Restart, Goto
    <2> QED
        BY <1>1, <2>1, <2>2 DEF CallerStep
<1>2. ~(OwnersChange \/ (\E u \in Users : HomeChanges(u)) \/ Tick)
    BY DEF Returns, OwnersChange, HomeChanges, Tick, callerVars
<1> QED
    BY <1>1, <1>2 DEF Next

(* A namespace that a lookup returns was that of an owner of the           *)
(* repository no longer ago than the cache and one slow try explain.       *)
THEOREM Fresh == Spec => FreshEnough
<1>1. ASSUME IInv, [Next]_vars
      PROVE  [\A c \in Callers :
                 Returns(c) /\ ns'[c] # NoNamespace => RecentlyOf(ns'[c])]_vars
    <2> SUFFICES ASSUME Next, NEW c \in Callers, Returns(c),
                        ns'[c] # NoNamespace
                 PROVE  RecentlyOf(ns'[c])
        BY <1>1
    <2>0. TypeOK /\ HeldInv /\ CacheInv
        BY <1>1 DEF IInv
    <2>1. CacheHit(c) \/ SetDefault(c) \/ GiveUp(c)
        BY <1>1, ReturnStep
    <2>2. CASE CacheHit(c)
        <3>1. ns'[c] = cached /\ cached \in Namespaces
            BY <2>0, <2>2 DEF TypeOK, CacheHit, Return
        <3>2. PICK u \in Users : /\ ownedAge[u] + life <= Stale
                                 /\ homeAge[u][cached] + life <= Stale
            BY <2>0, <2>2 DEF CacheHit, CacheInv
        <3>3. /\ life \in Nat /\ Stale \in Nat /\ ownedAge[u] \in Nat
              /\ homeAge[u][cached] \in Nat
            BY <2>0, <3>1, AgesType, OwnerLookupAssumption DEF TypeOK
        <3>4. ownedAge[u] <= Stale /\ homeAge[u][cached] <= Stale
            BY <3>2, <3>3
        <3> QED
            BY <3>1, <3>4 DEF RecentlyOf
    <2>3. CASE SetDefault(c)
        <3>1. /\ ns'[c] = ns[c] /\ owner[c] \in Users /\ ns[c] \in Namespaces
              /\ ownedAge[owner[c]] <= elapsed[c]
              /\ homeAge[owner[c]][ns[c]] <= elapsed[c]
            BY <2>0, <2>3 DEF TypeOK, HeldInv, SetDefault, Return
        <3>2. /\ elapsed[c] \in 0..Slow /\ ownedAge[owner[c]] \in Nat
              /\ homeAge[owner[c]][ns[c]] \in Nat
            BY <2>0, <3>1 DEF TypeOK
        <3>3. ownedAge[owner[c]] <= Stale /\ homeAge[owner[c]][ns[c]] <= Stale
            BY <3>1, <3>2, OwnerLookupAssumption DEF Stale
        <3> QED
            BY <3>1, <3>3 DEF RecentlyOf
    <2>4. CASE GiveUp(c)
        BY <2>0, <2>4 DEF TypeOK, GiveUp, Return
    <2> QED
        BY <2>1, <2>2, <2>3, <2>4
<1> QED
    BY <1>1, Invariance, PTL DEF Spec, FreshEnough

(* No lookup fails before its tries have failed for Retry - 1 seconds.     *)
THEOREM Outage == Spec => OutageTolerated
<1>1. ASSUME IInv, [Next]_vars
      PROVE  [\A c \in Callers :
                 Returns(c) /\ ns'[c] = NoNamespace
                     => failedFor[c] >= Retry - 1]_vars
    <2> SUFFICES ASSUME Next, NEW c \in Callers, Returns(c),
                        ns'[c] = NoNamespace
                 PROVE  failedFor[c] >= Retry - 1
        BY <1>1
    <2>0. TypeOK /\ TriesInv
        BY <1>1 DEF IInv
    <2>1. CacheHit(c) \/ SetDefault(c) \/ GiveUp(c)
        BY <1>1, ReturnStep
    <2>2. ~CacheHit(c) /\ ~SetDefault(c)
        BY <2>0 DEF TypeOK, CacheHit, SetDefault, Return
    <2>3. try[c] = Retry /\ try[c] <= failedFor[c] + 1
        BY <2>0, <2>1, <2>2 DEF GiveUp, TriesInv
    <2> QED
        BY <2>0, <2>3, OwnerLookupAssumption DEF TypeOK
<1> QED
    BY <1>1, Invariance, PTL DEF Spec, OutageTolerated
=============================================================================
