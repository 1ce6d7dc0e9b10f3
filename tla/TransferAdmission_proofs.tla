----------------------- MODULE TransferAdmission_proofs -----------------------
(***************************************************************************)
(* The counters are the leases and the limits hold, for any requests,      *)
(* actors, targets, limits and windows.                                    *)
(***************************************************************************)
EXTENDS TransferAdmission, FiniteSetTheorems, TLAPS

(* No counter is above its limit.                                          *)
CountersWithinLimits ==
  \A s \in Services :
    /\ activeGlobal[s] <= GlobalLimit[s]
    /\ \A a \in Actors : activeByActor[s][a] <= PerActorLimit[s]
    /\ \A t \in Targets : activeByTarget[s][t] <= PerTargetLimit[s]

(* A request holds its lease from its admission on until it is done.       *)
LeaseFollowsRequest ==
  \A r \in Requests :
    /\ stage[r] \in {"new", "refused"} => r \notin held /\ source[r] = "none"
    /\ stage[r] = "running" => r \in held /\ source[r] = "none"
    /\ stage[r] = "settled" /\ r \notin held =>
         transport[r] # "open" /\ source[r] \in {"none", "closed"}

(* Every recent admission is remembered.                                   *)
RecentRemembered ==
  \A s \in Services : \A a \in Actors :
    AdmittedRecently(s, a) \subseteq admittedAt[s][a]

LeaseInv ==
  TypeOK /\ CountersMatchLeases /\ CountersWithinLimits /\ LeaseFollowsRequest
RateInv == RecentRemembered /\ RateKept

-----------------------------------------------------------------------------

LEMMA HeldFinite ==
  ASSUME TypeOK
  PROVE  /\ IsFiniteSet(held)
         /\ \A s \in Services :
              /\ IsFiniteSet(HeldIn(s))
              /\ \A a : IsFiniteSet(HeldBy(s, a)) /\ IsFiniteSet(HeldOn(s, a))
<1>1. IsFiniteSet(Requests) /\ held \subseteq Requests
  BY AdmissionAssumption DEF TypeOK
<1>2. IsFiniteSet(held)
  BY <1>1, FS_Subset
<1> SUFFICES ASSUME NEW s \in Services
             PROVE  /\ IsFiniteSet(HeldIn(s))
                    /\ \A a : IsFiniteSet(HeldBy(s, a)) /\ IsFiniteSet(HeldOn(s, a))
  BY <1>2
<1>3. HeldIn(s) \in SUBSET held
  BY DEF HeldIn
<1>4. \A a : HeldBy(s, a) \in SUBSET held /\ HeldOn(s, a) \in SUBSET held
  BY DEF HeldIn, HeldBy, HeldOn
<1> QED
  BY <1>2, <1>3, <1>4, FS_Subset

(* A row of counters with one entry changed.                               *)
LEMMA OneCounter ==
  ASSUME NEW T, NEW f \in [T -> Nat], NEW t \in T, NEW n \in Nat
  PROVE  /\ [f EXCEPT ![t] = n] \in [T -> Nat]
         /\ \A v \in T : [f EXCEPT ![t] = n][v] = IF v = t THEN n ELSE f[v]
OBVIOUS

(* An admission adds its request to what each of its counters counts.      *)
LEMMA CountUpMatches ==
  ASSUME TypeOK, CountersMatchLeases, NEW r \in Requests, r \notin held,
         held' = held \cup {r}, CountUp(r)
  PROVE  /\ activeGlobal' \in [Services -> Nat]
         /\ activeByActor' \in [Services -> [Actors -> Nat]]
         /\ activeByTarget' \in [Services -> [Targets -> Nat]]
         /\ CountersMatchLeases'
<1> DEFINE s == ServiceOf[r] t == TargetOf[r] a == ActorOf[r]
<1>1. s \in Services /\ a \in Actors /\ t \in Targets \cup {"none"} /\ "none" \notin Targets
  BY AdmissionAssumption
<1>2. /\ activeGlobal' = [activeGlobal EXCEPT ![s] = @ + 1]
      /\ activeByActor' = [activeByActor EXCEPT ![s][a] = @ + 1]
      /\ activeByTarget' = IF t = "none" THEN activeByTarget
                           ELSE [activeByTarget EXCEPT ![s][t] = @ + 1]
  BY DEF CountUp
<1>3. activeGlobal' \in [Services -> Nat]
  BY <1>1, <1>2 DEF TypeOK
<1>4. /\ activeByActor' \in [Services -> [Actors -> Nat]]
      /\ \A u \in Services, b \in Actors :
           activeByActor'[u][b] = IF u = s /\ b = a THEN activeByActor[u][b] + 1
                                  ELSE activeByActor[u][b]
  <2> DEFINE n == activeByActor[s][a] + 1
             row == [activeByActor[s] EXCEPT ![a] = n]
  <2>1. activeByActor \in [Services -> [Actors -> Nat]] /\ activeByActor[s] \in [Actors -> Nat]
    BY <1>1 DEF TypeOK
  <2>2. row \in [Actors -> Nat] /\ \A b \in Actors :
          row[b] = IF b = a THEN n ELSE activeByActor[s][b]
    <3>1. n \in Nat
      BY <1>1, <2>1
    <3> HIDE DEF n
    <3> QED
      BY <1>1, <2>1, <3>1, OneCounter
  <2>3. activeByActor' = [activeByActor EXCEPT ![s] = row]
    BY <1>2
  <2> HIDE DEF row
  <2> QED
    BY <1>1, <2>1, <2>2, <2>3
<1>5. /\ activeByTarget' \in [Services -> [Targets -> Nat]]
      /\ \A u \in Services, w \in Targets :
           activeByTarget'[u][w] = IF u = s /\ w = t THEN activeByTarget[u][w] + 1
                                   ELSE activeByTarget[u][w]
  <2>1. CASE t = "none"
    BY <1>1, <1>2, <2>1 DEF TypeOK
  <2>2. CASE t # "none"
    <3> DEFINE n == activeByTarget[s][t] + 1
               row == [activeByTarget[s] EXCEPT ![t] = n]
    <3>1. /\ activeByTarget \in [Services -> [Targets -> Nat]] /\ t \in Targets
          /\ activeByTarget[s] \in [Targets -> Nat]
      BY <1>1, <2>2 DEF TypeOK
    <3>2. row \in [Targets -> Nat] /\ \A w \in Targets :
            row[w] = IF w = t THEN n ELSE activeByTarget[s][w]
      <4>1. n \in Nat
        BY <1>1, <3>1
      <4> HIDE DEF n
      <4> QED
        BY <3>1, <4>1, OneCounter
    <3>3. activeByTarget' = [activeByTarget EXCEPT ![s] = row]
      BY <1>2, <2>2
    <3> HIDE DEF row
    <3> QED
      BY <1>1, <3>1, <3>2, <3>3
  <2> QED
    BY <2>1, <2>2
<1>6. ASSUME NEW u \in Services
      PROVE  /\ activeGlobal'[u] = Cardinality(HeldIn(u)')
             /\ \A b \in Actors : activeByActor'[u][b] = Cardinality(HeldBy(u, b)')
             /\ \A w \in Targets : activeByTarget'[u][w] = Cardinality(HeldOn(u, w)')
  <2>1. activeGlobal'[u] = Cardinality(HeldIn(u)')
    <3>1. HeldIn(u)' = IF u = s THEN HeldIn(u) \cup {r} ELSE HeldIn(u)
      BY DEF HeldIn
    <3>2. r \notin HeldIn(u) /\ IsFiniteSet(HeldIn(u))
      BY HeldFinite DEF HeldIn
    <3>3. activeGlobal[u] = Cardinality(HeldIn(u))
      BY DEF CountersMatchLeases
    <3>4. activeGlobal'[u] = IF u = s THEN activeGlobal[u] + 1 ELSE activeGlobal[u]
      BY <1>1, <1>2 DEF TypeOK
    <3> QED
      BY <3>1, <3>2, <3>3, <3>4, FS_AddElement
  <2>2. ASSUME NEW b \in Actors
        PROVE  activeByActor'[u][b] = Cardinality(HeldBy(u, b)')
    <3>1. HeldBy(u, b)' = IF u = s /\ b = a THEN HeldBy(u, b) \cup {r} ELSE HeldBy(u, b)
      BY DEF HeldIn, HeldBy
    <3>2. r \notin HeldBy(u, b) /\ IsFiniteSet(HeldBy(u, b))
      BY HeldFinite DEF HeldIn, HeldBy
    <3>3. activeByActor[u][b] = Cardinality(HeldBy(u, b))
      BY DEF CountersMatchLeases
    <3>4. Cardinality(HeldBy(u, b) \cup {r}) = Cardinality(HeldBy(u, b)) + 1
      BY <3>2, FS_AddElement
    <3> QED
      BY <1>4, <3>1, <3>3, <3>4
  <2>3. ASSUME NEW w \in Targets
        PROVE  activeByTarget'[u][w] = Cardinality(HeldOn(u, w)')
    <3>1. HeldOn(u, w)' = IF u = s /\ w = t THEN HeldOn(u, w) \cup {r} ELSE HeldOn(u, w)
      BY DEF HeldIn, HeldOn
    <3>2. r \notin HeldOn(u, w) /\ IsFiniteSet(HeldOn(u, w))
      BY HeldFinite DEF HeldIn, HeldOn
    <3>3. activeByTarget[u][w] = Cardinality(HeldOn(u, w))
      BY DEF CountersMatchLeases
    <3>4. Cardinality(HeldOn(u, w) \cup {r}) = Cardinality(HeldOn(u, w)) + 1
      BY <3>2, FS_AddElement
    <3> QED
      BY <1>5, <3>1, <3>3, <3>4
  <2> QED
    BY <2>1, <2>2, <2>3
<1> QED
  BY <1>3, <1>4, <1>5, <1>6 DEF CountersMatchLeases

(* A release takes it out again: no counter it is in can be at zero.       *)
LEMMA CountDownMatches ==
  ASSUME TypeOK, CountersMatchLeases, NEW r \in Requests, r \in held,
         held' = held \ {r}, CountDown(r)
  PROVE  /\ activeGlobal' \in [Services -> Nat]
         /\ activeByActor' \in [Services -> [Actors -> Nat]]
         /\ activeByTarget' \in [Services -> [Targets -> Nat]]
         /\ CountersMatchLeases'
         /\ CountersWithinLimits => CountersWithinLimits'
<1> DEFINE s == ServiceOf[r] t == TargetOf[r] a == ActorOf[r]
<1>1. s \in Services /\ a \in Actors /\ t \in Targets \cup {"none"} /\ "none" \notin Targets
  BY AdmissionAssumption
<1>2. /\ activeGlobal' = [activeGlobal EXCEPT ![s] = Less(@)]
      /\ activeByActor' = [activeByActor EXCEPT ![s][a] = Less(@)]
      /\ activeByTarget' = IF t = "none" THEN activeByTarget
                           ELSE [activeByTarget EXCEPT ![s][t] = Less(@)]
  BY DEF CountDown
<1>3. \A n \in Nat : Less(n) \in Nat /\ Less(n) <= n /\ (n # 0 => Less(n) = n - 1)
  BY DEF Less
<1>a. activeGlobal' \in [Services -> Nat]
  BY <1>1, <1>2, <1>3 DEF TypeOK
<1>b. /\ activeByActor' \in [Services -> [Actors -> Nat]]
      /\ \A u \in Services, b \in Actors :
           activeByActor'[u][b] = IF u = s /\ b = a THEN Less(activeByActor[u][b])
                                  ELSE activeByActor[u][b]
  <2> DEFINE n == Less(activeByActor[s][a])
             row == [activeByActor[s] EXCEPT ![a] = n]
  <2>1. activeByActor \in [Services -> [Actors -> Nat]] /\ activeByActor[s] \in [Actors -> Nat]
    BY <1>1 DEF TypeOK
  <2>2. row \in [Actors -> Nat] /\ \A b \in Actors :
          row[b] = IF b = a THEN n ELSE activeByActor[s][b]
    <3>1. n \in Nat
      BY <1>1, <1>3, <2>1
    <3> HIDE DEF n
    <3> QED
      BY <1>1, <2>1, <3>1, OneCounter
  <2>3. activeByActor' = [activeByActor EXCEPT ![s] = row]
    BY <1>2
  <2> HIDE DEF row
  <2> QED
    BY <1>1, <2>1, <2>2, <2>3
<1>c. /\ activeByTarget' \in [Services -> [Targets -> Nat]]
      /\ \A u \in Services, w \in Targets :
           activeByTarget'[u][w] = IF u = s /\ w = t THEN Less(activeByTarget[u][w])
                                   ELSE activeByTarget[u][w]
  <2>1. CASE t = "none"
    BY <1>1, <1>2, <2>1 DEF TypeOK
  <2>2. CASE t # "none"
    <3> DEFINE n == Less(activeByTarget[s][t])
               row == [activeByTarget[s] EXCEPT ![t] = n]
    <3>1. /\ activeByTarget \in [Services -> [Targets -> Nat]] /\ t \in Targets
          /\ activeByTarget[s] \in [Targets -> Nat]
      BY <1>1, <2>2 DEF TypeOK
    <3>2. row \in [Targets -> Nat] /\ \A w \in Targets :
            row[w] = IF w = t THEN n ELSE activeByTarget[s][w]
      <4>1. n \in Nat
        BY <1>1, <1>3, <3>1
      <4> HIDE DEF n
      <4> QED
        BY <3>1, <4>1, OneCounter
    <3>3. activeByTarget' = [activeByTarget EXCEPT ![s] = row]
      BY <1>2, <2>2
    <3> HIDE DEF row
    <3> QED
      BY <1>1, <3>1, <3>2, <3>3
  <2> QED
    BY <2>1, <2>2
<1>4. /\ activeGlobal' \in [Services -> Nat]
      /\ activeByActor' \in [Services -> [Actors -> Nat]]
      /\ activeByTarget' \in [Services -> [Targets -> Nat]]
  BY <1>a, <1>b, <1>c
<1>5. ASSUME NEW u \in Services
      PROVE  /\ activeGlobal'[u] = Cardinality(HeldIn(u)')
             /\ activeGlobal'[u] <= activeGlobal[u]
  <2>1. HeldIn(u)' = IF u = s THEN HeldIn(u) \ {r} ELSE HeldIn(u)
    BY DEF HeldIn
  <2>2. IsFiniteSet(HeldIn(u)) /\ (u = s => r \in HeldIn(u))
    BY HeldFinite DEF HeldIn
  <2>3. activeGlobal[u] = Cardinality(HeldIn(u)) /\ activeGlobal[u] \in Nat
    BY DEF CountersMatchLeases, TypeOK
  <2>4. activeGlobal'[u] = IF u = s THEN Less(activeGlobal[u]) ELSE activeGlobal[u]
    BY <1>1, <1>2 DEF TypeOK
  <2>5. u = s => activeGlobal[u] # 0
    BY <2>2, <2>3, FS_EmptySet
  <2>6. u = s => Cardinality(HeldIn(u) \ {r}) = Cardinality(HeldIn(u)) - 1
    BY <2>2, FS_RemoveElement
  <2> QED
    BY <1>3, <2>1, <2>3, <2>4, <2>5, <2>6
<1>6. ASSUME NEW u \in Services, NEW b \in Actors
      PROVE  /\ activeByActor'[u][b] = Cardinality(HeldBy(u, b)')
             /\ activeByActor'[u][b] <= activeByActor[u][b]
  <2>1. HeldBy(u, b)' = IF u = s /\ b = a THEN HeldBy(u, b) \ {r} ELSE HeldBy(u, b)
    BY DEF HeldIn, HeldBy
  <2>2. IsFiniteSet(HeldBy(u, b)) /\ (u = s /\ b = a => r \in HeldBy(u, b))
    BY HeldFinite DEF HeldIn, HeldBy
  <2>3. activeByActor[u][b] = Cardinality(HeldBy(u, b)) /\ activeByActor[u][b] \in Nat
    BY DEF CountersMatchLeases, TypeOK
  <2>4. activeByActor'[u][b] = IF u = s /\ b = a THEN Less(activeByActor[u][b])
                               ELSE activeByActor[u][b]
    BY <1>b
  <2>5. u = s /\ b = a => activeByActor[u][b] # 0
    BY <2>2, <2>3, FS_EmptySet
  <2>6. u = s /\ b = a => Cardinality(HeldBy(u, b) \ {r}) = Cardinality(HeldBy(u, b)) - 1
    BY <2>2, FS_RemoveElement
  <2> QED
    BY <1>3, <2>1, <2>3, <2>4, <2>5, <2>6
<1>7. ASSUME NEW u \in Services, NEW w \in Targets
      PROVE  /\ activeByTarget'[u][w] = Cardinality(HeldOn(u, w)')
             /\ activeByTarget'[u][w] <= activeByTarget[u][w]
  <2>1. HeldOn(u, w)' = IF u = s /\ w = t THEN HeldOn(u, w) \ {r} ELSE HeldOn(u, w)
    BY DEF HeldIn, HeldOn
  <2>2. IsFiniteSet(HeldOn(u, w)) /\ (u = s /\ w = t => r \in HeldOn(u, w))
    BY HeldFinite DEF HeldIn, HeldOn
  <2>3. activeByTarget[u][w] = Cardinality(HeldOn(u, w)) /\ activeByTarget[u][w] \in Nat
    BY DEF CountersMatchLeases, TypeOK
  <2>4. activeByTarget'[u][w] = IF u = s /\ w = t THEN Less(activeByTarget[u][w])
                                ELSE activeByTarget[u][w]
    BY <1>c
  <2>5. u = s /\ w = t => activeByTarget[u][w] # 0
    BY <2>2, <2>3, FS_EmptySet
  <2>6. u = s /\ w = t => Cardinality(HeldOn(u, w) \ {r}) = Cardinality(HeldOn(u, w)) - 1
    BY <2>2, FS_RemoveElement
  <2> QED
    BY <1>3, <2>1, <2>3, <2>4, <2>5, <2>6
<1>8. CountersMatchLeases'
  BY <1>5, <1>6, <1>7 DEF CountersMatchLeases
<1>9. CountersWithinLimits => CountersWithinLimits'
  <2> SUFFICES ASSUME CountersWithinLimits, NEW u \in Services
               PROVE  /\ activeGlobal'[u] <= GlobalLimit[u]
                      /\ \A b \in Actors : activeByActor'[u][b] <= PerActorLimit[u]
                      /\ \A w \in Targets : activeByTarget'[u][w] <= PerTargetLimit[u]
    BY DEF CountersWithinLimits
  <2>1. /\ GlobalLimit[u] \in Nat /\ PerActorLimit[u] \in Nat /\ PerTargetLimit[u] \in Nat
    BY AdmissionAssumption
  <2>2. activeGlobal[u] <= GlobalLimit[u] /\ activeGlobal[u] \in Nat /\ activeGlobal'[u] \in Nat
    BY <1>4 DEF CountersWithinLimits, TypeOK
  <2>3. \A b \in Actors : /\ activeByActor[u][b] <= PerActorLimit[u]
                          /\ activeByActor[u][b] \in Nat /\ activeByActor'[u][b] \in Nat
    BY <1>4 DEF CountersWithinLimits, TypeOK
  <2>4. \A w \in Targets : /\ activeByTarget[u][w] <= PerTargetLimit[u]
                           /\ activeByTarget[u][w] \in Nat /\ activeByTarget'[u][w] \in Nat
    BY <1>4 DEF CountersWithinLimits, TypeOK
  <2> QED
    BY <1>5, <1>6, <1>7, <2>1, <2>2, <2>3, <2>4
<1> QED
  BY <1>4, <1>8, <1>9

(* An event gives the lease of its request back, or changes no lease.      *)
LEMMA HandBackKeeps ==
  ASSUME TypeOK, CountersMatchLeases, CountersWithinLimits, NEW r \in Requests,
         NEW tr, NEW st, NEW src, HandBackIfDone(r, tr, st, src)
  PROVE  /\ activeGlobal' \in [Services -> Nat]
         /\ activeByActor' \in [Services -> [Actors -> Nat]]
         /\ activeByTarget' \in [Services -> [Targets -> Nat]]
         /\ CountersMatchLeases' /\ CountersWithinLimits'
         /\ held' \subseteq Requests
         /\ \A q : q # r => (q \in held' <=> q \in held)
         /\ r \in held' => r \in held
         /\ r \in held /\ r \notin held' => Done(tr, st, src)
<1>1. CASE r \in held /\ Done(tr, st, src)
  <2>1. held' = held \ {r} /\ CountDown(r)
    BY <1>1 DEF HandBackIfDone
  <2> QED
    BY <1>1, <2>1, CountDownMatches DEF TypeOK
<1>2. CASE ~(r \in held /\ Done(tr, st, src))
  <2>1. UNCHANGED <<held, counterVars>>
    BY <1>2 DEF HandBackIfDone
  <2>2. CountersMatchLeases' /\ CountersWithinLimits'
    BY <2>1 DEF CountersMatchLeases, CountersWithinLimits, counterVars, HeldIn, HeldBy, HeldOn
  <2> QED
    BY <2>1, <2>2 DEF TypeOK, counterVars
<1> QED
  BY <1>1, <1>2

-----------------------------------------------------------------------------
(* Leases and counters.                                                    *)

LEMMA LeaseInit == Init => LeaseInv
<1> SUFFICES ASSUME Init PROVE LeaseInv
  OBVIOUS
<1>1. TypeOK
  BY AdmissionAssumption DEF Init, TypeOK
<1>2. \A s \in Services : HeldIn(s) = {} /\ \A a : HeldBy(s, a) = {} /\ HeldOn(s, a) = {}
  BY DEF Init, HeldIn, HeldBy, HeldOn
<1>3. CountersMatchLeases
  BY <1>2, FS_EmptySet DEF Init, CountersMatchLeases
<1>4. CountersWithinLimits
  BY AdmissionAssumption DEF Init, CountersWithinLimits
<1>5. LeaseFollowsRequest
  BY DEF Init, LeaseFollowsRequest
<1> QED
  BY <1>1, <1>3, <1>4, <1>5 DEF LeaseInv

(* A step that moves no lease and no counter keeps what relates them.      *)
LEMMA LeasesUntouched ==
  ASSUME CountersMatchLeases, CountersWithinLimits, UNCHANGED <<held, counterVars>>
  PROVE  CountersMatchLeases' /\ CountersWithinLimits'
BY DEF CountersMatchLeases, CountersWithinLimits, counterVars, HeldIn, HeldBy, HeldOn

(* What is remembered is always a table of requests.                       *)
LEMMA KnownType ==
  ASSUME TypeOK, NEW s \in Services, NEW a \in Actors
  PROVE  /\ Known(s, a) \in [Actors -> SUBSET Requests]
         /\ Recent(Known(s, a)[a]) \subseteq Requests
<1>1. admittedAt[s] \in [Actors -> SUBSET Requests]
  BY DEF TypeOK
<1>2. Pruned(s) \in [Actors -> SUBSET Requests]
  BY <1>1 DEF Pruned, Recent
<1>3. Known(s, a) \in [Actors -> SUBSET Requests]
  BY <1>1, <1>2 DEF Known, Swept
<1> QED
  BY <1>3 DEF Recent

LEMMA RefuseRateType ==
  ASSUME TypeOK, NEW r \in Requests, RefuseRate(r)
  PROVE  TypeOK'
<1> DEFINE s == ServiceOf[r] a == ActorOf[r]
<1>1. s \in Services /\ a \in Actors
  BY AdmissionAssumption
<1>2. Known(s, a) \in [Actors -> SUBSET Requests] /\ Recent(Known(s, a)[a]) \subseteq Requests
  BY <1>1, KnownType
<1>3. \/ admittedAt' = [admittedAt EXCEPT ![s] = Known(s, a)]
      \/ admittedAt' = [admittedAt EXCEPT ![s] = [Known(s, a) EXCEPT ![a] = Recent(@)]]
  BY DEF RefuseRate
<1>4. [Known(s, a) EXCEPT ![a] = Recent(@)] \in [Actors -> SUBSET Requests]
  BY <1>1, <1>2
<1>5. admittedAt' \in [Services -> [Actors -> SUBSET Requests]]
  BY <1>1, <1>2, <1>3, <1>4 DEF TypeOK
<1>6. Sweep(s, a)
  BY DEF RefuseRate
<1>7. lastSweep' \in [Services -> Nat] /\ \A u \in Services : lastSweep'[u] <= now
  BY <1>1, <1>6 DEF Sweep, TypeOK
<1>8. stage' \in [Requests -> {"new", "refused", "running", "settled"}]
  BY DEF RefuseRate, TypeOK
<1>9. UNCHANGED <<now, counterVars, stamp, held, transport, source>>
  BY DEF RefuseRate
<1> QED
  BY <1>5, <1>7, <1>8, <1>9 DEF TypeOK, counterVars

LEMMA AdmitLease ==
  ASSUME LeaseInv, NEW r \in Requests, Admit(r)
  PROVE  LeaseInv'
<1> DEFINE s == ServiceOf[r] t == TargetOf[r] a == ActorOf[r]
<1>1. s \in Services /\ a \in Actors /\ t \in Targets \cup {"none"} /\ "none" \notin Targets
  BY AdmissionAssumption
<1>2. TypeOK /\ r \notin held /\ stage[r] = "new"
  BY DEF LeaseInv, LeaseFollowsRequest, Admit
<1>3. held' = held \cup {r} /\ CountUp(r)
  BY DEF Admit
<1>4. /\ activeGlobal' \in [Services -> Nat]
      /\ activeByActor' \in [Services -> [Actors -> Nat]]
      /\ activeByTarget' \in [Services -> [Targets -> Nat]]
      /\ CountersMatchLeases'
  BY <1>2, <1>3, CountUpMatches DEF LeaseInv
<1>5. TypeOK'
  <2>1. Known(s, a) \in [Actors -> SUBSET Requests] /\ Recent(Known(s, a)[a]) \subseteq Requests
    BY <1>1, <1>2, KnownType
  <2>2. [Known(s, a) EXCEPT ![a] = Recent(@) \cup {r}] \in [Actors -> SUBSET Requests]
    BY <1>1, <2>1
  <2>3. admittedAt' = [admittedAt EXCEPT ![s] = [Known(s, a) EXCEPT ![a] = Recent(@) \cup {r}]]
    BY DEF Admit
  <2>4. admittedAt' \in [Services -> [Actors -> SUBSET Requests]]
    BY <1>1, <1>2, <2>2, <2>3 DEF TypeOK
  <2>5. lastSweep' \in [Services -> Nat] /\ \A u \in Services : lastSweep'[u] <= now
    BY <1>1, <1>2 DEF Admit, Sweep, TypeOK
  <2>6. stamp' \in [Requests -> Nat] /\ \A q \in Requests : stamp'[q] <= now
    BY <1>2 DEF Admit, TypeOK
  <2>7. stage' \in [Requests -> {"new", "refused", "running", "settled"}]
    BY <1>2 DEF Admit, TypeOK
  <2>8. held' \subseteq Requests /\ UNCHANGED <<now, transport, source>>
    BY <1>2, <1>3 DEF Admit, TypeOK
  <2> QED
    BY <1>2, <1>4, <2>4, <2>5, <2>6, <2>7, <2>8 DEF TypeOK
<1>6. CountersWithinLimits'
  <2> SUFFICES ASSUME NEW u \in Services
               PROVE  /\ activeGlobal'[u] <= GlobalLimit[u]
                      /\ \A b \in Actors : activeByActor'[u][b] <= PerActorLimit[u]
                      /\ \A w \in Targets : activeByTarget'[u][w] <= PerTargetLimit[u]
    BY DEF CountersWithinLimits
  <2>1. /\ GlobalLimit[u] \in Nat /\ PerActorLimit[u] \in Nat /\ PerTargetLimit[u] \in Nat
    BY AdmissionAssumption
  <2>2. /\ activeGlobal[u] <= GlobalLimit[u] /\ activeGlobal[u] \in Nat
        /\ \A b \in Actors : activeByActor[u][b] <= PerActorLimit[u] /\ activeByActor[u][b] \in Nat
        /\ \A w \in Targets : activeByTarget[u][w] <= PerTargetLimit[u] /\ activeByTarget[u][w] \in Nat
    BY <1>2 DEF LeaseInv, CountersWithinLimits, TypeOK
  <2>3. ~Busy(r)
    BY DEF Admit
  <2>4. /\ ~(activeGlobal[s] >= GlobalLimit[s])
        /\ ~(activeByActor[s][a] >= PerActorLimit[s])
        /\ t # "none" => ~(activeByTarget[s][t] >= PerTargetLimit[s])
    BY <2>3 DEF Busy
  <2>5. activeGlobal'[u] <= GlobalLimit[u]
    BY <1>1, <1>2, <1>3, <2>1, <2>2, <2>4 DEF CountUp, TypeOK
  <2>6. ASSUME NEW b \in Actors PROVE activeByActor'[u][b] <= PerActorLimit[u]
    <3>1. activeByActor'[u][b] = IF u = s /\ b = a THEN activeByActor[u][b] + 1
                                 ELSE activeByActor[u][b]
      BY <1>1, <1>2, <1>3 DEF CountUp, TypeOK
    <3> QED
      BY <2>1, <2>2, <2>4, <3>1
  <2>7. ASSUME NEW w \in Targets PROVE activeByTarget'[u][w] <= PerTargetLimit[u]
    <3>1. activeByTarget'[u][w] = IF u = s /\ w = t THEN activeByTarget[u][w] + 1
                                  ELSE activeByTarget[u][w]
      BY <1>1, <1>2, <1>3 DEF CountUp, TypeOK
    <3> QED
      BY <1>1, <2>1, <2>2, <2>4, <3>1
  <2> QED
    BY <2>5, <2>6, <2>7
<1>7. LeaseFollowsRequest'
  <2>1. /\ stage' = [stage EXCEPT ![r] = "running"]
        /\ transport' = transport /\ source' = source
    BY DEF Admit
  <2> QED
    BY <1>2, <1>3, <2>1 DEF LeaseInv, LeaseFollowsRequest, TypeOK
<1> QED
  BY <1>4, <1>5, <1>6, <1>7 DEF LeaseInv

LEMMA ReturnLease ==
  ASSUME LeaseInv, NEW r \in Requests, Return(r)
  PROVE  LeaseInv'
<1>1. PICK src \in {"none", "open", "closed"} :
        /\ source' = [source EXCEPT ![r] = SourceTracked(r, src)]
        /\ HandBackIfDone(r, transport[r], "settled", SourceTracked(r, src))
  BY DEF Return
<1>2. /\ stage[r] = "running" /\ r \in held
      /\ stage' = [stage EXCEPT ![r] = "settled"]
      /\ UNCHANGED <<now, rateVars, transport>>
  BY DEF Return, LeaseInv, LeaseFollowsRequest
<1> DEFINE x == SourceTracked(r, src)
<1>3. x \in {"none", "open", "destroyed", "closed"}
  BY <1>1 DEF SourceTracked
<1>4. /\ activeGlobal' \in [Services -> Nat]
      /\ activeByActor' \in [Services -> [Actors -> Nat]]
      /\ activeByTarget' \in [Services -> [Targets -> Nat]]
      /\ CountersMatchLeases' /\ CountersWithinLimits'
      /\ held' \subseteq Requests
      /\ \A q : q # r => (q \in held' <=> q \in held)
      /\ r \in held /\ r \notin held' => Done(transport[r], "settled", x)
  BY <1>1, HandBackKeeps DEF LeaseInv
<1> HIDE DEF x
<1>5. TypeOK'
  BY <1>1, <1>2, <1>3, <1>4 DEF LeaseInv, TypeOK, rateVars, x
<1>6. LeaseFollowsRequest'
  BY <1>1, <1>2, <1>3, <1>4 DEF LeaseInv, LeaseFollowsRequest, TypeOK, Done, x
<1> QED
  BY <1>4, <1>5, <1>6 DEF LeaseInv

LEMMA AbortLease ==
  ASSUME LeaseInv, NEW r \in Requests, Abort(r)
  PROVE  LeaseInv'
<1> DEFINE x == SourceAfterAbort(r)
<1>1. /\ transport[r] = "open" /\ stage[r] # "refused"
      /\ transport' = [transport EXCEPT ![r] = "aborted"]
      /\ source' = [source EXCEPT ![r] = x]
      /\ HandBackIfDone(r, "aborted", stage[r], x)
      /\ UNCHANGED <<now, rateVars, stage>>
  BY DEF Abort
<1>2. /\ x \in {"none", "open", "ended", "destroyed", "closed"}
      /\ source[r] = "none" => x = "none"
  BY DEF SourceAfterAbort, LeaseInv, TypeOK
<1>3. /\ activeGlobal' \in [Services -> Nat]
      /\ activeByActor' \in [Services -> [Actors -> Nat]]
      /\ activeByTarget' \in [Services -> [Targets -> Nat]]
      /\ CountersMatchLeases' /\ CountersWithinLimits'
      /\ held' \subseteq Requests
      /\ \A q : q # r => (q \in held' <=> q \in held)
      /\ r \in held' => r \in held
      /\ r \in held /\ r \notin held' => Done("aborted", stage[r], x)
  BY <1>1, HandBackKeeps DEF LeaseInv
<1> HIDE DEF x
<1>4. TypeOK'
  BY <1>1, <1>2, <1>3 DEF LeaseInv, TypeOK, rateVars
<1>5. LeaseFollowsRequest'
  BY <1>1, <1>2, <1>3 DEF LeaseInv, LeaseFollowsRequest, TypeOK, Done
<1> QED
  BY <1>3, <1>4, <1>5 DEF LeaseInv

LEMMA FinishLease ==
  ASSUME LeaseInv, NEW r \in Requests, Finish(r)
  PROVE  LeaseInv'
<1>1. /\ transport[r] = "open" /\ stage[r] = "settled"
      /\ transport' = [transport EXCEPT ![r] = "finished"]
      /\ HandBackIfDone(r, "finished", stage[r], source[r])
      /\ UNCHANGED <<now, rateVars, stage, source>>
  BY DEF Finish
<1>2. /\ activeGlobal' \in [Services -> Nat]
      /\ activeByActor' \in [Services -> [Actors -> Nat]]
      /\ activeByTarget' \in [Services -> [Targets -> Nat]]
      /\ CountersMatchLeases' /\ CountersWithinLimits'
      /\ held' \subseteq Requests
      /\ \A q : q # r => (q \in held' <=> q \in held)
      /\ r \in held /\ r \notin held' => Done("finished", stage[r], source[r])
  BY <1>1, HandBackKeeps DEF LeaseInv
<1>3. TypeOK'
  BY <1>1, <1>2 DEF LeaseInv, TypeOK, rateVars
<1>4. LeaseFollowsRequest'
  BY <1>1, <1>2 DEF LeaseInv, LeaseFollowsRequest, TypeOK, Done
<1> QED
  BY <1>2, <1>3, <1>4 DEF LeaseInv

LEMMA CloseSourceLease ==
  ASSUME LeaseInv, NEW r \in Requests, CloseSource(r)
  PROVE  LeaseInv'
<1>1. /\ source[r] \in {"ended", "destroyed"}
      /\ source' = [source EXCEPT ![r] = "closed"]
      /\ HandBackIfDone(r, transport[r], stage[r], "closed")
      /\ UNCHANGED <<now, rateVars, stage, transport>>
  BY DEF CloseSource
<1>2. /\ activeGlobal' \in [Services -> Nat]
      /\ activeByActor' \in [Services -> [Actors -> Nat]]
      /\ activeByTarget' \in [Services -> [Targets -> Nat]]
      /\ CountersMatchLeases' /\ CountersWithinLimits'
      /\ held' \subseteq Requests
      /\ \A q : q # r => (q \in held' <=> q \in held)
      /\ r \in held /\ r \notin held' => Done(transport[r], stage[r], "closed")
  BY <1>1, HandBackKeeps DEF LeaseInv
<1>3. TypeOK'
  BY <1>1, <1>2 DEF LeaseInv, TypeOK, rateVars
<1>4. LeaseFollowsRequest'
  BY <1>1, <1>2 DEF LeaseInv, LeaseFollowsRequest, TypeOK, Done
<1> QED
  BY <1>2, <1>3, <1>4 DEF LeaseInv

LEMMA LeaseStep == LeaseInv /\ [Next]_vars => LeaseInv'
<1> SUFFICES ASSUME LeaseInv, [Next]_vars PROVE LeaseInv'
  OBVIOUS
<1>1. CASE UNCHANGED vars
  <2>1. UNCHANGED <<held, counterVars>>
    BY <1>1 DEF vars
  <2> QED
    BY <1>1, <2>1, LeasesUntouched
       DEF vars, counterVars, rateVars, httpVars, LeaseInv, TypeOK, LeaseFollowsRequest
<1>2. CASE Tick
  <2>1. UNCHANGED <<counterVars, rateVars, held, httpVars>> /\ now' = now + 1
    BY <1>2 DEF Tick
  <2>2. TypeOK'
    BY <2>1 DEF counterVars, rateVars, httpVars, LeaseInv, TypeOK
  <2> QED
    BY <2>1, <2>2, LeasesUntouched DEF httpVars, LeaseInv, LeaseFollowsRequest
<1>3. ASSUME NEW r \in Requests, RefuseBusy(r) PROVE LeaseInv'
  <2>1. /\ stage[r] = "new" /\ stage' = [stage EXCEPT ![r] = "refused"]
        /\ UNCHANGED <<now, counterVars, rateVars, held, transport, source>>
    BY <1>3 DEF RefuseBusy
  <2>2. TypeOK'
    BY <2>1 DEF LeaseInv, TypeOK, counterVars, rateVars
  <2>3. LeaseFollowsRequest'
    BY <2>1 DEF LeaseInv, LeaseFollowsRequest, TypeOK
  <2> QED
    BY <2>1, <2>2, <2>3, LeasesUntouched DEF LeaseInv
<1>4. ASSUME NEW r \in Requests, RefuseRate(r) PROVE LeaseInv'
  <2>1. /\ stage[r] = "new" /\ stage' = [stage EXCEPT ![r] = "refused"]
        /\ UNCHANGED <<now, counterVars, stamp, held, transport, source>>
    BY <1>4 DEF RefuseRate
  <2>2. TypeOK'
    BY <1>4, RefuseRateType DEF LeaseInv
  <2>3. LeaseFollowsRequest'
    BY <2>1 DEF LeaseInv, LeaseFollowsRequest, TypeOK
  <2> QED
    BY <2>1, <2>2, <2>3, LeasesUntouched DEF LeaseInv
<1>5. ASSUME NEW r \in Requests, EndSource(r) PROVE LeaseInv'
  <2>1. /\ source[r] = "open"
        /\ \E src \in {"ended", "destroyed"} : source' = [source EXCEPT ![r] = src]
        /\ UNCHANGED <<now, counterVars, rateVars, held, stage, transport>>
    BY <1>5 DEF EndSource
  <2>2. TypeOK'
    BY <2>1 DEF LeaseInv, TypeOK, counterVars, rateVars
  <2>3. LeaseFollowsRequest'
    BY <2>1 DEF LeaseInv, LeaseFollowsRequest, TypeOK
  <2> QED
    BY <2>1, <2>2, <2>3, LeasesUntouched DEF LeaseInv
<1> QED
  BY <1>1, <1>2, <1>3, <1>4, <1>5,
     AdmitLease, ReturnLease, AbortLease, FinishLease, CloseSourceLease DEF Next

THEOREM LeaseInvariant == Spec => []LeaseInv
BY LeaseInit, LeaseStep, PTL DEF Spec

(* Every reachable state is well typed.                                    *)
THEOREM AdmissionTyped == Spec => []TypeOK
<1>1. LeaseInv => TypeOK
  BY DEF LeaseInv
<1> QED
  BY <1>1, LeaseInvariant, PTL

(* The counters are the numbers of leases that are out.                    *)
THEOREM CountersRight == Spec => []CountersMatchLeases
<1>1. LeaseInv => CountersMatchLeases
  BY DEF LeaseInv
<1> QED
  BY <1>1, LeaseInvariant, PTL

(* What goes on is covered by leases, and leases stay within the limits.   *)
LEMMA UseIsHeld == LeaseInv => Using \subseteq held
BY DEF LeaseInv, LeaseFollowsRequest, TypeOK, Using

LEMMA LimitsFromLeases == LeaseInv => UseWithinLimits
<1> SUFFICES ASSUME LeaseInv, NEW s \in Services
             PROVE  LET used == {r \in Using : ServiceOf[r] = s} IN
                    /\ Cardinality(used) <= GlobalLimit[s]
                    /\ \A a \in Actors :
                         Cardinality({r \in used : ActorOf[r] = a}) <= PerActorLimit[s]
                    /\ \A t \in Targets :
                         Cardinality({r \in used : TargetOf[r] = t}) <= PerTargetLimit[s]
  BY DEF UseWithinLimits
<1> DEFINE used == {r \in Using : ServiceOf[r] = s}
<1>1. TypeOK /\ Using \subseteq held
  BY UseIsHeld DEF LeaseInv
<1>2. used \in SUBSET HeldIn(s)
  BY <1>1 DEF HeldIn
<1>3. \A a : /\ {r \in used : ActorOf[r] = a} \in SUBSET HeldBy(s, a)
             /\ {r \in used : TargetOf[r] = a} \in SUBSET HeldOn(s, a)
  BY <1>1 DEF HeldIn, HeldBy, HeldOn
<1>4. /\ activeGlobal[s] \in Nat /\ GlobalLimit[s] \in Nat
      /\ PerActorLimit[s] \in Nat /\ PerTargetLimit[s] \in Nat
      /\ \A a \in Actors : activeByActor[s][a] \in Nat
      /\ \A t \in Targets : activeByTarget[s][t] \in Nat
  BY <1>1, AdmissionAssumption DEF TypeOK
<1>5. Cardinality(used) <= GlobalLimit[s]
  <2>1. Cardinality(used) <= Cardinality(HeldIn(s)) /\ Cardinality(used) \in Nat
    BY <1>1, <1>2, HeldFinite, FS_Subset, FS_CardinalityType
  <2>2. Cardinality(HeldIn(s)) = activeGlobal[s] /\ activeGlobal[s] <= GlobalLimit[s]
    BY DEF LeaseInv, CountersMatchLeases, CountersWithinLimits
  <2> QED
    BY <1>4, <2>1, <2>2
<1>6. ASSUME NEW a \in Actors
      PROVE  Cardinality({r \in used : ActorOf[r] = a}) <= PerActorLimit[s]
  <2> DEFINE mine == {r \in used : ActorOf[r] = a}
  <2>1. mine \in SUBSET HeldBy(s, a) /\ IsFiniteSet(HeldBy(s, a))
    BY <1>1, <1>3, HeldFinite
  <2> HIDE DEF mine
  <2>2. Cardinality(mine) <= Cardinality(HeldBy(s, a)) /\ Cardinality(mine) \in Nat
    BY <2>1, FS_Subset, FS_CardinalityType
  <2>3. Cardinality(HeldBy(s, a)) = activeByActor[s][a] /\ activeByActor[s][a] <= PerActorLimit[s]
    BY DEF LeaseInv, CountersMatchLeases, CountersWithinLimits
  <2>4. Cardinality(mine) <= PerActorLimit[s]
    BY <1>4, <2>2, <2>3
  <2> QED
    BY <2>4 DEF mine
<1>7. ASSUME NEW t \in Targets
      PROVE  Cardinality({r \in used : TargetOf[r] = t}) <= PerTargetLimit[s]
  <2> DEFINE here == {r \in used : TargetOf[r] = t}
  <2>1. here \in SUBSET HeldOn(s, t) /\ IsFiniteSet(HeldOn(s, t))
    BY <1>1, <1>3, HeldFinite
  <2> HIDE DEF here
  <2>2. Cardinality(here) <= Cardinality(HeldOn(s, t)) /\ Cardinality(here) \in Nat
    BY <2>1, FS_Subset, FS_CardinalityType
  <2>3. Cardinality(HeldOn(s, t)) = activeByTarget[s][t] /\ activeByTarget[s][t] <= PerTargetLimit[s]
    BY DEF LeaseInv, CountersMatchLeases, CountersWithinLimits
  <2>4. Cardinality(here) <= PerTargetLimit[s]
    BY <1>4, <2>2, <2>3
  <2> QED
    BY <2>4 DEF here
<1> QED
  BY <1>5, <1>6, <1>7

(* The work of each service stays within its three limits.                 *)
THEOREM LimitsHold == Spec => []UseWithinLimits
BY LimitsFromLeases, LeaseInvariant, PTL

-----------------------------------------------------------------------------
(* The rate.                                                               *)

LEMMA RecentFinite ==
  ASSUME TypeOK, NEW s, NEW a
  PROVE  AdmittedRecently(s, a) \subseteq Requests /\ IsFiniteSet(AdmittedRecently(s, a))
<1>1. AdmittedRecently(s, a) \in SUBSET Requests
  BY DEF AdmittedRecently, Recent
<1> QED
  BY <1>1, AdmissionAssumption, FS_Subset

(* A step that admits nobody and forgets nothing recent.                   *)
LEMMA RateShrinks ==
  ASSUME TypeOK, RateInv,
         \A s \in Services : \A a \in Actors :
           /\ AdmittedRecently(s, a)' \subseteq AdmittedRecently(s, a)
           /\ AdmittedRecently(s, a) \subseteq admittedAt'[s][a]
  PROVE  RateInv'
<1>1. RecentRemembered'
  BY DEF RecentRemembered
<1>2. ASSUME NEW s \in Services, NEW a \in Actors
      PROVE  Cardinality(AdmittedRecently(s, a)') <= RateMax[s]
  <2>1. /\ Cardinality(AdmittedRecently(s, a)') \in Nat
        /\ Cardinality(AdmittedRecently(s, a)') <= Cardinality(AdmittedRecently(s, a))
        /\ Cardinality(AdmittedRecently(s, a)) \in Nat
    BY RecentFinite, FS_Subset, FS_CardinalityType
  <2>2. Cardinality(AdmittedRecently(s, a)) <= RateMax[s] /\ RateMax[s] \in Nat
    BY AdmissionAssumption DEF RateInv, RateKept
  <2> QED
    BY <2>1, <2>2
<1> QED
  BY <1>1, <1>2 DEF RateInv, RateKept

LEMMA RateUntouched ==
  ASSUME TypeOK, RateInv, UNCHANGED <<now, rateVars>>,
         \A r \in Requests :
           stage'[r] \in {"running", "settled"} => stage[r] \in {"running", "settled"}
  PROVE  RateInv'
<1>1. \A s \in Services : \A a \in Actors :
        AdmittedRecently(s, a)' \subseteq AdmittedRecently(s, a)
  BY DEF AdmittedRecently, Recent, rateVars
<1>2. \A s \in Services : \A a \in Actors :
        AdmittedRecently(s, a) \subseteq admittedAt'[s][a]
  BY DEF RateInv, RecentRemembered, rateVars
<1> QED
  BY <1>1, <1>2, RateShrinks

(* No sweep forgets what is recent.                                        *)
LEMMA KnownKeepsRecent ==
  ASSUME TypeOK, RateInv, NEW s \in Services, NEW a \in Actors, NEW b \in Actors
  PROVE  AdmittedRecently(s, b) \subseteq Recent(Known(s, a)[b])
<1>1. AdmittedRecently(s, b) \subseteq Recent(admittedAt[s][b])
  BY DEF RateInv, RecentRemembered, AdmittedRecently, Recent
<1>2. Pruned(s)[b] = Recent(admittedAt[s][b])
  BY DEF Pruned
<1>3. Recent(Recent(admittedAt[s][b])) = Recent(admittedAt[s][b])
  BY DEF Recent
<1>4. Known(s, a) = Pruned(s) \/ Known(s, a) = admittedAt[s]
  BY DEF Known, Swept
<1> QED
  BY <1>1, <1>2, <1>3, <1>4

LEMMA TickRate == TypeOK /\ RateInv /\ Tick => RateInv'
<1> SUFFICES ASSUME TypeOK, RateInv, Tick PROVE RateInv'
  OBVIOUS
<1>1. /\ now' = now + 1 /\ stamp' = stamp /\ stage' = stage /\ admittedAt' = admittedAt
      /\ now \in Nat /\ stamp \in [Requests -> Nat] /\ Window \in Nat
  BY AdmissionAssumption DEF Tick, TypeOK, rateVars, httpVars
<1>2. \A s \in Services : \A a \in Actors :
        AdmittedRecently(s, a)' \subseteq AdmittedRecently(s, a)
  BY <1>1 DEF AdmittedRecently, Recent
<1>3. \A s \in Services : \A a \in Actors :
        AdmittedRecently(s, a) \subseteq admittedAt'[s][a]
  BY <1>1 DEF RateInv, RecentRemembered
<1> QED
  BY <1>2, <1>3, RateShrinks

LEMMA RefuseRateKeeps ==
  ASSUME TypeOK, RateInv, NEW r \in Requests, RefuseRate(r)
  PROVE  RateInv'
<1> DEFINE s == ServiceOf[r]
           a == ActorOf[r]
<1>1. s \in Services /\ a \in Actors
  BY AdmissionAssumption
<1>2. /\ stage[r] = "new" /\ stage' = [stage EXCEPT ![r] = "refused"]
      /\ UNCHANGED <<now, stamp>>
      /\ \/ admittedAt' = [admittedAt EXCEPT ![s] = Known(s, a)]
         \/ admittedAt' =
              [admittedAt EXCEPT ![s] = [Known(s, a) EXCEPT ![a] = Recent(@)]]
  BY DEF RefuseRate
<1>3. Known(s, a) \in [Actors -> SUBSET Requests]
  BY <1>1, KnownType
<1>4. \A q \in Services : \A b \in Actors :
        AdmittedRecently(q, b)' \subseteq AdmittedRecently(q, b)
  BY <1>2 DEF AdmittedRecently, Recent, TypeOK
<1>5. \A b \in Actors : AdmittedRecently(s, b) \subseteq Recent(Known(s, a)[b])
  BY <1>1, KnownKeepsRecent
<1> HIDE DEF s, a
<1>6. \A b \in Actors : Recent(Known(s, a)[b]) \subseteq admittedAt'[s][b]
  BY <1>1, <1>2, <1>3 DEF TypeOK, Recent
<1>7. \A q \in Services : \A b \in Actors : q # s => admittedAt'[q][b] = admittedAt[q][b]
  BY <1>1, <1>2 DEF TypeOK
<1>8. \A q \in Services : \A b \in Actors :
        AdmittedRecently(q, b) \subseteq admittedAt'[q][b]
  BY <1>5, <1>6, <1>7 DEF RateInv, RecentRemembered
<1> QED
  BY <1>4, <1>8, RateShrinks

LEMMA AdmitRate ==
  ASSUME TypeOK, RateInv, NEW r \in Requests, Admit(r)
  PROVE  RateInv'
<1> DEFINE s == ServiceOf[r]
           a == ActorOf[r]
           known == Recent(Known(s, a)[a])
<1>1. s \in Services /\ a \in Actors /\ RateMax[s] \in Nat /\ IsFiniteSet(Requests)
  BY AdmissionAssumption
<1>2. /\ stage[r] = "new" /\ stage' = [stage EXCEPT ![r] = "running"]
      /\ now' = now /\ stamp' = [stamp EXCEPT ![r] = now]
      /\ Cardinality(known) < RateMax[s]
      /\ admittedAt' =
           [admittedAt EXCEPT ![s] = [Known(s, a) EXCEPT ![a] = Recent(@) \cup {r}]]
  BY DEF Admit
<1>3. Known(s, a) \in [Actors -> SUBSET Requests]
  BY <1>1, KnownType
<1>4. \A q \in Services : \A b \in Actors :
        <<q, b>> # <<s, a>> => AdmittedRecently(q, b)' \subseteq AdmittedRecently(q, b)
  BY <1>2 DEF AdmittedRecently, Recent, TypeOK
<1>5. AdmittedRecently(s, a)' \subseteq AdmittedRecently(s, a) \cup {r}
  BY <1>2 DEF AdmittedRecently, Recent, TypeOK
<1>6. \A b \in Actors : AdmittedRecently(s, b) \subseteq Recent(Known(s, a)[b])
  BY <1>1, KnownKeepsRecent
<1>7. known \in SUBSET Requests
  BY <1>1, <1>3 DEF Recent
<1> HIDE DEF s, a
<1>8. /\ admittedAt'[s][a] = Recent(Known(s, a)[a]) \cup {r}
      /\ \A b \in Actors : b # a => admittedAt'[s][b] = Known(s, a)[b]
      /\ \A q \in Services : q # s => admittedAt'[q] = admittedAt[q]
  BY <1>1, <1>2, <1>3 DEF TypeOK
<1>9. RecentRemembered'
  <2>1. AdmittedRecently(s, a)' \subseteq admittedAt'[s][a]
    BY <1>1, <1>5, <1>6, <1>8
  <2>2. \A b \in Actors : b # a => AdmittedRecently(s, b)' \subseteq admittedAt'[s][b]
    BY <1>1, <1>4, <1>6, <1>8 DEF Recent
  <2>3. \A q \in Services : \A b \in Actors :
          q # s => AdmittedRecently(q, b)' \subseteq admittedAt'[q][b]
    BY <1>4, <1>8 DEF RateInv, RecentRemembered
  <2> QED
    BY <2>1, <2>2, <2>3 DEF RecentRemembered
<1>10. Cardinality(AdmittedRecently(s, a)') <= RateMax[s]
  <2>1. AdmittedRecently(s, a)' \subseteq known \cup {r}
    BY <1>1, <1>5, <1>6
  <2> HIDE DEF known
  <2>2. IsFiniteSet(known) /\ Cardinality(known) \in Nat
    BY <1>1, <1>7, FS_Subset, FS_CardinalityType
  <2>3. IsFiniteSet(known \cup {r})
    BY <2>2, FS_AddElement
  <2>4. Cardinality(known \cup {r}) <= Cardinality(known) + 1
    <3>1. Cardinality(known \cup {r}) = IF r \in known THEN Cardinality(known)
                                        ELSE Cardinality(known) + 1
      BY <2>2, FS_AddElement
    <3> QED
      BY <2>2, <3>1
  <2>5. /\ Cardinality(AdmittedRecently(s, a)') <= Cardinality(known \cup {r})
        /\ Cardinality(AdmittedRecently(s, a)') \in Nat
        /\ Cardinality(known \cup {r}) \in Nat
    BY <2>1, <2>3, FS_Subset, FS_CardinalityType
  <2> QED
    BY <1>1, <1>2, <2>2, <2>4, <2>5
<1>11. ASSUME NEW q \in Services, NEW b \in Actors, <<q, b>> # <<s, a>>
       PROVE  Cardinality(AdmittedRecently(q, b)') <= RateMax[q]
  <2>1. AdmittedRecently(q, b)' \subseteq AdmittedRecently(q, b)
    BY <1>4, <1>11
  <2>2. /\ Cardinality(AdmittedRecently(q, b)') <= Cardinality(AdmittedRecently(q, b))
        /\ Cardinality(AdmittedRecently(q, b)') \in Nat
        /\ Cardinality(AdmittedRecently(q, b)) \in Nat
    BY <2>1, RecentFinite, FS_Subset, FS_CardinalityType
  <2>3. Cardinality(AdmittedRecently(q, b)) <= RateMax[q] /\ RateMax[q] \in Nat
    BY AdmissionAssumption DEF RateInv, RateKept
  <2> QED
    BY <2>2, <2>3
<1> QED
  BY <1>9, <1>10, <1>11 DEF RateInv, RateKept

LEMMA RateStep == TypeOK /\ RateInv /\ [Next]_vars => RateInv'
<1> SUFFICES ASSUME TypeOK, RateInv, [Next]_vars PROVE RateInv'
  OBVIOUS
<1>1. CASE UNCHANGED vars
  BY <1>1, RateUntouched DEF vars, httpVars
<1>2. CASE Tick
  BY <1>2, TickRate
<1>3. ASSUME NEW r \in Requests, RefuseBusy(r) PROVE RateInv'
  BY <1>3, RateUntouched DEF RefuseBusy, TypeOK
<1>4. ASSUME NEW r \in Requests, Return(r) PROVE RateInv'
  BY <1>4, RateUntouched DEF Return, TypeOK
<1>5. ASSUME NEW r \in Requests, Abort(r) PROVE RateInv'
  BY <1>5, RateUntouched DEF Abort
<1>6. ASSUME NEW r \in Requests, Finish(r) PROVE RateInv'
  BY <1>6, RateUntouched DEF Finish
<1>7. ASSUME NEW r \in Requests, EndSource(r) PROVE RateInv'
  BY <1>7, RateUntouched DEF EndSource
<1>8. ASSUME NEW r \in Requests, CloseSource(r) PROVE RateInv'
  BY <1>8, RateUntouched DEF CloseSource
<1> QED
  BY <1>1, <1>2, <1>3, <1>4, <1>5, <1>6, <1>7, <1>8,
     RefuseRateKeeps, AdmitRate DEF Next

LEMMA RateInit == Init => RateInv
<1> SUFFICES ASSUME Init PROVE RateInv
  OBVIOUS
<1>1. \A s \in Services : \A a \in Actors : AdmittedRecently(s, a) = {}
  BY DEF Init, AdmittedRecently, Recent
<1>2. RecentRemembered
  BY <1>1 DEF RecentRemembered
<1>3. RateKept
  <2>1. Cardinality({}) = 0 /\ \A s \in Services : RateMax[s] \in Nat
    BY FS_EmptySet, AdmissionAssumption
  <2> QED
    BY <1>1, <2>1 DEF RateKept
<1> QED
  BY <1>2, <1>3 DEF RateInv

(* No actor is let in too often, whatever the sweeps forget.               *)
THEOREM RateHolds == Spec => []RateKept
<1>1. RateInv => RateKept
  BY DEF RateInv
<1> QED
  BY <1>1, RateInit, RateStep, AdmissionTyped, PTL DEF Spec

=============================================================================
