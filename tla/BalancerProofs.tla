--------------------------- MODULE BalancerProofs ---------------------------
(***************************************************************************)
(* What holds of the breaker for any fronts, fallbacks and times: its      *)
(* types while the refresh thread rewrites it, and, with a pool the user   *)
(* gave (which is never refreshed), its guarantees.                        *)
(***************************************************************************)
EXTENDS Balancer, TLAPS

\* The cooldown of a front lies between FAILURE_COOLDOWN, and so a hold, and
\* MAX_COOLDOWN (report_failure).
LEMMA CooldownBounds ==
  ASSUME NEW n \in 1 .. BackoffSteps
  PROVE  /\ CooldownOf(n) \in 0 .. MaxCooldown
         /\ Hold <= CooldownOf(n)
<1>1. PICK k \in Nat \ {0} : k = 2 ^ (n - 1)
  BY LadderAssumption
<1>2. Cooldown * k \in Nat /\ Cooldown <= Cooldown * k
  BY TimeAssumption
<1>3. CooldownOf(n) = Lesser(Cooldown * k, MaxCooldown)
  BY <1>1 DEF CooldownOf
<1> QED
  BY <1>2, <1>3, TimeAssumption DEF Lesser

\* A dial is taken up: the control of a fallback that goes on keeps its type.
LEMMA GoesOnTypes ==
  ASSUME TypeOK, NEW f \in Fallbacks, NEW m \in {"ws", "h2"}, NEW d \in Domains,
         NEW L \in [Tiers -> SUBSET Domains], NEW n \in 0 .. MaxAttempts,
         GoesOn(f, m, L, n, d)
  PROVE  /\ left' \in [Fallbacks -> [Tiers -> SUBSET Domains]]
         /\ attempts' \in [Fallbacks -> 0 .. MaxAttempts]
         /\ target' \in [Fallbacks -> Domains \cup {None}]
         /\ target' = [target EXCEPT ![f] = d]
         /\ held' \in [Fallbacks -> BOOLEAN]
         /\ age' \in [Fallbacks -> 0 .. DialLimit]
<1>1. PICK i \in Tiers, skipped \in SUBSET Domains :
        left' = [left EXCEPT ![f] =
                  [j \in Tiers |-> IF j < i THEN {}
                                   ELSE IF j = i THEN L[i] \ (skipped \cup {d})
                                   ELSE L[j]]]
  BY DEF GoesOn
<1>2. left' \in [Fallbacks -> [Tiers -> SUBSET Domains]]
  BY <1>1 DEF TypeOK, DialTypes
<1>3. Reserves(m, d) \in BOOLEAN
  BY DEF Reserves
<1>4. n + 1 \in 0 .. MaxAttempts
  BY TimeAssumption DEF GoesOn
<1>5. 0 \in 0 .. DialLimit
  BY TimeAssumption
<1> QED
  BY <1>2, <1>3, <1>4, <1>5 DEF GoesOn, TypeOK, DialTypes

\* A fallback that ends leaves a typed control behind.
LEMMA EndTypes ==
  ASSUME TypeOK, NEW f \in Fallbacks, EndFallback(f)
  PROVE  DialTypes'
<1>1. [i \in Tiers |-> {}] \in [Tiers -> SUBSET Domains] /\ 0 \in 0 .. DialLimit
      /\ 0 \in 0 .. MaxAttempts
  BY TimeAssumption
<1> QED
  BY <1>1 DEF EndFallback, TypeOK, DialTypes

\* A report of a failure keeps the types of the breaker.
LEMMA FailureTypes ==
  ASSUME TypeOK, NEW d \in Domains, NEW u \in [Domains -> 0 .. MaxCooldown],
         NEW k \in SUBSET Domains, ReportFailure(d, u, k)
  PROVE  /\ rest' \in [Domains -> 0 .. MaxCooldown]
         /\ stamped' \in SUBSET Domains
         /\ failures' \in [Domains -> 0 .. BackoffSteps]
         /\ healthy' \in SUBSET Domains
         /\ owed' \in [Domains -> 0 .. MaxCooldown]
<1> DEFINE n == Lesser(failures[d] + 1, BackoffSteps)
<1>1. n \in 1 .. BackoffSteps
  BY TimeAssumption DEF TypeOK, Types, Lesser
<1>2. CooldownOf(n) \in 0 .. MaxCooldown
  BY <1>1, CooldownBounds
<1>3. /\ healthy' = healthy \ {d}
      /\ failures' = [failures EXCEPT ![d] = n]
      /\ rest' = [u EXCEPT ![d] = CooldownOf(n)]
      /\ stamped' = k \cup {d}
      /\ owed' = [owed EXCEPT ![d] = CooldownOf(n)]
  BY DEF ReportFailure
<1> HIDE DEF n
<1> QED
  BY <1>1, <1>2, <1>3 DEF TypeOK, Types, ThreadTypes

\* A reservation keeps the types of the breaker.
LEMMA ReserveTypes ==
  ASSUME TypeOK, NEW m, NEW d \in Domains
  PROVE  /\ UntilReserved(m, d) \in [Domains -> 0 .. MaxCooldown]
         /\ KeysReserved(m, d) \in SUBSET Domains
<1>1. Hold \in 0 .. MaxCooldown
  BY TimeAssumption
<1> QED
  BY <1>1 DEF UntilReserved, KeysReserved, TypeOK, Types

\* Entries of a dictionary read by a comprehension keep their range.
LEMMA ReadTypes ==
  ASSUME TypeOK, NEW B \in Nat, copy \in [Domains -> 0 .. B],
         NEW g \in [Domains -> 0 .. B], NEW later
  PROVE  ValuesRead(g, later) \in [Domains -> 0 .. B]
  BY DEF ValuesRead, TypeOK, Types

LEMMA InitTypes == Init => TypeOK
<1> SUFFICES ASSUME Init PROVE TypeOK
  OBVIOUS
<1>1. /\ MaxCooldown \in Nat /\ BackoffSteps \in Nat /\ MaxAttempts \in Nat
      /\ DialLimit \in Nat /\ RefreshPeriod \in Nat
  BY TimeAssumption
<1>2. Types
  BY <1>1, PoolAssumption DEF Init, Types
<1>3. DialTypes
  BY <1>1 DEF Init, DialTypes
<1>4. ThreadTypes
  BY <1>1 DEF Init, ThreadTypes, ThreadStates
<1> QED
  BY <1>2, <1>3, <1>4 DEF TypeOK

\* Every step keeps the types.
LEMMA StepTypes == TypeOK /\ [Next]_vars => TypeOK'
<1> SUFFICES ASSUME TypeOK, [Next]_vars PROVE TypeOK'
  OBVIOUS
<1> USE DEF breakerVars, dialVars, threadVars
<1>1. ASSUME NEW f \in Fallbacks, NEW m \in {"ws", "h2"}, NEW dc \in DCs, NEW d \in Domains,
             Begin(f, m, dc, d)
      PROVE  TypeOK'
  <2>1. Candidates(dc) \in [Tiers -> SUBSET Domains]
    BY DEF Candidates, Tiers, TypeOK, Types
  <2>2. 0 \in 0 .. MaxAttempts
    BY TimeAssumption
  <2>3. GoesOn(f, m, Candidates(dc), 0, d)
    BY <1>1 DEF Begin
  <2>4. /\ left' \in [Fallbacks -> [Tiers -> SUBSET Domains]]
        /\ attempts' \in [Fallbacks -> 0 .. MaxAttempts]
        /\ target' \in [Fallbacks -> Domains \cup {None}]
        /\ target' = [target EXCEPT ![f] = d]
        /\ held' \in [Fallbacks -> BOOLEAN]
        /\ age' \in [Fallbacks -> 0 .. DialLimit]
    BY <2>1, <2>2, <2>3, GoesOnTypes
  <2>5. /\ mode' = [mode EXCEPT ![f] = m]
        /\ dcOf' = [dcOf EXCEPT ![f] = dc]
        /\ rest' = UntilReserved(m, d)
        /\ stamped' = KeysReserved(m, d)
        /\ UNCHANGED <<domains, current, failures, healthy, threadVars, owed, strays>>
    BY <1>1 DEF Begin
  <2>6. DialTypes'
    BY <2>4, <2>5, PoolAssumption DEF TypeOK, DialTypes
  <2>7. Types'
    BY <2>5, ReserveTypes DEF TypeOK, Types
  <2>8. ThreadTypes'
    BY <2>5 DEF TypeOK, ThreadTypes
  <2> QED
    BY <2>6, <2>7, <2>8 DEF TypeOK
<1>2. ASSUME NEW f \in Fallbacks, DialFails(f)
      PROVE  TypeOK'
  <2>1. target[f] \in Domains /\ left[f] \in [Tiers -> SUBSET Domains]
        /\ attempts[f] \in 0 .. MaxAttempts /\ mode[f] = "ws"
    BY <1>2 DEF DialFails, TypeOK, DialTypes
  <2>2. UNCHANGED <<domains, current, threadVars, strays>>
    BY <1>2 DEF DialFails
  <2>3. CASE ReportFailure(target[f], rest, stamped) /\ EndFallback(f)
    <3>1. /\ rest' \in [Domains -> 0 .. MaxCooldown]
          /\ stamped' \in SUBSET Domains
          /\ failures' \in [Domains -> 0 .. BackoffSteps]
          /\ healthy' \in SUBSET Domains
          /\ owed' \in [Domains -> 0 .. MaxCooldown]
      BY <2>1, <2>3, FailureTypes DEF TypeOK, Types
    <3>2. DialTypes'
      BY <2>3, EndTypes
    <3> QED
      BY <2>2, <3>1, <3>2 DEF TypeOK, Types, ThreadTypes
  <2>4. ASSUME NEW d \in Domains,
               GoesOn(f, "ws", left[f], attempts[f], d),
               ReportFailure(target[f], UntilReserved("ws", d), KeysReserved("ws", d)),
               UNCHANGED <<mode, dcOf>>
        PROVE  TypeOK'
    <3>1. /\ rest' \in [Domains -> 0 .. MaxCooldown]
          /\ stamped' \in SUBSET Domains
          /\ failures' \in [Domains -> 0 .. BackoffSteps]
          /\ healthy' \in SUBSET Domains
          /\ owed' \in [Domains -> 0 .. MaxCooldown]
      BY <2>1, <2>4, ReserveTypes, FailureTypes
    <3>2. /\ left' \in [Fallbacks -> [Tiers -> SUBSET Domains]]
          /\ attempts' \in [Fallbacks -> 0 .. MaxAttempts]
          /\ target' \in [Fallbacks -> Domains \cup {None}]
          /\ target' = [target EXCEPT ![f] = d]
          /\ held' \in [Fallbacks -> BOOLEAN]
          /\ age' \in [Fallbacks -> 0 .. DialLimit]
      BY <2>1, <2>4, GoesOnTypes
    <3>3. DialTypes'
      BY <2>1, <2>4, <3>2, PoolAssumption DEF TypeOK, DialTypes
    <3> QED
      BY <2>2, <3>1, <3>3 DEF TypeOK, Types, ThreadTypes
  <2> QED
    BY <1>2, <2>3, <2>4 DEF DialFails
<1>3. ASSUME NEW f \in Fallbacks, DialSucceeds(f)
      PROVE  TypeOK'
  <2>1. target[f] \in Domains
    BY <1>3 DEF DialSucceeds, TypeOK, DialTypes
  <2>2. DialTypes'
    BY <1>3, EndTypes DEF DialSucceeds
  <2>3. 0 \in 0 .. MaxCooldown /\ 0 \in 0 .. BackoffSteps
    BY TimeAssumption
  <2> QED
    BY <1>3, <2>1, <2>2, <2>3 DEF DialSucceeds, ReportSuccess, TypeOK, Types, ThreadTypes
<1>4. ASSUME NEW f \in Fallbacks, H2Skips(f)
      PROVE  TypeOK'
  <2>1. target[f] \in Domains /\ left[f] \in [Tiers -> SUBSET Domains]
        /\ attempts[f] \in 0 .. MaxAttempts /\ mode[f] = "h2"
    BY <1>4 DEF H2Skips, TypeOK, DialTypes
  <2>2. UNCHANGED <<breakerVars, threadVars, owed, strays>>
    BY <1>4 DEF H2Skips
  <2>3. ASSUME NEW d \in Domains,
               GoesOn(f, "h2", left[f], attempts[f], d), UNCHANGED <<mode, dcOf>>
        PROVE  DialTypes'
    <3>1. /\ left' \in [Fallbacks -> [Tiers -> SUBSET Domains]]
          /\ attempts' \in [Fallbacks -> 0 .. MaxAttempts]
          /\ target' \in [Fallbacks -> Domains \cup {None}]
          /\ target' = [target EXCEPT ![f] = d]
          /\ held' \in [Fallbacks -> BOOLEAN]
          /\ age' \in [Fallbacks -> 0 .. DialLimit]
      BY <2>1, <2>3, GoesOnTypes
    <3> QED
      BY <2>1, <2>3, <3>1, PoolAssumption DEF TypeOK, DialTypes
  <2>4. DialTypes'
    BY <1>4, <2>3, EndTypes DEF H2Skips
  <2> QED
    BY <2>2, <2>4 DEF TypeOK, Types, ThreadTypes
<1>5. ASSUME NEW f \in Fallbacks, H2Opens(f)
      PROVE  TypeOK'
  <2>1. target[f] \in Domains
    BY <1>5 DEF H2Opens, TypeOK, DialTypes
  <2>2. DialTypes'
    BY <1>5, EndTypes DEF H2Opens
  <2> QED
    BY <1>5, <2>1, <2>2 DEF H2Opens, TypeOK, Types, ThreadTypes
<1>6. ASSUME NEW f \in Fallbacks, Cancelled(f)
      PROVE  TypeOK'
  <2>1. DialTypes'
    BY <1>6, EndTypes DEF Cancelled
  <2> QED
    BY <1>6, <2>1 DEF Cancelled, TypeOK, Types, ThreadTypes
<1>7. ASSUME Refresh
      PROVE  TypeOK'
  <2> USE DEF TypeOK, Types, DialTypes, ThreadTypes, ThreadStates
  <2>1. ASSUME NEW P \in Pools, InstallPool(P) PROVE TypeOK'
    BY <2>1, PoolAssumption DEF InstallPool
  <2>2. CASE InstallCurrent
    <3>1. \A f \in Fallbacks : Holding(f) \subseteq Domains
      BY DEF Holding
    <3>2. strays' \in SUBSET Domains
      BY <2>2, <3>1 DEF InstallCurrent
    <3>3. current' \in [DCs -> Domains]
      BY <2>2 DEF InstallCurrent
    <3>4. thread' = "until" /\ UNCHANGED <<domains, rest, stamped, failures, healthy, dialVars,
                                           copy, keys, quiet, owed>>
      BY <2>2 DEF InstallCurrent
    <3> QED
      BY <3>2, <3>3, <3>4
  <2>3. CASE ReadUntil
    BY <2>3, TimeAssumption DEF ReadUntil, Reads
  <2>4. CASE StoreUntil
    <3>1. PICK later \in SUBSET domains :
            /\ rest' = ValuesRead(rest, later)
            /\ stamped' = KeysRead(stamped, later)
      BY <2>4 DEF StoreUntil
    <3>2. rest' \in [Domains -> 0 .. MaxCooldown]
      BY <2>4, <3>1, TimeAssumption, ReadTypes DEF StoreUntil
    <3>3. stamped' \in SUBSET Domains
      BY <3>1 DEF KeysRead
    <3> QED
      BY <2>4, <3>2, <3>3 DEF StoreUntil
  <2>5. CASE ReadFailures
    BY <2>5, TimeAssumption DEF ReadFailures, Reads, Counted
  <2>6. CASE StoreFailures
    <3>1. PICK later \in SUBSET domains : failures' = ValuesRead(failures, later)
      BY <2>6 DEF StoreFailures
    <3>2. failures' \in [Domains -> 0 .. BackoffSteps]
      BY <2>6, <3>1, TimeAssumption, ReadTypes DEF StoreFailures
    <3>3. thread' = "healthy" /\ UNCHANGED <<domains, current, rest, stamped, healthy, dialVars,
                                            copy, keys, quiet, owed, strays>>
      BY <2>6 DEF StoreFailures
    <3> QED
      BY <3>2, <3>3
  <2>7. CASE RefreshDies
    BY <2>7 DEF RefreshDies
  <2>8. CASE PruneHealthy
    <3>1. 0 \in 0 .. RefreshPeriod
      BY TimeAssumption
    <3> QED
      BY <2>8, <3>1, TimeAssumption DEF PruneHealthy
  <2> QED
    BY <1>7, <2>1, <2>2, <2>3, <2>4, <2>5, <2>6, <2>7, <2>8 DEF Refresh
<1>8. CASE Tick
  <2>1. /\ \A r \in 0 .. MaxCooldown : Down(r) \in 0 .. MaxCooldown
        /\ \A r \in Nat : Down(r) \in Nat
    BY TimeAssumption DEF Down
  <2>2. \A f \in Fallbacks : mode[f] = "ws" => age[f] + 1 \in 0 .. DialLimit
    BY <1>8, TimeAssumption DEF Tick, TypeOK, DialTypes
  <2>3. quiet' \in 0 .. RefreshPeriod
    BY <1>8, TimeAssumption DEF Tick, Lesser, TypeOK, ThreadTypes
  <2>4. rest' \in [Domains -> 0 .. MaxCooldown] /\ owed' \in [Domains -> 0 .. MaxCooldown]
    BY <1>8, <2>1 DEF Tick, TypeOK, Types, ThreadTypes
  <2>5. age' \in [Fallbacks -> 0 .. DialLimit]
    BY <1>8, <2>2 DEF Tick, TypeOK, DialTypes
  <2>6. /\ copy' \in [Domains -> Nat]
        /\ thread = "untilStore" => copy' \in [Domains -> 0 .. MaxCooldown]
        /\ thread = "failuresStore" => copy' = copy
    BY <1>8, <2>1 DEF Tick, TypeOK, ThreadTypes
  <2> QED
    BY <1>8, <2>3, <2>4, <2>5, <2>6 DEF Tick, TypeOK, Types, DialTypes, ThreadTypes
<1>9. CASE UNCHANGED vars
  BY <1>9 DEF vars, TypeOK, Types, DialTypes, ThreadTypes
<1> QED
  BY <1>1, <1>2, <1>3, <1>4, <1>5, <1>6, <1>7, <1>8, <1>9 DEF Next, Fallback

\* Every variable keeps its type, whatever the refresh thread does meanwhile.
THEOREM TypeCorrect == Spec => []TypeOK
<1> QED
  BY InitTypes, StepTypes, PTL DEF Spec

-----------------------------------------------------------------------------
(***************************************************************************)
(* The guarantees of a breaker nobody refreshes.  Owing bounds the history *)
(* variable by what the breaker remembers, which makes CooldownRespected   *)
(* follow from the guard of the generator; HoldCovers makes the spacing of *)
(* the reserved dials inductive.                                           *)
(***************************************************************************)
Owing == \A d \in Domains : owed[d] <= rest[d]

BreakerInv ==
  /\ TypeOK
  /\ thread = "wait"
  /\ OutNoLongerThanEarned
  /\ HoldCovers
  /\ ReservedDialsSpaced
  /\ Owing

\* What drawing d does to the breaker: a reservation starts a full hold on a
\* front that was available and unproven.
Drawn(f, m, d) ==
  /\ Available(d)
  /\ target' = [target EXCEPT ![f] = d]
  /\ held' = [held EXCEPT ![f] = Reserves(m, d)]
  /\ age' = [age EXCEPT ![f] = 0]

LEMMA DrawnFact ==
  ASSUME NEW f, NEW m, NEW L, NEW n, NEW d, GoesOn(f, m, L, n, d)
  PROVE  Drawn(f, m, d)
  BY DEF GoesOn, Drawn

\* A drawn front keeps what is earned, covered and spaced, when the others
\* are only out for longer or proved to work meanwhile.
LEMMA DrawnSpaced ==
  ASSUME BreakerInv, TypeOK', NEW f \in Fallbacks, NEW m, NEW d \in Domains, Drawn(f, m, d)
  PROVE  ReservedDialsSpaced'
<1> SUFFICES ASSUME NEW g \in Fallbacks, NEW h \in Fallbacks, g # h,
                    held'[g], held'[h], target'[g] = target'[h]
             PROVE  \/ age'[g] - age'[h] >= Hold
                    \/ age'[h] - age'[g] >= Hold
  BY DEF ReservedDialsSpaced
<1> USE DEF BreakerInv, TypeOK, Types, DialTypes, Drawn
<1>1. CASE g # f /\ h # f
  BY <1>1 DEF ReservedDialsSpaced
<1>2. ASSUME NEW k \in Fallbacks, k # f, held'[k], held'[f], target'[k] = target'[f]
      PROVE  age'[k] - age'[f] >= Hold
  <2>1. held[k] /\ target[k] = d /\ age'[k] = age[k] /\ age'[f] = 0 /\ age[k] \in Nat
    BY <1>2, TimeAssumption
  <2>2. rest[d] = 0 /\ d \notin healthy
    BY <1>2 DEF Available, Reserves
  <2>3. age[k] >= Hold
    BY <2>1, <2>2, TimeAssumption DEF HoldCovers
  <2> QED
    BY <2>1, <2>3, TimeAssumption
<1>3. CASE g = f
  BY <1>2, <1>3
<1>4. CASE h = f
  BY <1>2, <1>4
<1> QED
  BY <1>1, <1>3, <1>4

LEMMA EndSpaced ==
  ASSUME BreakerInv, NEW f \in Fallbacks, EndFallback(f)
  PROVE  ReservedDialsSpaced'
  BY DEF BreakerInv, TypeOK, DialTypes, EndFallback, ReservedDialsSpaced

LEMMA InitBreaker == Pools = {} /\ Init => BreakerInv
<1> SUFFICES ASSUME Pools = {}, Init PROVE BreakerInv
  OBVIOUS
<1>1. TypeOK
  BY InitTypes
<1>2. OutNoLongerThanEarned /\ HoldCovers /\ ReservedDialsSpaced /\ Owing
  BY TimeAssumption DEF Init, OutNoLongerThanEarned, HoldCovers, ReservedDialsSpaced, Owing
<1> QED
  BY <1>1, <1>2 DEF BreakerInv, Init

LEMMA StepBreaker == Pools = {} /\ BreakerInv /\ [Next]_vars => BreakerInv'
<1> SUFFICES ASSUME Pools = {}, BreakerInv, [Next]_vars PROVE BreakerInv'
  OBVIOUS
<1> USE DEF breakerVars, dialVars, threadVars
<1>0. TypeOK /\ TypeOK'
  BY StepTypes DEF BreakerInv
<1>a. \A n \in 1 .. BackoffSteps : CooldownOf(n) \in 0 .. MaxCooldown /\ Hold <= CooldownOf(n)
  BY CooldownBounds
<1>b. \A d \in Domains : /\ rest[d] \in Nat /\ owed[d] \in Nat
                         /\ failures[d] \in Nat /\ failures[d] <= BackoffSteps
  BY <1>0, TimeAssumption DEF TypeOK, Types, ThreadTypes
<1>1. ASSUME NEW f \in Fallbacks, NEW m \in {"ws", "h2"}, NEW dc \in DCs, NEW d \in Domains,
             Begin(f, m, dc, d)
      PROVE  BreakerInv'
  <2>1. Drawn(f, m, d)
    BY <1>1, DrawnFact DEF Begin
  <2>2. /\ rest' = UntilReserved(m, d)
        /\ mode' = [mode EXCEPT ![f] = m]
        /\ UNCHANGED <<failures, healthy, thread, owed>>
    BY <1>1 DEF Begin
  <2>3. ReservedDialsSpaced'
    BY <1>0, <2>1, DrawnSpaced
  <2>4. /\ \A e \in Domains : e # d => rest'[e] = rest[e]
        /\ rest'[d] = IF Reserves(m, d) THEN Hold ELSE rest[d]
        /\ rest[d] = 0
    BY <1>0, <2>1, <2>2 DEF UntilReserved, Drawn, Available, TypeOK, Types
  <2>5. OutNoLongerThanEarned'
    <3> SUFFICES ASSUME NEW e \in Domains
                 PROVE  /\ e \in healthy => rest'[e] = 0 /\ failures[e] = 0
                        /\ rest'[e] <= IF failures[e] = 0 THEN Hold ELSE CooldownOf(failures[e])
      BY <2>2 DEF OutNoLongerThanEarned, CooldownOf
    <3>1. failures[e] # 0 => Hold <= CooldownOf(failures[e])
      BY <1>a, <1>b
    <3>2. CASE e # d
      BY <2>4, <3>2 DEF BreakerInv, OutNoLongerThanEarned
    <3>3. CASE e = d
      BY <2>4, <3>1, <3>3, TimeAssumption DEF BreakerInv, OutNoLongerThanEarned, Reserves
    <3> QED
      BY <3>2, <3>3
  <2>6. HoldCovers'
    <3> SUFFICES ASSUME NEW g \in Fallbacks, held'[g]
                 PROVE  /\ mode'[g] = "ws"
                        /\ \/ target'[g] \in healthy'
                           \/ rest'[target'[g]] + age'[g] >= Hold
      BY DEF HoldCovers
    <3>1. CASE g = f
      <4>1. target'[g] = d /\ Reserves(m, d) /\ age'[g] = 0
        BY <1>0, <2>1, <3>1 DEF Drawn, TypeOK, DialTypes
      <4> QED
        BY <1>0, <2>2, <2>4, <3>1, <4>1, TimeAssumption DEF Reserves, TypeOK, DialTypes
    <3>2. CASE g # f
      <4>1. held[g] /\ target'[g] = target[g] /\ age'[g] = age[g] /\ mode'[g] = mode[g]
            /\ target[g] \in Domains \cup {None} /\ age[g] \in Nat
        BY <1>0, <2>1, <2>2, <3>2, TimeAssumption DEF Drawn, TypeOK, DialTypes
      <4>2. mode[g] = "ws" /\ target[g] \in Domains
        BY <1>0, <4>1 DEF BreakerInv, HoldCovers, TypeOK, DialTypes
      <4>3. rest'[target[g]] >= rest[target[g]]
        BY <1>b, <2>4, <4>2, TimeAssumption
      <4>4. rest'[target[g]] \in Nat
        BY <1>0, <4>2, TimeAssumption DEF TypeOK, Types
      <4> QED
        BY <1>b, <2>2, <4>1, <4>2, <4>3, <4>4, TimeAssumption DEF BreakerInv, HoldCovers
    <3> QED
      BY <3>1, <3>2
  <2>7. Owing'
    BY <1>b, <2>2, <2>4, TimeAssumption DEF BreakerInv, Owing
  <2> QED
    BY <1>0, <2>2, <2>3, <2>5, <2>6, <2>7 DEF BreakerInv
<1>2. ASSUME NEW f \in Fallbacks, DialFails(f)
      PROVE  BreakerInv'
  <2> DEFINE t == target[f]
             n == Lesser(failures[t] + 1, BackoffSteps)
  <2>1. t \in Domains /\ mode[f] = "ws"
    BY <1>0, <1>2 DEF DialFails, TypeOK, DialTypes
  <2>2. n \in 1 .. BackoffSteps
    BY <1>b, <2>1, TimeAssumption DEF Lesser
  <2>3. CooldownOf(n) \in Nat /\ Hold <= CooldownOf(n)
    BY <1>a, <2>2, TimeAssumption
  <2>4. thread' = thread
    BY <1>2 DEF DialFails
  \* The front u, k of the report are those after a reservation of some front,
  \* or the present ones.
  <2>5. ASSUME NEW u \in [Domains -> 0 .. MaxCooldown], NEW k, ReportFailure(t, u, k),
               \A e \in Domains : /\ u[e] >= rest[e]
                                  /\ u[e] # rest[e] => u[e] = Hold /\ e \notin healthy
        PROVE  /\ OutNoLongerThanEarned'
               /\ Owing'
               /\ \A e \in Domains : rest'[e] >= rest[e] \/ rest'[e] >= Hold
               /\ \A e \in Domains : e # t => rest'[e] = u[e]
               /\ rest'[t] = CooldownOf(n)
               /\ healthy' = healthy \ {t}
    <3>1. /\ healthy' = healthy \ {t}
          /\ failures' = [failures EXCEPT ![t] = n]
          /\ rest' = [u EXCEPT ![t] = CooldownOf(n)]
          /\ owed' = [owed EXCEPT ![t] = CooldownOf(n)]
      BY <2>5 DEF ReportFailure
    <3> HIDE DEF n
    <3>2. /\ rest'[t] = CooldownOf(n) /\ owed'[t] = CooldownOf(n) /\ failures'[t] = n
          /\ \A e \in Domains : e # t => /\ rest'[e] = u[e]
                                         /\ owed'[e] = owed[e]
                                         /\ failures'[e] = failures[e]
      BY <1>0, <2>1, <3>1 DEF TypeOK, Types, ThreadTypes
    <3>3. \A e \in Domains : u[e] \in Nat
      BY TimeAssumption
    <3>4. OutNoLongerThanEarned'
      <4> SUFFICES ASSUME NEW e \in Domains
                   PROVE  /\ e \in healthy' => rest'[e] = 0 /\ failures'[e] = 0
                          /\ rest'[e] <= IF failures'[e] = 0 THEN Hold
                                         ELSE CooldownOf(failures'[e])
        BY DEF OutNoLongerThanEarned, CooldownOf
      <4>1. CASE e = t
        BY <2>2, <2>3, <3>1, <3>2, <4>1, TimeAssumption
      <4>2. CASE e # t
        <5>1. failures[e] # 0 => Hold <= CooldownOf(failures[e])
          BY <1>a, <1>b
        <5>2. u[e] = rest[e] \/ (u[e] = Hold /\ e \notin healthy)
          BY <2>5
        <5> QED
          BY <3>1, <3>2, <4>2, <5>1, <5>2, TimeAssumption DEF BreakerInv, OutNoLongerThanEarned
      <4> QED
        BY <4>1, <4>2
    <3>5. Owing'
      <4> SUFFICES ASSUME NEW e \in Domains PROVE owed'[e] <= rest'[e]
        BY DEF Owing
      <4>1. CASE e = t
        BY <2>3, <3>2, <4>1
      <4>2. CASE e # t
        BY <1>b, <2>5, <3>2, <3>3, <4>2 DEF BreakerInv, Owing
      <4> QED
        BY <4>1, <4>2
    <3>6. \A e \in Domains : rest'[e] >= rest[e] \/ rest'[e] >= Hold
      BY <2>3, <2>5, <3>2, TimeAssumption
    <3> QED
      BY <3>1, <3>2, <3>4, <3>5, <3>6
  <2> HIDE DEF n
  <2>6. ASSUME NEW g \in Fallbacks, held[g], target'[g] = target[g], age'[g] = age[g],
               mode'[g] = mode[g],
               \A e \in Domains : rest'[e] >= rest[e] \/ rest'[e] >= Hold,
               rest'[t] = CooldownOf(n), healthy' = healthy \ {t}
        PROVE  /\ mode'[g] = "ws"
               /\ \/ target'[g] \in healthy'
                  \/ rest'[target'[g]] + age'[g] >= Hold
    <3>1. mode[g] = "ws" /\ target[g] \in Domains /\ age[g] \in Nat
      BY <1>0, <2>6, TimeAssumption DEF BreakerInv, HoldCovers, TypeOK, DialTypes
    <3>2. rest'[target[g]] \in Nat /\ rest[target[g]] \in Nat
      BY <1>0, <1>b, <3>1, TimeAssumption DEF TypeOK, Types
    <3>3. CASE target[g] = t
      BY <2>3, <2>6, <3>1, <3>2, <3>3, TimeAssumption
    <3>4. CASE target[g] # t
      BY <2>6, <3>1, <3>2, <3>4, TimeAssumption DEF BreakerInv, HoldCovers
    <3> QED
      BY <3>3, <3>4
  <2>7. CASE ReportFailure(t, rest, stamped) /\ EndFallback(f)
    <3>1. /\ OutNoLongerThanEarned' /\ Owing'
          /\ \A e \in Domains : rest'[e] >= rest[e] \/ rest'[e] >= Hold
          /\ rest'[t] = CooldownOf(n) /\ healthy' = healthy \ {t}
      BY <1>0, <1>b, <2>5, <2>7 DEF TypeOK, Types
    <3>2. ReservedDialsSpaced'
      BY <2>7, EndSpaced
    <3>3. HoldCovers'
      <4> SUFFICES ASSUME NEW g \in Fallbacks, held'[g]
                   PROVE  /\ mode'[g] = "ws"
                          /\ \/ target'[g] \in healthy'
                             \/ rest'[target'[g]] + age'[g] >= Hold
        BY DEF HoldCovers
      <4>1. held[g] /\ target'[g] = target[g] /\ age'[g] = age[g] /\ mode'[g] = mode[g]
        BY <1>0, <2>7 DEF EndFallback, TypeOK, DialTypes
      <4> QED
        BY <2>6, <3>1, <4>1
    <3> QED
      BY <1>0, <2>4, <3>1, <3>2, <3>3 DEF BreakerInv
  <2>8. ASSUME NEW d \in Domains,
               GoesOn(f, "ws", left[f], attempts[f], d),
               ReportFailure(t, UntilReserved("ws", d), KeysReserved("ws", d)),
               UNCHANGED <<mode, dcOf>>
        PROVE  BreakerInv'
    <3> DEFINE u == UntilReserved("ws", d)
    <3>1. Drawn(f, "ws", d)
      BY <2>8, DrawnFact
    <3>2. u \in [Domains -> 0 .. MaxCooldown]
      BY <1>0, ReserveTypes
    <3>3. \A e \in Domains : /\ u[e] >= rest[e]
                             /\ u[e] # rest[e] => u[e] = Hold /\ e \notin healthy
      BY <1>0, <1>b, <3>1, TimeAssumption
      DEF UntilReserved, Reserves, Drawn, Available, TypeOK, Types
    <3>4. Reserves("ws", d) => u[d] = Hold
      BY <1>0 DEF UntilReserved, TypeOK, Types
    <3> HIDE DEF u
    <3>5. /\ OutNoLongerThanEarned' /\ Owing'
          /\ \A e \in Domains : rest'[e] >= rest[e] \/ rest'[e] >= Hold
          /\ \A e \in Domains : e # t => rest'[e] = u[e]
          /\ rest'[t] = CooldownOf(n) /\ healthy' = healthy \ {t}
      BY <2>5, <2>8, <3>2, <3>3 DEF u
    <3>6. ReservedDialsSpaced'
      BY <1>0, <3>1, DrawnSpaced
    <3>7. HoldCovers'
      <4> SUFFICES ASSUME NEW g \in Fallbacks, held'[g]
                   PROVE  /\ mode'[g] = "ws"
                          /\ \/ target'[g] \in healthy'
                             \/ rest'[target'[g]] + age'[g] >= Hold
        BY DEF HoldCovers
      <4>1. CASE g # f
        <5>1. held[g] /\ target'[g] = target[g] /\ age'[g] = age[g] /\ mode'[g] = mode[g]
          BY <1>0, <2>8, <3>1, <4>1 DEF Drawn, TypeOK, DialTypes
        <5> QED
          BY <2>6, <3>5, <5>1
      <4>2. CASE g = f
        <5>1. target'[g] = d /\ Reserves("ws", d) /\ age'[g] = 0
          BY <1>0, <3>1, <4>2 DEF Drawn, TypeOK, DialTypes
        <5>2. rest'[d] >= Hold
          BY <2>3, <3>4, <3>5, <5>1, TimeAssumption
        <5>3. rest'[d] \in Nat
          BY <1>0, TimeAssumption DEF TypeOK, Types
        <5> QED
          BY <2>1, <2>8, <4>2, <5>1, <5>2, <5>3, TimeAssumption
      <4> QED
        BY <4>1, <4>2
    <3> QED
      BY <1>0, <2>4, <3>5, <3>6, <3>7 DEF BreakerInv
  <2> QED
    BY <1>2, <2>7, <2>8 DEF DialFails
<1>3. ASSUME NEW f \in Fallbacks, DialSucceeds(f)
      PROVE  BreakerInv'
  <2> DEFINE t == target[f]
  <2>1. t \in Domains
    BY <1>0, <1>3 DEF DialSucceeds, TypeOK, DialTypes
  <2>2. /\ rest'[t] = 0 /\ failures'[t] = 0 /\ owed'[t] = 0
        /\ healthy' = healthy \cup {t}
        /\ \A e \in Domains : e # t => /\ rest'[e] = rest[e]
                                       /\ failures'[e] = failures[e]
                                       /\ owed'[e] = owed[e]
        /\ EndFallback(f)
        /\ thread' = thread
    BY <1>0, <1>3, <2>1 DEF DialSucceeds, ReportSuccess, TypeOK, Types, ThreadTypes
  <2> HIDE DEF t
  <2>3. OutNoLongerThanEarned'
    <3> SUFFICES ASSUME NEW e \in Domains
                 PROVE  /\ e \in healthy' => rest'[e] = 0 /\ failures'[e] = 0
                        /\ rest'[e] <= IF failures'[e] = 0 THEN Hold
                                       ELSE CooldownOf(failures'[e])
      BY DEF OutNoLongerThanEarned, CooldownOf
    <3>1. CASE e = t
      BY <2>2, <3>1, TimeAssumption
    <3>2. CASE e # t
      BY <2>2, <3>2 DEF BreakerInv, OutNoLongerThanEarned
    <3> QED
      BY <3>1, <3>2
  <2>4. HoldCovers'
    <3> SUFFICES ASSUME NEW g \in Fallbacks, held'[g]
                 PROVE  /\ mode'[g] = "ws"
                        /\ \/ target'[g] \in healthy'
                           \/ rest'[target'[g]] + age'[g] >= Hold
      BY DEF HoldCovers
    <3>1. held[g] /\ target'[g] = target[g] /\ age'[g] = age[g] /\ mode'[g] = mode[g]
      BY <1>0, <2>2 DEF EndFallback, TypeOK, DialTypes
    <3>2. mode[g] = "ws" /\ target[g] \in Domains
      BY <1>0, <3>1 DEF BreakerInv, HoldCovers, TypeOK, DialTypes
    <3> QED
      BY <2>2, <3>1, <3>2 DEF BreakerInv, HoldCovers
  <2>5. ReservedDialsSpaced'
    BY <2>2, EndSpaced
  <2>6. Owing'
    BY <2>2 DEF BreakerInv, Owing
  <2> QED
    BY <1>0, <2>2, <2>3, <2>4, <2>5, <2>6 DEF BreakerInv
<1>4. ASSUME NEW f \in Fallbacks, H2Skips(f)
      PROVE  BreakerInv'
  <2>1. UNCHANGED <<rest, failures, healthy, thread, owed>>
    BY <1>4 DEF H2Skips
  <2>2. OutNoLongerThanEarned' /\ Owing'
    BY <2>1 DEF BreakerInv, OutNoLongerThanEarned, CooldownOf, Owing
  <2>3. CASE EndFallback(f)
    <3>1. HoldCovers'
      BY <1>0, <2>1, <2>3 DEF BreakerInv, HoldCovers, EndFallback, TypeOK, DialTypes
    <3> QED
      BY <1>0, <2>1, <2>2, <2>3, <3>1, EndSpaced DEF BreakerInv
  <2>4. ASSUME NEW d \in Domains, GoesOn(f, "h2", left[f], attempts[f], d),
               UNCHANGED <<mode, dcOf>>
        PROVE  BreakerInv'
    <3>1. Drawn(f, "h2", d)
      BY <2>4, DrawnFact
    <3>2. ReservedDialsSpaced'
      BY <1>0, <3>1, DrawnSpaced
    <3>3. HoldCovers'
      BY <1>0, <2>1, <2>4, <3>1
      DEF BreakerInv, HoldCovers, Drawn, Reserves, TypeOK, DialTypes
    <3> QED
      BY <1>0, <2>1, <2>2, <3>2, <3>3 DEF BreakerInv
  <2> QED
    BY <1>4, <2>3, <2>4 DEF H2Skips
<1>5. ASSUME NEW f \in Fallbacks, H2Opens(f) \/ Cancelled(f)
      PROVE  BreakerInv'
  <2>1. UNCHANGED <<rest, failures, healthy, thread, owed>> /\ EndFallback(f)
    BY <1>5 DEF H2Opens, Cancelled
  <2>2. OutNoLongerThanEarned' /\ Owing'
    BY <2>1 DEF BreakerInv, OutNoLongerThanEarned, CooldownOf, Owing
  <2>3. HoldCovers'
    BY <1>0, <2>1 DEF BreakerInv, HoldCovers, EndFallback, TypeOK, DialTypes
  <2> QED
    BY <1>0, <2>1, <2>2, <2>3, EndSpaced DEF BreakerInv
<1>6. ~Refresh
  BY DEF BreakerInv, Refresh, InstallCurrent, ReadUntil, StoreUntil, ReadFailures,
         StoreFailures, RefreshDies, PruneHealthy
<1>7. CASE Tick
  <2>1. /\ \A e \in Domains : rest'[e] = Down(rest[e]) /\ owed'[e] = Down(owed[e])
        /\ \A g \in Fallbacks : age'[g] = IF mode[g] = "ws" THEN age[g] + 1 ELSE age[g]
        /\ UNCHANGED <<failures, healthy, mode, target, held, thread>>
    BY <1>7 DEF Tick
  <2>2. OutNoLongerThanEarned'
    <3> SUFFICES ASSUME NEW e \in Domains
                 PROVE  /\ e \in healthy => rest'[e] = 0 /\ failures[e] = 0
                        /\ rest'[e] <= IF failures[e] = 0 THEN Hold ELSE CooldownOf(failures[e])
      BY <2>1 DEF OutNoLongerThanEarned, CooldownOf
    <3>1. failures[e] # 0 => CooldownOf(failures[e]) \in Nat
      BY <1>a, <1>b, TimeAssumption
    <3>2. rest'[e] <= rest[e] /\ (rest[e] = 0 => rest'[e] = 0) /\ rest'[e] \in Nat
      BY <1>b, <2>1 DEF Down
    <3> QED
      BY <1>b, <3>1, <3>2, TimeAssumption DEF BreakerInv, OutNoLongerThanEarned
  <2>3. HoldCovers'
    <3> SUFFICES ASSUME NEW g \in Fallbacks, held[g]
                 PROVE  /\ mode[g] = "ws"
                        /\ \/ target[g] \in healthy
                           \/ rest'[target[g]] + age'[g] >= Hold
      BY <2>1 DEF HoldCovers
    <3>1. mode[g] = "ws" /\ target[g] \in Domains /\ age[g] \in Nat
      BY <1>0, TimeAssumption DEF BreakerInv, HoldCovers, TypeOK, DialTypes
    <3>2. rest'[target[g]] + age'[g] >= rest[target[g]] + age[g]
      BY <1>b, <2>1, <3>1 DEF Down
    <3>3. rest'[target[g]] + age'[g] \in Nat /\ rest[target[g]] \in Nat
      BY <1>b, <2>1, <3>1 DEF Down
    <3> QED
      BY <3>1, <3>2, <3>3, TimeAssumption DEF BreakerInv, HoldCovers
  <2>4. ReservedDialsSpaced'
    <3> SUFFICES ASSUME NEW g \in Fallbacks, NEW h \in Fallbacks, g # h,
                        held[g], held[h], target[g] = target[h]
                 PROVE  \/ age'[g] - age'[h] >= Hold
                        \/ age'[h] - age'[g] >= Hold
      BY <2>1 DEF ReservedDialsSpaced
    <3>1. age'[g] = age[g] + 1 /\ age'[h] = age[h] + 1
      BY <2>1 DEF BreakerInv, HoldCovers
    <3>2. age[g] \in Nat /\ age[h] \in Nat
      BY <1>0, TimeAssumption DEF TypeOK, DialTypes
    <3> QED
      BY <3>1, <3>2, TimeAssumption DEF BreakerInv, ReservedDialsSpaced
  <2>5. Owing'
    BY <1>b, <2>1 DEF BreakerInv, Owing, Down
  <2> QED
    BY <1>0, <2>1, <2>2, <2>3, <2>4, <2>5 DEF BreakerInv
<1>8. CASE UNCHANGED vars
  BY <1>0, <1>8
  DEF vars, BreakerInv, OutNoLongerThanEarned, CooldownOf, HoldCovers, ReservedDialsSpaced, Owing
<1> QED
  BY <1>1, <1>2, <1>3, <1>4, <1>5, <1>6, <1>7, <1>8 DEF Next, Fallback

\* With a pool the user gave, dials that reserved the same front begin at least a
\* hold apart (get_domains_for_dc).
THEOREM BreakerCorrect ==
  ASSUME Pools = {}
  PROVE  Spec => []ReservedDialsSpaced
<1>1. Init => BreakerInv
  BY InitBreaker
<1>2. BreakerInv /\ [Next]_vars => BreakerInv'
  BY StepBreaker
<1>3. BreakerInv => ReservedDialsSpaced
  BY DEF BreakerInv
<1> QED
  BY <1>1, <1>2, <1>3, PTL DEF Spec

\* With a pool the user gave, no front is out for longer than it earned: one that
\* works is available, and a cancelled dial keeps an untried one for a hold only
\* (report_success, report_failure, the reservation of get_domains_for_dc).
THEOREM EarnedCorrect ==
  ASSUME Pools = {}
  PROVE  Spec => []OutNoLongerThanEarned
<1>1. Init => BreakerInv
  BY InitBreaker
<1>2. BreakerInv /\ [Next]_vars => BreakerInv'
  BY StepBreaker
<1>3. BreakerInv => OutNoLongerThanEarned
  BY DEF BreakerInv
<1> QED
  BY <1>1, <1>2, <1>3, PTL DEF Spec

\* With a pool the user gave, no fallback dials a front on cooldown.
THEOREM CooldownCorrect ==
  ASSUME Pools = {}
  PROVE  Spec => CooldownRespected
<1> DEFINE Respected ==
      \A f \in Fallbacks :
        (target'[f] # target[f] /\ target'[f] \in domains) => owed'[target'[f]] = 0
<1>1. Init => BreakerInv
  BY InitBreaker
<1>2. BreakerInv /\ [Next]_vars => BreakerInv'
  BY StepBreaker
<1>3. BreakerInv /\ [Next]_vars => [Respected]_vars
  <2> SUFFICES ASSUME BreakerInv, [Next]_vars PROVE [Respected]_vars
    OBVIOUS
  <2> SUFFICES ASSUME NEW g \in Fallbacks, target'[g] # target[g], target'[g] \in domains
               PROVE  owed'[target'[g]] = 0
    BY DEF vars, dialVars
  <2> USE DEF BreakerInv, TypeOK, Types, DialTypes, ThreadTypes, breakerVars, dialVars, threadVars
  <2>1. \A d \in Domains : Available(d) => owed[d] = 0
    BY TimeAssumption DEF Available, Owing
  <2>2. \A f \in Fallbacks : ~EndFallback(f)
    BY PoolAssumption DEF EndFallback
  <2>3. ASSUME NEW f \in Fallbacks, NEW m \in {"ws", "h2"}, NEW dc \in DCs, NEW d \in Domains,
               Begin(f, m, dc, d)
        PROVE  owed'[target'[g]] = 0
    BY <2>1, <2>3, DrawnFact DEF Begin, Drawn
  <2>4. ASSUME NEW f \in Fallbacks, DialFails(f)
        PROVE  owed'[target'[g]] = 0
    <3>1. PICK d \in Domains :
            /\ GoesOn(f, "ws", left[f], attempts[f], d)
            /\ ReportFailure(target[f], UntilReserved("ws", d), KeysReserved("ws", d))
      BY <2>2, <2>4 DEF DialFails
    <3>2. Drawn(f, "ws", d)
      BY <3>1, DrawnFact
    <3>3. g = f /\ target'[g] = d /\ d # target[f] /\ owed[d] = 0
      BY <2>1, <3>2 DEF Drawn
    <3>4. PICK c : owed' = [owed EXCEPT ![target[f]] = c]
      BY <3>1 DEF ReportFailure
    <3> QED
      BY <3>3, <3>4
  <2>5. ASSUME NEW f \in Fallbacks, H2Skips(f)
        PROVE  owed'[target'[g]] = 0
    BY <2>1, <2>2, <2>5, DrawnFact DEF H2Skips, Drawn
  <2>6. \A f \in Fallbacks : ~DialSucceeds(f) /\ ~H2Opens(f) /\ ~Cancelled(f)
    BY <2>2 DEF DialSucceeds, H2Opens, Cancelled
  <2>7. ~Refresh /\ ~Tick /\ ~UNCHANGED vars
    BY DEF Refresh, InstallPool, InstallCurrent, ReadUntil, StoreUntil, ReadFailures,
           StoreFailures, RefreshDies, PruneHealthy, Tick, vars
  <2> QED
    BY <2>3, <2>4, <2>5, <2>6, <2>7 DEF Next, Fallback
<1>4. Spec => [][Respected]_vars
  <2> HIDE DEF Respected
  <2> QED
    BY <1>1, <1>2, <1>3, PTL DEF Spec
<1> QED
  BY <1>4 DEF CooldownRespected

-----------------------------------------------------------------------------
(***************************************************************************)
(* What the breaker remembers of departed fronts, with a pool that is      *)
(* refreshed.  Once InstallCurrent has noted who still holds a departed    *)
(* front, nobody can reach another: what a fallback holds, and what the    *)
(* program prefers, is kept or noted.  The assignments of the thread then  *)
(* rid the two dictionaries and the set of the rest, one after the other,  *)
(* and what the event loop writes into them meanwhile is kept or noted.    *)
(***************************************************************************)
Kept == domains \cup strays

ReachesKept == (\A f \in Fallbacks : Holding(f) \subseteq Kept) /\ (\A dc \in DCs : current[dc] \in Kept)

ForgetInv ==
  /\ TypeOK
  /\ thread # "current" => ReachesKept
  /\ thread \in {"failures", "failuresStore", "healthy", "wait"} => stamped \subseteq Kept
  /\ thread \in {"healthy", "wait"} => Counted \subseteq Kept
  /\ thread = "wait" => healthy \subseteq Kept

\* A fallback adds only what is kept to what the breaker remembers.
AddsKept ==
  /\ UNCHANGED <<domains, strays, thread>>
  /\ ReachesKept'
  /\ stamped' \subseteq stamped \cup Kept
  /\ Counted' \subseteq Counted \cup Kept
  /\ healthy' \subseteq healthy \cup Kept

LEMMA GoesOnReaches ==
  ASSUME TypeOK, ReachesKept, UNCHANGED <<domains, strays>>, NEW f \in Fallbacks, NEW m,
         NEW d \in Domains, NEW L \in [Tiers -> SUBSET Kept], NEW n, GoesOn(f, m, L, n, d)
  PROVE  d \in Kept /\ \A g \in Fallbacks : Holding(g)' \subseteq Kept
<1>1. PICK i \in Tiers, skipped \in SUBSET Kept :
        /\ d \in L[i]
        /\ left' = [left EXCEPT ![f] =
                     [j \in Tiers |-> IF j < i THEN {}
                                      ELSE IF j = i THEN L[i] \ (skipped \cup {d})
                                      ELSE L[j]]]
  BY DEF GoesOn
<1>2. d \in Kept
  BY <1>1
<1>3. target' = [target EXCEPT ![f] = d]
  BY DEF GoesOn
<1>4. \A j \in Tiers : left'[f][j] \subseteq Kept
  BY <1>1 DEF TypeOK, DialTypes
<1>5. \A g \in Fallbacks \ {f} : left'[g] = left[g] /\ target'[g] = target[g]
  BY <1>1, <1>3 DEF TypeOK, DialTypes
<1>6. target'[f] = d
  BY <1>3 DEF TypeOK, DialTypes
<1>7. Holding(f)' \subseteq Kept
  BY <1>2, <1>4, <1>6 DEF Holding
<1>8. ASSUME NEW g \in Fallbacks \ {f} PROVE Holding(g)' \subseteq Kept
  BY <1>5 DEF Holding, ReachesKept
<1> QED
  BY <1>2, <1>7, <1>8

LEMMA EndReaches ==
  ASSUME TypeOK, ReachesKept, UNCHANGED <<domains, strays>>, NEW f \in Fallbacks, EndFallback(f)
  PROVE  \A g \in Fallbacks : Holding(g)' \subseteq Kept
<1>1. \A g \in Fallbacks \ {f} : left'[g] = left[g] /\ target'[g] = target[g]
  BY DEF EndFallback, TypeOK, DialTypes
<1>2. target'[f] = None /\ \A i \in Tiers : left'[f][i] = {}
  BY DEF EndFallback, TypeOK, DialTypes
<1>3. Holding(f)' = {}
  BY <1>2, PoolAssumption DEF Holding
<1> QED
  BY <1>1, <1>3 DEF Holding, ReachesKept

LEMMA FallbackAddsKept ==
  ASSUME TypeOK, ReachesKept, NEW f \in Fallbacks, Fallback(f)
  PROVE  AddsKept
<1> USE DEF breakerVars, threadVars
<1>0. UNCHANGED <<domains, strays, thread>>
  BY DEF Fallback, Begin, DialFails, DialSucceeds, H2Skips, H2Opens, Cancelled
<1>1. ASSUME mode[f] # "idle"
      PROVE  /\ target[f] \in Domains \cap Kept
             /\ left[f] \in [Tiers -> SUBSET Kept]
  <2>1. target[f] \in Domains /\ left[f] \in [Tiers -> SUBSET Domains]
    BY <1>1 DEF TypeOK, DialTypes
  <2>2. target[f] \in Holding(f) /\ \A i \in Tiers : left[f][i] \subseteq Holding(f)
    BY <2>1 DEF Holding
  <2> QED
    BY <2>1, <2>2 DEF ReachesKept
<1>2. ASSUME UNCHANGED <<current, stamped, failures, healthy>>,
             \A g \in Fallbacks : Holding(g)' \subseteq Kept
      PROVE  AddsKept
  BY <1>0, <1>2 DEF AddsKept, ReachesKept, Kept, Counted
<1>3. ASSUME NEW m \in {"ws", "h2"}, NEW dc \in DCs, NEW d \in Domains, Begin(f, m, dc, d)
      PROVE  AddsKept
  <2>1. Candidates(dc) \in [Tiers -> SUBSET Kept]
    BY DEF Candidates, Tiers, ReachesKept, Kept
  <2>2. d \in Kept /\ \A g \in Fallbacks : Holding(g)' \subseteq Kept
    BY <1>0, <1>3, <2>1, GoesOnReaches DEF Begin
  <2>3. /\ stamped' \subseteq stamped \cup {d}
        /\ UNCHANGED <<current, failures, healthy>>
    BY <1>3 DEF Begin, KeysReserved
  <2> QED
    BY <1>0, <2>2, <2>3 DEF AddsKept, ReachesKept, Kept, Counted
<1>4. CASE DialFails(f)
  <2>0. mode[f] # "idle" /\ UNCHANGED current
    BY <1>4 DEF DialFails
  <2>1. ASSUME NEW u, NEW k, k \subseteq stamped \cup Kept, ReportFailure(target[f], u, k),
               \A g \in Fallbacks : Holding(g)' \subseteq Kept
        PROVE  AddsKept
    <3>1. /\ \A e \in Domains \ {target[f]} : failures'[e] = failures[e]
          /\ healthy' \subseteq healthy
          /\ stamped' = k \cup {target[f]}
      BY <2>1 DEF ReportFailure, TypeOK, Types
    <3>2. Counted' \subseteq Counted \cup {target[f]}
      BY <3>1 DEF Counted
    <3> QED
      BY <1>0, <1>1, <2>0, <2>1, <3>1, <3>2 DEF AddsKept, ReachesKept, Kept
  <2>2. CASE ReportFailure(target[f], rest, stamped) /\ EndFallback(f)
    BY <1>0, <2>1, <2>2, EndReaches
  <2>3. ASSUME NEW d \in Domains, GoesOn(f, "ws", left[f], attempts[f], d),
               ReportFailure(target[f], UntilReserved("ws", d), KeysReserved("ws", d))
        PROVE  AddsKept
    <3>1. d \in Kept /\ \A g \in Fallbacks : Holding(g)' \subseteq Kept
      BY <1>0, <1>1, <2>0, <2>3, GoesOnReaches
    <3>2. KeysReserved("ws", d) \subseteq stamped \cup Kept
      BY <3>1 DEF KeysReserved
    <3> QED
      BY <2>1, <2>3, <3>1, <3>2
  <2> QED
    BY <1>4, <2>2, <2>3 DEF DialFails
<1>5. CASE DialSucceeds(f)
  <2>1. /\ target[f] \in Domains \cap Kept
        /\ \A g \in Fallbacks : Holding(g)' \subseteq Kept
    BY <1>0, <1>1, <1>5, EndReaches DEF DialSucceeds
  <2>2. \A dc \in DCs : current'[dc] \in {current[dc], target[f]}
    BY <1>5 DEF DialSucceeds, TypeOK, Types
  <2>3. /\ stamped' \subseteq stamped
        /\ healthy' = healthy \cup {target[f]}
        /\ Counted' \subseteq Counted
    BY <1>5 DEF DialSucceeds, ReportSuccess, Counted, TypeOK, Types
  <2> QED
    BY <1>0, <2>1, <2>2, <2>3 DEF AddsKept, ReachesKept, Kept
<1>6. CASE H2Skips(f)
  <2>1. ASSUME NEW d \in Domains, GoesOn(f, "h2", left[f], attempts[f], d)
        PROVE  \A g \in Fallbacks : Holding(g)' \subseteq Kept
    BY <1>0, <1>1, <1>6, <2>1, GoesOnReaches DEF H2Skips
  <2>2. \A g \in Fallbacks : Holding(g)' \subseteq Kept
    BY <1>0, <1>6, <2>1, EndReaches DEF H2Skips
  <2> QED
    BY <1>2, <1>6, <2>2 DEF H2Skips
<1>7. CASE H2Opens(f)
  <2>1. /\ target[f] \in Domains \cap Kept
        /\ \A g \in Fallbacks : Holding(g)' \subseteq Kept
    BY <1>0, <1>1, <1>7, EndReaches DEF H2Opens
  <2>2. \A dc \in DCs : current'[dc] \in {current[dc], target[f]}
    BY <1>7 DEF H2Opens, TypeOK, Types
  <2> QED
    BY <1>0, <1>7, <2>1, <2>2 DEF H2Opens, AddsKept, ReachesKept, Kept, Counted
<1>8. CASE Cancelled(f)
  BY <1>0, <1>2, <1>8, EndReaches DEF Cancelled
<1> QED
  BY <1>3, <1>4, <1>5, <1>6, <1>7, <1>8 DEF Fallback

LEMMA StepForgets == ForgetInv /\ [Next]_vars => ForgetInv'
<1> SUFFICES ASSUME ForgetInv, [Next]_vars PROVE ForgetInv'
  OBVIOUS
<1> USE DEF breakerVars, dialVars, threadVars
<1>0. TypeOK /\ TypeOK'
  BY StepTypes DEF ForgetInv
<1>1. ASSUME NEW f \in Fallbacks, Fallback(f) PROVE ForgetInv'
  <2>1. CASE thread = "current"
    <3>1. thread' = "current"
      BY <1>1, <2>1 DEF Fallback, Begin, DialFails, DialSucceeds, H2Skips, H2Opens, Cancelled
    <3> QED
      BY <1>0, <3>1 DEF ForgetInv
  <2>2. CASE thread # "current"
    <3>1. AddsKept
      BY <1>0, <1>1, <2>2, FallbackAddsKept DEF ForgetInv
    <3>2. Kept' = Kept
      BY <3>1 DEF AddsKept, Kept
    <3> QED
      BY <1>0, <3>1, <3>2 DEF ForgetInv, AddsKept
  <2> QED
    BY <2>1, <2>2
\* What the breaker remembers, and what is reached, is as it was.
<1>2. ASSUME UNCHANGED <<domains, strays, current, left, target, stamped, failures, healthy>>
      PROVE  Kept' = Kept /\ ReachesKept' = ReachesKept /\ Counted' = Counted
  BY <1>2 DEF Kept, ReachesKept, Holding, Counted
<1>3. ASSUME NEW P \in Pools, InstallPool(P) PROVE ForgetInv'
  BY <1>0, <1>3 DEF InstallPool, ForgetInv
<1>4. CASE InstallCurrent
  <2>1. ReachesKept'
    BY <1>4 DEF InstallCurrent, ReachesKept, Kept, Holding
  <2> QED
    BY <1>0, <1>4, <2>1 DEF InstallCurrent, ForgetInv
<1>5. CASE ReadUntil \/ ReadFailures \/ RefreshDies
  <2>1. UNCHANGED <<domains, strays, current, left, target, stamped, failures, healthy>>
    BY <1>5 DEF ReadUntil, ReadFailures, RefreshDies
  <2>2. \/ thread = "until" /\ thread' = "untilStore"
        \/ thread = "failures" /\ thread' = "failuresStore"
        \/ thread \in {"untilStore", "failuresStore"} /\ thread' = "dead"
    BY <1>5 DEF ReadUntil, ReadFailures, RefreshDies
  <2> QED
    BY <1>0, <1>2, <2>1, <2>2 DEF ForgetInv
<1>6. CASE StoreUntil
  <2>1. stamped' \subseteq domains
    BY <1>6 DEF StoreUntil, KeysRead
  <2>2. thread = "untilStore" /\ thread' = "failures"
          /\ UNCHANGED <<domains, strays, current, left, target>>
    BY <1>6 DEF StoreUntil
  <2>3. Kept' = Kept /\ ReachesKept' = ReachesKept
    BY <2>2 DEF Kept, ReachesKept, Holding
  <2> QED
    BY <1>0, <2>1, <2>2, <2>3 DEF ForgetInv, Kept
<1>7. CASE StoreFailures
  <2>1. Counted' \subseteq domains
    BY <1>7 DEF StoreFailures, ValuesRead, Counted
  <2>2. thread = "failuresStore" /\ thread' = "healthy"
          /\ UNCHANGED <<domains, strays, current, left, target, stamped>>
    BY <1>7 DEF StoreFailures
  <2>3. Kept' = Kept /\ ReachesKept' = ReachesKept
    BY <2>2 DEF Kept, ReachesKept, Holding
  <2> QED
    BY <1>0, <2>1, <2>2, <2>3 DEF ForgetInv, Kept
<1>8. CASE PruneHealthy
  <2>1. thread = "healthy" /\ thread' = "wait" /\ healthy' \subseteq domains
          /\ UNCHANGED <<domains, strays, current, left, target, stamped, failures>>
    BY <1>8 DEF PruneHealthy
  <2>2. Kept' = Kept /\ ReachesKept' = ReachesKept /\ Counted' = Counted
    BY <2>1 DEF Kept, ReachesKept, Holding, Counted
  <2> QED
    BY <1>0, <2>1, <2>2 DEF ForgetInv, Kept
<1>9. CASE Tick \/ UNCHANGED vars
  <2>1. UNCHANGED <<domains, strays, current, left, target, stamped, failures, healthy, thread>>
    BY <1>9 DEF Tick, vars
  <2> QED
    BY <1>0, <1>2, <2>1 DEF ForgetInv
<1> QED
  BY <1>1, <1>3, <1>4, <1>5, <1>6, <1>7, <1>8, <1>9 DEF Next, Refresh

(***************************************************************************)
(* After a refresh the breaker remembers a departed front only if a        *)
(* fallback still held it when the pool changed (update_domains_list),     *)
(* whatever the event loop reports between the assignments of the thread.  *)
(***************************************************************************)
THEOREM ForgetCorrect == Spec => []DepartedForgotten
<1>1. Init => ForgetInv
  <2> SUFFICES ASSUME Init PROVE ForgetInv
    OBVIOUS
  <2>1. TypeOK
    BY InitTypes
  <2>2. stamped = {} /\ Counted = {} /\ healthy = {}
    BY DEF Init, Counted
  <2>3. \A f \in Fallbacks : Holding(f) = {}
    BY PoolAssumption DEF Init, Holding
  <2>4. \A dc \in DCs : current[dc] \in domains
    BY DEF Init
  <2> QED
    BY <2>1, <2>2, <2>3, <2>4 DEF ForgetInv, ReachesKept, Kept
<1>2. ForgetInv => DepartedForgotten
  BY DEF ForgetInv, DepartedForgotten, Kept
<1> QED
  BY <1>1, <1>2, StepForgets, PTL DEF Spec
=============================================================================
