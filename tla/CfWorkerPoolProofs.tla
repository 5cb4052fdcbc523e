------------------------- MODULE CfWorkerPoolProofs -------------------------
(***************************************************************************)
(* What holds of the worker breaker for any workers, sessions and times.   *)
(***************************************************************************)
EXTENDS CfWorkerPool, TLAPS

\* A step of the ladder is a rest, no shorter than its base.
LEMMA CooldownBounds ==
  ASSUME NEW n \in 1 .. BackoffSteps, NEW base \in {FailureCooldown, QuotaCooldown}
  PROVE  /\ CooldownOf(base, n) \in 0 .. CooldownMax
         /\ base <= CooldownOf(base, n)
         /\ CooldownOf(base, n) <= CooldownOf(QuotaCooldown, n)
<1>1. PICK k \in Nat \ {0} : k = 2 ^ (n - 1)
  BY LadderAssumption
<1>2. base * k \in Nat /\ base <= base * k /\ base * k <= QuotaCooldown * k
  BY TimeAssumption
<1>3. QuotaCooldown * k \in Nat
  BY TimeAssumption
<1>4. /\ CooldownOf(base, n) = Lesser(base * k, CooldownMax)
      /\ CooldownOf(QuotaCooldown, n) = Lesser(QuotaCooldown * k, CooldownMax)
  BY <1>1 DEF CooldownOf
<1> QED
  BY <1>2, <1>3, <1>4, TimeAssumption DEF Lesser

\* A further failure never earns less.
LEMMA LadderGrows ==
  ASSUME NEW n \in 1 .. BackoffSteps, NEW m \in 1 .. n
  PROVE  CooldownOf(QuotaCooldown, m) <= CooldownOf(QuotaCooldown, n)
<1>0. m \in 1 .. BackoffSteps
  BY TimeAssumption
<1>1. PICK k \in Nat, j \in Nat : k = 2 ^ (n - 1) /\ j = 2 ^ (m - 1) /\ j <= k
  BY <1>0, LadderAssumption
<1>2. QuotaCooldown * j <= QuotaCooldown * k /\ QuotaCooldown * j \in Nat /\ QuotaCooldown * k \in Nat
  BY <1>1, TimeAssumption
<1> QED
  BY <1>1, <1>2, TimeAssumption DEF CooldownOf, Lesser

LEMMA RefillBackoffBounds ==
  ASSUME NEW n \in Nat \ {0}
  PROVE  RefillBackoff(n) \in 0 .. RefillMax
<1>1. Lesser(n, RefillSteps) \in 1 .. RefillSteps
  BY TimeAssumption DEF Lesser
<1>2. PICK k \in Nat \ {0} : k = 2 ^ (Lesser(n, RefillSteps) - 1)
  BY <1>1, RefillAssumption
<1>3. RefillInitial * k \in Nat
  BY TimeAssumption
<1> QED
  BY <1>2, <1>3, TimeAssumption DEF RefillBackoff, Lesser

\* What the failure of a worker does to the breaker: it climbs, it pauses for
\* the host's own network, or nothing.
FailureEffect(w) ==
  \/ \E base \in {FailureCooldown, QuotaCooldown} :
       (base = QuotaCooldown \/ rest[w] = 0) /\ Climbs(w, base)
  \/ Rests(w, Greater(rest[w], LocalAbort)) /\ UNCHANGED failures
  \/ UNCHANGED breakerVars

LEMMA Effects ==
  ASSUME NEW w, NEW kind, ReportFailure(w, kind)
  PROVE  FailureEffect(w)
BY DEF ReportFailure, FailureEffect

LEMMA FailureTypes ==
  ASSUME TypeOK, NEW w \in Workers, FailureEffect(w)
  PROVE  /\ rest' \in [Workers -> 0 .. CooldownMax]
         /\ failures' \in [Workers -> 0 .. BackoffSteps]
<1>1. CASE UNCHANGED breakerVars
  BY <1>1 DEF breakerVars, TypeOK
<1>2. CASE Rests(w, Greater(rest[w], LocalAbort)) /\ UNCHANGED failures
  <2>1. Greater(rest[w], LocalAbort) \in 0 .. CooldownMax
    BY TimeAssumption DEF Greater, TypeOK
  <2> QED
    BY <1>2, <2>1 DEF Rests, TypeOK
<1>3. ASSUME NEW base \in {FailureCooldown, QuotaCooldown}, Climbs(w, base)
      PROVE  /\ rest' \in [Workers -> 0 .. CooldownMax]
                 /\ failures' \in [Workers -> 0 .. BackoffSteps]
  <2> DEFINE n == Lesser(failures[w] + 1, BackoffSteps)
  <2>1. n \in 1 .. BackoffSteps
    BY TimeAssumption DEF TypeOK, Lesser
  <2>2. CooldownOf(base, n) \in 0 .. CooldownMax
    BY <2>1, CooldownBounds
  <2>3. failures' = [failures EXCEPT ![w] = n] /\ Rests(w, CooldownOf(base, n))
    BY <1>3 DEF Climbs
  <2> HIDE DEF n
  <2> QED
    BY <2>1, <2>2, <2>3 DEF Rests, TypeOK
<1> QED
  BY <1>1, <1>2, <1>3 DEF FailureEffect

-----------------------------------------------------------------------------
(***************************************************************************)
(* Types.                                                                  *)
(***************************************************************************)
BreakerTypes ==
  /\ rest \in [Workers -> 0 .. CooldownMax]
  /\ failures \in [Workers -> 0 .. BackoffSteps]

BucketTypes == idle \in [DCs -> Workers \cup {None}] /\ stale \in [DCs -> BOOLEAN]

RefillTypes ==
  /\ refillFailures \in [DCs -> 0 .. RefillSteps]
  /\ backoff \in [DCs -> 0 .. RefillMax]

DialTypes ==
  /\ refill \in [DCs -> {"none", "new", "run"}]
  /\ list \in [Diallers -> SUBSET Workers]
  /\ target \in [Diallers -> Workers \cup {None}]
  /\ \A dc \in DCs : (refill[dc] = "run") = (target[dc] # None)

LEMMA TypeParts ==
  TypeOK <=> BreakerTypes /\ BucketTypes /\ RefillTypes /\ DialTypes /\ network \in BOOLEAN
BY DEF TypeOK, BreakerTypes, BucketTypes, RefillTypes, DialTypes

LEMMA InitTypes == Init => TypeOK
<1> SUFFICES ASSUME Init PROVE TypeOK
  OBVIOUS
<1>1. 0 \in 0 .. CooldownMax /\ 0 \in 0 .. BackoffSteps /\ 0 \in 0 .. RefillSteps /\ 0 \in 0 .. RefillMax
  BY TimeAssumption
<1> QED
  BY <1>1 DEF Init, TypeOK, Diallers

\* A client's dial leaves the refills alone.
LEMMA ClientDials ==
  ASSUME TypeOK, NEW c \in Clients, NEW W \in SUBSET Workers, DialsNext(c, W) \/ Stops(c),
         UNCHANGED refill \/ \E dc \in DCs : ScheduleRefill(dc)
  PROVE  DialTypes'
<1>1. c \in Diallers /\ \A dc \in DCs : dc \in Diallers /\ dc # c
  BY NameAssumption DEF Diallers
<1>2. /\ list' \in [Diallers -> SUBSET Workers]
      /\ target' \in [Diallers -> Workers \cup {None}]
      /\ \A dc \in DCs : target'[dc] = target[dc]
  BY <1>1 DEF DialsNext, Stops, TypeOK
<1>3. /\ refill' \in [DCs -> {"none", "new", "run"}]
      /\ \A dc \in DCs : (refill'[dc] = "run") = (refill[dc] = "run")
  BY DEF ScheduleRefill, TypeOK
<1> QED
  BY <1>2, <1>3 DEF DialTypes, TypeOK

\* A refill's dial: its control says whether it has a target.
LEMMA RefillDials ==
  ASSUME TypeOK, NEW dc \in DCs,
         \/ \E W \in SUBSET Workers : DialsNext(dc, W) /\ refill' = [refill EXCEPT ![dc] = "run"]
         \/ Stops(dc) /\ refill' = [refill EXCEPT ![dc] = "none"]
  PROVE  DialTypes'
<1>1. dc \in Diallers /\ DCs \subseteq Diallers
  BY DEF Diallers
<1>2. CASE \E W \in SUBSET Workers : DialsNext(dc, W) /\ refill' = [refill EXCEPT ![dc] = "run"]
  BY <1>1, <1>2, NameAssumption DEF DialsNext, TypeOK, DialTypes
<1>3. CASE Stops(dc) /\ refill' = [refill EXCEPT ![dc] = "none"]
  BY <1>1, <1>3, NameAssumption DEF Stops, TypeOK, DialTypes
<1> QED
  BY <1>2, <1>3

LEMMA SuccessTypes ==
  ASSUME TypeOK, NEW w \in Workers, ReportSuccess(w)
  PROVE  BreakerTypes'
<1>1. 0 \in 0 .. CooldownMax /\ 0 \in 0 .. BackoffSteps
  BY TimeAssumption
<1> QED
  BY <1>1 DEF ReportSuccess, TypeOK, BreakerTypes

LEMMA AskTypes ==
  ASSUME TypeOK, NEW c \in Clients, NEW dc \in DCs, Hit(c, dc) \/ Miss(c, dc)
  PROVE  TypeOK'
<1>1. CASE Hit(c, dc)
  <2>1. BreakerTypes'
    BY <1>1, SuccessTypes DEF Hit, TypeOK
  <2>2. BucketTypes' /\ RefillTypes' /\ network' \in BOOLEAN
    BY <1>1 DEF Hit, TypeOK, BucketTypes, RefillTypes
  <2>3. /\ refill' \in [DCs -> {"none", "new", "run"}]
        /\ \A d \in DCs : (refill'[d] = "run") = (refill[d] = "run")
    BY <1>1 DEF Hit, ScheduleRefill, TypeOK
  <2>4. DialTypes'
    BY <1>1, <2>3 DEF Hit, dialVars, TypeOK, DialTypes
  <2> QED
    BY <2>1, <2>2, <2>4, TypeParts DEF TypeOK, BreakerTypes, BucketTypes, RefillTypes, DialTypes
<1>2. CASE Miss(c, dc)
  <2>1. DialTypes'
    BY <1>2, ClientDials DEF Miss, Available
  <2>2. BreakerTypes' /\ BucketTypes' /\ RefillTypes' /\ network' \in BOOLEAN
    BY <1>2 DEF Miss, breakerVars, TypeOK, BreakerTypes, BucketTypes, RefillTypes
  <2> QED
    BY <2>1, <2>2 DEF TypeOK, BreakerTypes, BucketTypes, RefillTypes, DialTypes
<1> QED
  BY <1>1, <1>2

LEMMA SessionTypes ==
  ASSUME TypeOK, NEW c \in Clients, Session(c)
  PROVE  TypeOK'
<1>0. c \in Diallers
  BY DEF Diallers
<1>1. DialTypes'
  <2>1. UNCHANGED refill
    BY DEF Session, TestSession, DialSucceeds, DialFails, Cancelled, refillVars
  <2>2. Available \in SUBSET Workers /\ list[c] \in SUBSET Workers
    BY <1>0 DEF Available, TypeOK
  <2>3. \E W \in SUBSET Workers : DialsNext(c, W) \/ Stops(c)
    BY <2>2 DEF Session, TestSession, DialSucceeds, DialFails, Cancelled
  <2> QED
    BY <2>1, <2>3, ClientDials
<1>2. BucketTypes' /\ RefillTypes' /\ network' \in BOOLEAN
  BY DEF Session, TestSession, DialSucceeds, DialFails, Cancelled, bucketVars, refillVars,
         TypeOK, BucketTypes, RefillTypes
<1>3. target[c] # None => target[c] \in Workers
  BY <1>0 DEF TypeOK
<1>4. BreakerTypes'
  <2>1. CASE DialSucceeds(c)
    BY <1>3, <2>1, SuccessTypes DEF DialSucceeds
  <2>2. CASE \E kind \in Kinds : DialFails(c, kind)
    BY <1>3, <2>2, Effects, FailureTypes DEF DialFails, BreakerTypes
  <2>3. CASE TestSession(c) \/ Cancelled(c)
    BY <2>3 DEF TestSession, Cancelled, breakerVars, TypeOK, BreakerTypes
  <2> QED
    BY <2>1, <2>2, <2>3 DEF Session
<1> QED
  BY <1>1, <1>2, <1>4 DEF TypeOK, BreakerTypes, BucketTypes, RefillTypes, DialTypes

LEMMA RefillStepTypes ==
  ASSUME TypeOK, NEW dc \in DCs, Refill(dc)
  PROVE  TypeOK'
<1>0. dc \in Diallers
  BY DEF Diallers
<1> USE DEF BreakerTypes, BucketTypes, RefillTypes
<1>1. CASE NothingToDial(dc)
  <2>1. DialTypes'
    BY <1>1 DEF NothingToDial, dialVars, TypeOK, DialTypes
  <2> QED
    BY <1>1, <2>1 DEF NothingToDial, breakerVars, bucketVars, TypeOK, DialTypes
<1>2. CASE StartRefill(dc)
  <2>1. DialTypes'
    BY <1>2, RefillDials DEF StartRefill, Available
  <2> QED
    BY <1>2, <2>1 DEF StartRefill, breakerVars, bucketVars, TypeOK, DialTypes
<1>3. CASE \E kind \in Kinds : RefillFails(dc, kind)
  <2>1. PICK kind \in Kinds : RefillFails(dc, kind)
    BY <1>3
  <2>2. target[dc] \in Workers
    BY <1>0, <2>1 DEF RefillFails, TypeOK
  <2>3. BreakerTypes'
    BY <2>1, <2>2, Effects, FailureTypes DEF RefillFails
  <2>4. CASE DialsNext(dc, list[dc]) /\ UNCHANGED refillVars
    <3>1. list[dc] \in SUBSET Workers /\ refill' = [refill EXCEPT ![dc] = "run"]
      BY <1>0, <2>1, <2>4 DEF RefillFails, refillVars, TypeOK
    <3>2. DialTypes'
      BY <2>4, <3>1, RefillDials
    <3> QED
      BY <2>1, <2>3, <2>4, <3>2 DEF RefillFails, bucketVars, refillVars, TypeOK, DialTypes
  <2>5. CASE /\ Stops(dc) /\ refill' = [refill EXCEPT ![dc] = "none"]
             /\ refillFailures' = [refillFailures EXCEPT ![dc] = Lesser(@ + 1, RefillSteps)]
             /\ backoff' = [backoff EXCEPT ![dc] = RefillBackoff(refillFailures[dc] + 1)]
    <3>1. UNCHANGED <<bucketVars, network>>
      BY <2>1 DEF RefillFails
    <3>2. DialTypes'
      BY <2>5, RefillDials
    <3>3. /\ Lesser(refillFailures[dc] + 1, RefillSteps) \in 0 .. RefillSteps
          /\ refillFailures[dc] + 1 \in Nat \ {0}
      BY TimeAssumption DEF TypeOK, Lesser
    <3>4. RefillBackoff(refillFailures[dc] + 1) \in 0 .. RefillMax
      BY <3>3, RefillBackoffBounds
    <3>5. RefillTypes'
      BY <2>5, <3>3, <3>4 DEF TypeOK
    <3> QED
      BY <2>3, <3>1, <3>2, <3>5 DEF bucketVars, TypeOK, DialTypes
  <2> QED
    BY <2>1, <2>4, <2>5 DEF RefillFails
<1>4. CASE RefillSucceeds(dc)
  <2>1. target[dc] \in Workers
    BY <1>0, <1>4 DEF RefillSucceeds, TypeOK
  <2>2. DialTypes'
    BY <1>4, RefillDials DEF RefillSucceeds
  <2>3. 0 \in 0 .. CooldownMax /\ 0 \in 0 .. RefillSteps /\ 0 \in 0 .. RefillMax
    BY TimeAssumption
  <2> QED
    BY <1>4, <2>1, <2>2, <2>3 DEF RefillSucceeds, TypeOK, DialTypes
<1> QED
  BY <1>1, <1>2, <1>3, <1>4 DEF Refill

LEMMA NextTypes == TypeOK /\ [Next]_vars => TypeOK'
<1> SUFFICES ASSUME TypeOK, [Next]_vars PROVE TypeOK'
  OBVIOUS
<1>1. CASE \E dc \in DCs : Asks(dc)
  BY <1>1, AskTypes DEF Asks
<1>2. CASE \E dc \in DCs : Refill(dc)
  BY <1>2, RefillStepTypes
<1>3. CASE \E c \in Clients : Session(c)
  BY <1>3, SessionTypes
<1>4. CASE Restart
  <2>1. 0 \in 0 .. CooldownMax /\ 0 \in 0 .. BackoffSteps /\ 0 \in 0 .. RefillSteps /\ 0 \in 0 .. RefillMax
    BY TimeAssumption
  <2> QED
    BY <1>4, <2>1 DEF Restart, TypeOK, Diallers
<1>5. CASE Tick
  <2>1. \A n \in Nat, B \in Nat : n \in 0 .. B => Down(n) \in 0 .. B
    BY DEF Down
  <2>2. BreakerTypes' /\ backoff' \in [DCs -> 0 .. RefillMax]
    BY <1>5, <2>1, TimeAssumption DEF Tick, TypeOK, BreakerTypes
  <2> QED
    BY <1>5, <2>2 DEF Tick, bucketVars, dialVars, TypeOK, BreakerTypes
<1>6. CASE (\E dc \in DCs : GoesStale(dc)) \/ NetworkChanges \/ UNCHANGED vars
  BY <1>6 DEF GoesStale, NetworkChanges, vars, breakerVars, bucketVars, refillVars, dialVars, TypeOK
<1> QED
  BY <1>1, <1>2, <1>3, <1>4, <1>5, <1>6 DEF Next, Run

\* Types: no worker rests for longer than COOLDOWN_MAX and no failure count
\* leaves its range; a refill has a target exactly while it dials.
THEOREM TypeCorrect == Spec => []TypeOK
BY InitTypes, NextTypes, PTL DEF Spec

-----------------------------------------------------------------------------
(***************************************************************************)
(* Rests.                                                                  *)
(***************************************************************************)
\* What a worker has earned grows with its failures, so a quota failure that
\* lands while the worker rests does not shorten that rest.
LEMMA EffectOnRests ==
  ASSUME TypeOK, RestIsEarned, NEW w \in Workers, FailureEffect(w)
  PROVE  RestIsEarned' /\ \A v \in Workers : rest'[v] >= rest[v]
<1>0. \A v \in Workers : rest[v] \in Nat /\ failures[v] \in 0 .. BackoffSteps
  BY DEF TypeOK
<1>1. CASE UNCHANGED breakerVars
  BY <1>0, <1>1 DEF breakerVars, RestIsEarned
<1>2. CASE Rests(w, Greater(rest[w], LocalAbort)) /\ UNCHANGED failures
  <2>1. \A n \in 1 .. BackoffSteps : LocalAbort <= CooldownOf(QuotaCooldown, n)
                                      /\ CooldownOf(QuotaCooldown, n) \in Nat
    BY CooldownBounds, TimeAssumption
  <2>2. rest' = [rest EXCEPT ![w] = Greater(rest[w], LocalAbort)]
    BY <1>2 DEF Rests
  <2>3. failures[w] # 0 => failures[w] \in 1 .. BackoffSteps
    BY <1>0
  <2>4. Greater(rest[w], LocalAbort) <= IF failures[w] = 0 THEN LocalAbort
                                        ELSE CooldownOf(QuotaCooldown, failures[w])
    BY <1>0, <2>1, <2>3, TimeAssumption DEF RestIsEarned, Greater
  <2>5. RestIsEarned'
    BY <1>2, <2>2, <2>4 DEF RestIsEarned, TypeOK
  <2>6. Greater(rest[w], LocalAbort) >= rest[w]
    BY <1>0, TimeAssumption DEF Greater
  <2> QED
    BY <1>0, <2>2, <2>5, <2>6 DEF TypeOK
<1>3. ASSUME NEW base \in {FailureCooldown, QuotaCooldown}, Climbs(w, base),
             base = QuotaCooldown \/ rest[w] = 0
      PROVE  RestIsEarned' /\ \A v \in Workers : rest'[v] >= rest[v]
  <2> DEFINE n == Lesser(failures[w] + 1, BackoffSteps)
  <2>1. n \in 1 .. BackoffSteps /\ (failures[w] # 0 => failures[w] \in 1 .. n)
    BY <1>0, TimeAssumption DEF Lesser
  <2>2. /\ CooldownOf(base, n) \in Nat /\ base <= CooldownOf(base, n)
        /\ CooldownOf(base, n) <= CooldownOf(QuotaCooldown, n)
    <3> HIDE DEF n
    <3> QED
      BY <2>1, CooldownBounds
  <2>3. failures' = [failures EXCEPT ![w] = n] /\ rest' = [rest EXCEPT ![w] = CooldownOf(base, n)]
    BY <1>3 DEF Climbs, Rests
  <2>4. base = QuotaCooldown => rest[w] <= CooldownOf(base, n)
    <3>1. CASE failures[w] = 0
      BY <1>0, <2>2, <3>1, TimeAssumption DEF RestIsEarned
    <3>2. CASE failures[w] # 0
      <4>1. CooldownOf(QuotaCooldown, failures[w]) <= CooldownOf(QuotaCooldown, n)
        BY <2>1, <3>2, LadderGrows
      <4>2. rest[w] <= CooldownOf(QuotaCooldown, failures[w])
        BY <3>2 DEF RestIsEarned
      <4>3. CooldownOf(QuotaCooldown, failures[w]) \in Nat
        BY <1>0, <2>1, <3>2, CooldownBounds
      <4> HIDE DEF n
      <4> QED
        BY <1>0, <2>2, <4>1, <4>2, <4>3
    <3> QED
      BY <3>1, <3>2
  <2> HIDE DEF n
  <2>5. rest[w] <= CooldownOf(base, n)
    BY <1>3, <2>2, <2>4
  <2>6. RestIsEarned'
    BY <2>1, <2>2, <2>3 DEF RestIsEarned, TypeOK
  <2> QED
    BY <1>0, <2>3, <2>5, <2>6 DEF TypeOK
<1> QED
  BY <1>1, <1>2, <1>3 DEF FailureEffect

RestInv == TypeOK /\ RestIsEarned

\* What a step does to the breaker: a failure, a success, time, a restart.
LEMMA StepsOfTheBreaker ==
  ASSUME TypeOK, Next
  PROVE  \/ \E w \in Workers : FailureEffect(w)
         \/ \E w \in Workers : ReportSuccess(w)
         \/ rest' = [w \in Workers |-> Down(rest[w])] /\ UNCHANGED failures
         \/ rest' = [w \in Workers |-> 0] /\ failures' = [w \in Workers |-> 0]
         \/ UNCHANGED <<rest, failures>>
<1>0. \A x \in Diallers : target[x] # None => target[x] \in Workers
  BY DEF TypeOK
<1>1. CASE \E dc \in DCs : Asks(dc)
  BY <1>1 DEF Asks, Hit, Miss, breakerVars, TypeOK
<1>2. CASE \E dc \in DCs : Refill(dc)
  <2>1. PICK dc \in DCs : Refill(dc)
    BY <1>2
  <2>2. CASE \E kind \in Kinds : RefillFails(dc, kind)
    <3>1. target[dc] \in Workers
      BY <2>2 DEF RefillFails, TypeOK, Diallers
    <3> QED
      BY <2>2, <3>1, Effects DEF RefillFails
  <2>3. CASE NothingToDial(dc) \/ StartRefill(dc) \/ RefillSucceeds(dc)
    BY <2>3 DEF NothingToDial, StartRefill, RefillSucceeds, breakerVars
  <2> QED
    BY <2>1, <2>2, <2>3 DEF Refill
<1>3. CASE \E c \in Clients : Session(c)
  <2>1. PICK c \in Clients : Session(c)
    BY <1>3
  <2>2. target[c] # None => target[c] \in Workers
    BY <1>0 DEF Diallers
  <2>3. CASE \E kind \in Kinds : DialFails(c, kind)
    BY <2>2, <2>3, Effects DEF DialFails
  <2>4. CASE DialSucceeds(c)
    BY <2>2, <2>4 DEF DialSucceeds
  <2>5. CASE TestSession(c) \/ Cancelled(c)
    BY <2>5 DEF TestSession, Cancelled, breakerVars
  <2> QED
    BY <2>1, <2>3, <2>4, <2>5 DEF Session
<1>4. CASE Restart \/ Tick
  BY <1>4 DEF Restart, Tick
<1>5. CASE (\E dc \in DCs : GoesStale(dc)) \/ NetworkChanges
  BY <1>5 DEF GoesStale, NetworkChanges, breakerVars
<1> QED
  BY <1>1, <1>2, <1>3, <1>4, <1>5 DEF Next, Run

\* A failure makes a rest longer only by a step of the quota ladder or to the length
\* of a local abort.
Lengthens(w) ==
  0 < rest[w] /\ rest[w] < rest'[w]
    => rest'[w] \in {LocalAbort} \cup {CooldownOf(QuotaCooldown, n) : n \in 1 .. BackoffSteps}

LEMMA EffectLengthens ==
  ASSUME TypeOK, NEW w \in Workers, FailureEffect(w), NEW v \in Workers
  PROVE  Lengthens(v)
<1>0. \A u \in Workers : rest[u] \in Nat /\ failures[u] \in 0 .. BackoffSteps
  BY DEF TypeOK
<1>1. CASE UNCHANGED breakerVars
  BY <1>0, <1>1 DEF breakerVars, Lengthens
<1>2. CASE Rests(w, Greater(rest[w], LocalAbort)) /\ UNCHANGED failures
  <2>1. rest'[v] \in {rest[v], LocalAbort}
    BY <1>0, <1>2 DEF Rests, Greater, TypeOK
  <2> QED
    BY <1>0, <2>1 DEF Lengthens
<1>3. ASSUME NEW base \in {FailureCooldown, QuotaCooldown}, Climbs(w, base),
             base = QuotaCooldown \/ rest[w] = 0
      PROVE  Lengthens(v)
  <2> DEFINE n == Lesser(failures[w] + 1, BackoffSteps)
  <2>1. n \in 1 .. BackoffSteps
    BY <1>0, TimeAssumption DEF Lesser
  <2>2. rest' = [rest EXCEPT ![w] = CooldownOf(base, n)]
    BY <1>3 DEF Climbs, Rests
  <2> HIDE DEF n
  <2>3. CASE v = w
    BY <1>0, <1>3, <2>1, <2>2, <2>3 DEF Lengthens, TypeOK
  <2>4. CASE v # w
    BY <1>0, <2>2, <2>4 DEF Lengthens, TypeOK
  <2> QED
    BY <2>3, <2>4
<1> QED
  BY <1>1, <1>2, <1>3 DEF FailureEffect

\* Nothing else makes a rest longer at all.
LEMMA StepLengthens ==
  ASSUME TypeOK, [Next]_vars, NEW v \in Workers
  PROVE  Lengthens(v)
<1>0. \A u \in Workers : rest[u] \in Nat
  BY DEF TypeOK
<1>1. CASE \E w \in Workers : FailureEffect(w)
  BY <1>1, EffectLengthens
<1>2. CASE \E w \in Workers : ReportSuccess(w)
  BY <1>0, <1>2 DEF ReportSuccess, Lengthens, TypeOK
<1>3. CASE rest' = [w \in Workers |-> Down(rest[w])]
  BY <1>0, <1>3 DEF Down, Lengthens
<1>4. CASE rest' = [w \in Workers |-> 0] \/ UNCHANGED rest
  BY <1>0, <1>4 DEF Lengthens
<1> QED
  BY <1>1, <1>2, <1>3, <1>4, StepsOfTheBreaker DEF vars, breakerVars

LEMMA RestStep ==
  ASSUME RestInv, [Next]_vars
  PROVE  /\ RestInv'
         /\ \A w \in Workers : rest'[w] >= Down(rest[w]) \/ rest'[w] = 0
<1>0. TypeOK'
  BY NextTypes DEF RestInv
<1>1. \A w \in Workers : /\ rest[w] \in Nat /\ Down(rest[w]) \in Nat /\ Down(rest[w]) <= rest[w]
                           /\ failures[w] \in 0 .. BackoffSteps
  BY DEF RestInv, TypeOK, Down
<1>2. \A n \in 1 .. BackoffSteps : CooldownOf(QuotaCooldown, n) \in Nat
  BY CooldownBounds
<1>3. CASE \E w \in Workers : FailureEffect(w)
  <2>1. RestIsEarned' /\ \A v \in Workers : rest'[v] >= rest[v]
    BY <1>3, EffectOnRests DEF RestInv
  <2>2. \A v \in Workers : rest'[v] \in Nat
    BY <1>0 DEF TypeOK
  <2> QED
    BY <1>0, <1>1, <2>1, <2>2 DEF RestInv
<1>4. CASE \E w \in Workers : ReportSuccess(w)
  <2>1. RestIsEarned'
    BY <1>4, TimeAssumption DEF ReportSuccess, RestInv, RestIsEarned, TypeOK
  <2> QED
    BY <1>0, <1>1, <1>4, <2>1 DEF ReportSuccess, RestInv, TypeOK
<1>5. CASE rest' = [w \in Workers |-> Down(rest[w])] /\ UNCHANGED failures
  <2>1. RestIsEarned'
    BY <1>1, <1>2, <1>5, TimeAssumption DEF RestInv, RestIsEarned
  <2> QED
    BY <1>0, <1>1, <1>5, <2>1 DEF RestInv
<1>6. CASE rest' = [w \in Workers |-> 0] /\ failures' = [w \in Workers |-> 0]
  <2>1. RestIsEarned'
    BY <1>6, TimeAssumption DEF RestIsEarned
  <2> QED
    BY <1>0, <1>6, <2>1 DEF RestInv
<1>7. CASE UNCHANGED <<rest, failures>>
  BY <1>0, <1>1, <1>7 DEF RestInv, RestIsEarned
<1> QED
  BY <1>3, <1>4, <1>5, <1>6, <1>7, StepsOfTheBreaker DEF RestInv, vars, breakerVars

LEMMA InitRests == Init => RestInv
<1> SUFFICES ASSUME Init PROVE RestInv
  OBVIOUS
<1>1. RestIsEarned
  BY TimeAssumption DEF Init, RestIsEarned
<1> QED
  BY <1>1, InitTypes DEF RestInv

\* A worker never rests for longer than its counted failures earn, and one
\* without failures only for a local abort (report_failure, report_success).
THEOREM RestCorrect == Spec => []RestIsEarned
<1>1. RestInv /\ [Next]_vars => RestInv'
  BY RestStep
<1> QED
  BY <1>1, InitRests, PTL DEF Spec, RestInv

\* However the failures of parallel dials fall, none of them shortens a rest: only
\* time or a success does; and none but a quota or a local abort makes it longer.
THEOREM RestKept == Spec => RestsKept
<1>1. RestInv /\ [Next]_vars => RestInv'
  BY RestStep
<1> DEFINE Kept ==
      \A w \in Workers :
        /\ rest'[w] >= Down(rest[w]) \/ rest'[w] = 0
        /\ 0 < rest[w] /\ rest[w] < rest'[w]
           => rest'[w] \in {LocalAbort}
                         \cup {CooldownOf(QuotaCooldown, n) : n \in 1 .. BackoffSteps}
<1>2. RestInv /\ [Next]_vars => Kept
  BY RestStep, StepLengthens DEF RestInv, Lengthens
<1> HIDE DEF Kept
<1>3. Spec => [][Kept]_vars
  BY <1>1, <1>2, InitRests, PTL DEF Spec
<1> QED
  BY <1>3 DEF Kept, RestsKept

-----------------------------------------------------------------------------
LEMMA NextBuckets ==
  ASSUME TypeOK, BucketEmptyWhileRefilling, [Next]_vars
  PROVE  BucketEmptyWhileRefilling'
<1> USE DEF BucketEmptyWhileRefilling, TypeOK
<1>1. CASE \E dc \in DCs : Asks(dc)
  BY <1>1 DEF Asks, Hit, Miss, ScheduleRefill
<1>2. CASE \E dc \in DCs : Refill(dc)
  BY <1>2 DEF Refill, NothingToDial, StartRefill, RefillFails, RefillSucceeds, bucketVars, refillVars
<1>3. CASE \E c \in Clients : Session(c)
  BY <1>3 DEF Session, TestSession, DialSucceeds, DialFails, Cancelled, bucketVars, refillVars
<1>4. CASE Restart \/ Tick \/ (\E dc \in DCs : GoesStale(dc)) \/ NetworkChanges \/ UNCHANGED vars
  BY <1>4 DEF Restart, Tick, GoesStale, NetworkChanges, vars, bucketVars, refillVars
<1> QED
  BY <1>1, <1>2, <1>3, <1>4 DEF Next, Run

\* The bucket of a DC is empty whenever a refill is at work for it.
THEOREM BucketCorrect == Spec => []BucketEmptyWhileRefilling
<1>1. Init => BucketEmptyWhileRefilling
  BY DEF Init, BucketEmptyWhileRefilling
<1> QED
  BY <1>1, InitTypes, NextTypes, NextBuckets, PTL DEF Spec
=============================================================================
