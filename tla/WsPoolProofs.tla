---------------------------- MODULE WsPoolProofs ----------------------------
(***************************************************************************)
(* What holds of the connection pool for any size, sockets and refills:    *)
(* its types, and who owns which connection.                               *)
(***************************************************************************)
EXTENDS WsPool, FiniteSetTheorems, TLAPS

\* Which refills there are.  A cancelled one is never in the dictionary; while
\* the proxy serves, the one that is there is the only one.
ControlInv ==
  /\ SingleFlight
  /\ \A r \in Refills : refilling = r => phase[r] # "free"
  /\ \A r \in doomed : phase[r] # "free" /\ refilling # r /\ stage = "closing"
  /\ stage = "closing" => refilling = None /\ rotation # "live"
  /\ stage = "stopped" => refilling = None /\ rotation = "none"
                          /\ \A r \in Refills : phase[r] = "free"

\* What a refill holds.  One that came to its finally clause by itself, not by
\* a cancellation, has heard of every dial and adopted what they returned.
HoldingInv ==
  /\ \A r \in Refills : adopted[r] \subseteq results[r]
  /\ \A r \in Refills : phase[r] \in {"free", "new"} =>
       dials[r] = 0 /\ results[r] = {} /\ adopted[r] = {}
  /\ \A r \in Refills : phase[r] = "unwind" /\ (refilling = r \/ r \in doomed) =>
       dials[r] = 0 /\ Unclaimed(r) = {}

OwnerInv ==
  /\ TypeOK
  /\ ControlInv
  /\ HoldingInv
  /\ OneOwner
  /\ OwnedIsOpen
  /\ NothingLeaks
  /\ stage = "stopped" => idle = {} /\ taken = {}
  /\ stage = "closing" => idle = {} /\ taken = {}

-----------------------------------------------------------------------------
LEMMA InitTypes == Init => TypeOK
<1>1. 0 \in 0 .. PoolSize
  BY PoolAssumption
<1> QED
  BY <1>1 DEF Init, TypeOK, Phases

LEMMA IdleCount ==
  ASSUME TypeOK
  PROVE  IsFiniteSet(idle) /\ Cardinality(idle) \in Nat
BY PoolAssumption, FS_Subset, FS_CardinalityType DEF TypeOK

\* Scheduling a refill keeps the types of what it changes.
LEMMA ScheduleTypes ==
  ASSUME TypeOK, ScheduleRefill \/ NoRefill
  PROVE  refilling' \in Refills \cup {None} /\ phase' \in [Refills -> Phases]
BY DEF TypeOK, Phases, ScheduleRefill, NewRefill, NoRefill

LEMMA RefillTypes ==
  ASSUME TypeOK, NEW r \in Refills, Refill(r)
  PROVE  TypeOK'
<1> USE DEF TypeOK, Phases
<1>1. CASE StartRefill(r)
  <2>1. Needed \in 0 .. PoolSize
    BY <1>1, IdleCount, PoolAssumption DEF StartRefill, Needed
  <2> QED
    BY <1>1, <2>1 DEF StartRefill, poolVars
<1>3. CASE \E ws \in Sockets : DialSucceeds(r, ws)
  <2>1. dials[r] - 1 \in 0 .. PoolSize
    BY <1>3, PoolAssumption DEF DialSucceeds
  <2> QED
    BY <1>3, <2>1 DEF DialSucceeds, poolVars
<1>4. CASE DialFails(r)
  <2>1. dials[r] - 1 \in 0 .. PoolSize
    BY <1>4, PoolAssumption DEF DialFails
  <2> QED
    BY <1>4, <2>1 DEF DialFails, Everything
<1>5. CASE \E ws \in Sockets : Adopt(r, ws)
  BY <1>5 DEF Adopt, Everything, Unclaimed
<1>6. CASE LoopEnds(r)
  BY <1>6 DEF LoopEnds, Everything
<1>7. CASE CancelRefill(r)
  BY <1>7, PoolAssumption DEF CancelRefill, Everything, Forget
<1>8. CASE \E ws \in Sockets : CloseUnclaimed(r, ws)
  BY <1>8 DEF CloseUnclaimed, Everything
<1>9. CASE EndRefill(r)
  BY <1>9, PoolAssumption DEF EndRefill, Everything, Forget, PopsEntry
<1> QED
  BY <1>1, <1>3, <1>4, <1>5, <1>6, <1>7, <1>8, <1>9 DEF Refill

LEMMA NextTypes == TypeOK /\ [Next]_vars => TypeOK'
<1> SUFFICES ASSUME TypeOK, [Next]_vars PROVE TypeOK'
  OBVIOUS
<1> USE DEF TypeOK
<1>1. CASE \E ws \in Sockets, met \in SUBSET Sockets : Hit(ws, met)
  BY <1>1, ScheduleTypes DEF Hit, ScheduleBoth
<1>2. CASE Miss
  BY <1>2, ScheduleTypes DEF Miss, ScheduleBoth
<1>3. CASE Close
  BY <1>3 DEF Close, Reset
<1>4. CASE Start
  BY <1>4, ScheduleTypes DEF Start, ScheduleBoth
<1>5. CASE \E r \in Refills : Refill(r)
  BY <1>5, RefillTypes
<1>6. CASE Rotate
  <2>1. refilling' \in Refills \cup {None} /\ phase' \in [Refills -> Phases]
    BY <1>6, ScheduleTypes DEF Rotate
  <2> QED
    BY <1>6, <2>1 DEF Rotate
<1>7. CASE CancelRotation \/ CloseReturns \/ BackoffPasses \/ NetworkChanges
  BY <1>7 DEF CancelRotation, CloseReturns, BackoffPasses, NetworkChanges, poolVars, refillVars
<1>8. CASE \E ws \in Sockets : SessionEnds(ws) \/ QuietClosed(ws) \/ GoesStale(ws)
  BY <1>8 DEF SessionEnds, QuietClosed, GoesStale, poolVars, refillVars
<1>9. CASE UNCHANGED vars
  BY <1>9 DEF vars, poolVars, refillVars
<1> QED
  BY <1>1, <1>2, <1>3, <1>4, <1>5, <1>6, <1>7, <1>8, <1>9 DEF Next, Serve

\* Types: at no time has a refill more dials under way than the pool has room.
THEOREM TypeCorrect == Spec => []TypeOK
BY InitTypes, NextTypes, PTL DEF Spec

-----------------------------------------------------------------------------
LEMMA InitOwners == Init => OwnerInv
<1> SUFFICES ASSUME Init PROVE OwnerInv
  OBVIOUS
<1>1. TypeOK
  BY InitTypes
<1>2. ControlInv /\ HoldingInv
  BY PoolAssumption DEF Init, ControlInv, SingleFlight, HoldingInv, Unclaimed
<1> QED
  BY <1>1, <1>2 DEF Init, OwnerInv, OneOwner, OwnedIsOpen, NothingLeaks, Unclaimed

\* Scheduling creates a refill that holds nothing, and only where there is none.
LEMMA SchedulesOwners ==
  ASSUME OwnerInv, ScheduleRefill \/ NoRefill, stage # "closing", stage' = "serving",
         UNCHANGED <<doomed, dials, results, adopted>>
  PROVE  ControlInv' /\ HoldingInv'
<1>1. doomed = {}
  BY DEF OwnerInv, ControlInv, TypeOK
<1>2. CASE NoRefill
  BY <1>1, <1>2 DEF OwnerInv, ControlInv, HoldingInv, SingleFlight, NoRefill, Unclaimed
<1>3. CASE MayRefill /\ \E r \in Refills : NewRefill(r)
  <2>1. PICK r \in Refills : NewRefill(r)
    BY <1>3
  <2>2. \A q \in Refills : phase[q] = "free"
    BY <1>1, <1>3, PoolAssumption DEF MayRefill, OwnerInv, ControlInv, SingleFlight, TypeOK
  <2>3. \A q \in Refills : phase'[q] = IF q = r THEN "new" ELSE "free"
    BY <2>1, <2>2 DEF NewRefill, OwnerInv, TypeOK
  <2>4. refilling' = r
    BY <2>1 DEF NewRefill
  <2> QED
    BY <1>1, <2>2, <2>3, <2>4, PoolAssumption
       DEF OwnerInv, ControlInv, HoldingInv, SingleFlight, Unclaimed
<1> QED
  BY <1>2, <1>3 DEF ScheduleRefill, NoRefill

\* Actions that move sockets between the bucket, sessions, closers and the void.
LEMMA ServeOwners ==
  ASSUME OwnerInv, Serve \/ Rotate
  PROVE  OwnerInv'
<1>1. TypeOK'
  BY NextTypes DEF OwnerInv, Next
<1>2. CASE \E ws \in Sockets, met \in SUBSET Sockets : Hit(ws, met)
  <2>1. ControlInv' /\ HoldingInv'
    BY <1>2, SchedulesOwners DEF Hit, ScheduleBoth
  <2>2. OneOwner' /\ OwnedIsOpen'
    BY <1>2 DEF Hit, OwnerInv, OneOwner, OwnedIsOpen, Unclaimed
  <2>3. \A r \in Refills : phase[r] # "free" => phase'[r] # "free"
    BY <1>2 DEF Hit, ScheduleBoth, ScheduleRefill, NewRefill, NoRefill, OwnerInv, TypeOK
  <2>4. NothingLeaks'
    BY <1>2, <2>3 DEF Hit, OwnerInv, NothingLeaks, Unclaimed
  <2> QED
    BY <1>1, <1>2, <2>1, <2>2, <2>4 DEF Hit, OwnerInv
<1>3. CASE Miss
  <2>1. ControlInv' /\ HoldingInv'
    BY <1>3, SchedulesOwners DEF Miss, ScheduleBoth
  <2>2. OneOwner' /\ OwnedIsOpen'
    BY <1>3 DEF Miss, OwnerInv, OneOwner, OwnedIsOpen, Unclaimed
  <2>3. \A r \in Refills : phase[r] # "free" => phase'[r] # "free"
    BY <1>3 DEF Miss, ScheduleBoth, ScheduleRefill, NewRefill, NoRefill, OwnerInv, TypeOK
  <2>4. NothingLeaks'
    BY <1>3, <2>3 DEF Miss, OwnerInv, NothingLeaks, Unclaimed
  <2> QED
    BY <1>1, <1>3, <2>1, <2>2, <2>4 DEF Miss, OwnerInv
<1>4. CASE Close
  <2>1. ControlInv' /\ HoldingInv'
    BY <1>4, PoolAssumption DEF Close, Reset, OwnerInv, ControlInv, HoldingInv, SingleFlight,
                                Unclaimed, TypeOK
  <2>2. OneOwner' /\ OwnedIsOpen'
    BY <1>4 DEF Close, Reset, OwnerInv, OneOwner, OwnedIsOpen, Unclaimed
  <2>3. NothingLeaks'
    BY <1>4 DEF Close, Reset, OwnerInv, NothingLeaks, Unclaimed
  <2> QED
    BY <1>1, <1>4, <2>1, <2>2, <2>3 DEF Close, Reset, OwnerInv
<1>5. CASE Start
  <2>1. ControlInv' /\ HoldingInv'
    BY <1>5, SchedulesOwners DEF Start, ScheduleBoth, OwnerInv, ControlInv
  <2>2. OneOwner' /\ OwnedIsOpen'
    BY <1>5 DEF Start, OwnerInv, OneOwner, OwnedIsOpen, Unclaimed
  <2>3. NothingLeaks'
    BY <1>5 DEF Start, OwnerInv, ControlInv, NothingLeaks, Unclaimed
  <2> QED
    BY <1>1, <1>5, <2>1, <2>2, <2>3 DEF Start, OwnerInv
<1>6. CASE Rotate
  <2>1. stage = "serving"
    BY <1>6 DEF Rotate, OwnerInv, ControlInv, TypeOK
  <2>2. ControlInv' /\ HoldingInv'
    BY <1>6, <2>1, SchedulesOwners DEF Rotate
  <2>3. OneOwner' /\ OwnedIsOpen'
    BY <1>6 DEF Rotate, OwnerInv, OneOwner, OwnedIsOpen, Unclaimed
  <2>4. \A r \in Refills : phase[r] # "free" => phase'[r] # "free"
    BY <1>6 DEF Rotate, ScheduleRefill, NewRefill, NoRefill, OwnerInv, TypeOK
  <2>5. NothingLeaks'
    BY <1>6, <2>4 DEF Rotate, OwnerInv, NothingLeaks, Unclaimed
  <2> QED
    BY <1>1, <1>6, <2>1, <2>2, <2>3, <2>5 DEF Rotate, OwnerInv
<1> QED
  BY <1>2, <1>3, <1>4, <1>5, <1>6 DEF Serve

\* A refill that holds nothing leaves: nothing is lost, whoever named it.
LEMMA ForgetOwners ==
  ASSUME OwnerInv, NEW r \in Refills, Forget(r), Unclaimed(r) = {},
         UNCHANGED <<open, idle, taken, closers>>
  PROVE  OneOwner' /\ OwnedIsOpen' /\ NothingLeaks'
<1>1. /\ \A q \in Refills : q # r => phase'[q] = phase[q] /\ Unclaimed(q)' = Unclaimed(q)
      /\ Unclaimed(r)' = {}
  BY DEF Forget, Unclaimed, OwnerInv, TypeOK
<1>2. OneOwner' /\ OwnedIsOpen'
  BY <1>1 DEF OwnerInv, OneOwner, OwnedIsOpen
<1>3. NothingLeaks'
  BY <1>1 DEF OwnerInv, NothingLeaks
<1> QED
  BY <1>2, <1>3

\* The steps of one refill.
LEMMA RefillOwners ==
  ASSUME OwnerInv, NEW r \in Refills, Refill(r)
  PROVE  OwnerInv'
<1>0. TypeOK'
  BY NextTypes DEF OwnerInv, Next
<1>1. CASE StartRefill(r)
  <2>1. ControlInv'
    BY <1>1 DEF StartRefill, poolVars, OwnerInv, ControlInv, SingleFlight, TypeOK
  <2>2. HoldingInv'
    BY <1>1 DEF StartRefill, poolVars, OwnerInv, HoldingInv, Unclaimed, TypeOK
  <2>3. OneOwner' /\ OwnedIsOpen'
    BY <1>1 DEF StartRefill, poolVars, OwnerInv, OneOwner, OwnedIsOpen, Unclaimed
  <2>4. NothingLeaks'
    BY <1>1 DEF StartRefill, poolVars, OwnerInv, NothingLeaks, Unclaimed, TypeOK
  <2> QED
    BY <1>0, <1>1, <2>1, <2>2, <2>3, <2>4 DEF StartRefill, poolVars, OwnerInv
<1>2. CASE EndRefill(r)
  <2>1. /\ Forget(r) /\ PopsEntry(r) /\ Everything /\ UNCHANGED <<open, idle, doomed>>
        /\ Unclaimed(r) = {} /\ r \notin doomed
    BY <1>2 DEF EndRefill, OwnerInv, HoldingInv, Unclaimed
  <2>2. ControlInv'
    BY <2>1, PoolAssumption DEF Forget, PopsEntry, Everything, OwnerInv, ControlInv,
                                SingleFlight, TypeOK
  <2>3. HoldingInv'
    BY <2>1, PoolAssumption DEF Forget, PopsEntry, Everything, OwnerInv, HoldingInv, Unclaimed, TypeOK
  <2> QED
    BY <1>0, <2>1, <2>2, <2>3, ForgetOwners DEF Everything, OwnerInv
<1>3. CASE \E ws \in Sockets : DialSucceeds(r, ws)
  <2>1. PICK ws \in Sockets : DialSucceeds(r, ws)
    BY <1>3
  <2>2. ws \notin open /\ ws \notin results[r] /\ phase[r] \in {"run", "unwind"}
    BY <2>1 DEF DialSucceeds, OwnerInv, HoldingInv, TypeOK, Phases
  <2>3. /\ Unclaimed(r)' = Unclaimed(r) \cup {ws}
        /\ \A q \in Refills : q # r => Unclaimed(q)' = Unclaimed(q)
    BY <2>1, <2>2 DEF DialSucceeds, Unclaimed, OwnerInv, HoldingInv, TypeOK
  <2>4. ControlInv'
    BY <2>1 DEF DialSucceeds, poolVars, OwnerInv, ControlInv, SingleFlight
  <2>5. HoldingInv'
    <3>1. dials[r] # 0
      BY <2>1 DEF DialSucceeds
    <3> QED
      BY <2>1, <2>2, <2>3, <3>1 DEF DialSucceeds, poolVars, OwnerInv, HoldingInv, TypeOK
  <2>6. OneOwner' /\ OwnedIsOpen'
    BY <2>1, <2>2, <2>3 DEF DialSucceeds, poolVars, OwnerInv, OneOwner, OwnedIsOpen
  <2>7. NothingLeaks'
    BY <2>1, <2>2, <2>3 DEF DialSucceeds, poolVars, OwnerInv, NothingLeaks
  <2> QED
    BY <1>0, <2>1, <2>4, <2>5, <2>6, <2>7 DEF DialSucceeds, poolVars, OwnerInv
<1>4. CASE DialFails(r)
  <2>1. ControlInv'
    BY <1>4 DEF DialFails, Everything, OwnerInv, ControlInv, SingleFlight
  <2>2. HoldingInv'
    BY <1>4 DEF DialFails, Everything, OwnerInv, HoldingInv, Unclaimed, TypeOK
  <2>3. OneOwner' /\ OwnedIsOpen' /\ NothingLeaks'
    BY <1>4 DEF DialFails, Everything, OwnerInv, OneOwner, OwnedIsOpen, NothingLeaks, Unclaimed
  <2> QED
    BY <1>0, <1>4, <2>1, <2>2, <2>3 DEF DialFails, Everything, OwnerInv
<1>5. CASE \E ws \in Sockets : Adopt(r, ws)
  <2>1. PICK ws \in Sockets : Adopt(r, ws)
    BY <1>5
  <2>2. /\ Unclaimed(r)' = Unclaimed(r) \ {ws}
        /\ \A q \in Refills : q # r => Unclaimed(q)' = Unclaimed(q)
        /\ ws \in Unclaimed(r)
    BY <2>1 DEF Adopt, Unclaimed, OwnerInv, TypeOK
  <2>3. refilling = r /\ stage = "serving"
    BY <2>1, PoolAssumption DEF Adopt, OwnerInv, ControlInv, SingleFlight, TypeOK
  <2>4. ControlInv'
    BY <2>1 DEF Adopt, Everything, OwnerInv, ControlInv, SingleFlight
  <2>5. HoldingInv'
    BY <2>1, <2>2 DEF Adopt, Everything, OwnerInv, HoldingInv, Unclaimed, TypeOK
  <2>6. OneOwner' /\ OwnedIsOpen'
    BY <2>1, <2>2 DEF Adopt, Everything, OwnerInv, OneOwner, OwnedIsOpen
  <2>7. NothingLeaks'
    BY <2>1, <2>2 DEF Adopt, Everything, OwnerInv, NothingLeaks
  <2> QED
    BY <1>0, <2>1, <2>3, <2>4, <2>5, <2>6, <2>7 DEF Adopt, Everything, OwnerInv
<1>6. CASE LoopEnds(r)
  <2>1. ControlInv'
    BY <1>6, PoolAssumption DEF LoopEnds, Everything, OwnerInv, ControlInv, SingleFlight, TypeOK
  <2>2. HoldingInv'
    BY <1>6 DEF LoopEnds, Everything, OwnerInv, HoldingInv, Unclaimed, TypeOK
  <2>3. OneOwner' /\ OwnedIsOpen' /\ NothingLeaks'
    BY <1>6 DEF LoopEnds, Everything, OwnerInv, OneOwner, OwnedIsOpen, NothingLeaks, Unclaimed, TypeOK
  <2> QED
    BY <1>0, <1>6, <2>1, <2>2, <2>3 DEF LoopEnds, Everything, OwnerInv
<1>7. CASE CancelRefill(r)
  <2>1. CASE phase[r] = "run"
    <3>1. ControlInv'
      BY <1>7, <2>1 DEF CancelRefill, Everything, OwnerInv, ControlInv, SingleFlight, TypeOK
    <3>2. HoldingInv'
      BY <1>7, <2>1 DEF CancelRefill, Everything, OwnerInv, ControlInv, HoldingInv, Unclaimed, TypeOK
    <3>3. OneOwner' /\ OwnedIsOpen' /\ NothingLeaks'
      BY <1>7, <2>1 DEF CancelRefill, Everything, OwnerInv, OneOwner, OwnedIsOpen, NothingLeaks,
                        Unclaimed, TypeOK
    <3> QED
      BY <1>0, <1>7, <3>1, <3>2, <3>3 DEF CancelRefill, Everything, OwnerInv
  <2>2. CASE phase[r] # "run"
    <3>1. Forget(r) /\ Unclaimed(r) = {}
      BY <1>7, <2>2 DEF CancelRefill, OwnerInv, HoldingInv, Unclaimed, TypeOK, Phases
    <3>2. ControlInv'
      BY <1>7, <3>1 DEF CancelRefill, Forget, Everything, OwnerInv, ControlInv, SingleFlight, TypeOK
    <3>3. HoldingInv'
      BY <1>7, <3>1 DEF CancelRefill, Forget, Everything, OwnerInv, ControlInv, HoldingInv,
                        Unclaimed, TypeOK
    <3> QED
      BY <1>0, <1>7, <3>1, <3>2, <3>3, ForgetOwners DEF CancelRefill, Everything, OwnerInv
  <2> QED
    BY <2>1, <2>2
<1>8. CASE \E ws \in Sockets : CloseUnclaimed(r, ws)
  <2>1. PICK ws \in Sockets : CloseUnclaimed(r, ws)
    BY <1>8
  <2>2. /\ Unclaimed(r)' = Unclaimed(r) \ {ws}
        /\ \A q \in Refills : q # r => Unclaimed(q)' = Unclaimed(q)
        /\ ws \in Unclaimed(r)
    BY <2>1 DEF CloseUnclaimed, Unclaimed, OwnerInv, TypeOK
  <2>3. ControlInv'
    BY <2>1 DEF CloseUnclaimed, Everything, OwnerInv, ControlInv, SingleFlight
  <2>4. HoldingInv'
    BY <2>1, <2>2 DEF CloseUnclaimed, Everything, OwnerInv, HoldingInv, Unclaimed, TypeOK
  <2>5. OneOwner' /\ OwnedIsOpen'
    BY <2>1, <2>2 DEF CloseUnclaimed, Everything, OwnerInv, OneOwner, OwnedIsOpen
  <2>6. NothingLeaks'
    BY <2>1, <2>2 DEF CloseUnclaimed, Everything, OwnerInv, NothingLeaks
  <2> QED
    BY <1>0, <2>1, <2>3, <2>4, <2>5, <2>6 DEF CloseUnclaimed, Everything, OwnerInv
<1> QED
  BY <1>1, <1>2, <1>3, <1>4, <1>5, <1>6, <1>7, <1>8 DEF Refill

LEMMA NextOwners == OwnerInv /\ [Next]_vars => OwnerInv'
<1> SUFFICES ASSUME OwnerInv, [Next]_vars PROVE OwnerInv'
  OBVIOUS
<1>0. TypeOK'
  BY NextTypes DEF OwnerInv
<1>1. CASE Serve \/ Rotate
  BY <1>1, ServeOwners
<1>2. CASE \E r \in Refills : Refill(r)
  BY <1>2, RefillOwners
<1>3. CASE CancelRotation \/ CloseReturns \/ BackoffPasses \/ NetworkChanges \/ UNCHANGED vars
  <2>1. ControlInv' /\ HoldingInv'
    <3>1. UNCHANGED <<refilling, doomed, dials, results, adopted, phase>>
      BY <1>3 DEF CancelRotation, CloseReturns, BackoffPasses, NetworkChanges, vars, poolVars, refillVars
    <3>2. HoldingInv'
      BY <3>1 DEF OwnerInv, HoldingInv, Unclaimed
    <3>3. CASE CloseReturns
      BY <1>3, <3>1, <3>2, <3>3 DEF CloseReturns, poolVars, OwnerInv, ControlInv, SingleFlight, TypeOK
    <3>4. CASE CancelRotation
      BY <1>3, <3>1, <3>2, <3>4 DEF CancelRotation, OwnerInv, ControlInv, SingleFlight
    <3>5. CASE UNCHANGED <<stage, rotation>>
      BY <3>1, <3>2, <3>5 DEF OwnerInv, ControlInv, SingleFlight
    <3>6. CloseReturns \/ CancelRotation \/ UNCHANGED <<stage, rotation>>
      BY <1>3 DEF BackoffPasses, NetworkChanges, vars, poolVars
    <3> QED
      BY <3>3, <3>4, <3>5, <3>6
  <2>2. UNCHANGED <<open, idle, taken, closers, phase, results, adopted>>
    BY <1>3 DEF CancelRotation, CloseReturns, BackoffPasses, NetworkChanges, vars, poolVars, refillVars
  <2>3. OneOwner' /\ OwnedIsOpen' /\ NothingLeaks'
    BY <2>2 DEF OwnerInv, OneOwner, OwnedIsOpen, NothingLeaks, Unclaimed
  <2> QED
    BY <1>0, <1>3, <2>1, <2>2, <2>3
       DEF CancelRotation, CloseReturns, BackoffPasses, NetworkChanges, vars, poolVars, refillVars, OwnerInv
<1>4. CASE \E ws \in Sockets : SessionEnds(ws) \/ QuietClosed(ws) \/ GoesStale(ws)
  <2>1. ControlInv' /\ HoldingInv'
    <3>1. UNCHANGED <<stage, poolVars, refillVars>>
      BY <1>4 DEF SessionEnds, QuietClosed, GoesStale
    <3>2. \A r \in Refills : Unclaimed(r)' = Unclaimed(r)
      BY <3>1 DEF refillVars, Unclaimed
    <3>3. ControlInv'
      BY <3>1 DEF poolVars, refillVars, OwnerInv, ControlInv, SingleFlight
    <3>4. HoldingInv'
      BY <3>1, <3>2 DEF poolVars, refillVars, OwnerInv, HoldingInv
    <3> QED
      BY <3>3, <3>4
  <2>2. OneOwner' /\ OwnedIsOpen'
    BY <1>4 DEF SessionEnds, QuietClosed, GoesStale, poolVars, refillVars,
                OwnerInv, OneOwner, OwnedIsOpen, Unclaimed
  <2>3. NothingLeaks'
    BY <1>4 DEF SessionEnds, QuietClosed, GoesStale, poolVars, refillVars,
                OwnerInv, NothingLeaks, Unclaimed
  <2> QED
    BY <1>0, <1>4, <2>1, <2>2, <2>3 DEF SessionEnds, QuietClosed, GoesStale, poolVars, refillVars, OwnerInv
<1> QED
  BY <1>1, <1>2, <1>3, <1>4 DEF Next

\* Ownership: a connection has one party, which holds it open, and none is lost;
\* one refill at a time; and close() leaves nothing but background closes.
THEOREM OwnersCorrect ==
  Spec => [](Ownership /\ SingleFlight)
<1>1. OwnerInv => ClosedIsClean
  BY DEF OwnerInv, ControlInv, ClosedIsClean, NothingLeaks, TypeOK
<1>2. OwnerInv => Ownership /\ SingleFlight
  BY <1>1 DEF OwnerInv, ControlInv, Ownership
<1> QED
  BY <1>2, InitOwners, NextOwners, PTL DEF Spec

-----------------------------------------------------------------------------
(***************************************************************************)
(* The size of the pool.  Only the refill in the dictionary is in its      *)
(* loop, so what the bucket holds and what that refill will add are        *)
(* bounded together, though it counted the bucket long before.             *)
(***************************************************************************)
BoundInv == OwnerInv /\ PoolBounded

Coming(r) == IF phase[r] = "run" /\ r \notin doomed
             THEN dials[r] + Cardinality(Unclaimed(r)) ELSE 0

LEMMA ComingIsNat ==
  ASSUME TypeOK, NEW r \in Refills
  PROVE  /\ IsFiniteSet(Unclaimed(r)) /\ Cardinality(Unclaimed(r)) \in Nat
         /\ dials[r] \in Nat /\ Coming(r) \in Nat
<1>1. IsFiniteSet(Unclaimed(r)) /\ Cardinality(Unclaimed(r)) \in Nat
  BY PoolAssumption, FS_Subset, FS_CardinalityType DEF TypeOK, Unclaimed
<1>2. dials[r] \in Nat
  BY PoolAssumption DEF TypeOK
<1> QED
  BY <1>1, <1>2 DEF Coming

LEMMA PoolBoundedAs == PoolBounded <=> \A r \in Refills : Cardinality(idle) + Coming(r) <= PoolSize
BY DEF PoolBounded, Coming

\* A step that adds nothing to the bucket or to what any refill brings.
LEMMA BoundKept ==
  ASSUME BoundInv, OwnerInv', idle' \subseteq idle,
         \A r \in Refills : Coming(r)' <= Coming(r)
  PROVE  PoolBounded'
<1>1. Cardinality(idle') \in Nat /\ Cardinality(idle') <= Cardinality(idle)
      /\ Cardinality(idle) \in Nat
  BY IdleCount, FS_Subset, FS_CardinalityType DEF BoundInv, OwnerInv
<1>2. \A r \in Refills : Coming(r) \in Nat
  BY ComingIsNat DEF BoundInv, OwnerInv
<1>3. \A r \in Refills : Coming(r)' \in Nat
  <2>1. TAKE r \in Refills
  <2>2. Cardinality(Unclaimed(r)') \in Nat
    BY PoolAssumption, FS_Subset, FS_CardinalityType DEF OwnerInv, TypeOK, Unclaimed
  <2>3. dials'[r] \in Nat
    BY PoolAssumption DEF OwnerInv, TypeOK
  <2> QED
    BY <2>2, <2>3 DEF Coming
<1>4. \A r \in Refills : Cardinality(idle) + Coming(r) <= PoolSize
  BY PoolBoundedAs DEF BoundInv
<1>5. \A r \in Refills : Cardinality(idle') + Coming(r)' <= PoolSize
  <2>1. TAKE r \in Refills
  <2>2. /\ Coming(r) \in Nat /\ Coming(r)' \in Nat /\ Coming(r)' <= Coming(r)
        /\ Cardinality(idle) + Coming(r) <= PoolSize
    BY <1>2, <1>3, <1>4
  <2> HIDE DEF Coming
  <2> QED
    BY <1>1, <2>2, PoolAssumption
<1> QED
  BY <1>5 DEF PoolBounded, Coming

\* The same, for a step of which one refill is the actor.
LEMMA OneRefillBound ==
  ASSUME BoundInv, OwnerInv', NEW r \in Refills,
         \A q \in Refills : q # r => Coming(q)' = Coming(q),
         Cardinality(idle') + Coming(r)' <= PoolSize,
         \A q \in Refills : q # r => Cardinality(idle') + Coming(q) <= PoolSize
  PROVE  PoolBounded'
BY DEF PoolBounded, Coming

LEMMA RefillBound ==
  ASSUME BoundInv, OwnerInv', NEW r \in Refills, Refill(r)
  PROVE  PoolBounded'
<1> USE DEF BoundInv, OwnerInv
<1>1. /\ IsFiniteSet(idle) /\ Cardinality(idle) \in Nat /\ PoolSize \in Nat
      /\ \A q \in Refills : /\ IsFiniteSet(Unclaimed(q)) /\ Cardinality(Unclaimed(q)) \in Nat
                            /\ dials[q] \in Nat /\ Coming(q) \in Nat
                            /\ Cardinality(idle) + Coming(q) <= PoolSize
  BY IdleCount, ComingIsNat, PoolBoundedAs, PoolAssumption
<1>2. CASE StartRefill(r)
  <2>1. \A q \in Refills : q # r => Coming(q)' = Coming(q)
    BY <1>2 DEF StartRefill, poolVars, Coming, Unclaimed, TypeOK
  <2>2. idle' = idle /\ Unclaimed(r)' = {} /\ dials'[r] = PoolSize - Cardinality(idle)
    BY <1>2 DEF StartRefill, poolVars, Unclaimed, HoldingInv, Needed, TypeOK
  <2>3. Coming(r)' = PoolSize - Cardinality(idle)
    BY <1>1, <1>2, <2>2, FS_EmptySet DEF StartRefill, Coming, TypeOK
  <2> QED
    BY <1>1, <2>1, <2>2, <2>3, OneRefillBound
<1>3. CASE EndRefill(r)
  <2>1. idle' = idle /\ Coming(r)' = 0
    BY <1>3 DEF EndRefill, Forget, Coming, TypeOK
  <2>2. \A q \in Refills : q # r => Coming(q)' = Coming(q)
    BY <1>3 DEF EndRefill, Forget, Coming, Unclaimed, TypeOK
  <2> QED
    BY <1>1, <2>1, <2>2, OneRefillBound
<1>4. CASE \E ws \in Sockets : DialSucceeds(r, ws)
  <2>1. PICK ws \in Sockets : DialSucceeds(r, ws)
    BY <1>4
  <2>2. Unclaimed(r)' = Unclaimed(r) \cup {ws} /\ ws \notin Unclaimed(r)
    BY <2>1 DEF DialSucceeds, Unclaimed, HoldingInv, TypeOK
  <2>3. Cardinality(Unclaimed(r)') = Cardinality(Unclaimed(r)) + 1
    BY <1>1, <2>2, FS_AddElement
  <2>4. dials'[r] = dials[r] - 1 /\ dials[r] > 0
    BY <2>1 DEF DialSucceeds, TypeOK
  <2>5. Coming(r)' = Coming(r)
    BY <1>1, <2>1, <2>3, <2>4 DEF DialSucceeds, Coming
  <2>6. \A q \in Refills : q # r => Coming(q)' = Coming(q)
    BY <2>1 DEF DialSucceeds, Coming, Unclaimed, TypeOK
  <2> QED
    BY <1>1, <2>1, <2>5, <2>6, OneRefillBound DEF DialSucceeds, poolVars
<1>5. CASE DialFails(r)
  <2>1. dials'[r] = dials[r] - 1 /\ dials[r] > 0 /\ Unclaimed(r)' = Unclaimed(r)
    BY <1>5 DEF DialFails, Unclaimed, TypeOK
  <2>2. Coming(r)' \in Int /\ Coming(r)' <= Coming(r)
    BY <1>1, <1>5, <2>1 DEF DialFails, Coming
  <2>3. \A q \in Refills : q # r => Coming(q)' = Coming(q)
    BY <1>5 DEF DialFails, Coming, Unclaimed, TypeOK
  <2> HIDE DEF Coming
  <2>4. Cardinality(idle) + Coming(r)' <= PoolSize
    BY <1>1, <2>2
  <2> QED
    BY <1>1, <1>5, <2>3, <2>4, OneRefillBound DEF DialFails
<1>6. CASE \E ws \in Sockets : Adopt(r, ws)
  <2>1. PICK ws \in Sockets : Adopt(r, ws)
    BY <1>6
  <2>2. ws \in Unclaimed(r) /\ Unclaimed(r)' = Unclaimed(r) \ {ws} /\ ws \notin idle
    BY <2>1 DEF Adopt, Unclaimed, OneOwner, TypeOK
  <2>3. /\ Cardinality(Unclaimed(r)') = Cardinality(Unclaimed(r)) - 1
        /\ Cardinality(idle') = Cardinality(idle) + 1
    BY <1>1, <2>1, <2>2, FS_AddElement, FS_RemoveElement DEF Adopt
  <2>9. phase[r] = "run" /\ phase'[r] = "run" /\ dials' = dials
    BY <2>1 DEF Adopt
  <2>4. /\ Coming(r) = dials[r] + Cardinality(Unclaimed(r))
        /\ Coming(r)' = dials[r] + Cardinality(Unclaimed(r)) - 1
    BY <1>1, <2>1, <2>3, <2>9 DEF Adopt, Coming
  <2>5. \A q \in Refills : q # r => Coming(q) = 0 /\ Coming(q)' = Coming(q)
    <3>1. \A q \in Refills : phase[q] = "run" /\ q \notin doomed => refilling = q
      BY DEF ControlInv, SingleFlight
    <3>2. phase[r] = "run" /\ r \notin doomed
      BY <2>1 DEF Adopt
    <3> QED
      BY <2>1, <3>1, <3>2 DEF Adopt, Coming, Unclaimed, TypeOK
  <2>6. Cardinality(Unclaimed(r)) > 0
    BY <1>1, <2>2, FS_EmptySet
  <2>7. Cardinality(idle') + Coming(r)' <= PoolSize /\ Cardinality(idle') <= PoolSize
    <3> HIDE DEF Coming
    <3> QED
      BY <1>1, <2>3, <2>4, <2>6
  <2>8. \A q \in Refills : q # r => Cardinality(idle') + Coming(q) <= PoolSize
    BY <1>1, <2>3, <2>5, <2>7
  <2> QED
    BY <2>5, <2>7, <2>8, OneRefillBound
<1>7. CASE LoopEnds(r)
  <2>1. idle' = idle /\ Coming(r)' = 0
    BY <1>7 DEF LoopEnds, Coming, TypeOK
  <2>2. \A q \in Refills : q # r => Coming(q)' = Coming(q)
    BY <1>7 DEF LoopEnds, Coming, Unclaimed, TypeOK
  <2> QED
    BY <1>1, <2>1, <2>2, OneRefillBound
<1>8. CASE CancelRefill(r)
  <2>1. idle' = idle /\ Coming(r)' = 0
    BY <1>8 DEF CancelRefill, Forget, Coming, TypeOK
  <2>2. \A q \in Refills : q # r => Coming(q)' = Coming(q)
    BY <1>8 DEF CancelRefill, Forget, Coming, Unclaimed, TypeOK
  <2> QED
    BY <1>1, <2>1, <2>2, OneRefillBound
<1>9. CASE \E ws \in Sockets : CloseUnclaimed(r, ws)
  <2>1. idle' = idle /\ Coming(r)' = 0
    BY <1>9 DEF CloseUnclaimed, Coming
  <2>2. \A q \in Refills : q # r => Coming(q)' = Coming(q)
    BY <1>9 DEF CloseUnclaimed, Coming, Unclaimed, TypeOK
  <2> QED
    BY <1>1, <2>1, <2>2, OneRefillBound
<1> QED
  BY <1>2, <1>3, <1>4, <1>5, <1>6, <1>7, <1>8, <1>9 DEF Refill

LEMMA InitBound == Init => BoundInv
<1> SUFFICES ASSUME Init PROVE BoundInv
  OBVIOUS
<1>1. PoolBounded
  BY FS_EmptySet, PoolAssumption DEF Init, PoolBounded
<1> QED
  BY <1>1, InitOwners DEF BoundInv

LEMMA NextBound == BoundInv /\ [Next]_vars => BoundInv'
<1> SUFFICES ASSUME BoundInv, [Next]_vars PROVE BoundInv'
  OBVIOUS
<1>0. OwnerInv'
  BY NextOwners DEF BoundInv
<1>1. CASE \E r \in Refills : Refill(r)
  BY <1>0, <1>1, RefillBound DEF BoundInv
<1>2. CASE ~ \E r \in Refills : Refill(r)
  <2>1. idle' \subseteq idle /\ dials' = dials /\ results' = results /\ adopted' = adopted
    BY <1>2 DEF Next, Serve, Hit, Miss, Close, Reset, Start, Rotate, CancelRotation, CloseReturns,
                SessionEnds, QuietClosed, GoesStale, BackoffPasses, NetworkChanges, vars,
                poolVars, refillVars
  <2>2. /\ doomed \subseteq doomed'
        /\ \A r \in Refills : phase'[r] = "run" => phase[r] = "run"
    BY <1>2 DEF Next, Serve, Hit, Miss, Close, Reset, Start, Rotate, CancelRotation, CloseReturns,
                SessionEnds, QuietClosed, GoesStale, BackoffPasses, NetworkChanges, vars,
                poolVars, refillVars, ScheduleBoth, ScheduleRefill, NewRefill, NoRefill,
                BoundInv, OwnerInv, TypeOK
  <2>3. \A r \in Refills : Coming(r) \in Nat /\ (Coming(r)' = Coming(r) \/ Coming(r)' = 0)
    BY <2>1, <2>2, ComingIsNat DEF Coming, Unclaimed, BoundInv, OwnerInv
  <2>4. \A r \in Refills : Coming(r)' <= Coming(r)
    <3> HIDE DEF Coming
    <3> QED
      BY <2>3
  <2> QED
    BY <1>0, <2>1, <2>4, BoundKept DEF BoundInv
<1> QED
  BY <1>0, <1>1, <1>2 DEF BoundInv

\* The bucket, with what the refill at work will still add, keeps the configured
\* size, whatever sessions took meanwhile (_refill's needed).
THEOREM BoundCorrect == Spec => []PoolBounded
BY InitBound, NextBound, PTL DEF Spec, BoundInv
=============================================================================
