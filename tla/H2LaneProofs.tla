---------------------------- MODULE H2LaneProofs ----------------------------
(***************************************************************************)
(* Proofs about H2Lane, for any channels, tasks, packet lengths and        *)
(* bounds.                                                                 *)
(***************************************************************************)
EXTENDS H2Lane, FiniteSetTheorems, TLAPS

(***************************************************************************)
(* What the helpers of the actions keep well typed.                        *)
(***************************************************************************)
LEMMA SizesAreInts == \A n \in Sizes \cup {0} : n \in Int
BY BoundAssumption

LEMMA QueueType == Queue \subseteq Actors /\ Parked \subseteq Actors
BY DEF Queue, Parked, Actors

LEMMA RequeueType ==
  ASSUME LaneTypes, NEW x, NEW S \in SUBSET Actors, Requeue(x, S)
  PROVE  ahead' \in [Actors -> SUBSET Actors]
BY DEF LaneTypes, Requeue

LEMMA LeaveType ==
  ASSUME LaneTypes, NEW x, Leave(x)
  PROVE  ahead' \in [Actors -> SUBSET Actors]
BY DEF LaneTypes, Requeue, Leave

LEMMA LeaveAndNotifyType ==
  ASSUME LaneTypes, NEW x, LeaveAndNotify(x)
  PROVE  ahead' \in [Actors -> SUBSET Actors]
BY QueueType DEF LaneTypes, LeaveAndNotify

LEMMA NotifyLaneType ==
  ASSUME UploadTypes
  PROVE  NotifyLane(up) \in [Channels -> UpStates]
BY DEF UploadTypes, NotifyLane, UpStates

LEMMA UploadLeavesType ==
  ASSUME UploadTypes, NEW c \in Channels, NEW w \in [Channels -> UpStates],
         NEW next \in UpStates, UploadLeaves(c, w, next)
  PROVE  UploadTypes'
BY DEF UploadTypes, UploadLeaves, Unlock

LEMMA UploadEndsType ==
  ASSUME UploadTypes, LaneTypes, NEW c \in Channels, UploadEnds(c)
  PROVE  UploadTypes' /\ ahead' \in [Actors -> SUBSET Actors]
BY UploadLeavesType, LeaveType DEF UploadEnds, UpStates, UploadTypes

LEMMA LaneBooksType ==
  ASSUME LaneTypes, NEW n \in Sizes \cup {0}, LaneReserve(n) \/ LaneRelease(n)
  PROVE  inflight' \in Int /\ queuedBytes' \in Int
BY BoundAssumption DEF LaneTypes, LaneReserve, LaneRelease

LEMMA AdmitType ==
  ASSUME ChannelTypes, BookTypes, TaskTypes, NEW c \in Channels, NEW n \in Sizes \cup {0},
         NEW replay \in BOOLEAN, NEW kept \in BOOLEAN, Admit(c, n, replay, kept),
         UNCHANGED <<closed, closing, closeSet, bridge>>
  PROVE  ChannelTypes' /\ BookTypes' /\ TaskTypes'
<1> PICK t \in Tasks : Admit(c, n, replay, kept)!(t)
  BY DEF Admit
<1>1. ChannelTypes'
  BY DEF ChannelTypes
<1>2. BookTypes'
  BY BoundAssumption DEF BookTypes
<1>3. TaskTypes'
  BY DEF TaskTypes, Phases
<1> QED
  BY <1>1, <1>2, <1>3

LEMMA FinishType ==
  ASSUME BookTypes, TaskTypes, NEW t \in Tasks, Finish(t)
  PROVE  /\ BookTypes'
         /\ sentSince' \subseteq Tasks /\ doomed' \subseteq Tasks /\ replayable' \subseteq Tasks
<1>1. size[t] \in Int
  BY SizesAreInts DEF TaskTypes
<1>2. pending' \in [Channels -> SUBSET Tasks] /\ replayPending' \in [Channels -> SUBSET Tasks]
  BY DEF BookTypes, Finish
<1>3. pendingBytes' \in [Channels -> Int]
  <2> DEFINE value == pendingBytes[owner[t]] - size[t]
  <2>1. owner[t] \in Channels => value \in Int
    BY <1>1 DEF BookTypes
  <2>2. pendingBytes' = [pendingBytes EXCEPT ![owner[t]] = value]
    BY DEF Finish
  <2> HIDE DEF value
  <2> QED
    BY <2>1, <2>2 DEF BookTypes
<1> QED
  BY <1>2, <1>3 DEF BookTypes, TaskTypes, Finish

LEMMA ReleaseType ==
  ASSUME UploadTypes, TaskTypes, LaneTypes, NEW t \in Tasks, Release(t),
         UNCHANGED <<sendLock, upSize>>
  PROVE  /\ UploadTypes'
         /\ ahead' \in [Actors -> SUBSET Actors] /\ inflight' \in Int /\ queuedBytes' \in Int
         /\ phase' \in [Tasks -> Phases]
         /\ owner' \in [Tasks -> Channels \cup {None}]
         /\ size' \in [Tasks -> Sizes \cup {0}]
<1>1. UploadTypes'
  BY NotifyLaneType DEF Release, NotifyChannel, UploadTypes, UpStates
<1>2. ahead' \in [Actors -> SUBSET Actors]
  BY LeaveAndNotifyType DEF Release
<1>3. inflight' \in Int /\ queuedBytes' \in Int
  BY LaneBooksType DEF Release, TaskTypes
<1>4. /\ phase' \in [Tasks -> Phases]
      /\ owner' \in [Tasks -> Channels \cup {None}]
      /\ size' \in [Tasks -> Sizes \cup {0}]
  BY DEF Release, TaskTypes, Phases
<1> QED
  BY <1>1, <1>2, <1>3, <1>4

LEMMA TaskDoneType ==
  ASSUME ChannelTypes, RecoverTypes, NEW t \in Tasks, TaskDone(t),
         UNCHANGED <<closed, closing, history, bridge, rec, recSize>>
  PROVE  ChannelTypes' /\ RecoverTypes'
BY DEF ChannelTypes, RecoverTypes, TaskDone

(***************************************************************************)
(* The type invariant is kept by every step.                               *)
(***************************************************************************)
LEMMA TypeInit == Init => TypeOK
<1> SUFFICES ASSUME Init PROVE TypeOK
  OBVIOUS
<1>1. ChannelTypes
  BY DEF Init, ChannelTypes
<1>2. BookTypes
  BY DEF Init, BookTypes
<1>3. UploadTypes /\ RecoverTypes
  BY DEF Init, UploadTypes, RecoverTypes, UpStates, RecStates
<1>4. TaskTypes
  BY DEF Init, TaskTypes, Phases
<1>5. LaneTypes
  <2>1. ahead \in [Actors -> SUBSET Actors]
    BY DEF Init
  <2>2. inflight \in Int /\ queuedBytes \in Int
    BY DEF Init
  <2>3. laneClosed \in BOOLEAN
    BY DEF Init
  <2> QED
    BY <2>1, <2>2, <2>3, Zenon DEF LaneTypes
<1> QED
  BY <1>1, <1>2, <1>3, <1>4, <1>5 DEF TypeOK

LEMMA TypeUpload ==
  ASSUME TypeOK, NEW c \in Channels, Upload(c)
  PROVE  TypeOK'
<1> USE DEF TypeOK, chanVars, bookVars, upVars, recVars, taskVars, laneVars, bookkeeping
<1> DEFINE Rest == UNCHANGED <<chanVars, bookVars, recVars, taskVars>>
<1>0. Rest => ChannelTypes' /\ BookTypes' /\ RecoverTypes' /\ TaskTypes'
  BY DEF ChannelTypes, BookTypes, RecoverTypes, TaskTypes
<1>1. ASSUME NEW n \in Sizes, ReadPacket(c, n) PROVE TypeOK'
  BY <1>0, <1>1 DEF ReadPacket, UploadTypes, UpStates, LaneTypes
<1>2. CASE ReadFails(c)
  BY <1>0, <1>2 DEF ReadFails, UploadTypes, UpStates, LaneTypes
<1>3. CASE UploadTimeout(c)
  BY <1>0, <1>3, UploadEndsType DEF UploadTimeout, LaneTypes
<1>4. CASE AcquireSendLock(c)
  BY <1>0, <1>4 DEF AcquireSendLock, UploadTypes, UpStates, LaneTypes
<1>5. CASE AwaitChannelCapacity(c)
  <2>1. CASE closed[c]
    BY <1>0, <1>5, <2>1, UploadEndsType DEF AwaitChannelCapacity, LaneTypes
  <2>2. CASE ~closed[c]
    <3>1. UploadTypes' /\ UNCHANGED <<bookkeeping, laneClosed>> /\ Rest
      BY <1>5, <2>2 DEF AwaitChannelCapacity, UploadTypes, UpStates
    <3>2. ahead' \in [Actors -> SUBSET Actors]
      BY <1>5, <2>2, RequeueType, QueueType DEF AwaitChannelCapacity, LaneTypes
    <3> QED
      BY <1>0, <3>1, <3>2 DEF LaneTypes
  <2> QED
    BY <2>1, <2>2
<1>6. CASE LaneRefuses(c)
  BY <1>0, <1>6, UploadEndsType DEF LaneRefuses, LaneTypes
<1>7. CASE AwaitLaneCapacity(c)
  BY <1>0, <1>7, RequeueType, QueueType DEF AwaitLaneCapacity, UploadTypes, UpStates, LaneTypes
<1>8. CASE Send(c)
  <2>1. PICK kept \in BOOLEAN : Admit(c, upSize[c], FALSE, kept)
    BY <1>8 DEF Send
  <2>2. ChannelTypes' /\ BookTypes' /\ TaskTypes'
    BY <1>8, <2>1, AdmitType DEF Send, UploadTypes
  <2>3. UploadTypes'
    BY <1>8, UploadLeavesType DEF Send, UploadTypes, UpStates
  <2>4. LaneTypes'
    BY <1>8, LeaveType, LaneBooksType DEF Send, LaneTypes, UploadTypes
  <2> QED
    BY <1>8, <2>2, <2>3, <2>4 DEF Send, RecoverTypes
<1>9. CASE SendOnClosed(c)
  <2>1. CASE Queue = {c}
    BY <1>0, <1>9, <2>1, UploadLeavesType, NotifyLaneType, LeaveAndNotifyType
       DEF SendOnClosed, LaneTypes, UpStates
  <2>2. CASE Queue # {c}
    <3>1. UploadTypes'
      BY <1>9, <2>2 DEF SendOnClosed, UploadTypes, UpStates
    <3>2. LaneTypes'
      BY <1>9, <2>2, RequeueType, QueueType, LaneBooksType DEF SendOnClosed, LaneTypes, UploadTypes
    <3> QED
      BY <1>0, <1>9, <3>1, <3>2 DEF SendOnClosed
  <2> QED
    BY <2>1, <2>2
<1>10. CASE UploadGivesBack(c)
  <2>1. UploadTypes'
    BY <1>10, UploadLeavesType, NotifyLaneType DEF UploadGivesBack, UpStates
  <2>2. LaneTypes'
    BY <1>10, LeaveAndNotifyType, LaneBooksType DEF UploadGivesBack, LaneTypes, UploadTypes
  <2> QED
    BY <1>0, <1>10, <2>1, <2>2 DEF UploadGivesBack
<1>11. CASE CancelUpload(c)
  BY <1>0, <1>11, UploadEndsType DEF CancelUpload, LaneTypes
<1> QED
  BY <1>1, <1>2, <1>3, <1>4, <1>5, <1>6, <1>7, <1>8, <1>9, <1>10, <1>11 DEF Upload, UploadRuns

(***************************************************************************)
(* Every outcome of send(replay=True) keeps the types.                     *)
(***************************************************************************)
LEMMA TypeReplayReserve ==
  ASSUME TypeOK, NEW c \in Channels, NEW n \in Sizes \cup {0}, ReplayReserve(c, n)
  PROVE  TypeOK'
<1> USE DEF TypeOK, chanVars, bookVars, upVars, recVars, taskVars, laneVars, bookkeeping
<1>0. UNCHANGED <<chanVars, bookVars, taskVars>> => ChannelTypes' /\ BookTypes' /\ TaskTypes'
  BY DEF ChannelTypes, BookTypes, TaskTypes
<1>1. CASE /\ RecoverGoes(c, IF LaneHasCapacity(n) THEN "dead" ELSE "tick")
           /\ Unlock(c, "recover")
           /\ Leave(c)
           /\ UNCHANGED <<chanVars, bookVars, upVars, taskVars, bookkeeping, laneClosed>>
  <2>1. UploadTypes'
    BY <1>1 DEF UploadTypes, Unlock
  <2>2. RecoverTypes'
    BY <1>1 DEF RecoverTypes, RecoverGoes, RecStates
  <2>3. LaneTypes'
    BY <1>1, LeaveType DEF LaneTypes
  <2> QED
    BY <1>0, <1>1, <2>1, <2>2, <2>3
<1>2. CASE /\ RecoverGoes(c, IF closed[c] THEN "dead" ELSE "tick")
           /\ up' = NotifyLane(up)
           /\ Unlock(c, "recover")
           /\ LeaveAndNotify(c)
           /\ UNCHANGED <<chanVars, bookVars, upSize, taskVars, bookkeeping, laneClosed>>
  <2>1. UploadTypes'
    BY <1>2, NotifyLaneType DEF UploadTypes, Unlock
  <2>2. RecoverTypes'
    BY <1>2 DEF RecoverTypes, RecoverGoes, RecStates
  <2>3. LaneTypes'
    BY <1>2, LeaveAndNotifyType DEF LaneTypes
  <2> QED
    BY <1>0, <1>2, <2>1, <2>2, <2>3
<1>3. CASE /\ LaneReserve(n)
           /\ rec' = [rec EXCEPT ![c] = "give"]
           /\ Requeue(c, Queue)
           /\ UNCHANGED <<recOn, recSize, sendLock, up>>
           /\ UNCHANGED <<chanVars, bookVars, upSize, taskVars, laneClosed>>
  <2>1. UploadTypes'
    BY <1>3 DEF UploadTypes
  <2>2. RecoverTypes'
    BY <1>3 DEF RecoverTypes, RecStates
  <2>3. LaneTypes'
    BY <1>3, RequeueType, QueueType, LaneBooksType DEF LaneTypes
  <2> QED
    BY <1>0, <1>3, <2>1, <2>2, <2>3
<1>4. CASE /\ LaneReserve(n)
           /\ Admit(c, n, TRUE, FALSE)
           /\ RecoverGoes(c, "tick")
           /\ Unlock(c, "recover")
           /\ Leave(c)
           /\ UNCHANGED <<closed, closing, closeSet, bridge, upVars, laneClosed>>
  <2>1. ChannelTypes' /\ BookTypes' /\ TaskTypes'
    BY <1>4, AdmitType
  <2>2. UploadTypes'
    BY <1>4 DEF UploadTypes, Unlock
  <2>3. RecoverTypes'
    BY <1>4 DEF RecoverTypes, RecoverGoes, RecStates
  <2>4. LaneTypes'
    BY <1>4, LeaveType, LaneBooksType DEF LaneTypes
  <2> QED
    BY <2>1, <2>2, <2>3, <2>4
<1> QED
  BY <1>1, <1>2, <1>3, <1>4 DEF ReplayReserve

LEMMA TypeSendReplay ==
  ASSUME TypeOK, NEW c \in Channels, NEW n \in Sizes, SendReplay(c, n)
  PROVE  TypeOK'
<1> USE DEF chanVars, bookVars, upVars, recVars, taskVars, laneVars, bookkeeping
<1>0. UNCHANGED <<chanVars, bookVars, upVars, taskVars>> /\ TypeOK =>
        ChannelTypes' /\ BookTypes' /\ TaskTypes'
  BY DEF TypeOK, ChannelTypes, BookTypes, TaskTypes
<1>1. CASE /\ \E r \in {"tick", "dead"} : RecoverGoes(c, r)
           /\ UNCHANGED <<chanVars, bookVars, sendLock, upVars, taskVars, laneVars>>
  BY <1>0, <1>1 DEF TypeOK, RecoverGoes, RecoverTypes, RecStates, UploadTypes, LaneTypes
<1>2. CASE ReplayReserve(c, n)
  BY <1>2, TypeReplayReserve
<1>3. CASE /\ rec' = [rec EXCEPT ![c] = "lane"]
           /\ recSize' = [recSize EXCEPT ![c] = n]
           /\ sendLock' = [sendLock EXCEPT ![c] = "recover"]
           /\ Requeue(c, Queue)
           /\ UNCHANGED <<chanVars, bookVars, upVars, recOn, taskVars, bookkeeping, laneClosed>>
  <2>1. RecoverTypes' /\ UploadTypes'
    BY <1>3 DEF TypeOK, RecoverTypes, RecStates, UploadTypes
  <2>2. LaneTypes'
    BY <1>3, RequeueType, QueueType DEF TypeOK, LaneTypes
  <2> QED
    BY <1>0, <1>3, <2>1, <2>2 DEF TypeOK
<1> QED
  BY <1>1, <1>2, <1>3 DEF SendReplay

LEMMA TypeReplayPass ==
  ASSUME TypeOK, NEW c \in Channels, ReplayPass(c)
  PROVE  TypeOK'
<1> USE DEF chanVars, bookVars, upVars, recVars, taskVars, laneVars, bookkeeping
<1>1. CASE /\ RecoverGoes(c, "tick")
           /\ UNCHANGED <<chanVars, bookVars, sendLock, upVars, taskVars, laneVars>>
  BY <1>1 DEF TypeOK, RecoverGoes, RecoverTypes, RecStates, UploadTypes, LaneTypes,
              ChannelTypes, BookTypes, TaskTypes
<1>2. CASE \E r \in replayPending[c] : /\ RecoverAwaits(c, "swap", r)
                                        /\ UNCHANGED <<sentSince, replayable>>
  <2>1. PICK r \in Tasks : /\ RecoverAwaits(c, "swap", r)
                           /\ UNCHANGED <<sentSince, replayable>>
    BY <1>2 DEF TypeOK, BookTypes
  <2> QED
    BY <2>1 DEF RecoverAwaits, Cancel, TypeOK, RecoverTypes, RecStates, UploadTypes, LaneTypes,
                ChannelTypes, BookTypes, TaskTypes
<1>3. CASE \E n \in Sizes : SendReplay(c, n)
  BY <1>3, TypeSendReplay
<1> QED
  BY <1>1, <1>2, <1>3 DEF ReplayPass

LEMMA TypeRecover ==
  ASSUME TypeOK, NEW c \in Channels, Recover(c)
  PROVE  TypeOK'
<1> USE DEF chanVars, bookVars, upVars, recVars, taskVars, laneVars, bookkeeping
<1>1. CASE RecoverTick(c)
  <2>1. CASE ReplayPass(c)
    BY <2>1, TypeReplayPass
  <2>2. CASE \E t \in Candidates(c) : /\ sentSince' = sentSince \ {t}
                                      /\ UNCHANGED replayable
                                      /\ RecoverAwaits(c, "room", t)
    <3>1. PICK t \in Tasks : /\ sentSince' = sentSince \ {t}
                             /\ UNCHANGED replayable
                             /\ RecoverAwaits(c, "room", t)
      <4>1. RoomTargets(c) \subseteq Channels
        BY DEF RoomTargets
      <4>2. Candidates(c) \subseteq Tasks
        BY <4>1 DEF Candidates, TypeOK, BookTypes
      <4> QED
        BY <2>2, <4>2
    <3> QED
      BY <3>1 DEF RecoverAwaits, Cancel, TypeOK, RecoverTypes, RecStates, UploadTypes, LaneTypes,
                  ChannelTypes, BookTypes, TaskTypes
  <2> QED
    BY <1>1, <2>1, <2>2 DEF RecoverTick
<1>2. CASE RoomMade(c)
  BY <1>2, TypeReplayPass DEF RoomMade
<1>3. CASE SlotFreed(c)
  BY <1>3, TypeSendReplay DEF SlotFreed
<1>4. CASE ReplayLocked(c)
  BY <1>4, TypeReplayReserve DEF ReplayLocked, TypeOK, RecoverTypes
<1>5. CASE RecoverGivesBack(c)
  <2>1. UploadTypes'
    BY <1>5, NotifyLaneType DEF RecoverGivesBack, TypeOK, UploadTypes, Unlock
  <2>2. LaneTypes'
    BY <1>5, LeaveAndNotifyType, LaneBooksType DEF RecoverGivesBack, TypeOK, LaneTypes, RecoverTypes
  <2>3. RecoverTypes'
    BY <1>5 DEF RecoverGivesBack, RecoverGoes, TypeOK, RecoverTypes, RecStates
  <2> QED
    BY <1>5, <2>1, <2>2, <2>3 DEF RecoverGivesBack, TypeOK, ChannelTypes, BookTypes, TaskTypes
<1>6. CASE RecoverEnds(c)
  BY <1>6 DEF RecoverEnds, RecoverGoes, TypeOK, RecoverTypes, RecStates, UploadTypes, LaneTypes,
              ChannelTypes, BookTypes, TaskTypes
<1>7. CASE CancelRecover(c)
  <2>1. UploadTypes' /\ RecoverTypes'
    BY <1>7 DEF CancelRecover, Unlock, TypeOK, RecoverTypes, RecStates, UploadTypes
  <2>2. TaskTypes'
    BY <1>7 DEF CancelRecover, Cancel, Gathered, TypeOK, TaskTypes, RecoverTypes
  <2>3. LaneTypes'
    BY <1>7, LeaveType DEF CancelRecover, TypeOK, LaneTypes
  <2> QED
    BY <1>7, <2>1, <2>2, <2>3 DEF CancelRecover, TypeOK, ChannelTypes, BookTypes
<1> QED
  BY <1>1, <1>2, <1>3, <1>4, <1>5, <1>6, <1>7 DEF Recover

(***************************************************************************)
(* The end of a request, whoever runs _finish_request.                     *)
(***************************************************************************)
LEMMA TypeFinishRequest ==
  ASSUME TypeOK, NEW t \in Tasks, FinishRequest(t),
         closed' \in [Channels -> BOOLEAN],
         UNCHANGED <<closing, history, bridge, sendLock, upSize, rec, recSize, laneClosed>>
  PROVE  TypeOK'
<1> USE DEF TypeOK, bookkeeping
<1>1. /\ BookTypes'
      /\ sentSince' \subseteq Tasks /\ doomed' \subseteq Tasks /\ replayable' \subseteq Tasks
  BY FinishType DEF FinishRequest
<1>2. CASE Release(t) /\ TaskDone(t)
  <2>1. /\ UploadTypes'
        /\ ahead' \in [Actors -> SUBSET Actors] /\ inflight' \in Int /\ queuedBytes' \in Int
        /\ phase' \in [Tasks -> Phases]
        /\ owner' \in [Tasks -> Channels \cup {None}]
        /\ size' \in [Tasks -> Sizes \cup {0}]
    BY <1>2, ReleaseType
  <2>2. ChannelTypes' /\ RecoverTypes'
    BY <1>2 DEF ChannelTypes, RecoverTypes, TaskDone
  <2> QED
    BY <1>1, <2>1, <2>2 DEF TaskTypes, LaneTypes
<1>3. CASE /\ phase' = [phase EXCEPT ![t] = "release"]
           /\ Requeue(t, Queue)
           /\ UNCHANGED <<closeSet, recOn, up, owner, size, bookkeeping>>
  <2>1. TaskTypes'
    BY <1>1, <1>3 DEF TaskTypes, Phases
  <2>2. LaneTypes'
    BY <1>3, RequeueType, QueueType DEF LaneTypes
  <2> QED
    BY <1>1, <1>3, <2>1, <2>2 DEF ChannelTypes, UploadTypes, RecoverTypes
<1> QED
  BY <1>2, <1>3 DEF FinishRequest

LEMMA TypeRequest ==
  ASSUME TypeOK, NEW t \in Tasks, Request(t)
  PROVE  TypeOK'
<1> USE DEF TypeOK, chanVars, bookVars, upVars, recVars, taskVars, laneVars, bookkeeping
<1>1. CASE StartRequest(t)
  BY <1>1 DEF StartRequest, TaskTypes, Phases, ChannelTypes, BookTypes, UploadTypes,
              RecoverTypes, LaneTypes
<1>2. CASE DropUnstarted(t)
  <2>1. ChannelTypes' /\ RecoverTypes'
    BY <1>2, TaskDoneType DEF DropUnstarted
  <2>2. TaskTypes'
    BY <1>2 DEF DropUnstarted, TaskTypes, Phases
  <2> QED
    BY <1>2, <2>1, <2>2 DEF DropUnstarted, BookTypes, UploadTypes, LaneTypes
<1>3. CASE BodySent(t)
  BY <1>3 DEF BodySent, TaskTypes, ChannelTypes, BookTypes, UploadTypes, RecoverTypes, LaneTypes
<1>4. CASE ResponseStarts(t)
  BY <1>4 DEF ResponseStarts, TaskTypes, Phases, ChannelTypes, BookTypes, UploadTypes,
              RecoverTypes, LaneTypes
<1>5. CASE Answered(t)
  BY <1>5, TypeFinishRequest DEF Answered, ChannelTypes
<1>6. CASE Failed(t)
  BY <1>6, TypeFinishRequest DEF Failed, ChannelTypes
<1>7. CASE Unwind(t)
  BY <1>7, TypeFinishRequest DEF Unwind, ChannelTypes
<1>8. CASE ReleaseLater(t)
  <2>1. ChannelTypes' /\ RecoverTypes'
    BY <1>8, TaskDoneType DEF ReleaseLater
  <2>2. /\ UploadTypes'
        /\ ahead' \in [Actors -> SUBSET Actors] /\ inflight' \in Int /\ queuedBytes' \in Int
        /\ phase' \in [Tasks -> Phases]
        /\ owner' \in [Tasks -> Channels \cup {None}]
        /\ size' \in [Tasks -> Sizes \cup {0}]
    BY <1>8, ReleaseType DEF ReleaseLater
  <2> QED
    BY <1>8, <2>1, <2>2 DEF ReleaseLater, BookTypes, TaskTypes, LaneTypes
<1>9. CASE ReleaseCancelled(t)
  <2>1. ChannelTypes' /\ RecoverTypes'
    BY <1>9, TaskDoneType DEF ReleaseCancelled
  <2>2. TaskTypes'
    BY <1>9 DEF ReleaseCancelled, TaskTypes, Phases
  <2>3. LaneTypes'
    BY <1>9, LeaveType DEF ReleaseCancelled, LaneTypes
  <2> QED
    BY <1>9, <2>1, <2>2, <2>3 DEF ReleaseCancelled, BookTypes, UploadTypes
<1> QED
  BY <1>1, <1>2, <1>3, <1>4, <1>5, <1>6, <1>7, <1>8, <1>9 DEF Request

LEMMA TypeClose ==
  ASSUME TypeOK, NEW c \in Channels, Close(c)
  PROVE  TypeOK'
<1> USE DEF TypeOK, chanVars, bookVars, upVars, recVars, taskVars, laneVars, bookkeeping
<1>1. CASE BridgeStops(c) \/ UploadSurvives(c) \/ BridgeJoined(c)
  BY <1>1 DEF BridgeStops, UploadSurvives, BridgeJoined, ChannelTypes, BookTypes, UploadTypes, RecoverTypes,
              TaskTypes, LaneTypes
<1>2. CASE CloseBegins(c)
  BY <1>2 DEF CloseBegins, Cancel, ChannelTypes, BookTypes, UploadTypes, RecoverTypes, TaskTypes, LaneTypes
<1>3. ASSUME NEW t \in Tasks, CloseFinishes(c, t) PROVE TypeOK'
  <2>1. /\ BookTypes'
        /\ sentSince' \subseteq Tasks /\ doomed' \subseteq Tasks /\ replayable' \subseteq Tasks
    BY <1>3, FinishType DEF CloseFinishes
  <2>2. ChannelTypes' /\ RecoverTypes'
    BY <1>3 DEF CloseFinishes, ChannelTypes, RecoverTypes
  <2>3. CASE Release(t)
    <3>1. /\ UploadTypes'
          /\ ahead' \in [Actors -> SUBSET Actors] /\ inflight' \in Int /\ queuedBytes' \in Int
          /\ phase' \in [Tasks -> Phases]
          /\ owner' \in [Tasks -> Channels \cup {None}]
          /\ size' \in [Tasks -> Sizes \cup {0}]
      BY <1>3, <2>3, ReleaseType DEF CloseFinishes
    <3> QED
      BY <1>3, <2>1, <2>2, <3>1 DEF CloseFinishes, TaskTypes, LaneTypes
  <2>4. CASE /\ phase' = [phase EXCEPT ![t] = "release"]
             /\ Requeue(t, Queue)
             /\ UNCHANGED <<up, owner, size, bookkeeping>>
    <3>1. TaskTypes'
      BY <2>1, <2>4 DEF TaskTypes, Phases
    <3>2. LaneTypes'
      BY <1>3, <2>4, RequeueType, QueueType DEF CloseFinishes, LaneTypes
    <3> QED
      BY <1>3, <2>1, <2>2, <2>4, <3>1, <3>2 DEF CloseFinishes, UploadTypes
  <2> QED
    BY <1>3, <2>3, <2>4 DEF CloseFinishes
<1>4. CASE CloseDone(c)
  BY <1>4 DEF CloseDone, ChannelTypes, BookTypes, UploadTypes, RecoverTypes, TaskTypes, LaneTypes
<1> QED
  BY <1>1, <1>2, <1>3, <1>4 DEF Close

LEMMA TypeNext == TypeOK /\ [Next]_vars => TypeOK'
<1> SUFFICES ASSUME TypeOK, [Next]_vars PROVE TypeOK'
  OBVIOUS
<1>1. ASSUME NEW c \in Channels, Upload(c) \/ Recover(c) \/ Close(c) PROVE TypeOK'
  BY <1>1, TypeUpload, TypeRecover, TypeClose
<1>2. ASSUME NEW t \in Tasks, Request(t) PROVE TypeOK'
  BY <1>2, TypeRequest
<1>3. CASE LaneCloses
  <2>1. UploadTypes'
    BY <1>3, NotifyLaneType DEF LaneCloses, TypeOK, UploadTypes
  <2>2. LaneTypes'
    BY <1>3, LeaveAndNotifyType DEF LaneCloses, TypeOK, LaneTypes, bookkeeping
  <2> QED
    BY <1>3, <2>1, <2>2 DEF LaneCloses, TypeOK, ChannelTypes, BookTypes, RecoverTypes, TaskTypes,
                            chanVars, bookVars, recVars, taskVars
<1>4. CASE UNCHANGED vars
  BY <1>4 DEF vars, TypeOK, ChannelTypes, BookTypes, UploadTypes, RecoverTypes, TaskTypes, LaneTypes,
              chanVars, bookVars, upVars, recVars, taskVars, laneVars, bookkeeping
<1> QED
  BY <1>1, <1>2, <1>3, <1>4 DEF Next

(***************************************************************************)
(* Every variable keeps its type, in every state the lane can reach.       *)
(***************************************************************************)
THEOREM TypeCorrect == Spec => []TypeOK
BY TypeInit, TypeNext, PTL DEF Spec

(***************************************************************************)
(* What a step does to the lane: it keeps the slots that are taken, takes  *)
(* one more, or gives one back.                                            *)
(***************************************************************************)
SlotSets(L, U, R) == Live' \subseteq L /\ UploadsGiving' \subseteq U /\ RecoversGiving' \subseteq R

Keeps == SlotSets(Live, UploadsGiving, RecoversGiving) /\ inflight' = inflight

Takes ==
  /\ inflight < MaxLaneRequests
  /\ inflight' = inflight + 1
  /\ \E x : \/ SlotSets(Live \cup {x}, UploadsGiving, RecoversGiving)
            \/ SlotSets(Live, UploadsGiving \cup {x}, RecoversGiving)
            \/ SlotSets(Live, UploadsGiving, RecoversGiving \cup {x})

GivesBack ==
  /\ inflight' = inflight - 1
  /\ \/ \E x \in Live : SlotSets(Live \ {x}, UploadsGiving, RecoversGiving)
     \/ \E x \in UploadsGiving : SlotSets(Live, UploadsGiving \ {x}, RecoversGiving)
     \/ \E x \in RecoversGiving : SlotSets(Live, UploadsGiving, RecoversGiving \ {x})

LEMMA SlotSetsFinite == IsFiniteSet(Live) /\ IsFiniteSet(UploadsGiving) /\ IsFiniteSet(RecoversGiving)
<1>1. Live \subseteq Tasks /\ UploadsGiving \subseteq Channels /\ RecoversGiving \subseteq Channels
  BY DEF Live, UploadsGiving, RecoversGiving
<1> QED
  BY <1>1, FiniteAssumption, FS_Subset

\* A is S, S with one more element or S with one less, and counts n.
Near(S, A, n) ==
  \/ A = S /\ n = Cardinality(S)
  \/ (\E x : A = S \cup {x}) /\ n = Cardinality(S) + 1
  \/ (\E x \in S : A = S \ {x}) /\ n = Cardinality(S) - 1

LEMMA Counting ==
  ASSUME NEW S, IsFiniteSet(S), NEW A, NEW n, Near(S, A, n), NEW T, T \subseteq A
  PROVE  Cardinality(T) \in Nat /\ Cardinality(T) <= n
<1>1. Cardinality(S) \in Nat
  BY FS_CardinalityType
<1>2. IsFiniteSet(A) /\ Cardinality(A) \in Nat /\ Cardinality(A) <= n
  <2>1. CASE A = S /\ n = Cardinality(S)
    BY <1>1, <2>1
  <2>2. CASE (\E x : A = S \cup {x}) /\ n = Cardinality(S) + 1
    <3>1. PICK x : A = S \cup {x}
      BY <2>2
    <3>2. IsFiniteSet(A) /\ (Cardinality(A) = Cardinality(S) \/ Cardinality(A) = Cardinality(S) + 1)
      BY <3>1, FS_AddElement
    <3> QED
      BY <1>1, <2>2, <3>2
  <2>3. CASE (\E x \in S : A = S \ {x}) /\ n = Cardinality(S) - 1
    <3>1. IsFiniteSet(A) /\ Cardinality(A) = Cardinality(S) - 1
      BY <2>3, FS_RemoveElement
    <3> QED
      BY <2>3, <3>1, FS_CardinalityType
  <2> QED
    BY <2>1, <2>2, <2>3 DEF Near
<1>3. Cardinality(T) \in Nat /\ Cardinality(T) <= Cardinality(A)
  BY <1>2, FS_Subset, FS_CardinalityType
<1>4. n \in Int
  BY <1>1 DEF Near
<1> QED
  BY <1>2, <1>3, <1>4

LEMMA SlotsAreCovered ==
  ASSUME LaneNotOversubscribed, inflight \in Int, Keeps \/ Takes \/ GivesBack
  PROVE  LaneNotOversubscribed'
<1> DEFINE L == Cardinality(Live)
           U == Cardinality(UploadsGiving)
           R == Cardinality(RecoversGiving)
           Total == L' + U' + R'
<1>1. L \in Nat /\ U \in Nat /\ R \in Nat
  BY SlotSetsFinite, FS_CardinalityType
<1>2. L + U + R <= inflight /\ inflight <= MaxLaneRequests /\ MaxLaneRequests \in Int
  BY BoundAssumption DEF LaneNotOversubscribed, Occupied
<1>3. ASSUME NEW A, NEW B, NEW C, SlotSets(A, B, C),
             NEW a \in Nat, NEW b \in Nat, NEW d \in Nat,
             Near(Live, A, a), Near(UploadsGiving, B, b), Near(RecoversGiving, C, d)
      PROVE  Total \in Nat /\ Total <= a + b + d
  <2>1. L' \in Nat /\ L' <= a
    BY <1>3, SlotSetsFinite, Counting DEF SlotSets
  <2>2. U' \in Nat /\ U' <= b
    BY <1>3, SlotSetsFinite, Counting DEF SlotSets
  <2>3. R' \in Nat /\ R' <= d
    BY <1>3, SlotSetsFinite, Counting DEF SlotSets
  <2> QED
    BY <2>1, <2>2, <2>3
<1>4. \A S : IsFiniteSet(S) => \A x \in S : Cardinality(S) - 1 \in Nat
  BY FS_RemoveElement, FS_CardinalityType
<1> HIDE DEF Total
<1>5. Total <= inflight' /\ inflight' <= MaxLaneRequests
  <2>1. CASE Keeps
    <3>1. Total \in Nat /\ Total <= L + U + R
      BY <1>1, <1>3, <2>1 DEF Keeps, Near
    <3> QED
      BY <1>1, <1>2, <2>1, <3>1 DEF Keeps
  <2>2. CASE Takes
    <3>1. Total \in Nat /\ Total <= L + U + R + 1
      <4>1. PICK x : \/ SlotSets(Live \cup {x}, UploadsGiving, RecoversGiving)
                     \/ SlotSets(Live, UploadsGiving \cup {x}, RecoversGiving)
                     \/ SlotSets(Live, UploadsGiving, RecoversGiving \cup {x})
        BY <2>2 DEF Takes
      <4>2. L + 1 \in Nat /\ U + 1 \in Nat /\ R + 1 \in Nat
        BY <1>1
      <4>3. CASE SlotSets(Live \cup {x}, UploadsGiving, RecoversGiving)
        <5>1. Total \in Nat /\ Total <= (L + 1) + U + R
          BY <1>1, <1>3, <4>2, <4>3 DEF Near
        <5> QED
          BY <1>1, <5>1
      <4>4. CASE SlotSets(Live, UploadsGiving \cup {x}, RecoversGiving)
        <5>1. Total \in Nat /\ Total <= L + (U + 1) + R
          BY <1>1, <1>3, <4>2, <4>4 DEF Near
        <5> QED
          BY <1>1, <5>1
      <4>5. CASE SlotSets(Live, UploadsGiving, RecoversGiving \cup {x})
        <5>1. Total \in Nat /\ Total <= L + U + (R + 1)
          BY <1>1, <1>3, <4>2, <4>5 DEF Near
        <5> QED
          BY <1>1, <5>1
      <4> QED
        BY <4>1, <4>3, <4>4, <4>5
    <3> QED
      BY <1>1, <1>2, <2>2, <3>1 DEF Takes
  <2>3. CASE GivesBack
    <3>1. Total \in Nat /\ Total <= L + U + R - 1
      <4>1. CASE \E x \in Live : SlotSets(Live \ {x}, UploadsGiving, RecoversGiving)
        <5>1. Total \in Nat /\ Total <= (L - 1) + U + R
          BY <1>1, <1>3, <1>4, <4>1, SlotSetsFinite DEF Near
        <5> QED
          BY <1>1, <5>1
      <4>2. CASE \E x \in UploadsGiving : SlotSets(Live, UploadsGiving \ {x}, RecoversGiving)
        <5>1. Total \in Nat /\ Total <= L + (U - 1) + R
          BY <1>1, <1>3, <1>4, <4>2, SlotSetsFinite DEF Near
        <5> QED
          BY <1>1, <5>1
      <4>3. CASE \E x \in RecoversGiving : SlotSets(Live, UploadsGiving, RecoversGiving \ {x})
        <5>1. Total \in Nat /\ Total <= L + U + (R - 1)
          BY <1>1, <1>3, <1>4, <4>3, SlotSetsFinite DEF Near
        <5> QED
          BY <1>1, <5>1
      <4> QED
        BY <2>3, <4>1, <4>2, <4>3 DEF GivesBack
    <3> QED
      BY <1>1, <1>2, <2>3, <3>1 DEF GivesBack
  <2> QED
    BY <2>1, <2>2, <2>3
<1> QED
  BY <1>5 DEF Total, LaneNotOversubscribed, Occupied

(***************************************************************************)
(* Nothing is given back twice: a request in the books of a channel holds  *)
(* its slot of the lane until it leaves them.                              *)
(***************************************************************************)
LEMMA FinishRequestLane ==
  ASSUME TypeOK, PendingAreLive, NEW t \in Tasks, phase[t] # "free",
         Finish(t), UNCHANGED rec,
         \/ Release(t)
         \/ /\ phase' = [phase EXCEPT ![t] = "release"]
            /\ UNCHANGED <<up, owner, inflight>>
  PROVE  PendingAreLive' /\ (Keeps \/ GivesBack)
<1>1. \A c \in Channels : pending'[c] = pending[c] \ {t}
  BY DEF Finish, PendingAreLive, TypeOK, BookTypes
<1>2. \A u \in Tasks \ {t} : phase'[u] = phase[u] /\ owner'[u] = owner[u]
  BY DEF Release, TypeOK, TaskTypes
<1>3. PendingAreLive'
  BY <1>1, <1>2 DEF PendingAreLive, TypeOK, BookTypes
<1>4. RecoversGiving' = RecoversGiving
  BY DEF RecoversGiving
<1>5. CASE Release(t)
  <2>1. UploadsGiving' \subseteq UploadsGiving
    BY <1>5 DEF Release, UploadsGiving, NotifyLane, NotifyChannel, TypeOK, UploadTypes
  <2>2. Live' \subseteq Live \ {t}
    BY <1>5 DEF Release, Live, TypeOK, TaskTypes
  <2>3. t \in Live /\ inflight' = inflight - 1
    BY <1>5 DEF Release, LaneRelease, Live
  <2> QED
    BY <1>3, <1>4, <2>1, <2>2, <2>3 DEF GivesBack, SlotSets
<1>6. CASE /\ phase' = [phase EXCEPT ![t] = "release"]
           /\ UNCHANGED <<up, owner, inflight>>
  <2>1. UploadsGiving' = UploadsGiving
    BY <1>6 DEF UploadsGiving
  <2>2. Live' \subseteq Live
    BY <1>6 DEF Live, TypeOK, TaskTypes
  <2> QED
    BY <1>3, <1>4, <1>6, <2>1, <2>2 DEF Keeps, SlotSets
<1> QED
  BY <1>5, <1>6

LEMMA AdmitLane ==
  ASSUME TypeOK, PendingAreLive, NEW c \in Channels, NEW n, NEW replay \in BOOLEAN,
         NEW kept \in BOOLEAN, Admit(c, n, replay, kept), LaneReserve(n),
         UploadsGiving' \subseteq UploadsGiving, RecoversGiving' \subseteq RecoversGiving
  PROVE  PendingAreLive' /\ Takes
<1> PICK t \in Tasks : Admit(c, n, replay, kept)!(t)
  BY DEF Admit
<1>1. Live' \subseteq Live \cup {t}
  BY DEF Live, TypeOK, TaskTypes
<1>2. Takes
  BY <1>1 DEF Takes, SlotSets, LaneReserve, LaneHasCapacity
<1>3. PendingAreLive'
  BY DEF PendingAreLive, TypeOK, BookTypes, TaskTypes
<1> QED
  BY <1>2, <1>3

LEMMA UploadLane ==
  ASSUME TypeOK, PendingAreLive, NEW c \in Channels, Upload(c)
  PROVE  PendingAreLive' /\ (Keeps \/ Takes \/ GivesBack)
<1> USE DEF chanVars, bookVars, upVars, recVars, taskVars, laneVars, bookkeeping
<1>0. UNCHANGED <<pending, phase, owner, rec>> =>
        /\ PendingAreLive'
        /\ Live' = Live /\ RecoversGiving' = RecoversGiving
  BY DEF PendingAreLive, Live, RecoversGiving
<1>1. ASSUME UNCHANGED <<pending, phase, owner, rec, inflight>>,
             UploadsGiving' \subseteq UploadsGiving
      PROVE  PendingAreLive' /\ Keeps
  BY <1>0, <1>1 DEF Keeps, SlotSets
<1>2. ASSUME NEW n \in Sizes, ReadPacket(c, n) PROVE PendingAreLive' /\ Keeps
  BY <1>1, <1>2 DEF ReadPacket, UploadsGiving, TypeOK, UploadTypes
<1>3. CASE ReadFails(c) \/ AcquireSendLock(c) \/ AwaitLaneCapacity(c)
  BY <1>1, <1>3 DEF ReadFails, AcquireSendLock, AwaitLaneCapacity, UploadsGiving, TypeOK, UploadTypes
<1>4. CASE UploadTimeout(c) \/ LaneRefuses(c) \/ CancelUpload(c)
  BY <1>1, <1>4 DEF UploadTimeout, LaneRefuses, CancelUpload, UploadEnds, UploadLeaves,
                    UploadsGiving, TypeOK, UploadTypes
<1>5. CASE AwaitChannelCapacity(c)
  BY <1>1, <1>5 DEF AwaitChannelCapacity, UploadEnds, UploadLeaves, UploadsGiving, TypeOK, UploadTypes
<1>6. CASE Send(c)
  <2>1. PICK kept \in BOOLEAN : Admit(c, upSize[c], FALSE, kept)
    BY <1>6 DEF Send
  <2>2. UploadsGiving' \subseteq UploadsGiving /\ RecoversGiving' \subseteq RecoversGiving
    BY <1>6 DEF Send, UploadLeaves, UploadsGiving, RecoversGiving, TypeOK, UploadTypes
  <2> QED
    BY <1>6, <2>1, <2>2, AdmitLane DEF Send
<1>7. CASE SendOnClosed(c)
  <2>1. CASE Queue = {c}
    BY <1>1, <1>7, <2>1 DEF SendOnClosed, UploadLeaves, NotifyLane, UploadsGiving, TypeOK, UploadTypes
  <2>2. CASE Queue # {c}
    <3>1. UploadsGiving' \subseteq UploadsGiving \cup {c}
      BY <1>7, <2>2 DEF SendOnClosed, UploadsGiving, TypeOK, UploadTypes
    <3>2. inflight < MaxLaneRequests /\ inflight' = inflight + 1
      BY <1>7, <2>2 DEF SendOnClosed, LaneReserve, LaneHasCapacity
    <3>3. PendingAreLive' /\ Live' = Live /\ RecoversGiving' = RecoversGiving
      BY <1>0, <1>7 DEF SendOnClosed
    <3> QED
      BY <3>1, <3>2, <3>3 DEF Takes, SlotSets
  <2> QED
    BY <2>1, <2>2
<1>8. CASE UploadGivesBack(c)
  <2>1. UploadsGiving' \subseteq UploadsGiving \ {c} /\ c \in UploadsGiving
    BY <1>8 DEF UploadGivesBack, UploadLeaves, NotifyLane, UploadsGiving, TypeOK, UploadTypes
  <2>2. PendingAreLive' /\ Live' = Live /\ RecoversGiving' = RecoversGiving
    BY <1>0, <1>8 DEF UploadGivesBack
  <2>3. inflight' = inflight - 1
    BY <1>8 DEF UploadGivesBack, LaneRelease
  <2> QED
    BY <2>1, <2>2, <2>3 DEF GivesBack, SlotSets
<1> QED
  BY <1>2, <1>3, <1>4, <1>5, <1>6, <1>7, <1>8 DEF Upload, UploadRuns

LEMMA ReplayLane ==
  ASSUME TypeOK, PendingAreLive, NEW c \in Channels, NEW n \in Sizes \cup {0},
         rec[c] # "give", ReplayReserve(c, n) \/ (n \in Sizes /\ SendReplay(c, n))
  PROVE  PendingAreLive' /\ (Keeps \/ Takes)
<1> USE DEF chanVars, bookVars, upVars, recVars, taskVars, laneVars, bookkeeping
<1>0. UNCHANGED <<pending, phase, owner>> => PendingAreLive' /\ Live' = Live
  BY DEF PendingAreLive, Live
<1>1. ASSUME UNCHANGED <<pending, phase, owner, inflight>>,
             up' \in {up, NotifyLane(up)},
             rec'[c] # "give", \A d \in Channels \ {c} : rec'[d] = rec[d]
      PROVE  PendingAreLive' /\ Keeps
  <2>1. UploadsGiving' \subseteq UploadsGiving
    BY <1>1 DEF UploadsGiving, NotifyLane, TypeOK, UploadTypes
  <2>2. RecoversGiving' \subseteq RecoversGiving
    BY <1>1 DEF RecoversGiving
  <2> QED
    BY <1>0, <1>1, <2>1, <2>2 DEF Keeps, SlotSets
<1>2. CASE /\ LaneReserve(n)
           /\ rec' = [rec EXCEPT ![c] = "give"]
           /\ UNCHANGED <<up, pending, phase, owner>>
  <2>1. UploadsGiving' = UploadsGiving /\ RecoversGiving' \subseteq RecoversGiving \cup {c}
    BY <1>2 DEF UploadsGiving, RecoversGiving, TypeOK, RecoverTypes
  <2> QED
    BY <1>0, <1>2, <2>1 DEF Takes, SlotSets, LaneReserve, LaneHasCapacity
<1>3. CASE LaneReserve(n) /\ Admit(c, n, TRUE, FALSE) /\ RecoverGoes(c, "tick") /\ UNCHANGED up
  <2>1. UploadsGiving' = UploadsGiving /\ RecoversGiving' \subseteq RecoversGiving
    BY <1>3 DEF UploadsGiving, RecoversGiving, RecoverGoes, TypeOK, RecoverTypes
  <2> QED
    BY <1>3, <2>1, AdmitLane
<1>4. ASSUME ReplayReserve(c, n) PROVE PendingAreLive' /\ (Keeps \/ Takes)
  <2>1. CASE /\ RecoverGoes(c, IF LaneHasCapacity(n) THEN "dead" ELSE "tick")
             /\ UNCHANGED <<chanVars, bookVars, upVars, taskVars, bookkeeping>>
    BY <1>1, <2>1 DEF RecoverGoes, TypeOK, RecoverTypes
  <2>2. CASE /\ RecoverGoes(c, IF closed[c] THEN "dead" ELSE "tick")
             /\ up' = NotifyLane(up)
             /\ UNCHANGED <<chanVars, bookVars, taskVars, bookkeeping>>
    BY <1>1, <2>2 DEF RecoverGoes, TypeOK, RecoverTypes
  <2> QED
    BY <1>2, <1>3, <1>4, <2>1, <2>2 DEF ReplayReserve
<1>5. ASSUME SendReplay(c, n) PROVE PendingAreLive' /\ (Keeps \/ Takes)
  <2>1. CASE /\ \E r \in {"tick", "dead"} : RecoverGoes(c, r)
             /\ UNCHANGED <<chanVars, bookVars, upVars, taskVars, laneVars>>
    BY <1>1, <2>1 DEF RecoverGoes, TypeOK, RecoverTypes
  <2>2. CASE /\ rec' = [rec EXCEPT ![c] = "lane"]
             /\ UNCHANGED <<bookVars, upVars, taskVars, bookkeeping>>
    BY <1>1, <2>2 DEF TypeOK, RecoverTypes
  <2> QED
    BY <1>4, <1>5, <2>1, <2>2 DEF SendReplay
<1> QED
  BY <1>4, <1>5

LEMMA RecoverLane ==
  ASSUME TypeOK, PendingAreLive, NEW c \in Channels, Recover(c)
  PROVE  PendingAreLive' /\ (Keeps \/ Takes \/ GivesBack)
<1> USE DEF chanVars, bookVars, upVars, recVars, taskVars, laneVars, bookkeeping
<1>1. ASSUME UNCHANGED <<pending, phase, owner, up, inflight>>,
             rec'[c] # "give", \A d \in Channels \ {c} : rec'[d] = rec[d]
      PROVE  PendingAreLive' /\ Keeps
  <2>1. UploadsGiving' = UploadsGiving /\ RecoversGiving' \subseteq RecoversGiving
    BY <1>1 DEF UploadsGiving, RecoversGiving
  <2> QED
    BY <1>1, <2>1 DEF PendingAreLive, Live, Keeps, SlotSets
<1>2. ASSUME ReplayPass(c), rec[c] # "give" PROVE PendingAreLive' /\ (Keeps \/ Takes)
  <2>1. CASE RecoverGoes(c, "tick") /\ UNCHANGED <<bookVars, upVars, taskVars, laneVars>>
    BY <1>1, <2>1 DEF RecoverGoes, TypeOK, RecoverTypes
  <2>2. CASE \E r \in replayPending[c] : RecoverAwaits(c, "swap", r)
    BY <1>1, <2>2 DEF RecoverAwaits, TypeOK, RecoverTypes
  <2>3. CASE \E n \in Sizes : SendReplay(c, n)
    BY <1>2, <2>3, ReplayLane
  <2> QED
    BY <1>2, <2>1, <2>2, <2>3 DEF ReplayPass
<1>3. CASE RecoverTick(c)
  <2>1. CASE \E t \in Candidates(c) : RecoverAwaits(c, "room", t)
    BY <1>1, <2>1 DEF RecoverAwaits, TypeOK, RecoverTypes
  <2> QED
    BY <1>2, <1>3, <2>1 DEF RecoverTick
<1>4. CASE RoomMade(c)
  BY <1>2, <1>4 DEF RoomMade
<1>5. CASE SlotFreed(c)
  BY <1>5, ReplayLane DEF SlotFreed
<1>6. CASE ReplayLocked(c)
  BY <1>6, ReplayLane DEF ReplayLocked, TypeOK, RecoverTypes
<1>7. CASE RecoverGivesBack(c)
  <2>1. c \in RecoversGiving /\ RecoversGiving' \subseteq RecoversGiving \ {c}
    BY <1>7 DEF RecoverGivesBack, RecoverGoes, RecoversGiving, TypeOK, RecoverTypes
  <2>2. UploadsGiving' \subseteq UploadsGiving
    BY <1>7 DEF RecoverGivesBack, NotifyLane, UploadsGiving, TypeOK, UploadTypes
  <2>3. inflight' = inflight - 1 /\ PendingAreLive' /\ Live' = Live
    BY <1>7 DEF RecoverGivesBack, LaneRelease, PendingAreLive, Live
  <2> QED
    BY <2>1, <2>2, <2>3 DEF GivesBack, SlotSets
<1>8. CASE RecoverEnds(c) \/ CancelRecover(c)
  BY <1>1, <1>8 DEF RecoverEnds, CancelRecover, RecoverGoes, TypeOK, RecoverTypes
<1> QED
  BY <1>3, <1>4, <1>5, <1>6, <1>7, <1>8 DEF Recover

LEMMA RequestLane ==
  ASSUME TypeOK, PendingAreLive, NEW t \in Tasks, Request(t)
  PROVE  PendingAreLive' /\ (Keeps \/ Takes \/ GivesBack)
<1> USE DEF chanVars, bookVars, upVars, recVars, taskVars, laneVars, bookkeeping
<1>1. CASE StartRequest(t) \/ DropUnstarted(t) \/ BodySent(t) \/ ResponseStarts(t)
  <2>1. /\ \E p \in {phase[t], "run", "void", "body"} : phase' = [phase EXCEPT ![t] = p]
        /\ phase[t] # "free"
        /\ phase[t] # "release"
        /\ UNCHANGED <<pending, owner, up, rec, inflight>>
    BY <1>1 DEF StartRequest, DropUnstarted, BodySent, ResponseStarts, TypeOK, TaskTypes
  <2>2. PendingAreLive'
    BY <2>1 DEF PendingAreLive, TypeOK, TaskTypes, BookTypes
  <2>3. Live' \subseteq Live /\ UploadsGiving' = UploadsGiving /\ RecoversGiving' = RecoversGiving
    BY <2>1 DEF Live, UploadsGiving, RecoversGiving, TypeOK, TaskTypes
  <2> QED
    BY <2>1, <2>2, <2>3 DEF Keeps, SlotSets
<1>2. CASE Answered(t) \/ Failed(t) \/ Unwind(t)
  BY <1>2, FinishRequestLane DEF Answered, Failed, Unwind, Started, FinishRequest
<1>3. CASE ReleaseLater(t)
  <2>1. t \in Live /\ Live' \subseteq Live \ {t}
    BY <1>3 DEF ReleaseLater, Release, Live, TypeOK, TaskTypes
  <2>2. UploadsGiving' \subseteq UploadsGiving /\ RecoversGiving' = RecoversGiving
    BY <1>3 DEF ReleaseLater, Release, NotifyLane, NotifyChannel, UploadsGiving, RecoversGiving,
                TypeOK, UploadTypes
  <2>3. PendingAreLive'
    BY <1>3 DEF ReleaseLater, Release, PendingAreLive, TypeOK, BookTypes, TaskTypes
  <2> QED
    BY <1>3, <2>1, <2>2, <2>3 DEF ReleaseLater, Release, LaneRelease, GivesBack, SlotSets
<1>4. CASE ReleaseCancelled(t)
  <2>1. Live' \subseteq Live /\ UploadsGiving' = UploadsGiving /\ RecoversGiving' = RecoversGiving
    BY <1>4 DEF ReleaseCancelled, Live, UploadsGiving, RecoversGiving, TypeOK, TaskTypes
  <2>2. PendingAreLive'
    BY <1>4 DEF ReleaseCancelled, PendingAreLive, TypeOK, BookTypes, TaskTypes
  <2> QED
    BY <1>4, <2>1, <2>2 DEF ReleaseCancelled, Keeps, SlotSets
<1> QED
  BY <1>1, <1>2, <1>3, <1>4 DEF Request

LEMMA CloseLane ==
  ASSUME TypeOK, PendingAreLive, NEW c \in Channels, Close(c)
  PROVE  PendingAreLive' /\ (Keeps \/ Takes \/ GivesBack)
<1> USE DEF chanVars, bookVars, upVars, recVars, taskVars, laneVars, bookkeeping
<1>1. CASE BridgeStops(c) \/ UploadSurvives(c) \/ BridgeJoined(c) \/ CloseBegins(c) \/ CloseDone(c)
  <2>1. UNCHANGED <<pending, phase, owner, up, rec, inflight>>
    BY <1>1 DEF BridgeStops, UploadSurvives, BridgeJoined, CloseBegins, CloseDone
  <2> QED
    BY <2>1 DEF PendingAreLive, Live, UploadsGiving, RecoversGiving, Keeps, SlotSets
<1>2. ASSUME NEW t \in Tasks, CloseFinishes(c, t)
      PROVE  PendingAreLive' /\ (Keeps \/ GivesBack)
  <2>1. phase[t] # "free"
    BY <1>2 DEF CloseFinishes, PendingAreLive
  <2> QED
    BY <1>2, <2>1, FinishRequestLane DEF CloseFinishes
<1> QED
  BY <1>1, <1>2 DEF Close

(***************************************************************************)
(* The lane is never oversubscribed.                                       *)
(***************************************************************************)
LaneInv == TypeOK /\ PendingAreLive /\ LaneNotOversubscribed

LEMMA LaneInvInit == Init => LaneInv
<1> SUFFICES ASSUME Init PROVE LaneInv
  OBVIOUS
<1>1. TypeOK
  BY TypeInit
<1>2. PendingAreLive
  BY DEF Init, PendingAreLive
<1>3. Live = {} /\ UploadsGiving = {} /\ RecoversGiving = {}
  BY DEF Init, Live, UploadsGiving, RecoversGiving
<1>4. LaneNotOversubscribed
  <2>1. Occupied = 0
    BY <1>3, FS_EmptySet DEF Occupied
  <2>2. inflight = 0
    BY DEF Init
  <2> QED
    BY <2>1, <2>2, BoundAssumption DEF LaneNotOversubscribed
<1> QED
  BY <1>1, <1>2, <1>4 DEF LaneInv

LEMMA LaneInvNext == LaneInv /\ [Next]_vars => LaneInv'
<1> SUFFICES ASSUME LaneInv, [Next]_vars PROVE LaneInv'
  OBVIOUS
<1>1. TypeOK' /\ inflight \in Int
  BY TypeNext DEF LaneInv, TypeOK, LaneTypes
<1>2. PendingAreLive' /\ (Keeps \/ Takes \/ GivesBack)
  <2>1. ASSUME NEW c \in Channels, Upload(c) \/ Recover(c) \/ Close(c)
        PROVE  PendingAreLive' /\ (Keeps \/ Takes \/ GivesBack)
    BY <2>1, UploadLane, RecoverLane, CloseLane DEF LaneInv
  <2>2. ASSUME NEW t \in Tasks, Request(t)
        PROVE  PendingAreLive' /\ (Keeps \/ Takes \/ GivesBack)
    BY <2>2, RequestLane DEF LaneInv
  <2>3. CASE LaneCloses
    <3>1. UploadsGiving' \subseteq UploadsGiving
      BY <2>3 DEF LaneCloses, NotifyLane, UploadsGiving, LaneInv, TypeOK, UploadTypes
    <3>2. /\ PendingAreLive' /\ inflight' = inflight
          /\ Live' = Live /\ RecoversGiving' = RecoversGiving
      BY <2>3 DEF LaneCloses, LaneInv, PendingAreLive, Live, RecoversGiving,
                  bookVars, recVars, taskVars, bookkeeping
    <3> QED
      BY <3>1, <3>2 DEF Keeps, SlotSets
  <2>4. CASE UNCHANGED vars
    BY <2>4 DEF vars, bookVars, upVars, recVars, taskVars, laneVars, bookkeeping, LaneInv,
                PendingAreLive, Live, UploadsGiving, RecoversGiving, Keeps, SlotSets
  <2> QED
    BY <2>1, <2>2, <2>3, <2>4 DEF Next
<1>3. LaneNotOversubscribed'
  BY <1>1, <1>2, SlotsAreCovered DEF LaneInv
<1> QED
  BY <1>1, <1>2, <1>3 DEF LaneInv

THEOREM LaneCorrect == Spec => [](PendingAreLive /\ LaneNotOversubscribed)
<1>1. LaneInv => PendingAreLive /\ LaneNotOversubscribed
  BY DEF LaneInv
<1> QED
  BY <1>1, LaneInvInit, LaneInvNext, PTL DEF Spec

(***************************************************************************)
(* A channel is never overfilled: what its upload or its replay tested     *)
(* still holds when the request enters the books, because send_lock keeps  *)
(* the other one out and everything else only shrinks them.                *)
(***************************************************************************)
\* The controls u and r of the upload and _recover, the holder l of send_lock
\* and the number n of requests agree.
Room(u, r, l, n) ==
  /\ u \in {"chan", "chanWait", "lane", "laneWait", "give"} => l = "upload"
  /\ r \in {"lane", "give"} => l = "recover"
  /\ u \in {"lane", "laneWait"} => n < MaxChannelRequests
  /\ r = "lane" => n < MaxChannelRequests
  /\ n <= MaxChannelRequests

Requests(c) == Cardinality(pending[c])
RoomIsKept(c) == Room(up[c], rec[c], sendLock[c], Requests(c))

\* Another actor's step, as channel c sees it: it may wake the upload.
Undisturbed(c) ==
  /\ pending'[c] \subseteq pending[c]
  /\ \/ up'[c] = up[c]
     \/ up[c] = "laneWait" /\ up'[c] = "lane"
     \/ up[c] = "chanWait" /\ up'[c] = "chan"
  /\ rec'[c] = rec[c]
  /\ sendLock'[c] = sendLock[c]

LEMMA RequestsType ==
  ASSUME TypeOK, NEW c \in Channels
  PROVE  /\ IsFiniteSet(pending[c])
         /\ Requests(c) \in Nat
         /\ pending'[c] \subseteq pending[c] => Requests(c)' \in Nat /\ Requests(c)' <= Requests(c)
         /\ pending' = pending => Requests(c)' = Requests(c)
BY FiniteAssumption, FS_Subset, FS_CardinalityType DEF TypeOK, BookTypes, Requests

LEMMA UndisturbedKeepsRoom ==
  ASSUME TypeOK, NEW c \in Channels, RoomIsKept(c), Undisturbed(c)
  PROVE  RoomIsKept(c)'
<1>1. /\ Requests(c) \in Nat /\ Requests(c)' \in Nat
      /\ Requests(c)' <= Requests(c)
      /\ MaxChannelRequests \in Nat
  BY RequestsType, BoundAssumption DEF Undisturbed
<1> HIDE DEF Requests
<1> QED
  BY <1>1 DEF Undisturbed, RoomIsKept, Room

LEMMA AdmitKeepsRoom ==
  ASSUME TypeOK, NEW c \in Channels, NEW n, NEW replay \in BOOLEAN, NEW kept \in BOOLEAN,
         Admit(c, n, replay, kept), Requests(c) < MaxChannelRequests
  PROVE  /\ Requests(c)' <= MaxChannelRequests
         /\ \A d \in Channels \ {c} : pending'[d] = pending[d]
<1> PICK t \in Tasks : Admit(c, n, replay, kept)!(t)
  BY DEF Admit
<1>1. pending' = [pending EXCEPT ![c] = pending[c] \cup {t}]
  OBVIOUS
<1>2. pending'[c] = pending[c] \cup {t} /\ \A d \in Channels \ {c} : pending'[d] = pending[d]
  BY <1>1 DEF TypeOK, BookTypes
<1>3. Cardinality(pending'[c]) = Cardinality(pending[c])
        \/ Cardinality(pending'[c]) = Cardinality(pending[c]) + 1
  <2>1. IsFiniteSet(pending[c])
    BY RequestsType
  <2>2. \/ Cardinality(pending[c] \cup {t}) = Cardinality(pending[c])
        \/ Cardinality(pending[c] \cup {t}) = Cardinality(pending[c]) + 1
    BY <2>1, FS_AddElement
  <2> QED
    BY <1>2, <2>2
<1>4. Requests(c) \in Nat /\ MaxChannelRequests \in Nat
  BY RequestsType, BoundAssumption
<1>5. Requests(c)' <= MaxChannelRequests
  BY <1>3, <1>4 DEF Requests
<1> QED
  BY <1>2, <1>5

LEMMA UploadRoom ==
  ASSUME TypeOK, NEW c \in Channels, RoomIsKept(c), Upload(c)
  PROVE  RoomIsKept(c)' /\ \A d \in Channels \ {c} : Undisturbed(d)
<1> USE DEF chanVars, bookVars, upVars, recVars, taskVars, laneVars, bookkeeping
<1> HIDE DEF Requests
\* Every action but Send leaves the books alone.
<1>1. ASSUME UNCHANGED <<pending, rec>>,
             NEW u \in UpStates, NEW w \in {up, NotifyLane(up)}, up' = [w EXCEPT ![c] = u],
             NEW l \in {"free", "upload", "recover"}, sendLock' = [sendLock EXCEPT ![c] = l],
             Room(u, rec[c], l, Requests(c))
      PROVE  RoomIsKept(c)' /\ \A d \in Channels \ {c} : Undisturbed(d)
  <2>1. up'[c] = u /\ rec'[c] = rec[c] /\ sendLock'[c] = l /\ Requests(c)' = Requests(c)
    BY <1>1, RequestsType, NotifyLaneType DEF TypeOK, UploadTypes
  <2>2. ASSUME NEW d \in Channels \ {c} PROVE Undisturbed(d)
    <3>1. up'[d] = w[d] /\ sendLock'[d] = sendLock[d]
      BY <1>1, NotifyLaneType DEF TypeOK, UploadTypes
    <3>2. w[d] = up[d] \/ (up[d] = "laneWait" /\ w[d] = "lane")
      BY <1>1 DEF NotifyLane
    <3> QED
      BY <1>1, <3>1, <3>2 DEF Undisturbed
  <2> QED
    BY <1>1, <2>1, <2>2 DEF RoomIsKept
<1>2. up \in [Channels -> UpStates] /\ sendLock \in [Channels -> {"free", "upload", "recover"}]
  BY DEF TypeOK, UploadTypes
<1>3. ASSUME NEW n \in Sizes, ReadPacket(c, n)
      PROVE  RoomIsKept(c)' /\ \A d \in Channels \ {c} : Undisturbed(d)
  BY <1>1, <1>2, <1>3 DEF ReadPacket, RoomIsKept, Room, UpStates
<1>4. CASE ReadFails(c)
  BY <1>1, <1>2, <1>4 DEF ReadFails, RoomIsKept, Room, UpStates
<1>5. CASE AcquireSendLock(c)
  BY <1>1, <1>2, <1>5 DEF AcquireSendLock, RoomIsKept, Room, UpStates
<1>6. CASE AwaitLaneCapacity(c)
  BY <1>1, <1>2, <1>6 DEF AwaitLaneCapacity, RoomIsKept, Room, UpStates
<1>7. ASSUME UploadEnds(c), UNCHANGED <<pending, rec>>
      PROVE  RoomIsKept(c)' /\ \A d \in Channels \ {c} : Undisturbed(d)
  BY <1>1, <1>2, <1>7 DEF UploadEnds, UploadLeaves, Unlock, RoomIsKept, Room, UpStates
<1>8. CASE UploadTimeout(c) \/ LaneRefuses(c) \/ CancelUpload(c)
  BY <1>7, <1>8 DEF UploadTimeout, LaneRefuses, CancelUpload
<1>9. CASE AwaitChannelCapacity(c)
  BY <1>1, <1>2, <1>7, <1>9 DEF AwaitChannelCapacity, HasCapacity, Requests, RoomIsKept, Room, UpStates
<1>10. CASE SendOnClosed(c)
  BY <1>1, <1>2, <1>10 DEF SendOnClosed, UploadLeaves, Unlock, RoomIsKept, Room, UpStates
<1>11. CASE UploadGivesBack(c)
  BY <1>1, <1>2, <1>11 DEF UploadGivesBack, UploadLeaves, Unlock, RoomIsKept, Room, UpStates
<1>12. CASE Send(c)
  <2>1. /\ Requests(c)' <= MaxChannelRequests
        /\ \A d \in Channels \ {c} : pending'[d] = pending[d]
    BY <1>12, AdmitKeepsRoom DEF Send, RoomIsKept, Room
  <2>2. up'[c] = "idle" /\ rec' = rec /\ rec[c] \notin {"lane", "give"}
    BY <1>2, <1>12 DEF Send, UploadLeaves, RoomIsKept, Room
  <2>3. ASSUME NEW d \in Channels \ {c} PROVE Undisturbed(d)
    <3>1. up'[d] = up[d] /\ sendLock'[d] = sendLock[d] /\ rec' = rec
      BY <1>2, <1>12 DEF Send, UploadLeaves, Unlock
    <3> QED
      BY <2>1, <3>1 DEF Undisturbed
  <2> QED
    BY <2>1, <2>2, <2>3 DEF RoomIsKept, Room
<1> QED
  BY <1>3, <1>4, <1>5, <1>6, <1>8, <1>9, <1>10, <1>11, <1>12 DEF Upload, UploadRuns

LEMMA ReplayRoom ==
  ASSUME TypeOK, NEW c \in Channels, RoomIsKept(c), NEW n \in Sizes \cup {0},
         \/ rec[c] = "lane" /\ ReplayReserve(c, n)
         \/ n \in Sizes /\ SendReplay(c, n) /\ rec[c] \notin {"lane", "give"}
  PROVE  RoomIsKept(c)' /\ \A d \in Channels \ {c} : Undisturbed(d)
<1> USE DEF chanVars, bookVars, upVars, recVars, taskVars, laneVars, bookkeeping
<1> HIDE DEF Requests
<1>0. /\ up \in [Channels -> UpStates] /\ rec \in [Channels -> RecStates]
      /\ sendLock \in [Channels -> {"free", "upload", "recover"}]
  BY DEF TypeOK, UploadTypes, RecoverTypes
<1>1. ASSUME up' \in {up, NotifyLane(up)},
             NEW r \in RecStates, rec' = [rec EXCEPT ![c] = r],
             NEW l \in {"free", "upload", "recover"}, sendLock' = [sendLock EXCEPT ![c] = l],
             \A d \in Channels \ {c} : pending'[d] = pending[d],
             \A u \in UpStates : Room(u, rec[c], sendLock[c], Requests(c)) =>
                                   Room(u, r, l, Requests(c)')
      PROVE  RoomIsKept(c)' /\ \A d \in Channels \ {c} : Undisturbed(d)
  <2>1. Room(up'[c], rec[c], sendLock[c], Requests(c)) /\ up'[c] \in UpStates
    <3>1. up'[c] = up[c] \/ (up[c] = "laneWait" /\ up'[c] = "lane")
      BY <1>1 DEF NotifyLane
    <3> QED
      BY <1>0, <3>1 DEF RoomIsKept, Room, UpStates
  <2>2. rec'[c] = r /\ sendLock'[c] = l
    BY <1>0, <1>1
  <2>3. RoomIsKept(c)'
    BY <1>1, <2>1, <2>2 DEF RoomIsKept
  <2>4. ASSUME NEW d \in Channels \ {c} PROVE Undisturbed(d)
    <3>1. up'[d] = up[d] \/ (up[d] = "laneWait" /\ up'[d] = "lane")
      BY <1>1 DEF NotifyLane
    <3>2. rec'[d] = rec[d] /\ sendLock'[d] = sendLock[d] /\ pending'[d] = pending[d]
      BY <1>0, <1>1
    <3> QED
      BY <3>1, <3>2 DEF Undisturbed
  <2> QED
    BY <2>3, <2>4
\* The replay leaves send_lock, if it holds it.
<1>2. ASSUME NEW r \in {"tick", "dead"}, RecoverGoes(c, r), up' \in {up, NotifyLane(up)},
             UNCHANGED pending,
             Unlock(c, "recover") \/ (UNCHANGED sendLock /\ rec[c] \notin {"lane", "give"})
      PROVE  RoomIsKept(c)' /\ \A d \in Channels \ {c} : Undisturbed(d)
  <2> DEFINE l == IF Unlock(c, "recover") /\ sendLock[c] = "recover" THEN "free" ELSE sendLock[c]
  <2>1. sendLock' = [sendLock EXCEPT ![c] = l] /\ l \in {"free", "upload", "recover"}
    BY <1>0, <1>2 DEF Unlock
  <2>2. Requests(c)' = Requests(c)
    BY <1>2, RequestsType
  <2>3. \A u \in UpStates : Room(u, rec[c], sendLock[c], Requests(c)) => Room(u, r, l, Requests(c)')
    BY <1>2, <2>2 DEF Room
  <2> HIDE DEF l
  <2> QED
    BY <1>1, <1>2, <2>1, <2>3 DEF RecoverGoes, RecStates
<1>3. ASSUME NEW r \in {"lane", "give"}, rec' = [rec EXCEPT ![c] = r], UNCHANGED <<up, pending>>,
             Requests(c) < MaxChannelRequests,
             \/ UNCHANGED sendLock /\ sendLock[c] = "recover"
             \/ sendLock' = [sendLock EXCEPT ![c] = "recover"] /\ sendLock[c] = "free"
      PROVE  RoomIsKept(c)' /\ \A d \in Channels \ {c} : Undisturbed(d)
  <2>1. sendLock' = [sendLock EXCEPT ![c] = "recover"]
    BY <1>0, <1>3
  <2>2. Requests(c)' = Requests(c)
    BY <1>3, RequestsType
  <2>3. \A u \in UpStates : Room(u, rec[c], sendLock[c], Requests(c)) =>
                              Room(u, r, "recover", Requests(c)')
    BY <1>3, <2>2 DEF Room
  <2> QED
    BY <1>1, <1>3, <2>1, <2>3 DEF RecStates
<1>4. ASSUME LaneReserve(n), Admit(c, n, TRUE, FALSE), RecoverGoes(c, "tick"),
             Unlock(c, "recover"), UNCHANGED up, Requests(c) < MaxChannelRequests,
             up[c] \in {"lane", "laneWait"} => sendLock[c] # "free", sendLock[c] # "upload"
      PROVE  RoomIsKept(c)' /\ \A d \in Channels \ {c} : Undisturbed(d)
  <2>1. /\ Requests(c)' <= MaxChannelRequests
        /\ \A d \in Channels \ {c} : pending'[d] = pending[d]
    BY <1>4, AdmitKeepsRoom
  <2>2. sendLock' = [sendLock EXCEPT ![c] = "free"]
    BY <1>0, <1>4 DEF Unlock
  <2>3. \A u \in UpStates : Room(u, rec[c], sendLock[c], Requests(c)) =>
                              Room(u, "tick", "free", Requests(c)')
    BY <1>4, <2>1 DEF Room
  <2> QED
    BY <1>1, <1>4, <2>1, <2>2, <2>3 DEF RecoverGoes, RecStates
<1>5. ASSUME ReplayReserve(c, n), Requests(c) < MaxChannelRequests,
             \/ rec[c] = "lane" /\ sendLock[c] = "recover"
             \/ Queue = {} /\ sendLock[c] = "free" /\ rec[c] \notin {"lane", "give"}
      PROVE  RoomIsKept(c)' /\ \A d \in Channels \ {c} : Undisturbed(d)
  <2>1. CASE LaneReserve(n) /\ Admit(c, n, TRUE, FALSE) /\ RecoverGoes(c, "tick")
               /\ Unlock(c, "recover") /\ UNCHANGED up
    BY <1>4, <1>5, <2>1 DEF RoomIsKept, Room
  <2>2. CASE ~ Queue \subseteq {c} /\ rec' = [rec EXCEPT ![c] = "give"]
               /\ UNCHANGED <<up, pending, sendLock>>
    BY <1>3, <1>5, <2>2
  <2>3. CASE /\ RecoverGoes(c, IF LaneHasCapacity(n) THEN "dead" ELSE "tick")
             /\ Unlock(c, "recover") /\ UNCHANGED <<up, pending>>
    BY <1>2, <2>3
  <2>4. CASE /\ RecoverGoes(c, IF closed[c] THEN "dead" ELSE "tick")
             /\ up' = NotifyLane(up) /\ Unlock(c, "recover") /\ UNCHANGED pending
    BY <1>2, <2>4
  <2> QED
    BY <1>5, <2>1, <2>2, <2>3, <2>4 DEF ReplayReserve
<1>6. CASE rec[c] = "lane" /\ ReplayReserve(c, n)
  BY <1>5, <1>6 DEF RoomIsKept, Room
<1>7. CASE SendReplay(c, n) /\ rec[c] \notin {"lane", "give"}
  <2>1. CASE /\ \E r \in {"tick", "dead"} : RecoverGoes(c, r)
             /\ UNCHANGED <<bookVars, sendLock, upVars>>
    BY <1>2, <1>7, <2>1
  <2>2. CASE /\ sendLock[c] = "free" /\ HasCapacity(c, n) /\ Queue = {}
             /\ ReplayReserve(c, n)
    BY <1>5, <1>7, <2>2 DEF HasCapacity, Requests
  <2>3. CASE /\ sendLock[c] = "free" /\ HasCapacity(c, n)
             /\ rec' = [rec EXCEPT ![c] = "lane"]
             /\ sendLock' = [sendLock EXCEPT ![c] = "recover"]
             /\ UNCHANGED <<bookVars, upVars>>
    BY <1>3, <2>3 DEF HasCapacity, Requests
  <2> QED
    BY <1>7, <2>1, <2>2, <2>3 DEF SendReplay, SendLockIsFree
<1> QED
  BY <1>6, <1>7

LEMMA RecoverRoom ==
  ASSUME TypeOK, NEW c \in Channels, RoomIsKept(c), Recover(c)
  PROVE  RoomIsKept(c)' /\ \A d \in Channels \ {c} : Undisturbed(d)
<1> USE DEF chanVars, bookVars, upVars, recVars, taskVars, laneVars, bookkeeping
<1> HIDE DEF Requests
<1>0. /\ up \in [Channels -> UpStates] /\ rec \in [Channels -> RecStates]
      /\ sendLock \in [Channels -> {"free", "upload", "recover"}]
  BY DEF TypeOK, UploadTypes, RecoverTypes
<1>1. ASSUME NEW r \in RecStates \ {"lane", "give"}, rec' = [rec EXCEPT ![c] = r],
             up' \in {up, NotifyLane(up)}, UNCHANGED pending,
             Unlock(c, "recover") \/ (UNCHANGED sendLock /\ rec[c] \notin {"lane", "give"})
      PROVE  RoomIsKept(c)' /\ \A d \in Channels \ {c} : Undisturbed(d)
  <2>1. rec'[c] = r /\ Requests(c)' = Requests(c)
    BY <1>0, <1>1, RequestsType
  <2>2. up'[c] = up[c] \/ (up[c] = "laneWait" /\ up'[c] = "lane")
    BY <1>1 DEF NotifyLane
  <2>3. sendLock'[c] = sendLock[c] \/ (sendLock[c] = "recover" /\ sendLock'[c] = "free")
    BY <1>0, <1>1 DEF Unlock
  <2>4. RoomIsKept(c)'
    BY <1>1, <2>1, <2>2, <2>3 DEF RoomIsKept, Room
  <2>5. ASSUME NEW d \in Channels \ {c} PROVE Undisturbed(d)
    <3>1. up'[d] = up[d] \/ (up[d] = "laneWait" /\ up'[d] = "lane")
      BY <1>1 DEF NotifyLane
    <3>2. rec'[d] = rec[d] /\ sendLock'[d] = sendLock[d]
      BY <1>0, <1>1 DEF Unlock
    <3> QED
      BY <1>1, <3>1, <3>2 DEF Undisturbed
  <2> QED
    BY <2>4, <2>5
<1>2. ASSUME ReplayPass(c), rec[c] \notin {"lane", "give"}
      PROVE  RoomIsKept(c)' /\ \A d \in Channels \ {c} : Undisturbed(d)
  <2>1. CASE RecoverGoes(c, "tick") /\ UNCHANGED <<bookVars, sendLock, upVars>>
    BY <1>1, <1>2, <2>1 DEF RecoverGoes, RecStates
  <2>2. CASE \E r \in replayPending[c] : RecoverAwaits(c, "swap", r)
    BY <1>1, <1>2, <2>2 DEF RecoverAwaits, RecStates
  <2>3. CASE \E n \in Sizes : SendReplay(c, n)
    BY <1>2, <2>3, ReplayRoom
  <2> QED
    BY <1>2, <2>1, <2>2, <2>3 DEF ReplayPass
<1>3. CASE RecoverTick(c)
  <2>1. CASE \E t \in Candidates(c) : RecoverAwaits(c, "room", t)
    BY <1>1, <1>3, <2>1 DEF RecoverTick, RecoverAwaits, RecStates
  <2> QED
    BY <1>2, <1>3, <2>1 DEF RecoverTick
<1>4. CASE RoomMade(c)
  BY <1>2, <1>4 DEF RoomMade
<1>5. CASE SlotFreed(c)
  BY <1>5, ReplayRoom DEF SlotFreed
<1>6. CASE ReplayLocked(c)
  BY <1>6, ReplayRoom DEF ReplayLocked, TypeOK, RecoverTypes
<1>7. CASE RecoverGivesBack(c)
  <2>1. \E r \in {"dead", "tick"} : rec' = [rec EXCEPT ![c] = r]
    BY <1>7 DEF RecoverGivesBack, RecoverGoes
  <2> QED
    BY <1>1, <1>7, <2>1 DEF RecoverGivesBack, RecStates
<1>8. CASE RecoverEnds(c)
  BY <1>1, <1>8 DEF RecoverEnds, RecoverGoes, RecStates
<1>9. CASE CancelRecover(c)
  BY <1>1, <1>9 DEF CancelRecover, RecStates
<1> QED
  BY <1>3, <1>4, <1>5, <1>6, <1>7, <1>8, <1>9 DEF Recover

(***************************************************************************)
(* Requests and close() only shrink the books of a channel, and wake its   *)
(* upload.                                                                 *)
(***************************************************************************)
LEMMA OtherRoom ==
  ASSUME TypeOK,
         (\E t \in Tasks : Request(t)) \/ (\E d \in Channels : Close(d)) \/ LaneCloses
           \/ UNCHANGED vars
  PROVE  \A c \in Channels : Undisturbed(c)
<1> USE DEF chanVars, bookVars, upVars, recVars, taskVars, laneVars, bookkeeping
<1>1. ASSUME NEW t \in Tasks, Finish(t) PROVE \A c \in Channels : pending'[c] \subseteq pending[c]
  BY <1>1 DEF Finish, TypeOK, BookTypes
<1>2. ASSUME NEW t \in Tasks, Release(t)
      PROVE  \A c \in Channels : \/ up'[c] = up[c]
                                 \/ up[c] = "laneWait" /\ up'[c] = "lane"
                                 \/ up[c] = "chanWait" /\ up'[c] = "chan"
  BY <1>2 DEF Release, NotifyChannel, NotifyLane
<1>3. ASSUME NEW t \in Tasks, Request(t) PROVE \A c \in Channels : Undisturbed(c)
  <2>1. CASE StartRequest(t) \/ DropUnstarted(t) \/ BodySent(t) \/ ResponseStarts(t)
               \/ ReleaseCancelled(t)
    BY <2>1 DEF StartRequest, DropUnstarted, BodySent, ResponseStarts, ReleaseCancelled, Undisturbed
  <2>2. CASE ReleaseLater(t)
    BY <1>2, <2>2 DEF ReleaseLater, Undisturbed
  <2>3. CASE Answered(t) \/ Failed(t) \/ Unwind(t)
    <3>1. /\ FinishRequest(t)
          /\ UNCHANGED <<rec, sendLock>>
      BY <2>3 DEF Answered, Failed, Unwind
    <3> QED
      BY <1>1, <1>2, <3>1 DEF FinishRequest, Undisturbed
  <2> QED
    BY <1>3, <2>1, <2>2, <2>3 DEF Request
<1>4. ASSUME NEW d \in Channels, Close(d) PROVE \A c \in Channels : Undisturbed(c)
  <2>1. CASE BridgeStops(d) \/ UploadSurvives(d) \/ BridgeJoined(d) \/ CloseBegins(d) \/ CloseDone(d)
    BY <2>1 DEF BridgeStops, UploadSurvives, BridgeJoined, CloseBegins, CloseDone, Undisturbed
  <2>2. ASSUME NEW t \in Tasks, CloseFinishes(d, t) PROVE \A c \in Channels : Undisturbed(c)
    BY <1>1, <1>2, <2>2 DEF CloseFinishes, Undisturbed
  <2> QED
    BY <1>4, <2>1, <2>2 DEF Close
<1>5. CASE LaneCloses
  BY <1>5 DEF LaneCloses, NotifyLane, Undisturbed
<1>6. CASE UNCHANGED vars
  BY <1>6 DEF vars, Undisturbed
<1> QED
  BY <1>3, <1>4, <1>5, <1>6

RoomInv == TypeOK /\ \A c \in Channels : RoomIsKept(c)

LEMMA RoomInvInit == Init => RoomInv
<1> SUFFICES ASSUME Init PROVE RoomInv
  OBVIOUS
<1>1. TypeOK
  BY TypeInit
<1>2. ASSUME NEW c \in Channels PROVE RoomIsKept(c)
  <2>1. Requests(c) = 0
    BY FS_EmptySet DEF Init, Requests
  <2>2. up[c] = "idle" /\ rec[c] = "tick"
    BY DEF Init
  <2> HIDE DEF Requests
  <2> QED
    BY <2>1, <2>2, BoundAssumption DEF RoomIsKept, Room
<1> QED
  BY <1>1, <1>2 DEF RoomInv

LEMMA RoomInvNext == RoomInv /\ [Next]_vars => RoomInv'
<1> SUFFICES ASSUME RoomInv, [Next]_vars PROVE RoomInv'
  OBVIOUS
<1>1. TypeOK'
  BY TypeNext DEF RoomInv
<1>2. ASSUME NEW c \in Channels PROVE RoomIsKept(c)'
  <2>1. Undisturbed(c) => RoomIsKept(c)'
    BY UndisturbedKeepsRoom DEF RoomInv
  <2>2. ASSUME NEW d \in Channels, Upload(d) \/ Recover(d) PROVE RoomIsKept(c)'
    <3>1. RoomIsKept(d)' /\ \A e \in Channels \ {d} : Undisturbed(e)
      BY <2>2, UploadRoom, RecoverRoom DEF RoomInv
    <3> QED
      BY <2>1, <3>1
  <2>3. CASE (\E t \in Tasks : Request(t)) \/ (\E d \in Channels : Close(d)) \/ LaneCloses
               \/ UNCHANGED vars
    BY <2>1, <2>3, OtherRoom DEF RoomInv
  <2> QED
    BY <2>2, <2>3 DEF Next
<1> QED
  BY <1>1, <1>2 DEF RoomInv

THEOREM RoomCorrect == Spec => [](SendLockKeepsRoom /\ ChannelBounded)
<1>1. RoomInv => SendLockKeepsRoom /\ ChannelBounded
  BY DEF RoomInv, RoomIsKept, Room, Requests, SendLockKeepsRoom, ChannelBounded
<1> QED
  BY <1>1, RoomInvInit, RoomInvNext, PTL DEF Spec

(***************************************************************************)
(* No upload sleeps through room in the lane: whoever is parked after a    *)
(* step either has just tested, or was parked before while the lane only   *)
(* filled up; and where something is given back, everybody is woken.       *)
(***************************************************************************)
AllWoken == \A d \in Channels : up'[d] # "laneWait"

LaneFills == inflight' >= inflight /\ queuedBytes' >= queuedBytes /\ laneClosed' = laneClosed

SleepsOn(d) == up'[d] = "laneWait" => up[d] = "laneWait" /\ upSize'[d] = upSize[d]

ParksAlone(c) == up'[c] = "laneWait" => ~LaneHasCapacity(upSize[c])' /\ ~laneClosed'

LEMMA ReserveFills ==
  ASSUME LaneTypes, NEW n \in Sizes \cup {0},
         LaneReserve(n) \/ UNCHANGED bookkeeping, laneClosed' = laneClosed
  PROVE  LaneFills
<1>1. n \in Nat
  BY BoundAssumption
<1> QED
  BY <1>1, BoundAssumption DEF LaneTypes, LaneFills, LaneReserve, LaneHasCapacity, bookkeeping

WakesOrFills ==
  \/ AllWoken
  \/ LaneFills /\ \A d \in Channels : SleepsOn(d)
  \/ LaneFills /\ \E c \in Channels : ParksAlone(c) /\ \A d \in Channels \ {c} : SleepsOn(d)

LEMMA SleepersKeep ==
  ASSUME TypeOK, TypeOK', NoLostLaneWakeup, WakesOrFills
  PROVE  NoLostLaneWakeup'
<1>1. CASE AllWoken
  BY <1>1 DEF AllWoken, NoLostLaneWakeup
<1>2. ASSUME LaneFills, NEW d \in Channels, SleepsOn(d), up'[d] = "laneWait"
      PROVE  ~LaneHasCapacity(upSize[d])' /\ ~laneClosed'
  <2>1. ~LaneHasCapacity(upSize[d]) /\ ~laneClosed /\ upSize'[d] = upSize[d]
    BY <1>2 DEF SleepsOn, NoLostLaneWakeup
  <2>2. upSize[d] \in Int /\ inflight \in Int /\ queuedBytes \in Int
    BY SizesAreInts DEF TypeOK, UploadTypes, LaneTypes
  <2>3. inflight' \in Int /\ queuedBytes' \in Int
    BY DEF TypeOK, LaneTypes
  <2> QED
    BY <1>2, <2>1, <2>2, <2>3, BoundAssumption DEF LaneFills, LaneHasCapacity
<1> QED
  BY <1>1, <1>2 DEF WakesOrFills, ParksAlone, NoLostLaneWakeup

LEMMA NotifiedAreAwake ==
  ASSUME TypeOK
  PROVE  /\ \A d \in Channels : NotifyLane(up)[d] # "laneWait"
         /\ up' = NotifyLane(up) => AllWoken
         /\ \A c \in Channels, u \in UpStates \ {"laneWait"} :
              up' = [NotifyLane(up) EXCEPT ![c] = u] => AllWoken
         /\ \A c \in Channels : up' = NotifyChannel(NotifyLane(up), c) => AllWoken
BY DEF NotifyLane, NotifyChannel, AllWoken, TypeOK, UploadTypes, UpStates

LEMMA UploadWakes ==
  ASSUME TypeOK, NEW c \in Channels, Upload(c)
  PROVE  WakesOrFills
<1> USE DEF chanVars, bookVars, upVars, recVars, taskVars, laneVars
<1>0. /\ up \in [Channels -> UpStates] /\ upSize \in [Channels -> Sizes \cup {0}]
      /\ inflight \in Int /\ queuedBytes \in Int
  BY DEF TypeOK, UploadTypes, LaneTypes
\* The upload of c goes to u; the lane does not empty.
<1>1. ASSUME NEW u \in UpStates \ {"laneWait"}, up' = [up EXCEPT ![c] = u],
             \A d \in Channels \ {c} : upSize'[d] = upSize[d],
             LaneReserve(upSize[c]) \/ UNCHANGED bookkeeping, laneClosed' = laneClosed
      PROVE  WakesOrFills
  <2>1. LaneFills
    BY <1>0, <1>1, ReserveFills DEF TypeOK
  <2>2. \A d \in Channels : SleepsOn(d)
    BY <1>0, <1>1 DEF SleepsOn
  <2> QED
    BY <2>1, <2>2 DEF WakesOrFills
<1>2. ASSUME UploadEnds(c), UNCHANGED <<bookkeeping, laneClosed>> PROVE WakesOrFills
  BY <1>0, <1>1, <1>2 DEF UploadEnds, UploadLeaves, UpStates
<1>3. ASSUME NEW n \in Sizes, ReadPacket(c, n) PROVE WakesOrFills
  BY <1>0, <1>1, <1>3 DEF ReadPacket, UpStates
<1>4. CASE ReadFails(c) \/ AcquireSendLock(c)
  BY <1>0, <1>1, <1>4 DEF ReadFails, AcquireSendLock, UpStates
<1>5. CASE UploadTimeout(c) \/ LaneRefuses(c) \/ CancelUpload(c)
  BY <1>2, <1>5 DEF UploadTimeout, LaneRefuses, CancelUpload
<1>6. CASE AwaitChannelCapacity(c)
  BY <1>0, <1>1, <1>2, <1>6 DEF AwaitChannelCapacity, UpStates
<1>7. CASE AwaitLaneCapacity(c)
  <2>1. LaneFills
    BY <1>7, ReserveFills DEF AwaitLaneCapacity, TypeOK
  <2>2. ParksAlone(c)
    BY <1>7 DEF AwaitLaneCapacity, ParksAlone, LaneHasCapacity, bookkeeping
  <2>3. \A d \in Channels \ {c} : SleepsOn(d)
    BY <1>0, <1>7 DEF AwaitLaneCapacity, SleepsOn
  <2> QED
    BY <2>1, <2>2, <2>3 DEF WakesOrFills
<1>8. CASE Send(c)
  BY <1>0, <1>1, <1>8 DEF Send, UploadLeaves, UpStates
<1>9. CASE SendOnClosed(c)
  <2>1. CASE Queue = {c}
    BY <1>9, <2>1, NotifiedAreAwake DEF SendOnClosed, UploadLeaves, UpStates, WakesOrFills
  <2>2. CASE Queue # {c}
    BY <1>0, <1>1, <1>9, <2>2 DEF SendOnClosed, UpStates
  <2> QED
    BY <2>1, <2>2
<1>10. CASE UploadGivesBack(c)
  BY <1>10, NotifiedAreAwake DEF UploadGivesBack, UploadLeaves, UpStates, WakesOrFills
<1> QED
  BY <1>3, <1>4, <1>5, <1>6, <1>7, <1>8, <1>9, <1>10 DEF Upload, UploadRuns

LEMMA ReplayWakes ==
  ASSUME TypeOK, NEW c \in Channels, NEW n \in Sizes \cup {0},
         ReplayReserve(c, n) \/ (n \in Sizes /\ SendReplay(c, n))
  PROVE  WakesOrFills
<1> USE DEF chanVars, bookVars, upVars, recVars, taskVars, laneVars
<1>1. ASSUME UNCHANGED <<upVars, laneClosed>>, LaneReserve(n) \/ UNCHANGED bookkeeping
      PROVE  WakesOrFills
  BY <1>1, ReserveFills DEF SleepsOn, WakesOrFills, TypeOK
<1>2. CASE ReplayReserve(c, n)
  BY <1>1, <1>2, NotifiedAreAwake DEF ReplayReserve, WakesOrFills
<1>3. CASE n \in Sizes /\ SendReplay(c, n)
  BY <1>1, <1>2, <1>3 DEF SendReplay
<1> QED
  BY <1>2, <1>3

LEMMA RecoverWakes ==
  ASSUME TypeOK, NEW c \in Channels, Recover(c)
  PROVE  WakesOrFills
<1> USE DEF chanVars, bookVars, upVars, recVars, taskVars, laneVars
<1>1. ASSUME UNCHANGED <<upVars, bookkeeping, laneClosed>> PROVE WakesOrFills
  BY <1>1, BoundAssumption, ReserveFills DEF SleepsOn, WakesOrFills, TypeOK
<1>2. ASSUME ReplayPass(c) PROVE WakesOrFills
  <2>1. CASE \E n \in Sizes : SendReplay(c, n)
    BY <2>1, ReplayWakes
  <2> QED
    BY <1>1, <1>2, <2>1 DEF ReplayPass, RecoverAwaits
<1>3. CASE RecoverTick(c) \/ RoomMade(c)
  BY <1>1, <1>2, <1>3 DEF RecoverTick, RoomMade, RecoverAwaits
<1>4. CASE SlotFreed(c) \/ ReplayLocked(c)
  BY <1>4, ReplayWakes DEF SlotFreed, ReplayLocked, TypeOK, RecoverTypes
<1>5. CASE RecoverGivesBack(c)
  BY <1>5, NotifiedAreAwake DEF RecoverGivesBack, WakesOrFills
<1>6. CASE RecoverEnds(c) \/ CancelRecover(c)
  BY <1>1, <1>6 DEF RecoverEnds, CancelRecover
<1> QED
  BY <1>3, <1>4, <1>5, <1>6 DEF Recover

LEMMA OtherWakes ==
  ASSUME TypeOK,
         (\E t \in Tasks : Request(t)) \/ (\E d \in Channels : Close(d)) \/ LaneCloses
           \/ UNCHANGED vars
  PROVE  WakesOrFills
<1> USE DEF chanVars, bookVars, upVars, recVars, taskVars, laneVars
<1>1. ASSUME UNCHANGED <<upVars, bookkeeping, laneClosed>> PROVE WakesOrFills
  BY <1>1, BoundAssumption, ReserveFills DEF SleepsOn, WakesOrFills, TypeOK
<1>2. ASSUME NEW t \in Tasks, Release(t) PROVE WakesOrFills
  <2>1. ASSUME up' = NotifyLane(up) PROVE AllWoken
    BY <2>1, NotifiedAreAwake
  <2>2. \A d \in Channels : NotifyChannel(NotifyLane(up), owner[t])[d] # "laneWait"
    BY NotifiedAreAwake DEF NotifyChannel, NotifyLane
  <2> QED
    BY <1>2, <2>2 DEF Release, AllWoken, WakesOrFills
<1>3. ASSUME NEW t \in Tasks, Request(t) PROVE WakesOrFills
  <2>1. CASE StartRequest(t) \/ DropUnstarted(t) \/ BodySent(t) \/ ResponseStarts(t)
               \/ ReleaseCancelled(t)
    BY <1>1, <2>1 DEF StartRequest, DropUnstarted, BodySent, ResponseStarts, ReleaseCancelled
  <2>2. CASE Answered(t) \/ Failed(t) \/ Unwind(t) \/ ReleaseLater(t)
    BY <1>1, <1>2, <2>2 DEF Answered, Failed, Unwind, ReleaseLater, FinishRequest
  <2> QED
    BY <1>3, <2>1, <2>2 DEF Request
<1>4. ASSUME NEW d \in Channels, Close(d) PROVE WakesOrFills
  BY <1>1, <1>2, <1>4 DEF Close, BridgeStops, UploadSurvives, BridgeJoined, CloseBegins, CloseDone, CloseFinishes
<1>5. CASE LaneCloses
  BY <1>5, NotifiedAreAwake DEF LaneCloses, WakesOrFills
<1>6. CASE UNCHANGED vars
  BY <1>1, <1>6 DEF vars
<1> QED
  BY <1>3, <1>4, <1>5, <1>6

WakeInv == TypeOK /\ NoLostLaneWakeup

(***************************************************************************)
(* No lost wakeup at the lane: an upload that sleeps in the wait_for of    *)
(* _reserve has no room, and is never left asleep by lane.close().         *)
(***************************************************************************)
THEOREM WakeCorrect == Spec => []NoLostLaneWakeup
<1>1. Init => WakeInv
  BY TypeInit DEF WakeInv, NoLostLaneWakeup, Init
<1>2. WakeInv /\ [Next]_vars => WakeInv'
  <2> SUFFICES ASSUME WakeInv, [Next]_vars PROVE WakeInv'
    OBVIOUS
  <2>1. TypeOK'
    BY TypeNext DEF WakeInv
  <2>2. WakesOrFills
    BY UploadWakes, RecoverWakes, OtherWakes DEF WakeInv, Next
  <2> QED
    BY <2>1, <2>2, SleepersKeep DEF WakeInv
<1>3. WakeInv => NoLostLaneWakeup
  BY DEF WakeInv
<1> QED
  BY <1>1, <1>2, <1>3, PTL DEF Spec

(***************************************************************************)
(* Sums as counts of bytes: what a packet more or less, or fewer packets,  *)
(* mean for them.                                                          *)
(***************************************************************************)
LEMMA BytesFinite ==
  ASSUME NEW f, NEW S, IsFiniteSet(S), \A x \in S : f[x] \in Nat
  PROVE  IsFiniteSet(Bytes(f, S))
<1> DEFINE packet == [x \in S |-> {x} \X (1 .. f[x])]
           Packets == {{x} \X (1 .. f[x]) : x \in S}
<1>1. packet \in Surjection(S, Packets)
  BY DEF Surjection
<1>2. IsFiniteSet(Packets)
  <2> HIDE DEF packet, Packets
  <2> QED
    BY <1>1, FS_Surjection
<1>3. \A p \in Packets : IsFiniteSet(p)
  <2>1. ASSUME NEW x \in S PROVE IsFiniteSet({x} \X (1 .. f[x]))
    <3>1. f[x] \in Nat
      BY <2>1
    <3>2. IsFiniteSet(1 .. f[x])
      BY <3>1, FS_Interval
    <3>3. IsFiniteSet({x})
      BY FS_Singleton
    <3> QED
      BY <3>2, <3>3, FS_Product
  <2> QED
    BY <2>1
<1> HIDE DEF Packets
<1>4. IsFiniteSet(UNION Packets)
  BY <1>2, <1>3, FS_UNION
<1> QED
  BY <1>4 DEF Bytes, Packets

LEMMA SumType ==
  ASSUME NEW f, NEW S, IsFiniteSet(S), \A x \in S : f[x] \in Nat
  PROVE  SumOver(f, S) \in Nat
BY BytesFinite, FS_CardinalityType DEF SumOver

LEMMA SumEmpty == \A f : SumOver(f, {}) = 0
BY FS_EmptySet DEF SumOver, Bytes

LEMMA SumSame ==
  ASSUME NEW f, NEW g, NEW S, \A x \in S : f[x] = g[x]
  PROVE  SumOver(f, S) = SumOver(g, S)
<1>1. Bytes(f, S) = Bytes(g, S)
  BY DEF Bytes
<1> QED
  BY <1>1 DEF SumOver

LEMMA SumAdd ==
  ASSUME NEW f, NEW S, IsFiniteSet(S), NEW z, z \notin S, \A x \in S \cup {z} : f[x] \in Nat
  PROVE  SumOver(f, S \cup {z}) = SumOver(f, S) + f[z]
<1> DEFINE P == {z} \X (1 .. f[z])
<1>1. Bytes(f, S \cup {z}) = Bytes(f, S) \cup P
  BY DEF Bytes
<1>2. Bytes(f, S) \cap P = {}
  BY DEF Bytes
<1>3. IsFiniteSet(P) /\ Cardinality(P) = f[z]
  <2>1. IsFiniteSet(1 .. f[z]) /\ Cardinality(1 .. f[z]) = f[z]
    BY FS_Interval
  <2>2. IsFiniteSet({z}) /\ Cardinality({z}) = 1
    BY FS_Singleton
  <2>3. IsFiniteSet(P) /\ Cardinality(P) = Cardinality({z}) * Cardinality(1 .. f[z])
    BY <2>1, <2>2, FS_Product
  <2> QED
    BY <2>1, <2>2, <2>3
<1>4. IsFiniteSet(Bytes(f, S))
  BY BytesFinite
<1>5. Cardinality(Bytes(f, S) \cup P) = Cardinality(Bytes(f, S)) + Cardinality(P) - Cardinality({})
  <2> HIDE DEF P
  <2> QED
    BY <1>2, <1>3, <1>4, FS_Union
<1>6. Cardinality(Bytes(f, S)) \in Nat /\ Cardinality({}) = 0
  BY <1>4, FS_CardinalityType, FS_EmptySet
<1>7. Cardinality(Bytes(f, S \cup {z})) = Cardinality(Bytes(f, S) \cup P)
  BY <1>1
<1> HIDE DEF P
<1> QED
  BY <1>3, <1>5, <1>6, <1>7 DEF SumOver

LEMMA SumRemove ==
  ASSUME NEW f, NEW S, IsFiniteSet(S), NEW z \in S, \A x \in S : f[x] \in Nat
  PROVE  SumOver(f, S \ {z}) = SumOver(f, S) - f[z] /\ f[z] <= SumOver(f, S)
<1>1. IsFiniteSet(S \ {z}) /\ z \notin S \ {z}
  BY FS_Subset
<1>2. SumOver(f, (S \ {z}) \cup {z}) = SumOver(f, S \ {z}) + f[z]
  BY <1>1, SumAdd
<1>3. (S \ {z}) \cup {z} = S
  OBVIOUS
<1>4. SumOver(f, S \ {z}) \in Nat
  BY <1>1, SumType
<1>5. SumOver(f, S) = SumOver(f, S \ {z}) + f[z]
  BY <1>2, <1>3
<1> QED
  BY <1>4, <1>5

LEMMA SumSubset ==
  ASSUME NEW f, NEW S, IsFiniteSet(S), \A x \in S : f[x] \in Nat, NEW T \in SUBSET S
  PROVE  SumOver(f, T) \in Nat /\ SumOver(f, T) <= SumOver(f, S)
<1>1. IsFiniteSet(T)
  BY FS_Subset
<1>2. Bytes(f, T) \subseteq Bytes(f, S) /\ IsFiniteSet(Bytes(f, S))
  BY BytesFinite DEF Bytes
<1>3. Cardinality(Bytes(f, T)) <= Cardinality(Bytes(f, S))
  BY <1>2, FS_Subset
<1> QED
  BY <1>1, <1>3, SumType DEF SumOver

(***************************************************************************)
(* What the books of a channel rest on.                                    *)
(***************************************************************************)
InBooks == {"new", "run", "body", "void"}

\* The owner of a request has it in its books until it leaves them; one that is
\* finished has no owner.
OwnersHold ==
  \A t \in Tasks :
    /\ phase[t] \in InBooks => owner[t] \in Channels /\ t \in pending[owner[t]]
    /\ phase[t] = "free" => owner[t] = None

ReplaysArePending == \A c \in Channels : replayPending[c] \subseteq pending[c]

\* A channel that closes is closed, and one that has closed has empty books.
ClosingIsFinal ==
  \A c \in Channels :
    /\ closing[c] # "open" => closed[c]
    /\ closing[c] = "done" => pending[c] = {}

PendingSums == \A c \in Channels : pendingBytes[c] = SumOver(size, pending[c])

\* What was tested for the packet under way still holds.
Fits(c) ==
  /\ up[c] \in {"lane", "laneWait"} => pendingBytes[c] + upSize[c] <= MaxChannelBytes
  /\ rec[c] = "lane" => pendingBytes[c] + recSize[c] <= MaxChannelBytes
  /\ pendingBytes[c] <= MaxChannelBytes

Load == SumOver(size, Live) + SumOver(upSize, UploadsGiving) + SumOver(recSize, RecoversGiving)

LoadCovered == Load <= queuedBytes /\ queuedBytes <= MaxLaneBytes

ChannelBooksInv ==
  /\ TypeOK
  /\ PendingAreLive
  /\ OwnersHold
  /\ ReplaysArePending
  /\ ClosingIsFinal
  /\ PendingSums
  /\ \A c \in Channels : RoomIsKept(c) /\ Fits(c)

BooksInv == ChannelBooksInv /\ LoadCovered

(***************************************************************************)
(* What a step does to the books of the channels: it leaves them alone, a  *)
(* packet that fits enters, or a request leaves.                           *)
(***************************************************************************)
BooksStay ==
  /\ UNCHANGED <<pending, pendingBytes>>
  /\ \A c \in Channels : replayPending'[c] \subseteq replayPending[c]
  /\ \A t \in Tasks :
       \/ phase'[t] = phase[t] /\ owner'[t] = owner[t] /\ size'[t] = size[t]
       \/ /\ phase[t] \in InBooks /\ phase'[t] \in InBooks
          /\ owner'[t] = owner[t] /\ size'[t] = size[t]
       \/ phase[t] = "release" /\ phase'[t] = "free" /\ owner'[t] = None

BooksEnter(c, n) ==
  /\ ~closed[c]
  /\ n \in Sizes \cup {0}
  /\ pendingBytes[c] + n <= MaxChannelBytes
  /\ \E replay, kept \in BOOLEAN : Admit(c, n, replay, kept)

BooksLeave(t) ==
  /\ phase[t] \in InBooks
  /\ Finish(t)
  /\ \/ Release(t)
     \/ phase' = [phase EXCEPT ![t] = "release"] /\ UNCHANGED <<owner, size>>

BooksStep ==
  \/ BooksStay
  \/ \E c \in Channels, n \in Sizes \cup {0} : BooksEnter(c, n)
  \/ \E t \in Tasks : BooksLeave(t)

LEMMA BooksUntouched ==
  ASSUME UNCHANGED <<bookVars, phase, owner, size>>
  PROVE  BooksStay
BY DEF BooksStay, bookVars

LEMMA UploadBooks ==
  ASSUME ChannelBooksInv, NEW c \in Channels, Upload(c)
  PROVE  BooksStep
<1> USE DEF chanVars, recVars, taskVars
<1>1. ASSUME UNCHANGED <<bookVars, taskVars>> PROVE BooksStep
  BY <1>1, BooksUntouched DEF BooksStep
<1>2. CASE Send(c)
  <2>1. upSize[c] \in Sizes \cup {0} /\ ~closed[c]
    BY <1>2 DEF Send, StillOpen, ChannelBooksInv, TypeOK, UploadTypes
  <2>2. pendingBytes[c] + upSize[c] <= MaxChannelBytes
    BY <1>2 DEF Send, ChannelBooksInv, Fits
  <2>3. \E kept \in BOOLEAN : Admit(c, upSize[c], FALSE, kept)
    BY <1>2 DEF Send
  <2>4. BooksEnter(c, upSize[c])
    BY <2>1, <2>2, <2>3 DEF BooksEnter
  <2> QED
    BY <2>1, <2>4 DEF BooksStep
<1>3. ASSUME NEW n \in Sizes, ReadPacket(c, n) PROVE BooksStep
  BY <1>1, <1>3 DEF ReadPacket
<1>4. CASE ReadFails(c) \/ UploadTimeout(c) \/ CancelUpload(c)
  BY <1>1, <1>4 DEF ReadFails, UploadTimeout, CancelUpload
<1>5. CASE AcquireSendLock(c) \/ AwaitChannelCapacity(c) \/ LaneRefuses(c)
            \/ AwaitLaneCapacity(c) \/ SendOnClosed(c) \/ UploadGivesBack(c)
  BY <1>1, <1>5 DEF AcquireSendLock, AwaitChannelCapacity, LaneRefuses, AwaitLaneCapacity,
                    SendOnClosed, UploadGivesBack
<1> QED
  BY <1>2, <1>3, <1>4, <1>5 DEF Upload, UploadRuns

LEMMA ReplayBooks ==
  ASSUME ChannelBooksInv, NEW c \in Channels, NEW n \in Sizes \cup {0},
         \/ rec[c] = "lane" /\ n = recSize[c] /\ ReplayReserve(c, n)
         \/ n \in Sizes /\ SendReplay(c, n)
  PROVE  BooksStep
<1> USE DEF chanVars, taskVars
<1>1. ASSUME UNCHANGED <<bookVars, taskVars>> PROVE BooksStep
  BY <1>1, BooksUntouched DEF BooksStep
<1>2. ASSUME pendingBytes[c] + n <= MaxChannelBytes, ReplayReserve(c, n) PROVE BooksStep
  <2>1. CASE StillOpen(c) /\ Admit(c, n, TRUE, FALSE)
    BY <1>2, <2>1 DEF StillOpen, BooksEnter, BooksStep
  <2> QED
    BY <1>1, <1>2, <2>1 DEF ReplayReserve
<1>3. CASE rec[c] = "lane" /\ n = recSize[c] /\ ReplayReserve(c, n)
  BY <1>2, <1>3 DEF ChannelBooksInv, Fits
<1>4. CASE n \in Sizes /\ SendReplay(c, n)
  BY <1>1, <1>2, <1>4 DEF SendReplay, HasCapacity
<1> QED
  BY <1>3, <1>4

LEMMA RecoverBooks ==
  ASSUME ChannelBooksInv, NEW c \in Channels, Recover(c)
  PROVE  BooksStep
<1> USE DEF chanVars, upVars, taskVars
<1>1. ASSUME UNCHANGED <<bookVars, phase, owner, size>> PROVE BooksStep
  BY <1>1, BooksUntouched DEF BooksStep
<1>2. ASSUME ReplayPass(c) PROVE BooksStep
  <2>1. CASE \E n \in Sizes : SendReplay(c, n)
    BY <2>1, ReplayBooks
  <2> QED
    BY <1>1, <1>2, <2>1 DEF ReplayPass, RecoverAwaits
<1>3. CASE RecoverTick(c) \/ RoomMade(c)
  BY <1>1, <1>2, <1>3 DEF RecoverTick, RoomMade, RecoverAwaits
<1>4. CASE SlotFreed(c)
  BY <1>4, ReplayBooks DEF SlotFreed
<1>5. CASE ReplayLocked(c)
  <2>1. recSize[c] \in Sizes \cup {0}
    BY DEF ChannelBooksInv, TypeOK, RecoverTypes
  <2> QED
    BY <1>5, <2>1, ReplayBooks DEF ReplayLocked
<1>6. CASE RecoverGivesBack(c) \/ RecoverEnds(c) \/ CancelRecover(c)
  BY <1>1, <1>6 DEF RecoverGivesBack, RecoverEnds, CancelRecover
<1> QED
  BY <1>3, <1>4, <1>5, <1>6 DEF Recover

LEMMA OtherBooks ==
  ASSUME ChannelBooksInv,
         (\E t \in Tasks : Request(t)) \/ (\E d \in Channels : Close(d)) \/ LaneCloses
           \/ UNCHANGED vars
  PROVE  BooksStep
<1> USE DEF taskVars
<1>0. phase \in [Tasks -> Phases] /\ owner \in [Tasks -> Channels \cup {None}]
        /\ size \in [Tasks -> Sizes \cup {0}]
  BY DEF ChannelBooksInv, TypeOK, TaskTypes
<1>1. ASSUME UNCHANGED <<bookVars, phase, owner, size>> PROVE BooksStep
  BY <1>1, BooksUntouched DEF BooksStep
<1>2. ASSUME NEW t \in Tasks, phase[t] \in InBooks, Finish(t),
             \/ Release(t)
             \/ phase' = [phase EXCEPT ![t] = "release"] /\ UNCHANGED <<owner, size>>
      PROVE  BooksStep
  BY <1>2 DEF BooksLeave, BooksStep
<1>3. ASSUME NEW t \in Tasks, Request(t) PROVE BooksStep
  <2>1. ASSUME phase[t] \in InBooks, NEW p \in InBooks, phase' = [phase EXCEPT ![t] = p],
               UNCHANGED <<bookVars, owner, size>>
        PROVE  BooksStep
    BY <1>0, <2>1 DEF BooksStay, BooksStep, bookVars
  <2>2. CASE StartRequest(t) \/ DropUnstarted(t) \/ ResponseStarts(t)
    BY <2>1, <2>2 DEF StartRequest, DropUnstarted, ResponseStarts, InBooks
  <2>3. CASE BodySent(t)
    BY <1>1, <2>3 DEF BodySent
  <2>4. CASE Answered(t) \/ Failed(t) \/ Unwind(t)
    <3>1. phase[t] \in InBooks /\ FinishRequest(t)
      BY <2>4 DEF Answered, Failed, Unwind, Started, InBooks
    <3> QED
      BY <1>2, <3>1 DEF FinishRequest
  <2>5. CASE ReleaseLater(t) \/ ReleaseCancelled(t)
    <3>1. /\ phase[t] = "release"
          /\ phase' = [phase EXCEPT ![t] = "free"]
          /\ owner' = [owner EXCEPT ![t] = None]
          /\ size' = [size EXCEPT ![t] = 0]
          /\ UNCHANGED bookVars
      BY <2>5 DEF ReleaseLater, ReleaseCancelled, Release
    <3> QED
      BY <1>0, <3>1 DEF BooksStay, BooksStep, bookVars
  <2> QED
    BY <1>3, <2>2, <2>3, <2>4, <2>5 DEF Request
<1>4. ASSUME NEW d \in Channels, Close(d) PROVE BooksStep
  <2>1. CASE BridgeStops(d) \/ UploadSurvives(d) \/ BridgeJoined(d) \/ CloseBegins(d)
    BY <1>1, <2>1 DEF BridgeStops, UploadSurvives, BridgeJoined, CloseBegins
  <2>2. CASE CloseDone(d)
    <3>1. \A c \in Channels : replayPending'[c] \subseteq replayPending[c]
      BY <2>2 DEF CloseDone, ChannelBooksInv, TypeOK, BookTypes
    <3> QED
      BY <2>2, <3>1 DEF CloseDone, BooksStay, BooksStep
  <2>3. ASSUME NEW t \in Tasks, CloseFinishes(d, t) PROVE BooksStep
    <3>1. phase[t] \in InBooks
      BY <2>3 DEF CloseFinishes, ChannelBooksInv, PendingAreLive, InBooks
    <3> QED
      BY <1>2, <2>3, <3>1 DEF CloseFinishes
  <2> QED
    BY <1>4, <2>1, <2>2, <2>3 DEF Close
<1>5. CASE LaneCloses \/ UNCHANGED vars
  BY <1>1, <1>5 DEF LaneCloses, vars
<1> QED
  BY <1>3, <1>4, <1>5

LEMMA NextBooks ==
  ASSUME ChannelBooksInv, [Next]_vars
  PROVE  BooksStep
BY UploadBooks, RecoverBooks, OtherBooks DEF Next

LEMMA SizesAreNats == \A n \in Sizes \cup {0} : n \in Nat
BY BoundAssumption

LEMMA PendingFinite ==
  ASSUME TypeOK, NEW c \in Channels
  PROVE  /\ IsFiniteSet(pending[c]) /\ pending[c] \subseteq Tasks
         /\ \A t \in Tasks : size[t] \in Nat
<1>1. pending[c] \in SUBSET Tasks
  BY DEF TypeOK, BookTypes
<1>2. IsFiniteSet(pending[c])
  BY <1>1, FiniteAssumption, FS_Subset
<1>3. \A t \in Tasks : size[t] \in Nat
  <2>1. size \in [Tasks -> Sizes \cup {0}]
    BY DEF TypeOK, TaskTypes
  <2> QED
    BY <2>1, SizesAreNats
<1> QED
  BY <1>1, <1>2, <1>3

Owned == PendingAreLive /\ OwnersHold /\ ReplaysArePending /\ PendingSums

LEMMA StayKeeps ==
  ASSUME TypeOK, Owned, BooksStay
  PROVE  Owned'
<1>0. \A c \in Channels : pending[c] \subseteq Tasks
  BY PendingFinite
<1>1. \A c \in Channels : \A t \in pending[c] :
        owner'[t] = owner[t] /\ size'[t] = size[t] /\ phase'[t] \in InBooks
  BY <1>0 DEF Owned, PendingAreLive, BooksStay, InBooks
<1>2. PendingAreLive'
  BY <1>1 DEF Owned, PendingAreLive, BooksStay, InBooks
<1>3. OwnersHold'
  BY DEF Owned, OwnersHold, BooksStay, InBooks
<1>4. ReplaysArePending'
  BY DEF Owned, ReplaysArePending, BooksStay
<1>5. PendingSums'
  <2>1. ASSUME NEW c \in Channels PROVE SumOver(size', pending[c]) = SumOver(size, pending[c])
    BY <1>1, SumSame
  <2> QED
    BY <2>1 DEF Owned, PendingSums, BooksStay
<1> QED
  BY <1>2, <1>3, <1>4, <1>5 DEF Owned

LEMMA EnterKeeps ==
  ASSUME TypeOK, Owned, NEW c \in Channels, NEW n \in Sizes \cup {0}, BooksEnter(c, n)
  PROVE  Owned'
<1>9. \A S : (\A u \in S : size'[u] = size[u]) => SumOver(size', S) = SumOver(size, S)
  BY SumSame
<1> PICK replay \in BOOLEAN, kept \in BOOLEAN : Admit(c, n, replay, kept)
  BY DEF BooksEnter
<1> PICK t \in Tasks : Admit(c, n, replay, kept)!(t)
  BY DEF Admit
<1>0. /\ phase \in [Tasks -> Phases] /\ owner \in [Tasks -> Channels \cup {None}]
      /\ size \in [Tasks -> Sizes \cup {0}]
      /\ pending \in [Channels -> SUBSET Tasks] /\ replayPending \in [Channels -> SUBSET Tasks]
      /\ pendingBytes \in [Channels -> Int]
  BY DEF TypeOK, TaskTypes, BookTypes
<1>1. \A d \in Channels : t \notin pending[d]
  BY DEF Owned, PendingAreLive
<1>2. \A u \in Tasks \ {t} : phase'[u] = phase[u] /\ owner'[u] = owner[u] /\ size'[u] = size[u]
  BY <1>0
<1>3. phase'[t] = "new" /\ owner'[t] = c /\ size'[t] = n
  BY <1>0
<1>4. /\ pending'[c] = pending[c] \cup {t} /\ pendingBytes'[c] = pendingBytes[c] + n
      /\ \A d \in Channels \ {c} : pending'[d] = pending[d] /\ pendingBytes'[d] = pendingBytes[d]
  BY <1>0
<1>5. PendingAreLive'
  BY <1>0, <1>1, <1>2, <1>3, <1>4 DEF Owned, PendingAreLive
<1>6. OwnersHold'
  BY <1>0, <1>2, <1>3, <1>4 DEF Owned, OwnersHold
<1>7. ReplaysArePending'
  BY <1>0, <1>4 DEF Owned, ReplaysArePending
<1>8. PendingSums'
  <2>1. ASSUME NEW d \in Channels PROVE SumOver(size', pending[d]) = pendingBytes[d]
    <3>1. \A u \in pending[d] : size'[u] = size[u]
      BY <1>1, <1>2, PendingFinite
    <3>2. SumOver(size', pending[d]) = SumOver(size, pending[d])
      BY <1>9, <3>1
    <3> QED
      BY <3>2 DEF Owned, PendingSums
  <2>2. SumOver(size', pending[c] \cup {t}) = SumOver(size', pending[c]) + size'[t]
    <3>1. \A u \in pending[c] \cup {t} : size'[u] \in Nat
      <4>1. size'[t] \in Nat
        BY <1>3, SizesAreNats
      <4>2. \A u \in pending[c] : u \in Tasks \ {t} /\ size[u] \in Nat
        BY <1>1, PendingFinite
      <4> QED
        BY <1>2, <4>1, <4>2
    <3> QED
      BY <1>1, <3>1, PendingFinite, SumAdd
  <2>3. ASSUME NEW d \in Channels PROVE pendingBytes'[d] = SumOver(size', pending'[d])
    BY <1>3, <1>4, <2>1, <2>2
  <2> QED
    BY <2>3 DEF PendingSums
<1> QED
  BY <1>5, <1>6, <1>7, <1>8 DEF Owned

LEMMA LeaveKeeps ==
  ASSUME TypeOK, Owned, NEW t \in Tasks, BooksLeave(t)
  PROVE  Owned'
<1> DEFINE c == owner[t]
<1>0. /\ phase \in [Tasks -> Phases] /\ owner \in [Tasks -> Channels \cup {None}]
      /\ size \in [Tasks -> Sizes \cup {0}]
      /\ pending \in [Channels -> SUBSET Tasks] /\ replayPending \in [Channels -> SUBSET Tasks]
      /\ pendingBytes \in [Channels -> Int]
  BY DEF TypeOK, TaskTypes, BookTypes
<1>1. c \in Channels /\ t \in pending[c] /\ \A d \in Channels \ {c} : t \notin pending[d]
  BY DEF BooksLeave, Owned, OwnersHold, PendingAreLive
<1>2. \A u \in Tasks \ {t} : phase'[u] = phase[u] /\ owner'[u] = owner[u] /\ size'[u] = size[u]
  BY <1>0 DEF BooksLeave, Release
<1>3. phase'[t] = "release" \/ (phase'[t] = "free" /\ owner'[t] = None)
  BY <1>0 DEF BooksLeave, Release
<1>4. /\ pending'[c] = pending[c] \ {t}
      /\ \A d \in Channels \ {c} : pending'[d] = pending[d] /\ pendingBytes'[d] = pendingBytes[d]
  BY <1>0, <1>1 DEF BooksLeave, Finish
<1>5. pendingBytes'[c] = pendingBytes[c] - size[t]
  BY <1>0, <1>1 DEF BooksLeave, Finish
<1>6. PendingAreLive'
  BY <1>0, <1>1, <1>2, <1>4 DEF Owned, PendingAreLive
<1>7. OwnersHold'
  BY <1>0, <1>1, <1>2, <1>3, <1>4 DEF Owned, OwnersHold, InBooks
<1>8. ReplaysArePending'
  <2>1. replayPending'[c] = replayPending[c] \ {t}
        /\ \A d \in Channels \ {c} : replayPending'[d] = replayPending[d]
    BY <1>0, <1>1 DEF BooksLeave, Finish
  <2> QED
    BY <1>4, <2>1 DEF Owned, ReplaysArePending
<1>9. PendingSums'
  <2>1. SumOver(size, pending[c] \ {t}) = SumOver(size, pending[c]) - size[t]
    BY <1>1, PendingFinite, SumRemove
  <2>2. ASSUME NEW d \in Channels PROVE SumOver(size', pending'[d]) = SumOver(size, pending'[d])
    <3>1. \A u \in pending'[d] : size'[u] = size[u]
      BY <1>0, <1>1, <1>2, <1>4, PendingFinite
    <3> QED
      BY <3>1, SumSame
  <2>3. ASSUME NEW d \in Channels PROVE pendingBytes'[d] = SumOver(size', pending'[d])
    <3>1. CASE d = c
      BY <1>1, <1>4, <1>5, <2>1, <2>2, <3>1 DEF Owned, PendingSums
    <3>2. CASE d # c
      BY <1>4, <2>2, <3>2 DEF Owned, PendingSums
    <3> QED
      BY <3>1, <3>2
  <2> QED
    BY <2>3 DEF PendingSums
<1> QED
  BY <1>6, <1>7, <1>8, <1>9 DEF Owned

(***************************************************************************)
(* A channel closes for good, and closes after its books are empty.        *)
(***************************************************************************)
ClosesOn(c) ==
  /\ closed[c] => closed'[c]
  /\ closing'[c] # "open" => closing[c] # "open" \/ closed'[c]
  /\ closing'[c] = "done" => closing[c] = "done" \/ pending'[c] = {}

LEMMA NextClosesOn ==
  ASSUME TypeOK, [Next]_vars
  PROVE  \A c \in Channels : ClosesOn(c)
<1> USE DEF chanVars
<1>0. closed \in [Channels -> BOOLEAN] /\ closing \in [Channels -> {"open", "gather", "done"}]
  BY DEF TypeOK, ChannelTypes
<1>1. ASSUME UNCHANGED <<closed, closing>> PROVE \A c \in Channels : ClosesOn(c)
  BY <1>1 DEF ClosesOn
<1>2. ASSUME NEW c \in Channels, Upload(c) PROVE UNCHANGED <<closed, closing>>
  BY <1>2 DEF Upload, UploadRuns, ReadPacket, ReadFails, UploadTimeout, AcquireSendLock,
              AwaitChannelCapacity, LaneRefuses, AwaitLaneCapacity, Send, SendOnClosed,
              UploadGivesBack, CancelUpload
<1>3. ASSUME NEW c \in Channels, Recover(c) PROVE UNCHANGED <<closed, closing>>
  <2>1. ASSUME NEW n, ReplayReserve(c, n) \/ SendReplay(c, n) PROVE UNCHANGED <<closed, closing>>
    BY <2>1 DEF ReplayReserve, SendReplay
  <2>2. ReplayPass(c) => UNCHANGED <<closed, closing>>
    BY <2>1 DEF ReplayPass, RecoverAwaits
  <2> QED
    BY <1>3, <2>1, <2>2 DEF Recover, RecoverTick, RoomMade, SlotFreed, ReplayLocked,
                            RecoverGivesBack, RecoverEnds, CancelRecover, RecoverAwaits
<1>4. ASSUME NEW t \in Tasks, Request(t) PROVE \A c \in Channels : ClosesOn(c)
  <2>1. CASE Failed(t)
    BY <1>0, <2>1 DEF Failed, ClosesOn
  <2>2. CASE ~Failed(t)
    <3>1. UNCHANGED <<closed, closing>>
      BY <1>4, <2>2 DEF Request, StartRequest, DropUnstarted, BodySent, ResponseStarts, Answered,
                        Unwind, ReleaseLater, ReleaseCancelled
    <3> QED
      BY <1>1, <3>1
  <2> QED
    BY <2>1, <2>2
<1>5. ASSUME NEW d \in Channels, Close(d) PROVE \A c \in Channels : ClosesOn(c)
  <2>1. CASE BridgeStops(d) \/ UploadSurvives(d) \/ BridgeJoined(d) \/ \E t \in Tasks : CloseFinishes(d, t)
    BY <1>1, <2>1 DEF BridgeStops, UploadSurvives, BridgeJoined, CloseFinishes
  <2>2. CASE CloseBegins(d) \/ CloseDone(d)
    BY <1>0, <2>2 DEF CloseBegins, CloseDone, ClosesOn
  <2> QED
    BY <1>5, <2>1, <2>2 DEF Close
<1>6. CASE LaneCloses \/ UNCHANGED vars
  BY <1>1, <1>6 DEF LaneCloses, vars
<1> QED
  BY <1>1, <1>2, <1>3, <1>4, <1>5, <1>6 DEF Next

LEMMA ClosingKeeps ==
  ASSUME ChannelBooksInv, [Next]_vars
  PROVE  ClosingIsFinal'
<1>0. pending \in [Channels -> SUBSET Tasks]
  BY DEF ChannelBooksInv, TypeOK, BookTypes
<1>1. ASSUME NEW c \in Channels, closing[c] = "done" PROVE pending'[c] = {}
  <2>1. closed[c] /\ pending[c] = {}
    BY <1>1 DEF ChannelBooksInv, ClosingIsFinal
  <2>2. CASE BooksStay
    BY <2>1, <2>2 DEF BooksStay
  <2>3. ASSUME NEW d \in Channels, NEW n \in Sizes \cup {0}, BooksEnter(d, n)
        PROVE  pending'[c] = {}
    <3>1. c # d
      BY <2>1, <2>3 DEF BooksEnter
    <3> QED
      BY <1>0, <2>1, <2>3, <3>1 DEF BooksEnter, Admit
  <2>4. ASSUME NEW t \in Tasks, BooksLeave(t) PROVE pending'[c] = {}
    BY <1>0, <2>1, <2>4 DEF BooksLeave, Finish
  <2> QED
    BY <2>2, <2>3, <2>4, NextBooks DEF BooksStep
<1>2. \A c \in Channels : ClosesOn(c)
  BY NextClosesOn DEF ChannelBooksInv
<1> QED
  BY <1>1, <1>2 DEF ChannelBooksInv, ClosingIsFinal, ClosesOn

(***************************************************************************)
(* What was tested still fits: a packet enters the books of a channel only *)
(* when nothing else of that channel has been tested and not entered.      *)
(***************************************************************************)
UploadTested(c) ==
  up'[c] \in {"lane", "laneWait"} =>
    \/ up[c] \in {"lane", "laneWait"} /\ upSize'[c] = upSize[c]
    \/ HasCapacity(c, upSize'[c])

ReplayTested(c) ==
  rec'[c] = "lane" =>
    \/ rec[c] = "lane" /\ recSize'[c] = recSize[c]
    \/ HasCapacity(c, recSize'[c])

Shrinks(c) == pendingBytes'[c] <= pendingBytes[c] /\ UploadTested(c) /\ ReplayTested(c)

Enters(c) ==
  /\ pendingBytes'[c] <= MaxChannelBytes
  /\ up'[c] \notin {"lane", "laneWait"}
  /\ rec'[c] # "lane"

LEMMA FitsOn ==
  ASSUME TypeOK, TypeOK', NEW c \in Channels, Fits(c), Shrinks(c) \/ Enters(c)
  PROVE  Fits(c)'
<1>1. /\ pendingBytes[c] \in Int /\ pendingBytes'[c] \in Int
      /\ upSize[c] \in Sizes \cup {0} /\ upSize'[c] \in Sizes \cup {0}
      /\ recSize[c] \in Sizes \cup {0} /\ recSize'[c] \in Sizes \cup {0}
  BY DEF TypeOK, BookTypes, UploadTypes, RecoverTypes
<1>2. /\ upSize[c] \in Int /\ upSize'[c] \in Int
      /\ recSize[c] \in Int /\ recSize'[c] \in Int
  BY <1>1, SizesAreInts
<1>3. MaxChannelBytes \in Int
  BY BoundAssumption
<1> QED
  BY <1>1, <1>2, <1>3 DEF Fits, Shrinks, Enters, UploadTested, ReplayTested, HasCapacity

\* Another actor's step, as the packets of channel c see it.
SameSizes(c) ==
  /\ pendingBytes'[c] <= pendingBytes[c]
  /\ upSize'[c] = upSize[c]
  /\ recSize'[c] = recSize[c]

LEMMA UndisturbedShrinks ==
  ASSUME NEW c \in Channels, Undisturbed(c), SameSizes(c)
  PROVE  Shrinks(c)
BY DEF Undisturbed, SameSizes, Shrinks, UploadTested, ReplayTested

LEMMA UploadFits ==
  ASSUME ChannelBooksInv, NEW c \in Channels, Upload(c)
  PROVE  (Shrinks(c) \/ Enters(c)) /\ \A d \in Channels \ {c} : SameSizes(d)
<1> USE DEF chanVars, bookVars, upVars, recVars, taskVars
<1>0. /\ up \in [Channels -> UpStates] /\ upSize \in [Channels -> Sizes \cup {0}]
      /\ pendingBytes \in [Channels -> Int]
  BY DEF ChannelBooksInv, TypeOK, UploadTypes, BookTypes
<1>1. ASSUME UNCHANGED <<pendingBytes, rec, recSize>>, UploadTested(c),
             \A d \in Channels \ {c} : upSize'[d] = upSize[d]
      PROVE  (Shrinks(c) \/ Enters(c)) /\ \A d \in Channels \ {c} : SameSizes(d)
  BY <1>0, <1>1 DEF Shrinks, ReplayTested, SameSizes
<1>2. ASSUME UNCHANGED <<pendingBytes, rec, recSize>>, NEW w \in {up, NotifyLane(up)},
             UploadLeaves(c, w, "dead")
      PROVE  (Shrinks(c) \/ Enters(c)) /\ \A d \in Channels \ {c} : SameSizes(d)
  <2>1. w \in [Channels -> UpStates]
    BY <1>0, NotifyLaneType DEF ChannelBooksInv, TypeOK
  <2> QED
    BY <1>0, <1>1, <1>2, <2>1 DEF UploadLeaves, UploadTested
<1>3. ASSUME NEW n \in Sizes, ReadPacket(c, n)
      PROVE  (Shrinks(c) \/ Enters(c)) /\ \A d \in Channels \ {c} : SameSizes(d)
  BY <1>0, <1>1, <1>3 DEF ReadPacket, UploadTested
<1>4. CASE ReadFails(c) \/ AcquireSendLock(c) \/ AwaitLaneCapacity(c)
  BY <1>0, <1>1, <1>4 DEF ReadFails, AcquireSendLock, AwaitLaneCapacity, UploadTested
<1>5. CASE UploadTimeout(c) \/ LaneRefuses(c) \/ CancelUpload(c) \/ UploadGivesBack(c)
  BY <1>2, <1>5 DEF UploadTimeout, LaneRefuses, CancelUpload, UploadGivesBack, UploadEnds
<1>6. CASE AwaitChannelCapacity(c)
  BY <1>0, <1>1, <1>2, <1>6 DEF AwaitChannelCapacity, UploadEnds, UploadTested
<1>7. CASE SendOnClosed(c)
  BY <1>0, <1>1, <1>2, <1>7 DEF SendOnClosed, UploadTested
<1>8. CASE Send(c)
  <2>1. pendingBytes'[c] = pendingBytes[c] + upSize[c]
        /\ \A d \in Channels \ {c} : pendingBytes'[d] = pendingBytes[d]
    BY <1>0, <1>8 DEF Send, Admit
  <2>2. pendingBytes[c] + upSize[c] <= MaxChannelBytes /\ rec[c] # "lane"
    BY <1>8 DEF Send, ChannelBooksInv, Fits, RoomIsKept, Room
  <2>3. /\ up'[c] = "idle" /\ rec' = rec /\ recSize' = recSize
        /\ \A d \in Channels \ {c} : upSize'[d] = upSize[d]
    BY <1>0, <1>8 DEF Send, UploadLeaves
  <2> QED
    BY <1>0, <2>1, <2>2, <2>3 DEF Enters, SameSizes
<1> QED
  BY <1>3, <1>4, <1>5, <1>6, <1>7, <1>8 DEF Upload, UploadRuns

LEMMA ReplayFits ==
  ASSUME ChannelBooksInv, NEW c \in Channels, NEW n \in Sizes \cup {0},
         \/ rec[c] = "lane" /\ n = recSize[c] /\ ReplayReserve(c, n)
         \/ n \in Sizes /\ SendReplay(c, n)
  PROVE  (Shrinks(c) \/ Enters(c)) /\ \A d \in Channels \ {c} : SameSizes(d)
<1> USE DEF chanVars, bookVars, upVars, recVars, taskVars
<1>0. /\ up \in [Channels -> UpStates] /\ upSize \in [Channels -> Sizes \cup {0}]
      /\ rec \in [Channels -> RecStates] /\ recSize \in [Channels -> Sizes \cup {0}]
      /\ pendingBytes \in [Channels -> Int]
  BY DEF ChannelBooksInv, TypeOK, UploadTypes, RecoverTypes, BookTypes
<1>1. ASSUME UNCHANGED <<pendingBytes, upSize>>, up' \in {up, NotifyLane(up)}, ReplayTested(c),
             \A d \in Channels \ {c} : recSize'[d] = recSize[d]
      PROVE  (Shrinks(c) \/ Enters(c)) /\ \A d \in Channels \ {c} : SameSizes(d)
  BY <1>0, <1>1 DEF Shrinks, UploadTested, SameSizes, NotifyLane
<1>2. ASSUME UNCHANGED <<pendingBytes, upSize>>, up' \in {up, NotifyLane(up)},
             \E r \in {"tick", "dead"} : RecoverGoes(c, r)
      PROVE  (Shrinks(c) \/ Enters(c)) /\ \A d \in Channels \ {c} : SameSizes(d)
  BY <1>0, <1>1, <1>2 DEF RecoverGoes, ReplayTested
<1>3. ASSUME pendingBytes[c] + n <= MaxChannelBytes, ReplayReserve(c, n),
             up[c] \notin {"lane", "laneWait"}
      PROVE  (Shrinks(c) \/ Enters(c)) /\ \A d \in Channels \ {c} : SameSizes(d)
  <2>1. CASE Admit(c, n, TRUE, FALSE) /\ RecoverGoes(c, "tick") /\ UNCHANGED upVars
    <3>1. pendingBytes'[c] = pendingBytes[c] + n
          /\ \A d \in Channels \ {c} : pendingBytes'[d] = pendingBytes[d]
      BY <1>0, <2>1 DEF Admit
    <3>2. /\ up' = up /\ upSize' = upSize /\ rec'[c] = "tick"
          /\ \A d \in Channels \ {c} : recSize'[d] = recSize[d]
      BY <1>0, <2>1 DEF RecoverGoes
    <3> QED
      BY <1>0, <1>3, <3>1, <3>2 DEF Enters, SameSizes
  <2>2. CASE rec' = [rec EXCEPT ![c] = "give"] /\ UNCHANGED <<pendingBytes, upSize, recSize, up>>
    BY <1>0, <1>1, <2>2 DEF ReplayTested
  <2> QED
    BY <1>2, <1>3, <2>1, <2>2 DEF ReplayReserve
<1>4. CASE rec[c] = "lane" /\ n = recSize[c] /\ ReplayReserve(c, n)
  BY <1>3, <1>4 DEF ChannelBooksInv, Fits, RoomIsKept, Room
<1>5. CASE n \in Sizes /\ SendReplay(c, n)
  <2>1. CASE HasCapacity(c, n) /\ sendLock[c] = "free" /\ ReplayReserve(c, n)
    BY <1>3, <2>1 DEF HasCapacity, ChannelBooksInv, RoomIsKept, Room
  <2>2. CASE /\ HasCapacity(c, n)
             /\ rec' = [rec EXCEPT ![c] = "lane"] /\ recSize' = [recSize EXCEPT ![c] = n]
             /\ UNCHANGED <<bookVars, upVars>>
    <3>1. ReplayTested(c)
      BY <1>0, <2>2 DEF ReplayTested
    <3> QED
      BY <1>0, <1>1, <2>2, <3>1
  <2> QED
    BY <1>2, <1>5, <2>1, <2>2 DEF SendReplay, SendLockIsFree
<1> QED
  BY <1>4, <1>5

LEMMA RecoverFits ==
  ASSUME ChannelBooksInv, NEW c \in Channels, Recover(c)
  PROVE  (Shrinks(c) \/ Enters(c)) /\ \A d \in Channels \ {c} : SameSizes(d)
<1> USE DEF chanVars, bookVars, upVars, taskVars
<1>0. /\ up \in [Channels -> UpStates] /\ upSize \in [Channels -> Sizes \cup {0}]
      /\ rec \in [Channels -> RecStates] /\ recSize \in [Channels -> Sizes \cup {0}]
      /\ pendingBytes \in [Channels -> Int]
  BY DEF ChannelBooksInv, TypeOK, UploadTypes, RecoverTypes, BookTypes
<1>1. ASSUME UNCHANGED <<pendingBytes, upSize>>, up' \in {up, NotifyLane(up)},
             NEW r \in {"tick", "dead", "room", "swap"}, rec' = [rec EXCEPT ![c] = r],
             \A d \in Channels \ {c} : recSize'[d] = recSize[d]
      PROVE  (Shrinks(c) \/ Enters(c)) /\ \A d \in Channels \ {c} : SameSizes(d)
  <2>1. UploadTested(c)
    BY <1>1 DEF UploadTested, NotifyLane
  <2>2. ReplayTested(c)
    BY <1>0, <1>1 DEF ReplayTested
  <2> QED
    BY <1>0, <1>1, <2>1, <2>2 DEF Shrinks, SameSizes
<1>2. ASSUME UNCHANGED <<pendingBytes, upSize>>, up' \in {up, NotifyLane(up)},
             NEW r \in {"tick", "dead"}, RecoverGoes(c, r)
      PROVE  (Shrinks(c) \/ Enters(c)) /\ \A d \in Channels \ {c} : SameSizes(d)
  BY <1>0, <1>1, <1>2 DEF RecoverGoes
<1>3. ASSUME NEW r \in {"room", "swap"}, NEW t, RecoverAwaits(c, r, t)
      PROVE  (Shrinks(c) \/ Enters(c)) /\ \A d \in Channels \ {c} : SameSizes(d)
  BY <1>1, <1>3 DEF RecoverAwaits
<1>4. ASSUME ReplayPass(c)
      PROVE  (Shrinks(c) \/ Enters(c)) /\ \A d \in Channels \ {c} : SameSizes(d)
  <2>1. CASE \E n \in Sizes : SendReplay(c, n)
    BY <2>1, ReplayFits
  <2> QED
    BY <1>2, <1>3, <1>4, <2>1 DEF ReplayPass
<1>5. CASE RecoverTick(c) \/ RoomMade(c)
  BY <1>3, <1>4, <1>5 DEF RecoverTick, RoomMade
<1>6. CASE SlotFreed(c) \/ ReplayLocked(c)
  BY <1>0, <1>6, ReplayFits DEF SlotFreed, ReplayLocked
<1>7. CASE RecoverGivesBack(c) \/ RecoverEnds(c)
  BY <1>2, <1>7 DEF RecoverGivesBack, RecoverEnds
<1>8. CASE CancelRecover(c)
  BY <1>0, <1>1, <1>8 DEF CancelRecover
<1> QED
  BY <1>5, <1>6, <1>7, <1>8 DEF Recover

LEMMA OtherFits ==
  ASSUME ChannelBooksInv,
         (\E t \in Tasks : Request(t)) \/ (\E d \in Channels : Close(d)) \/ LaneCloses
           \/ UNCHANGED vars
  PROVE  \A c \in Channels : Shrinks(c)
<1> USE DEF bookVars, upVars, recVars
<1>0. pendingBytes \in [Channels -> Int]
  BY DEF ChannelBooksInv, TypeOK, BookTypes
<1>1. ASSUME UNCHANGED <<pendingBytes, upSize, recSize>> PROVE \A c \in Channels : SameSizes(c)
  BY <1>0, <1>1 DEF SameSizes
<1>2. ASSUME NEW t \in Tasks, Finish(t), UNCHANGED <<upSize, recSize>>
      PROVE  \A c \in Channels : SameSizes(c)
  <2>1. size[t] \in Nat
    <3>1. size \in [Tasks -> Sizes \cup {0}]
      BY DEF ChannelBooksInv, TypeOK, TaskTypes
    <3> QED
      BY <3>1, SizesAreNats
  <2> QED
    BY <1>0, <1>2, <2>1 DEF Finish, SameSizes
<1>3. \A c \in Channels : SameSizes(c)
  <2>1. ASSUME NEW t \in Tasks, Request(t) PROVE \A c \in Channels : SameSizes(c)
    <3>1. CASE Answered(t) \/ Failed(t) \/ Unwind(t)
      BY <1>2, <3>1 DEF Answered, Failed, Unwind, FinishRequest
    <3>2. CASE StartRequest(t) \/ DropUnstarted(t) \/ BodySent(t) \/ ResponseStarts(t)
                 \/ ReleaseLater(t) \/ ReleaseCancelled(t)
      BY <1>1, <3>2 DEF StartRequest, DropUnstarted, BodySent, ResponseStarts, ReleaseLater,
                        ReleaseCancelled
    <3> QED
      BY <2>1, <3>1, <3>2 DEF Request
  <2>2. ASSUME NEW d \in Channels, Close(d) PROVE \A c \in Channels : SameSizes(c)
    <3>1. CASE BridgeStops(d) \/ UploadSurvives(d) \/ BridgeJoined(d) \/ CloseBegins(d) \/ CloseDone(d)
      BY <1>1, <3>1 DEF BridgeStops, UploadSurvives, BridgeJoined, CloseBegins, CloseDone
    <3>2. ASSUME NEW t \in Tasks, CloseFinishes(d, t) PROVE \A c \in Channels : SameSizes(c)
      BY <1>2, <3>2 DEF CloseFinishes
    <3> QED
      BY <2>2, <3>1, <3>2 DEF Close
  <2>3. CASE LaneCloses \/ UNCHANGED vars
    BY <1>1, <2>3 DEF LaneCloses, vars
  <2> QED
    BY <2>1, <2>2, <2>3
<1>4. \A c \in Channels : Undisturbed(c)
  BY OtherRoom DEF ChannelBooksInv
<1> QED
  BY <1>3, <1>4, UndisturbedShrinks

LEMMA FitsKeeps ==
  ASSUME ChannelBooksInv, [Next]_vars
  PROVE  \A c \in Channels : Fits(c)'
<1>1. ASSUME NEW c \in Channels, Upload(c) \/ Recover(c)
      PROVE  \A d \in Channels : Shrinks(d) \/ Enters(d)
  <2>1. (Shrinks(c) \/ Enters(c)) /\ \A d \in Channels \ {c} : SameSizes(d)
    BY <1>1, UploadFits, RecoverFits
  <2>2. \A d \in Channels \ {c} : Undisturbed(d)
    BY <1>1, UploadRoom, RecoverRoom DEF ChannelBooksInv
  <2> QED
    BY <2>1, <2>2, UndisturbedShrinks
<1>2. \A d \in Channels : Shrinks(d) \/ Enters(d)
  BY <1>1, OtherFits DEF Next
<1>3. TypeOK /\ TypeOK'
  BY TypeNext DEF ChannelBooksInv
<1> QED
  BY <1>2, <1>3, FitsOn DEF ChannelBooksInv

LEMMA ChannelBooksNext ==
  ASSUME ChannelBooksInv, [Next]_vars
  PROVE  ChannelBooksInv'
<1>1. TypeOK' /\ \A c \in Channels : RoomIsKept(c)'
  BY RoomInvNext DEF RoomInv, ChannelBooksInv
<1>2. Owned'
  BY NextBooks, StayKeeps, EnterKeeps, LeaveKeeps DEF ChannelBooksInv, Owned, BooksStep
<1>3. ClosingIsFinal' /\ \A c \in Channels : Fits(c)'
  BY ClosingKeeps, FitsKeeps
<1> QED
  BY <1>1, <1>2, <1>3 DEF ChannelBooksInv, Owned

(***************************************************************************)
(* What a step does to a part of the load, S with the lengths f before it  *)
(* and T with g after it.                                                  *)
(***************************************************************************)
Stays(f, S, g, T) == T \subseteq S /\ \A x \in T : g[x] = f[x]

Grows(f, S, g, T, n) ==
  \E z : T \subseteq S \cup {z} /\ g[z] = n /\ \A x \in T \ {z} : g[x] = f[x]

Lessens(f, S, g, T, n) ==
  \E z \in S : T \subseteq S \ {z} /\ f[z] = n /\ \A x \in T : g[x] = f[x]

LEMMA StaysSum ==
  ASSUME NEW f, NEW S, NEW g, NEW T, IsFiniteSet(S), \A x \in S : f[x] \in Nat, Stays(f, S, g, T)
  PROVE  SumOver(g, T) \in Nat /\ SumOver(g, T) <= SumOver(f, S)
<1>1. SumOver(f, T) \in Nat /\ SumOver(f, T) <= SumOver(f, S)
  BY SumSubset DEF Stays
<1>2. SumOver(g, T) = SumOver(f, T)
  BY SumSame DEF Stays
<1> QED
  BY <1>1, <1>2

LEMMA GrowsSum ==
  ASSUME NEW f, NEW S, NEW g, NEW T, NEW n \in Nat, IsFiniteSet(S), \A x \in S : f[x] \in Nat,
         Grows(f, S, g, T, n)
  PROVE  SumOver(g, T) \in Nat /\ SumOver(g, T) <= SumOver(f, S) + n
<1> PICK z : T \subseteq S \cup {z} /\ g[z] = n /\ \A x \in T \ {z} : g[x] = f[x]
  BY DEF Grows
<1>1. Stays(f, S, g, T \ {z})
  BY DEF Stays
<1>2. SumOver(g, T \ {z}) \in Nat /\ SumOver(g, T \ {z}) <= SumOver(f, S) /\ SumOver(f, S) \in Nat
  BY <1>1, StaysSum, SumType
<1>3. CASE z \in T
  <2>1. IsFiniteSet(T \ {z}) /\ \A x \in (T \ {z}) \cup {z} : g[x] \in Nat
    BY <1>1, FS_Subset DEF Stays
  <2>2. SumOver(g, (T \ {z}) \cup {z}) = SumOver(g, T \ {z}) + g[z]
    BY <2>1, SumAdd
  <2>3. (T \ {z}) \cup {z} = T
    BY <1>3
  <2> QED
    BY <1>2, <2>2, <2>3
<1>4. CASE z \notin T
  <2>1. T \ {z} = T
    BY <1>4
  <2> QED
    BY <1>2, <2>1
<1> QED
  BY <1>3, <1>4

LEMMA LessensSum ==
  ASSUME NEW f, NEW S, NEW g, NEW T, NEW n, IsFiniteSet(S), \A x \in S : f[x] \in Nat,
         Lessens(f, S, g, T, n)
  PROVE  SumOver(g, T) \in Nat /\ SumOver(g, T) <= SumOver(f, S) - n
<1> PICK z \in S : T \subseteq S \ {z} /\ f[z] = n /\ \A x \in T : g[x] = f[x]
  BY DEF Lessens
<1>1. IsFiniteSet(S \ {z}) /\ Stays(f, S \ {z}, g, T)
  BY FS_Subset DEF Stays
<1>2. SumOver(g, T) \in Nat /\ SumOver(g, T) <= SumOver(f, S \ {z})
  BY <1>1, StaysSum
<1>3. SumOver(f, S \ {z}) = SumOver(f, S) - f[z]
  BY SumRemove
<1> QED
  BY <1>2, <1>3

TasksStay == Stays(size, Live, size', Live')
UploadsStay == Stays(upSize, UploadsGiving, upSize', UploadsGiving')
RecoversStay == Stays(recSize, RecoversGiving, recSize', RecoversGiving')

LoadStays == TasksStay /\ UploadsStay /\ RecoversStay /\ queuedBytes' = queuedBytes

LoadGrows(n) ==
  /\ queuedBytes' = queuedBytes + n
  /\ queuedBytes' <= MaxLaneBytes
  /\ \/ Grows(size, Live, size', Live', n) /\ UploadsStay /\ RecoversStay
     \/ Grows(upSize, UploadsGiving, upSize', UploadsGiving', n) /\ TasksStay /\ RecoversStay
     \/ Grows(recSize, RecoversGiving, recSize', RecoversGiving', n) /\ TasksStay /\ UploadsStay

LoadLessens(n) ==
  /\ queuedBytes' = queuedBytes - n
  /\ \/ Lessens(size, Live, size', Live', n) /\ UploadsStay /\ RecoversStay
     \/ Lessens(upSize, UploadsGiving, upSize', UploadsGiving', n) /\ TasksStay /\ RecoversStay
     \/ Lessens(recSize, RecoversGiving, recSize', RecoversGiving', n) /\ TasksStay /\ UploadsStay

LoadStep == LoadStays \/ \E n \in Sizes \cup {0} : LoadGrows(n) \/ LoadLessens(n)

LEMMA LoadStepKeeps ==
  ASSUME TypeOK, TypeOK', LoadCovered, LoadStep
  PROVE  LoadCovered'
<1> DEFINE L == SumOver(size, Live)
           U == SumOver(upSize, UploadsGiving)
           R == SumOver(recSize, RecoversGiving)
<1>1. /\ \A t \in Live : size[t] \in Nat
      /\ \A c \in UploadsGiving : upSize[c] \in Nat
      /\ \A c \in RecoversGiving : recSize[c] \in Nat
  <2>1. /\ \A t \in Live : size[t] \in Sizes \cup {0}
        /\ \A c \in UploadsGiving : upSize[c] \in Sizes \cup {0}
        /\ \A c \in RecoversGiving : recSize[c] \in Sizes \cup {0}
    BY DEF TypeOK, TaskTypes, UploadTypes, RecoverTypes, Live, UploadsGiving, RecoversGiving
  <2> QED
    BY <2>1, SizesAreNats
<1>2. L \in Nat /\ U \in Nat /\ R \in Nat
  BY <1>1, SlotSetsFinite, SumType
<1>3. TasksStay => L' \in Nat /\ L' <= L
  BY <1>1, SlotSetsFinite, StaysSum DEF TasksStay
<1>4. UploadsStay => U' \in Nat /\ U' <= U
  BY <1>1, SlotSetsFinite, StaysSum DEF UploadsStay
<1>5. RecoversStay => R' \in Nat /\ R' <= R
  BY <1>1, SlotSetsFinite, StaysSum DEF RecoversStay
<1>6. ASSUME NEW n \in Nat
      PROVE  /\ Grows(size, Live, size', Live', n) => L' \in Nat /\ L' <= L + n
             /\ Grows(upSize, UploadsGiving, upSize', UploadsGiving', n) => U' \in Nat /\ U' <= U + n
             /\ Grows(recSize, RecoversGiving, recSize', RecoversGiving', n) => R' \in Nat /\ R' <= R + n
  BY <1>1, SlotSetsFinite, GrowsSum
<1>7. ASSUME NEW n \in Nat
      PROVE  /\ Lessens(size, Live, size', Live', n) => L' \in Nat /\ L' <= L - n
             /\ Lessens(upSize, UploadsGiving, upSize', UploadsGiving', n) => U' \in Nat /\ U' <= U - n
             /\ Lessens(recSize, RecoversGiving, recSize', RecoversGiving', n) => R' \in Nat /\ R' <= R - n
  BY <1>1, SlotSetsFinite, LessensSum
<1>8. /\ L + U + R <= queuedBytes /\ queuedBytes <= MaxLaneBytes
      /\ queuedBytes \in Int /\ queuedBytes' \in Int /\ MaxLaneBytes \in Int
  BY BoundAssumption DEF LoadCovered, Load, TypeOK, LaneTypes
<1> HIDE DEF L, U, R
<1>9. L' + U' + R' <= queuedBytes' /\ queuedBytes' <= MaxLaneBytes
  <2>1. CASE LoadStays
    BY <1>2, <1>3, <1>4, <1>5, <1>8, <2>1 DEF LoadStays
  <2>2. ASSUME NEW n \in Nat, LoadGrows(n)
        PROVE  L' + U' + R' <= queuedBytes' /\ queuedBytes' <= MaxLaneBytes
    BY <1>2, <1>3, <1>4, <1>5, <1>6, <1>8, <2>2 DEF LoadGrows
  <2>3. ASSUME NEW n \in Nat, LoadLessens(n)
        PROVE  L' + U' + R' <= queuedBytes' /\ queuedBytes' <= MaxLaneBytes
    BY <1>2, <1>3, <1>4, <1>5, <1>7, <1>8, <2>3 DEF LoadLessens
  <2> QED
    BY <2>1, <2>2, <2>3, SizesAreNats DEF LoadStep
<1> QED
  BY <1>9 DEF LoadCovered, Load, L, U, R

(***************************************************************************)
(* Every step changes the load as it changes queued_bytes.                 *)
(***************************************************************************)
LEMMA FinishLoad ==
  ASSUME TypeOK, NEW t \in Tasks, phase[t] # "free", UNCHANGED <<rec, recSize, upSize>>,
         \/ Release(t)
         \/ /\ phase' = [phase EXCEPT ![t] = "release"]
            /\ UNCHANGED <<up, size, queuedBytes>>
  PROVE  LoadStep
<1>0. /\ phase \in [Tasks -> Phases] /\ size \in [Tasks -> Sizes \cup {0}]
      /\ up \in [Channels -> UpStates]
  BY DEF TypeOK, TaskTypes, UploadTypes
<1>1. RecoversStay
  BY DEF RecoversStay, Stays, RecoversGiving
<1>2. CASE Release(t)
  <2>1. UploadsStay
    BY <1>0, <1>2 DEF Release, NotifyLane, NotifyChannel, UploadsStay, Stays, UploadsGiving
  <2>2. t \in Live /\ Live' \subseteq Live \ {t} /\ \A u \in Live' : size'[u] = size[u]
    BY <1>0, <1>2 DEF Release, Live
  <2>3. queuedBytes' = queuedBytes - size[t] /\ size[t] \in Sizes \cup {0}
    BY <1>0, <1>2 DEF Release, LaneRelease
  <2> QED
    BY <1>1, <2>1, <2>2, <2>3 DEF Lessens, LoadLessens, LoadStep
<1>3. CASE phase' = [phase EXCEPT ![t] = "release"] /\ UNCHANGED <<up, size, queuedBytes>>
  <2>1. TasksStay /\ UploadsStay
    BY <1>0, <1>3 DEF TasksStay, UploadsStay, Stays, Live, UploadsGiving
  <2> QED
    BY <1>1, <1>3, <2>1 DEF LoadStays, LoadStep
<1> QED
  BY <1>2, <1>3

LEMMA AdmitLoad ==
  ASSUME TypeOK, NEW c \in Channels, NEW n \in Sizes \cup {0}, NEW replay \in BOOLEAN,
         NEW kept \in BOOLEAN, Admit(c, n, replay, kept), LaneReserve(n),
         UploadsStay, RecoversStay
  PROVE  LoadStep
<1> PICK t \in Tasks : Admit(c, n, replay, kept)!(t)
  BY DEF Admit
<1>0. phase \in [Tasks -> Phases] /\ size \in [Tasks -> Sizes \cup {0}]
  BY DEF TypeOK, TaskTypes
<1>1. Live' \subseteq Live \cup {t} /\ size'[t] = n /\ \A u \in Live' \ {t} : size'[u] = size[u]
  BY <1>0 DEF Live
<1>2. Grows(size, Live, size', Live', n)
  BY <1>1 DEF Grows
<1>3. queuedBytes' = queuedBytes + n /\ queuedBytes' <= MaxLaneBytes
  BY DEF LaneReserve, LaneHasCapacity
<1> QED
  BY <1>2, <1>3 DEF LoadGrows, LoadStep

LEMMA UploadLoad ==
  ASSUME TypeOK, NEW c \in Channels, Upload(c)
  PROVE  LoadStep
<1> USE DEF chanVars, bookVars, upVars, recVars, taskVars, bookkeeping
<1>0. /\ up \in [Channels -> UpStates] /\ upSize \in [Channels -> Sizes \cup {0}]
      /\ NotifyLane(up) \in [Channels -> UpStates]
  BY NotifyLaneType DEF TypeOK, UploadTypes
<1>1. ASSUME UNCHANGED <<rec, recSize>> PROVE RecoversStay
  BY <1>1 DEF RecoversStay, Stays, RecoversGiving
<1>2. ASSUME UNCHANGED <<phase, size>> PROVE TasksStay
  BY <1>2 DEF TasksStay, Stays, Live
\* The upload of c goes on, and what it was giving back is not given back.
<1>3. ASSUME NEW u \in UpStates \ {"give"}, NEW w \in {up, NotifyLane(up)}, up' = [w EXCEPT ![c] = u],
             \A d \in Channels \ {c} : upSize'[d] = upSize[d]
      PROVE  UploadsStay /\ UploadsGiving' \subseteq UploadsGiving \ {c}
  <2>1. UploadsGiving' \subseteq UploadsGiving \ {c}
    BY <1>0, <1>3 DEF UploadsGiving, NotifyLane
  <2> QED
    BY <1>3, <2>1 DEF UploadsStay, Stays, UploadsGiving
<1>4. ASSUME NEW u \in UpStates \ {"give"}, NEW w \in {up, NotifyLane(up)}, up' = [w EXCEPT ![c] = u],
             \A d \in Channels \ {c} : upSize'[d] = upSize[d],
             UNCHANGED <<rec, recSize, phase, size, queuedBytes>>
      PROVE  LoadStep
  BY <1>1, <1>2, <1>3, <1>4 DEF LoadStays, LoadStep
<1>5. ASSUME UploadEnds(c), UNCHANGED <<rec, recSize, phase, size, queuedBytes>> PROVE LoadStep
  BY <1>0, <1>4, <1>5 DEF UploadEnds, UploadLeaves, UpStates
<1>6. ASSUME NEW n \in Sizes, ReadPacket(c, n) PROVE LoadStep
  BY <1>0, <1>4, <1>6 DEF ReadPacket, UpStates, laneVars
<1>7. CASE ReadFails(c) \/ AcquireSendLock(c) \/ AwaitLaneCapacity(c)
  BY <1>4, <1>7 DEF ReadFails, AcquireSendLock, AwaitLaneCapacity, UpStates, laneVars
<1>8. CASE UploadTimeout(c) \/ LaneRefuses(c) \/ CancelUpload(c)
  BY <1>5, <1>8 DEF UploadTimeout, LaneRefuses, CancelUpload
<1>9. CASE AwaitChannelCapacity(c)
  BY <1>4, <1>5, <1>9 DEF AwaitChannelCapacity, UpStates
<1>10. CASE Send(c)
  <2>1. UploadsStay /\ RecoversStay
    BY <1>0, <1>1, <1>3, <1>10 DEF Send, UploadLeaves, UpStates
  <2> QED
    BY <1>0, <1>10, <2>1, AdmitLoad DEF Send
<1>11. CASE SendOnClosed(c)
  <2>1. CASE Queue = {c}
    BY <1>0, <1>4, <1>11, <2>1 DEF SendOnClosed, UploadLeaves, UpStates
  <2>2. CASE Queue # {c}
    <3>1. Grows(upSize, UploadsGiving, upSize', UploadsGiving', upSize[c])
      BY <1>0, <1>11, <2>2 DEF SendOnClosed, Grows, UploadsGiving
    <3>2. queuedBytes' = queuedBytes + upSize[c] /\ queuedBytes' <= MaxLaneBytes
      BY <1>11, <2>2 DEF SendOnClosed, LaneReserve, LaneHasCapacity
    <3>3. TasksStay /\ RecoversStay /\ upSize[c] \in Sizes \cup {0}
      BY <1>0, <1>1, <1>2, <1>11 DEF SendOnClosed
    <3> QED
      BY <3>1, <3>2, <3>3 DEF LoadGrows, LoadStep
  <2> QED
    BY <2>1, <2>2
<1>12. CASE UploadGivesBack(c)
  <2>1. UploadsStay /\ UploadsGiving' \subseteq UploadsGiving \ {c}
    BY <1>0, <1>3, <1>12 DEF UploadGivesBack, UploadLeaves, UpStates
  <2>2. Lessens(upSize, UploadsGiving, upSize', UploadsGiving', upSize[c])
    BY <1>12, <2>1 DEF UploadGivesBack, Lessens, UploadsStay, Stays, UploadsGiving
  <2>3. queuedBytes' = queuedBytes - upSize[c] /\ TasksStay /\ RecoversStay
          /\ upSize[c] \in Sizes \cup {0}
    BY <1>0, <1>1, <1>2, <1>12 DEF UploadGivesBack, LaneRelease
  <2> QED
    BY <2>2, <2>3 DEF LoadLessens, LoadStep
<1> QED
  BY <1>6, <1>7, <1>8, <1>9, <1>10, <1>11, <1>12 DEF Upload, UploadRuns

LEMMA ReplayLoad ==
  ASSUME TypeOK, NEW c \in Channels, NEW n \in Sizes \cup {0}, rec[c] # "give",
         \/ rec[c] = "lane" /\ n = recSize[c] /\ ReplayReserve(c, n)
         \/ n \in Sizes /\ SendReplay(c, n)
  PROVE  LoadStep
<1> USE DEF chanVars, bookVars, upVars, recVars, taskVars, bookkeeping
<1>0. /\ up \in [Channels -> UpStates] /\ NotifyLane(up) \in [Channels -> UpStates]
      /\ rec \in [Channels -> RecStates] /\ recSize \in [Channels -> Sizes \cup {0}]
  BY NotifyLaneType DEF TypeOK, UploadTypes, RecoverTypes
<1>1. ASSUME UNCHANGED upSize, up' \in {up, NotifyLane(up)} PROVE UploadsStay
  BY <1>1 DEF UploadsStay, Stays, UploadsGiving, NotifyLane
<1>2. ASSUME NEW r \in RecStates \ {"give"}, rec' = [rec EXCEPT ![c] = r],
             \A d \in Channels \ {c} : recSize'[d] = recSize[d]
      PROVE  RecoversStay
  BY <1>0, <1>2 DEF RecoversStay, Stays, RecoversGiving
<1>3. ASSUME UNCHANGED <<phase, size>> PROVE TasksStay
  BY <1>3 DEF TasksStay, Stays, Live
<1>4. ASSUME NEW r \in {"tick", "dead"}, RecoverGoes(c, r), up' \in {up, NotifyLane(up)},
             UNCHANGED <<upSize, phase, size, queuedBytes>>
      PROVE  LoadStep
  <2>1. RecoversStay
    BY <1>0, <1>2, <1>4 DEF RecoverGoes, RecStates
  <2> QED
    BY <1>1, <1>3, <1>4, <2>1 DEF LoadStays, LoadStep
<1>5. ASSUME ReplayReserve(c, n), n = recSize[c] \/ Queue = {} PROVE LoadStep
  <2>1. CASE LaneReserve(n) /\ Admit(c, n, TRUE, FALSE) /\ RecoverGoes(c, "tick") /\ UNCHANGED upVars
    <3>1. RecoversStay /\ UploadsStay
      BY <1>0, <1>1, <1>2, <2>1 DEF RecoverGoes, RecStates
    <3> QED
      BY <2>1, <3>1, AdmitLoad
  <2>2. CASE /\ n = recSize[c] /\ LaneReserve(n) /\ rec' = [rec EXCEPT ![c] = "give"]
             /\ UNCHANGED <<recSize, up, upSize, taskVars>>
    <3>1. Grows(recSize, RecoversGiving, recSize', RecoversGiving', n)
      BY <1>0, <2>2 DEF Grows, RecoversGiving
    <3>2. queuedBytes' = queuedBytes + n /\ queuedBytes' <= MaxLaneBytes
      BY <2>2 DEF LaneReserve, LaneHasCapacity
    <3> QED
      BY <1>1, <1>3, <2>2, <3>1, <3>2 DEF LoadGrows, LoadStep
  <2>3. CASE /\ \E r \in {"tick", "dead"} : RecoverGoes(c, r)
             /\ up' \in {up, NotifyLane(up)} /\ UNCHANGED <<upSize, taskVars, bookkeeping>>
    BY <1>4, <2>3
  <2> QED
    BY <1>5, <2>1, <2>2, <2>3 DEF ReplayReserve
<1>6. CASE n \in Sizes /\ SendReplay(c, n)
  <2>1. CASE /\ rec' = [rec EXCEPT ![c] = "lane"] /\ recSize' = [recSize EXCEPT ![c] = n]
             /\ UNCHANGED <<upVars, taskVars, bookkeeping>>
    <3>1. RecoversStay
      BY <1>0, <1>2, <2>1 DEF RecStates
    <3> QED
      BY <1>1, <1>3, <2>1, <3>1 DEF LoadStays, LoadStep
  <2>2. CASE /\ \E r \in {"tick", "dead"} : RecoverGoes(c, r)
             /\ UNCHANGED <<upVars, taskVars, laneVars>>
    BY <1>4, <2>2 DEF laneVars
  <2> QED
    BY <1>5, <1>6, <2>1, <2>2 DEF SendReplay
<1> QED
  BY <1>5, <1>6

LEMMA RecoverLoad ==
  ASSUME TypeOK, NEW c \in Channels, Recover(c)
  PROVE  LoadStep
<1> USE DEF chanVars, bookVars, upVars, recVars, taskVars, bookkeeping
<1>0. /\ up \in [Channels -> UpStates] /\ NotifyLane(up) \in [Channels -> UpStates]
      /\ rec \in [Channels -> RecStates] /\ recSize \in [Channels -> Sizes \cup {0}]
  BY NotifyLaneType DEF TypeOK, UploadTypes, RecoverTypes
<1>1. ASSUME UNCHANGED upSize, up' \in {up, NotifyLane(up)} PROVE UploadsStay
  BY <1>1 DEF UploadsStay, Stays, UploadsGiving, NotifyLane
<1>2. ASSUME NEW r \in RecStates \ {"give"}, rec' = [rec EXCEPT ![c] = r],
             \A d \in Channels \ {c} : recSize'[d] = recSize[d]
      PROVE  RecoversStay /\ RecoversGiving' \subseteq RecoversGiving \ {c}
  BY <1>0, <1>2 DEF RecoversStay, Stays, RecoversGiving
<1>3. ASSUME UNCHANGED <<phase, size>> PROVE TasksStay
  BY <1>3 DEF TasksStay, Stays, Live
<1>4. ASSUME NEW r \in RecStates \ {"give"}, rec' = [rec EXCEPT ![c] = r],
             \A d \in Channels \ {c} : recSize'[d] = recSize[d],
             UNCHANGED <<up, upSize, phase, size, queuedBytes>>
      PROVE  LoadStep
  BY <1>1, <1>2, <1>3, <1>4 DEF LoadStays, LoadStep
<1>5. ASSUME NEW r \in {"tick", "dead"}, RecoverGoes(c, r),
             UNCHANGED <<up, upSize, phase, size, queuedBytes>>
      PROVE  LoadStep
  BY <1>0, <1>4, <1>5 DEF RecoverGoes, RecStates
<1>6. ASSUME NEW r \in {"room", "swap"}, NEW t, RecoverAwaits(c, r, t) PROVE LoadStep
  BY <1>4, <1>6 DEF RecoverAwaits, RecStates, laneVars
<1>7. ASSUME ReplayPass(c), rec[c] # "give" PROVE LoadStep
  <2>1. CASE \E n \in Sizes : SendReplay(c, n)
    BY <1>7, <2>1, ReplayLoad
  <2>2. CASE RecoverGoes(c, "tick") /\ UNCHANGED <<upVars, taskVars, laneVars>>
    BY <1>5, <2>2 DEF laneVars
  <2> QED
    BY <1>6, <1>7, <2>1, <2>2 DEF ReplayPass
<1>8. CASE RecoverTick(c) \/ RoomMade(c)
  BY <1>6, <1>7, <1>8 DEF RecoverTick, RoomMade
<1>9. CASE SlotFreed(c) \/ ReplayLocked(c)
  BY <1>0, <1>9, ReplayLoad DEF SlotFreed, ReplayLocked
<1>10. CASE RecoverGivesBack(c)
  <2>1. RecoversStay /\ RecoversGiving' \subseteq RecoversGiving \ {c}
    BY <1>0, <1>2, <1>10 DEF RecoverGivesBack, RecoverGoes, RecStates
  <2>2. Lessens(recSize, RecoversGiving, recSize', RecoversGiving', recSize[c])
    BY <1>10, <2>1 DEF RecoverGivesBack, Lessens, RecoversStay, Stays, RecoversGiving
  <2>3. queuedBytes' = queuedBytes - recSize[c] /\ TasksStay /\ UploadsStay
          /\ recSize[c] \in Sizes \cup {0}
    BY <1>0, <1>1, <1>3, <1>10 DEF RecoverGivesBack, LaneRelease
  <2> QED
    BY <2>2, <2>3 DEF LoadLessens, LoadStep
<1>11. CASE RecoverEnds(c)
  BY <1>5, <1>11 DEF RecoverEnds, laneVars
<1>12. CASE CancelRecover(c)
  BY <1>0, <1>4, <1>12 DEF CancelRecover, RecStates
<1> QED
  BY <1>8, <1>9, <1>10, <1>11, <1>12 DEF Recover

LEMMA OtherLoad ==
  ASSUME TypeOK, PendingAreLive,
         (\E t \in Tasks : Request(t)) \/ (\E d \in Channels : Close(d)) \/ LaneCloses
           \/ UNCHANGED vars
  PROVE  LoadStep
<1> USE DEF chanVars, bookVars, upVars, recVars, taskVars, bookkeeping, laneVars
<1>0. phase \in [Tasks -> Phases] /\ size \in [Tasks -> Sizes \cup {0}]
  BY DEF TypeOK, TaskTypes
<1>1. ASSUME UNCHANGED <<rec, recSize, upSize, queuedBytes>>, up' \in {up, NotifyLane(up)}, TasksStay
      PROVE  LoadStep
  BY <1>1 DEF UploadsStay, RecoversStay, Stays, UploadsGiving, RecoversGiving, NotifyLane,
              LoadStays, LoadStep
<1>2. ASSUME UNCHANGED <<phase, size>> PROVE TasksStay
  BY <1>2 DEF TasksStay, Stays, Live
<1>3. ASSUME NEW t \in Tasks, Request(t) PROVE LoadStep
  <2>1. CASE StartRequest(t) \/ DropUnstarted(t) \/ BodySent(t) \/ ResponseStarts(t)
    <3>1. /\ \E p \in {phase[t], "run", "void", "body"} : phase' = [phase EXCEPT ![t] = p]
          /\ phase[t] # "free"
          /\ UNCHANGED size
      BY <1>0, <2>1 DEF StartRequest, DropUnstarted, BodySent, ResponseStarts
    <3>2. TasksStay
      BY <1>0, <3>1 DEF TasksStay, Stays, Live
    <3> QED
      BY <1>1, <2>1, <3>2 DEF StartRequest, DropUnstarted, BodySent, ResponseStarts
  <2>2. CASE Answered(t) \/ Failed(t) \/ Unwind(t)
    BY <2>2, FinishLoad DEF Answered, Failed, Unwind, Started, FinishRequest
  <2>3. CASE ReleaseLater(t)
    BY <2>3, FinishLoad DEF ReleaseLater
  <2>4. CASE ReleaseCancelled(t)
    <3>1. TasksStay
      BY <1>0, <2>4 DEF ReleaseCancelled, TasksStay, Stays, Live
    <3> QED
      BY <1>1, <2>4, <3>1 DEF ReleaseCancelled
  <2> QED
    BY <1>3, <2>1, <2>2, <2>3, <2>4 DEF Request
<1>4. ASSUME NEW d \in Channels, Close(d) PROVE LoadStep
  <2>1. CASE BridgeStops(d) \/ UploadSurvives(d) \/ BridgeJoined(d) \/ CloseBegins(d) \/ CloseDone(d)
    BY <1>1, <1>2, <2>1 DEF BridgeStops, UploadSurvives, BridgeJoined, CloseBegins, CloseDone
  <2>2. ASSUME NEW t \in Tasks, CloseFinishes(d, t) PROVE LoadStep
    <3>1. phase[t] # "free"
      BY <2>2 DEF CloseFinishes, PendingAreLive
    <3> QED
      BY <2>2, <3>1, FinishLoad DEF CloseFinishes
  <2> QED
    BY <1>4, <2>1, <2>2 DEF Close
<1>5. CASE LaneCloses
  BY <1>1, <1>2, <1>5 DEF LaneCloses
<1>6. CASE UNCHANGED vars
  BY <1>1, <1>2, <1>6 DEF vars
<1> QED
  BY <1>3, <1>4, <1>5, <1>6

LEMMA BooksInvInit == Init => BooksInv
<1> SUFFICES ASSUME Init PROVE BooksInv
  OBVIOUS
<1>1. TypeOK /\ \A c \in Channels : RoomIsKept(c)
  BY RoomInvInit DEF RoomInv
<1>2. PendingAreLive /\ OwnersHold /\ ReplaysArePending /\ ClosingIsFinal
  BY DEF Init, PendingAreLive, OwnersHold, ReplaysArePending, ClosingIsFinal, InBooks
<1>3. PendingSums
  BY SumEmpty DEF Init, PendingSums
<1>4. \A c \in Channels : Fits(c)
  BY BoundAssumption DEF Init, Fits
<1>5. LoadCovered
  <2>1. Live = {} /\ UploadsGiving = {} /\ RecoversGiving = {} /\ queuedBytes = 0
    BY DEF Init, Live, UploadsGiving, RecoversGiving
  <2>2. Load = 0
    BY <2>1, SumEmpty DEF Load
  <2> QED
    BY <2>1, <2>2, BoundAssumption DEF LoadCovered
<1> QED
  BY <1>1, <1>2, <1>3, <1>4, <1>5 DEF BooksInv, ChannelBooksInv

LEMMA BooksInvNext == BooksInv /\ [Next]_vars => BooksInv'
<1> SUFFICES ASSUME BooksInv, [Next]_vars PROVE BooksInv'
  OBVIOUS
<1>1. ChannelBooksInv'
  BY ChannelBooksNext DEF BooksInv
<1>2. TypeOK /\ TypeOK' /\ PendingAreLive
  BY <1>1 DEF BooksInv, ChannelBooksInv
<1>3. LoadStep
  BY <1>2, UploadLoad, RecoverLoad, OtherLoad DEF Next
<1>4. LoadCovered'
  BY <1>2, <1>3, LoadStepKeeps DEF BooksInv
<1> QED
  BY <1>1, <1>4 DEF BooksInv

(***************************************************************************)
(* pending_bytes is what the packets in the books of a channel weigh and   *)
(* stays within MAX_CHANNEL_BYTES; queued_bytes covers every packet that   *)
(* occupies the lane and stays within MAX_LANE_BYTES (_reserve, _release,  *)
(* _send, _finish_request), whatever the number of channels and requests.  *)
(***************************************************************************)
THEOREM BooksCorrect == Spec => []BytesAccounted
<1>1. BooksInv => BytesAccounted
  BY DEF BooksInv, ChannelBooksInv, PendingSums, Fits, LoadCovered, Load, BytesAccounted
<1> QED
  BY <1>1, BooksInvInit, BooksInvNext, PTL DEF Spec

(***************************************************************************)
(* When close() has returned nothing is left in the books of the channel   *)
(* and none of its requests runs (close, _finish_request).                 *)
(***************************************************************************)
THEOREM ClosedCorrect == Spec => []ClosedChannelIsEmpty
<1>1. BooksInv => ClosedChannelIsEmpty
  <2> SUFFICES ASSUME ChannelBooksInv, NEW c \in Channels, closing[c] = "done"
               PROVE  /\ pending[c] = {} /\ replayPending[c] = {} /\ pendingBytes[c] = 0
                      /\ \A t \in Tasks : owner[t] = c => phase[t] = "release"
    BY DEF BooksInv, ClosedChannelIsEmpty
  <2>1. pending[c] = {}
    BY DEF ChannelBooksInv, ClosingIsFinal
  <2>2. replayPending[c] = {}
    BY <2>1 DEF ChannelBooksInv, ReplaysArePending
  <2>3. pendingBytes[c] = 0
    BY <2>1, SumEmpty DEF ChannelBooksInv, PendingSums
  <2>4. ASSUME NEW t \in Tasks, owner[t] = c PROVE phase[t] = "release"
    <3>1. phase[t] \notin InBooks
      BY <2>1, <2>4 DEF ChannelBooksInv, OwnersHold
    <3>2. phase[t] # "free"
      BY <2>4, FiniteAssumption DEF ChannelBooksInv, OwnersHold
    <3>3. phase[t] \in Phases
      BY DEF ChannelBooksInv, TypeOK, TaskTypes
    <3> QED
      BY <3>1, <3>2, <3>3 DEF InBooks, Phases
  <2> QED
    BY <2>1, <2>2, <2>3, <2>4
<1> QED
  BY <1>1, BooksInvInit, BooksInvNext, PTL DEF Spec

(***************************************************************************)
(* What close() gathers, and what _recover gathers while it replaces a     *)
(* replay: a request that the gather of close() no longer waits for was    *)
(* cancelled before it started, and the request _recover waits for has     *)
(* started.                                                                *)
(***************************************************************************)
Waits(s, P, W, p) == s = "gather" => \A t \in P : t \in W \/ p[t] = "void"
CloseWaits(c) == Waits(closing[c], pending[c], closeSet[c], phase)

AfterStart == {"run", "body", "release"}
Replaced(c) == recOn[c] # None => phase[recOn[c]] \in AfterStart

(***************************************************************************)
(* The number of replays R of a channel whose _recover, at r, gathers g:   *)
(* the slot found free, or the one of the replay being replaced, is kept   *)
(* for the new one.                                                        *)
(***************************************************************************)
Slot(r, g, R) ==
  /\ Cardinality(R) <= MaxChannelReplays
  /\ r = "lane" => Cardinality(R) < MaxChannelReplays
  /\ r = "swap" => Cardinality(R \ {g}) < MaxChannelReplays

SlotIsKept(c) == Slot(rec[c], recOn[c], replayPending[c])

ReplaysInv ==
  /\ BooksInv
  /\ \A c \in Channels : CloseWaits(c) /\ Replaced(c) /\ SlotIsKept(c)

\* Another actor's step, as the _recover task of channel c sees it.
RecoverUndisturbed(c) ==
  /\ rec'[c] = rec[c]
  /\ replayPending'[c] \subseteq replayPending[c]
  /\ recOn'[c] = recOn[c] \/ (recOn'[c] = None /\ recOn[c] \notin replayPending'[c])

LEMMA ReplaysFinite ==
  ASSUME TypeOK, NEW c \in Channels
  PROVE  /\ IsFiniteSet(replayPending[c])
         /\ replayPending[c] \subseteq Tasks
         /\ recOn[c] \in Tasks \cup {None}
<1>1. replayPending[c] \subseteq Tasks /\ recOn[c] \in Tasks \cup {None}
  BY DEF TypeOK, BookTypes, RecoverTypes
<1> QED
  BY <1>1, FiniteAssumption, FS_Subset

LEMMA SmallerSet ==
  ASSUME NEW S, NEW T, IsFiniteSet(S), T \subseteq S
  PROVE  Cardinality(T) \in Nat /\ Cardinality(S) \in Nat /\ Cardinality(T) <= Cardinality(S)
BY FS_Subset, FS_CardinalityType

LEMMA UndisturbedKeepsSlot ==
  ASSUME TypeOK, NEW c \in Channels, SlotIsKept(c), RecoverUndisturbed(c)
  PROVE  SlotIsKept(c)'
<1> DEFINE R == replayPending[c]
           T == replayPending'[c]
<1>1. IsFiniteSet(R) /\ T \subseteq R
  BY ReplaysFinite DEF RecoverUndisturbed
<1>2. Cardinality(T) \in Nat /\ Cardinality(R) \in Nat /\ Cardinality(T) <= Cardinality(R)
  BY <1>1, SmallerSet
<1>3. /\ Cardinality(T \ {recOn'[c]}) \in Nat /\ Cardinality(R \ {recOn[c]}) \in Nat
      /\ Cardinality(T \ {recOn'[c]}) <= Cardinality(R \ {recOn[c]})
  <2>1. T \ {recOn'[c]} \subseteq R \ {recOn[c]}
    BY <1>1 DEF RecoverUndisturbed
  <2>2. IsFiniteSet(R \ {recOn[c]})
    BY <1>1, FS_Subset
  <2> QED
    BY <2>1, <2>2, SmallerSet
<1>4. MaxChannelReplays \in Nat
  BY BoundAssumption
<1> QED
  BY <1>2, <1>3, <1>4 DEF SlotIsKept, Slot, RecoverUndisturbed

\* A new replay enters where there is a slot for it.
LEMMA AdmitKeepsSlot ==
  ASSUME TypeOK, NEW c \in Channels, NEW n, Admit(c, n, TRUE, FALSE),
         Cardinality(replayPending[c]) < MaxChannelReplays
  PROVE  /\ Cardinality(replayPending'[c]) <= MaxChannelReplays
         /\ \A d \in Channels \ {c} : replayPending'[d] = replayPending[d]
<1> PICK t \in Tasks : Admit(c, n, TRUE, FALSE)!(t)
  BY DEF Admit
<1>1. /\ replayPending'[c] = replayPending[c] \cup {t}
      /\ \A d \in Channels \ {c} : replayPending'[d] = replayPending[d]
  BY DEF TypeOK, BookTypes
<1>2. IsFiniteSet(replayPending[c]) /\ MaxChannelReplays \in Nat
  BY ReplaysFinite, BoundAssumption
<1>3. /\ Cardinality(replayPending[c]) \in Nat
      /\ \/ Cardinality(replayPending[c] \cup {t}) = Cardinality(replayPending[c])
         \/ Cardinality(replayPending[c] \cup {t}) = Cardinality(replayPending[c]) + 1
  BY <1>2, FS_AddElement, FS_CardinalityType
<1>4. Cardinality(replayPending[c] \cup {t}) <= MaxChannelReplays
  <2> DEFINE k == Cardinality(replayPending[c])
             m == Cardinality(replayPending[c] \cup {t})
  <2>1. k \in Nat /\ (m = k \/ m = k + 1) /\ k < MaxChannelReplays
    BY <1>3
  <2> HIDE DEF k, m
  <2>2. m <= MaxChannelReplays
    BY <1>2, <2>1
  <2> QED
    BY <2>2 DEF m
<1> QED
  BY <1>1, <1>4, Zenon

\* A replay of channel c is in its books and nobody else's.
LEMMA ReplayOwner ==
  ASSUME ChannelBooksInv, NEW t \in Tasks, NEW c \in Channels, t \in replayPending[c]
  PROVE  t \in pending[c] /\ owner[t] = c /\ phase[t] \in InBooks
BY DEF ChannelBooksInv, ReplaysArePending, PendingAreLive, InBooks

LEMMA FinishReplays ==
  ASSUME ChannelBooksInv, NEW t \in Tasks, Finish(t)
  PROVE  \A c \in Channels :
           /\ replayPending'[c] \subseteq replayPending[c] \ {t}
           /\ pending'[c] \subseteq pending[c] \ {t}
<1> SUFFICES ASSUME NEW c \in Channels
             PROVE  /\ replayPending'[c] \subseteq replayPending[c] \ {t}
                    /\ pending'[c] \subseteq pending[c] \ {t}
  OBVIOUS
<1>1. pending \in [Channels -> SUBSET Tasks] /\ replayPending \in [Channels -> SUBSET Tasks]
  BY DEF ChannelBooksInv, TypeOK, BookTypes
<1>2. t \in pending[c] => owner[t] = c
  BY DEF ChannelBooksInv, PendingAreLive
<1>3. t \in replayPending[c] => owner[t] = c
  BY ReplayOwner
<1> QED
  BY <1>1, <1>2, <1>3 DEF Finish

(***************************************************************************)
(* close() waits for every request of the channel that may still run.      *)
(***************************************************************************)
LEMMA AdmitWaits ==
  ASSUME ChannelBooksInv, \A d \in Channels : CloseWaits(d),
         NEW c \in Channels, NEW n, NEW replay \in BOOLEAN, NEW kept \in BOOLEAN,
         Admit(c, n, replay, kept), ~closed[c], UNCHANGED <<closing, closeSet>>
  PROVE  \A d \in Channels : CloseWaits(d)'
<1> PICK t \in Tasks : Admit(c, n, replay, kept)!(t)
  BY DEF Admit
<1>0. /\ pending \in [Channels -> SUBSET Tasks] /\ phase \in [Tasks -> Phases]
      /\ closing[c] = "open"
  BY DEF ChannelBooksInv, TypeOK, BookTypes, TaskTypes, ChannelTypes, ClosingIsFinal
<1>1. ASSUME NEW d \in Channels \ {c} PROVE CloseWaits(d)'
  <2>1. pending'[d] = pending[d] /\ t \notin pending[d]
    BY <1>0 DEF ChannelBooksInv, PendingAreLive
  <2>2. \A u \in pending[d] : phase'[u] = phase[u]
    BY <1>0, <2>1
  <2> QED
    BY <2>1, <2>2 DEF CloseWaits, Waits
<1>2. CloseWaits(c)'
  BY <1>0 DEF CloseWaits, Waits
<1> QED
  BY <1>1, <1>2

LEMMA NextWaits ==
  ASSUME ChannelBooksInv, \A c \in Channels : CloseWaits(c), [Next]_vars
  PROVE  \A c \in Channels : CloseWaits(c)'
<1> USE DEF chanVars, bookVars, taskVars
<1>0. /\ pending \in [Channels -> SUBSET Tasks] /\ phase \in [Tasks -> Phases]
      /\ closing \in [Channels -> {"open", "gather", "done"}]
      /\ closeSet \in [Channels -> SUBSET Tasks]
  BY DEF ChannelBooksInv, TypeOK, BookTypes, TaskTypes, ChannelTypes
<1>1. ASSUME UNCHANGED <<closing, closeSet, pending, phase>>
      PROVE  \A c \in Channels : CloseWaits(c)'
  BY <1>1 DEF CloseWaits
<1>2. ASSUME NEW c \in Channels, Upload(c) PROVE \A d \in Channels : CloseWaits(d)'
  <2>1. CASE Send(c)
    <3>1. PICK kept \in BOOLEAN : Admit(c, upSize[c], FALSE, kept)
      BY <2>1 DEF Send
    <3>2. ~closed[c] /\ UNCHANGED <<closing, closeSet>>
      BY <2>1 DEF Send, StillOpen
    <3> QED
      BY <3>1, <3>2, AdmitWaits
  <2>2. CASE ~Send(c)
    <3>1. UNCHANGED <<closing, closeSet, pending, phase>>
      BY <1>2, <2>2 DEF Upload, UploadRuns, ReadPacket, ReadFails, UploadTimeout, AcquireSendLock,
              AwaitChannelCapacity, LaneRefuses, AwaitLaneCapacity, SendOnClosed,
              UploadGivesBack, CancelUpload
    <3> QED
      BY <1>1, <3>1
  <2> QED
    BY <2>1, <2>2
<1>3. ASSUME NEW c \in Channels, Recover(c) PROVE \A d \in Channels : CloseWaits(d)'
  <2>1. ASSUME NEW n, ReplayReserve(c, n) PROVE \A d \in Channels : CloseWaits(d)'
    <3>1. CASE StillOpen(c) /\ Admit(c, n, TRUE, FALSE) /\ UNCHANGED <<closing, closeSet>>
      BY <3>1, AdmitWaits DEF StillOpen
    <3> QED
      BY <1>1, <2>1, <3>1 DEF ReplayReserve
  <2>2. ASSUME NEW n, SendReplay(c, n) PROVE \A d \in Channels : CloseWaits(d)'
    BY <1>1, <2>1, <2>2 DEF SendReplay
  <2>3. ReplayPass(c) => \A d \in Channels : CloseWaits(d)'
    BY <1>1, <2>2 DEF ReplayPass, RecoverAwaits
  <2> QED
    BY <1>1, <1>3, <2>1, <2>2, <2>3 DEF Recover, RecoverTick, RoomMade, SlotFreed, ReplayLocked,
                            RecoverGivesBack, RecoverEnds, CancelRecover, RecoverAwaits
<1>4. ASSUME NEW t \in Tasks, Request(t) PROVE \A c \in Channels : CloseWaits(c)'
  <2>1. CASE StartRequest(t) \/ DropUnstarted(t) \/ BodySent(t) \/ ResponseStarts(t)
    BY <1>0, <2>1 DEF StartRequest, DropUnstarted, BodySent, ResponseStarts, TaskDone,
                      CloseWaits, Waits
  <2>2. CASE Answered(t) \/ Failed(t) \/ Unwind(t)
    <3>1. FinishRequest(t) /\ UNCHANGED closing
      BY <2>2 DEF Answered, Failed, Unwind
    <3>2. \A c \in Channels : pending'[c] \subseteq pending[c] \ {t}
      BY <3>1, FinishReplays DEF FinishRequest
    <3>3. \A u \in Tasks \ {t} : phase'[u] = phase[u]
      BY <1>0, <3>1 DEF FinishRequest, Release
    <3>4. \A c \in Channels : closeSet[c] \ {t} \subseteq closeSet'[c]
      BY <1>0, <3>1 DEF FinishRequest, TaskDone
    <3> QED
      BY <1>0, <3>1, <3>2, <3>3, <3>4 DEF CloseWaits, Waits
  <2>3. CASE ReleaseLater(t) \/ ReleaseCancelled(t)
    <3>1. phase[t] = "release" /\ UNCHANGED <<closing, pending>> /\ TaskDone(t)
      BY <2>3 DEF ReleaseLater, ReleaseCancelled
    <3>2. \A c \in Channels : t \notin pending[c]
      BY <3>1 DEF ChannelBooksInv, PendingAreLive
    <3>3. \A u \in Tasks \ {t} : phase'[u] = phase[u]
      BY <1>0, <2>3 DEF ReleaseLater, ReleaseCancelled, Release
    <3>4. \A c \in Channels : closeSet'[c] = closeSet[c] \ {t}
      BY <1>0, <3>1 DEF TaskDone
    <3> QED
      BY <1>0, <3>1, <3>2, <3>3, <3>4 DEF CloseWaits, Waits
  <2> QED
    BY <1>4, <2>1, <2>2, <2>3 DEF Request
<1>5. ASSUME NEW d \in Channels, Close(d) PROVE \A c \in Channels : CloseWaits(c)'
  <2>1. CASE BridgeStops(d) \/ UploadSurvives(d) \/ BridgeJoined(d)
    BY <1>1, <2>1 DEF BridgeStops, UploadSurvives, BridgeJoined
  <2>2. CASE CloseBegins(d) \/ CloseDone(d)
    BY <1>0, <2>2 DEF CloseBegins, CloseDone, CloseWaits, Waits
  <2>3. ASSUME NEW t \in Tasks, CloseFinishes(d, t) PROVE \A c \in Channels : CloseWaits(c)'
    <3>1. /\ \A c \in Channels : pending'[c] \subseteq pending[c] \ {t}
          /\ closing' = closing
      BY <2>3, FinishReplays DEF CloseFinishes
    <3>2. \A u \in Tasks \ {t} : phase'[u] = phase[u]
      BY <1>0, <2>3 DEF CloseFinishes, Release
    <3>3. \A c \in Channels : closeSet[c] \subseteq closeSet'[c]
      BY <1>0, <2>3 DEF CloseFinishes
    <3> QED
      BY <1>0, <3>1, <3>2, <3>3 DEF CloseWaits, Waits
  <2> QED
    BY <1>5, <2>1, <2>2, <2>3 DEF Close
<1>6. CASE LaneCloses \/ UNCHANGED vars
  BY <1>1, <1>6 DEF LaneCloses, vars
<1> QED
  BY <1>2, <1>3, <1>4, <1>5, <1>6 DEF Next

(***************************************************************************)
(* The steps of others leave _recover and its gather alone.                *)
(***************************************************************************)
Quiet(c) == RecoverUndisturbed(c) /\ Replaced(c)'

LEMMA QuietStays ==
  ASSUME NEW c \in Channels, Replaced(c), UNCHANGED <<rec[c], recOn[c]>>,
         replayPending'[c] \subseteq replayPending[c],
         \A t \in Tasks : phase[t] \in AfterStart => phase'[t] \in AfterStart,
         recOn[c] \in Tasks \cup {None}
  PROVE  Quiet(c)
BY DEF Quiet, RecoverUndisturbed, Replaced

\* A task that is done is not gathered any more, and was no replay.
LEMMA QuietDone ==
  ASSUME TypeOK, NEW c \in Channels, Replaced(c), NEW t \in Tasks, UNCHANGED rec,
         recOn' = [d \in Channels |-> IF recOn[d] = t THEN None ELSE recOn[d]],
         recOn[c] = t => t \notin replayPending'[c],
         replayPending'[c] \subseteq replayPending[c],
         \A u \in Tasks \ {t} : phase'[u] = phase[u]
  PROVE  Quiet(c)
<1>1. recOn[c] \in Tasks \cup {None}
  BY ReplaysFinite
<1> QED
  BY <1>1 DEF Quiet, RecoverUndisturbed, Replaced

LEMMA AdmitQuiet ==
  ASSUME ChannelBooksInv, NEW c \in Channels, Replaced(c), UNCHANGED <<rec[c], recOn[c]>>,
         NEW d \in Channels, NEW n, NEW replay \in BOOLEAN, NEW kept \in BOOLEAN,
         Admit(d, n, replay, kept), replayPending'[c] = replayPending[c]
  PROVE  Quiet(c)
<1> PICK t \in Tasks : Admit(d, n, replay, kept)!(t)
  BY DEF Admit
<1>1. phase \in [Tasks -> Phases] /\ recOn[c] \in Tasks \cup {None}
  BY ReplaysFinite DEF ChannelBooksInv, TypeOK, TaskTypes
<1>2. \A u \in Tasks : phase[u] \in AfterStart => phase'[u] \in AfterStart
  BY <1>1 DEF AfterStart
<1> QED
  BY <1>1, <1>2, QuietStays

LEMMA UploadQuiet ==
  ASSUME ChannelBooksInv, NEW c \in Channels, Upload(c), NEW d \in Channels, Replaced(d)
  PROVE  Quiet(d)
<1> USE DEF recVars, bookVars, taskVars
<1>1. CASE Send(c)
  <2>1. PICK kept \in BOOLEAN : Admit(c, upSize[c], FALSE, kept)
    BY <1>1 DEF Send
  <2>2. UNCHANGED <<rec, recOn, replayPending>>
    BY <1>1, <2>1 DEF Send, Admit
  <2> QED
    BY <2>1, <2>2, AdmitQuiet
<1>2. CASE ~Send(c)
  <2>1. UNCHANGED <<rec, recOn, replayPending, phase>>
    BY <1>2 DEF Upload, UploadRuns, ReadPacket, ReadFails, UploadTimeout, AcquireSendLock,
              AwaitChannelCapacity, LaneRefuses, AwaitLaneCapacity, SendOnClosed,
              UploadGivesBack, CancelUpload
  <2> QED
    BY <2>1, QuietStays, ReplaysFinite DEF ChannelBooksInv
<1> QED
  BY <1>1, <1>2

LEMMA OtherQuiet ==
  ASSUME ChannelBooksInv, \A e \in Channels : CloseWaits(e),
         (\E t \in Tasks : Request(t)) \/ (\E e \in Channels : Close(e)) \/ LaneCloses
           \/ UNCHANGED vars,
         NEW d \in Channels, Replaced(d)
  PROVE  Quiet(d)
<1> USE DEF recVars, bookVars, taskVars
<1>0. /\ phase \in [Tasks -> Phases] /\ recOn[d] \in Tasks \cup {None} /\ TypeOK
      /\ replayPending \in [Channels -> SUBSET Tasks]
  BY ReplaysFinite DEF ChannelBooksInv, TypeOK, TaskTypes, BookTypes
<1>1. ASSUME NEW t \in Tasks, Request(t) PROVE Quiet(d)
  <2>1. CASE StartRequest(t) \/ BodySent(t) \/ ResponseStarts(t)
    <3>1. /\ UNCHANGED <<rec, recOn, replayPending>>
          /\ \A u \in Tasks : phase[u] \in AfterStart => phase'[u] \in AfterStart
      BY <1>0, <2>1 DEF StartRequest, BodySent, ResponseStarts, AfterStart
    <3> QED
      BY <1>0, <3>1, QuietStays
  <2>2. CASE DropUnstarted(t)
    <3>1. /\ UNCHANGED <<rec, replayPending>> /\ phase[t] = "new"
          /\ recOn' = [c \in Channels |-> IF recOn[c] = t THEN None ELSE recOn[c]]
          /\ \A u \in Tasks \ {t} : phase'[u] = phase[u]
      BY <1>0, <2>2 DEF DropUnstarted, TaskDone
    <3>2. CASE recOn[d] = t
      BY <1>0, <3>1, <3>2, FiniteAssumption DEF Replaced, AfterStart
    <3>3. CASE recOn[d] # t
      BY <1>0, <3>1, <3>3, QuietDone
    <3> QED
      BY <3>2, <3>3
  <2>3. CASE Answered(t) \/ Failed(t) \/ Unwind(t)
    <3>1. FinishRequest(t) /\ UNCHANGED rec /\ phase[t] \in AfterStart
      BY <2>3 DEF Answered, Failed, Unwind, Started, AfterStart
    <3>2. replayPending'[d] \subseteq replayPending[d] \ {t}
      BY <3>1, FinishReplays DEF FinishRequest
    <3>3. CASE Release(t) /\ TaskDone(t)
      <4>1. \A u \in Tasks \ {t} : phase'[u] = phase[u]
        BY <1>0, <3>3 DEF Release
      <4> QED
        BY <1>0, <3>1, <3>2, <3>3, <4>1, QuietDone DEF TaskDone
    <3>4. CASE phase' = [phase EXCEPT ![t] = "release"] /\ UNCHANGED recOn
      <4>1. \A u \in Tasks : phase[u] \in AfterStart => phase'[u] \in AfterStart
        BY <1>0, <3>4 DEF AfterStart
      <4> QED
        BY <1>0, <3>1, <3>2, <3>4, <4>1, QuietStays
    <3> QED
      BY <3>1, <3>3, <3>4 DEF FinishRequest
  <2>4. CASE ReleaseLater(t) \/ ReleaseCancelled(t)
    <3>1. /\ phase[t] = "release" /\ UNCHANGED <<rec, replayPending>>
          /\ recOn' = [c \in Channels |-> IF recOn[c] = t THEN None ELSE recOn[c]]
          /\ \A u \in Tasks \ {t} : phase'[u] = phase[u]
      BY <1>0, <2>4 DEF ReleaseLater, ReleaseCancelled, TaskDone, Release
    <3>2. t \notin replayPending[d]
      BY <3>1, ReplayOwner DEF InBooks
    <3> QED
      BY <1>0, <3>1, <3>2, QuietDone
  <2> QED
    BY <1>1, <2>1, <2>2, <2>3, <2>4 DEF Request
<1>2. ASSUME NEW e \in Channels, Close(e) PROVE Quiet(d)
  <2>1. CASE BridgeStops(e) \/ UploadSurvives(e) \/ BridgeJoined(e) \/ CloseBegins(e)
               \/ CloseDone(e)
    <3>1. UNCHANGED <<rec, recOn, phase>> /\ replayPending'[d] \subseteq replayPending[d]
      BY <1>0, <2>1 DEF BridgeStops, UploadSurvives, BridgeJoined, CloseBegins, CloseDone
    <3> QED
      BY <1>0, <3>1, QuietStays
  <2>2. ASSUME NEW t \in Tasks, CloseFinishes(e, t) PROVE Quiet(d)
    <3>1. phase[t] = "void"
      BY <2>2 DEF CloseFinishes, CloseWaits, Waits
    <3>2. \A u \in Tasks : phase[u] \in AfterStart => phase'[u] \in AfterStart
      BY <1>0, <2>2, <3>1 DEF CloseFinishes, Release, AfterStart
    <3>3. replayPending'[d] \subseteq replayPending[d] /\ UNCHANGED <<rec, recOn>>
      BY <2>2, FinishReplays DEF CloseFinishes
    <3> QED
      BY <1>0, <3>2, <3>3, QuietStays
  <2> QED
    BY <1>2, <2>1, <2>2 DEF Close
<1>3. CASE LaneCloses \/ UNCHANGED vars
  <2>1. UNCHANGED <<rec, recOn, replayPending, phase>>
    BY <1>3 DEF LaneCloses, vars
  <2> QED
    BY <1>0, <2>1, QuietStays
<1> QED
  BY <1>1, <1>2, <1>3

(***************************************************************************)
(* The steps of _recover itself: a slot is free, or made free, before it   *)
(* sends, and a gather it begins is of a request that has started.         *)
(***************************************************************************)
OwnStep(c) ==
  /\ Replaced(c)' /\ SlotIsKept(c)'
  /\ \A d \in Channels \ {c} : Quiet(d)

LEMMA RecoverMoves ==
  ASSUME TypeOK, \A d \in Channels : Replaced(d) /\ SlotIsKept(d), NEW c \in Channels,
         UNCHANGED <<replayPending, phase>>,
         NEW r \in RecStates \ {"lane"}, rec' = [rec EXCEPT ![c] = r],
         NEW g \in Tasks \cup {None},
         recOn' = [recOn EXCEPT ![c] = g],
         r = "swap" => Cardinality(replayPending[c] \ {g}) < MaxChannelReplays,
         g # None => phase[g] \in AfterStart
  PROVE  OwnStep(c)
<1>1. rec \in [Channels -> RecStates] /\ recOn \in [Channels -> Tasks \cup {None}]
  BY DEF TypeOK, RecoverTypes
<1>2. Replaced(c)' /\ SlotIsKept(c)'
  BY <1>1 DEF Replaced, SlotIsKept, Slot
<1>3. ASSUME NEW d \in Channels \ {c} PROVE Quiet(d)
  <2>1. UNCHANGED <<rec[d], recOn[d], replayPending, phase>>
    BY <1>1
  <2> QED
    BY <1>1, <2>1, QuietStays
<1> QED
  BY <1>2, <1>3 DEF OwnStep

LEMMA RemoveOne ==
  ASSUME TypeOK, NEW c \in Channels, NEW g \in replayPending[c],
         Cardinality(replayPending[c]) <= MaxChannelReplays
  PROVE  Cardinality(replayPending[c] \ {g}) < MaxChannelReplays
<1>1. IsFiniteSet(replayPending[c]) /\ MaxChannelReplays \in Nat
  BY ReplaysFinite, BoundAssumption
<1>2. /\ Cardinality(replayPending[c]) \in Nat
      /\ Cardinality(replayPending[c] \ {g}) = Cardinality(replayPending[c]) - 1
  BY <1>1, FS_RemoveElement, FS_CardinalityType
<1> QED
  BY <1>1, <1>2

\* What send(replay=True) finds when it is called, and what it leaves.
LEMMA ReplayReserveSlot ==
  ASSUME ChannelBooksInv, \A d \in Channels : Replaced(d) /\ SlotIsKept(d),
         NEW c \in Channels, NEW n, ReplayReserve(c, n),
         Cardinality(replayPending[c]) < MaxChannelReplays
  PROVE  OwnStep(c)
<1> USE DEF chanVars, bookVars, taskVars
<1>0. /\ TypeOK /\ rec \in [Channels -> RecStates]
      /\ recOn \in [Channels -> Tasks \cup {None}]
  BY DEF ChannelBooksInv, TypeOK, RecoverTypes
<1>1. recOn' = recOn
  BY DEF ReplayReserve, RecoverGoes
<1>2. \E r \in {"dead", "tick", "give"} : rec' = [rec EXCEPT ![c] = r]
  BY DEF ReplayReserve, RecoverGoes
<1>3. CASE StillOpen(c) /\ Admit(c, n, TRUE, FALSE)
  <2>1. /\ Cardinality(replayPending'[c]) <= MaxChannelReplays
        /\ \A d \in Channels \ {c} : replayPending'[d] = replayPending[d]
    BY <1>0, <1>3, AdmitKeepsSlot
  <2>2. rec'[c] \notin {"lane", "swap"}
    BY <1>0, <1>2
  <2>3. ASSUME NEW d \in Channels \ {c} PROVE Quiet(d)
    BY <1>0, <1>1, <1>2, <1>3, <2>1, AdmitQuiet
  <2>4. SlotIsKept(c)'
    BY <2>1, <2>2 DEF SlotIsKept, Slot
  <2>5. Replaced(c)'
    <3>1. PICK t \in Tasks : Admit(c, n, TRUE, FALSE)!(t)
      BY <1>3 DEF Admit
    <3> QED
      BY <1>0, <1>1, <3>1 DEF Replaced, AfterStart, ChannelBooksInv, TypeOK, TaskTypes
  <2> QED
    BY <2>3, <2>4, <2>5 DEF OwnStep
<1>4. CASE UNCHANGED <<bookVars, taskVars>>
  <2>1. PICK r \in {"dead", "tick", "give"} : rec' = [rec EXCEPT ![c] = r]
    BY <1>2
  <2>2. r \in RecStates \ {"lane"} /\ r # "swap"
    BY DEF RecStates
  <2>3. recOn' = [recOn EXCEPT ![c] = recOn[c]] /\ (recOn[c] # None => phase[recOn[c]] \in AfterStart)
    BY <1>0, <1>1 DEF Replaced
  <2>4. recOn[c] \in Tasks \cup {None}
    BY <1>0
  <2> QED
    BY <1>0, <1>4, <2>1, <2>2, <2>3, <2>4, RecoverMoves
<1> QED
  BY <1>3, <1>4 DEF ReplayReserve

LEMMA SendReplaySlot ==
  ASSUME ChannelBooksInv, \A d \in Channels : Replaced(d) /\ SlotIsKept(d),
         NEW c \in Channels, NEW n, SendReplay(c, n),
         Cardinality(replayPending[c]) < MaxChannelReplays
  PROVE  OwnStep(c)
<1> USE DEF chanVars, bookVars, taskVars
<1>0. /\ TypeOK /\ rec \in [Channels -> RecStates]
      /\ recOn \in [Channels -> Tasks \cup {None}]
  BY DEF ChannelBooksInv, TypeOK, RecoverTypes
<1>1. CASE \E r \in {"tick", "dead"} : /\ RecoverGoes(c, r)
                                       /\ UNCHANGED <<bookVars, taskVars>>
  <2>1. PICK r \in {"tick", "dead"} : RecoverGoes(c, r) /\ UNCHANGED <<bookVars, taskVars>>
    BY <1>1
  <2>2. r \in RecStates \ {"lane"} /\ r # "swap"
    BY DEF RecStates
  <2>3. /\ recOn' = [recOn EXCEPT ![c] = recOn[c]]
        /\ recOn[c] # None => phase[recOn[c]] \in AfterStart
    BY <1>0, <2>1 DEF RecoverGoes, Replaced
  <2>4. rec' = [rec EXCEPT ![c] = r] /\ UNCHANGED <<replayPending, phase>>
    BY <2>1 DEF RecoverGoes
  <2>5. recOn[c] \in Tasks \cup {None}
    BY <1>0
  <2> QED
    BY <1>0, <2>2, <2>3, <2>4, <2>5, RecoverMoves
<1>2. CASE ReplayReserve(c, n)
  BY <1>2, ReplayReserveSlot
<1>3. CASE /\ rec' = [rec EXCEPT ![c] = "lane"]
           /\ UNCHANGED <<bookVars, recOn, taskVars>>
  <2>1. Replaced(c)' /\ SlotIsKept(c)'
    <3>1. rec'[c] = "lane" /\ UNCHANGED <<recOn, replayPending, phase>>
      BY <1>0, <1>3
    <3>2. Cardinality(replayPending[c]) <= MaxChannelReplays
      BY DEF SlotIsKept, Slot
    <3> QED
      BY <3>1, <3>2 DEF Replaced, SlotIsKept, Slot
  <2>2. ASSUME NEW d \in Channels \ {c} PROVE Quiet(d)
    <3>1. UNCHANGED <<rec[d], recOn[d], replayPending, phase>>
      BY <1>0, <1>3
    <3> QED
      BY <1>0, <3>1, QuietStays
  <2> QED
    BY <2>1, <2>2 DEF OwnStep
<1> QED
  BY <1>1, <1>2, <1>3 DEF SendReplay

LEMMA RunHasStarted == \A t \in Tasks : phase[t] = "run" => phase[t] \in AfterStart
BY DEF AfterStart

LEMMA ReplayPassSlot ==
  ASSUME ChannelBooksInv, \A d \in Channels : Replaced(d) /\ SlotIsKept(d),
         NEW c \in Channels, ReplayPass(c)
  PROVE  OwnStep(c)
<1> USE DEF bookVars, taskVars
<1>0. /\ TypeOK /\ replayPending[c] \subseteq Tasks
      /\ recOn \in [Channels -> Tasks \cup {None}]
  BY ReplaysFinite DEF ChannelBooksInv, TypeOK, RecoverTypes
<1>1. CASE RecoverGoes(c, "tick") /\ UNCHANGED <<bookVars, taskVars>>
  <2>1. /\ "tick" \in RecStates \ {"lane"} /\ "tick" # "swap"
    BY DEF RecStates
  <2>2. /\ recOn' = [recOn EXCEPT ![c] = recOn[c]]
        /\ recOn[c] # None => phase[recOn[c]] \in AfterStart
    BY <1>0, <1>1 DEF RecoverGoes, Replaced
  <2>3. rec' = [rec EXCEPT ![c] = "tick"] /\ UNCHANGED <<replayPending, phase>>
    BY <1>1 DEF RecoverGoes
  <2>4. recOn[c] \in Tasks \cup {None}
    BY <1>0
  <2> QED
    BY <1>0, <2>1, <2>2, <2>3, <2>4, RecoverMoves
<1>2. ASSUME NEW r \in replayPending[c], phase[r] = "run", RecoverAwaits(c, "swap", r)
      PROVE  OwnStep(c)
  <2>1. /\ rec' = [rec EXCEPT ![c] = "swap"] /\ recOn' = [recOn EXCEPT ![c] = r]
        /\ UNCHANGED <<replayPending, phase>>
    BY <1>2 DEF RecoverAwaits
  <2>2. Cardinality(replayPending[c] \ {r}) < MaxChannelReplays
    BY <1>0, RemoveOne DEF SlotIsKept, Slot
  <2>3. "swap" \in RecStates \ {"lane"}
    BY DEF RecStates
  <2>4. r \in Tasks \cup {None} /\ phase[r] \in AfterStart
    BY <1>0, <1>2, RunHasStarted
  <2> QED
    BY <1>0, <2>1, <2>2, <2>3, <2>4, RecoverMoves
<1>3. ASSUME NEW n \in Sizes, ReplaySlot(c), SendReplay(c, n) PROVE OwnStep(c)
  BY <1>3, SendReplaySlot DEF ReplaySlot
<1> QED
  BY <1>1, <1>2, <1>3 DEF ReplayPass

LEMMA RecoverSlot ==
  ASSUME ChannelBooksInv, \A d \in Channels : Replaced(d) /\ SlotIsKept(d),
         NEW c \in Channels, Recover(c)
  PROVE  OwnStep(c)
<1> USE DEF bookVars, taskVars
<1>0. /\ TypeOK /\ replayPending[c] \subseteq Tasks
      /\ recOn \in [Channels -> Tasks \cup {None}]
      /\ pending \in [Channels -> SUBSET Tasks]
  BY ReplaysFinite DEF ChannelBooksInv, TypeOK, RecoverTypes, BookTypes
<1>1. ASSUME NEW r \in {"tick", "dead"}, NEW g \in {None, recOn[c]},
             rec' = [rec EXCEPT ![c] = r], recOn' = [recOn EXCEPT ![c] = g],
             UNCHANGED <<replayPending, phase>>
      PROVE  OwnStep(c)
  <2>1. r \in RecStates \ {"lane"} /\ r # "swap"
    BY DEF RecStates
  <2>2. g \in Tasks \cup {None} /\ (g # None => phase[g] \in AfterStart)
    BY <1>0 DEF Replaced
  <2> QED
    BY <1>0, <1>1, <2>1, <2>2, RecoverMoves
<1>2. CASE RecoverTick(c)
  <2>1. ASSUME NEW t \in Candidates(c), RecoverAwaits(c, "room", t) PROVE OwnStep(c)
    <3>1. t \in Tasks /\ phase[t] \in AfterStart
      <4>1. t \in UNION {pending[d] : d \in RoomTargets(c)} /\ phase[t] = "run"
        BY <2>1 DEF Candidates
      <4>2. RoomTargets(c) \subseteq Channels
        BY DEF RoomTargets
      <4> QED
        BY <1>0, <4>1, <4>2, RunHasStarted
    <3>2. /\ rec' = [rec EXCEPT ![c] = "room"] /\ recOn' = [recOn EXCEPT ![c] = t]
          /\ UNCHANGED <<replayPending, phase>>
      BY <2>1 DEF RecoverAwaits
    <3>3. "room" \in RecStates \ {"lane"} /\ "room" # "swap"
      BY DEF RecStates
    <3> QED
      BY <1>0, <3>1, <3>2, <3>3, RecoverMoves
  <2> QED
    BY <1>2, <2>1, ReplayPassSlot DEF RecoverTick
<1>3. CASE RoomMade(c)
  BY <1>3, ReplayPassSlot DEF RoomMade
<1>4. CASE SlotFreed(c)
  <2>1. None \notin replayPending[c] /\ rec[c] = "swap" /\ recOn[c] = None
    BY <1>0, <1>4, FiniteAssumption DEF SlotFreed
  <2>2. replayPending[c] \ {recOn[c]} = replayPending[c]
    BY <2>1
  <2>3. Cardinality(replayPending[c]) < MaxChannelReplays
    BY <2>1, <2>2 DEF SlotIsKept, Slot
  <2> QED
    BY <1>4, <2>3, SendReplaySlot DEF SlotFreed
<1>5. CASE ReplayLocked(c)
  <2>1. rec[c] = "lane" /\ ReplayReserve(c, recSize[c])
    BY <1>5 DEF ReplayLocked
  <2>2. Cardinality(replayPending[c]) < MaxChannelReplays
    BY <2>1 DEF SlotIsKept, Slot
  <2> QED
    BY <2>1, <2>2, ReplayReserveSlot
<1>6. CASE RecoverGivesBack(c) \/ RecoverEnds(c)
  <2>1. PICK r \in {"tick", "dead"} : RecoverGoes(c, r) /\ UNCHANGED <<replayPending, phase>>
    BY <1>6 DEF RecoverGivesBack, RecoverEnds
  <2>2. recOn' = [recOn EXCEPT ![c] = recOn[c]] /\ rec' = [rec EXCEPT ![c] = r]
    BY <1>0, <2>1 DEF RecoverGoes
  <2> QED
    BY <1>1, <2>1, <2>2
<1>7. CASE CancelRecover(c)
  <2>1. /\ rec' = [rec EXCEPT ![c] = "dead"] /\ recOn' = [recOn EXCEPT ![c] = None]
        /\ UNCHANGED <<replayPending, phase>>
    BY <1>7 DEF CancelRecover
  <2> QED
    BY <1>1, <2>1
<1> QED
  BY <1>2, <1>3, <1>4, <1>5, <1>6, <1>7 DEF Recover

LEMMA ReplaysInvInit == Init => ReplaysInv
<1> SUFFICES ASSUME Init PROVE ReplaysInv
  OBVIOUS
<1>1. BooksInv
  BY BooksInvInit
<1>2. ASSUME NEW c \in Channels PROVE CloseWaits(c) /\ Replaced(c) /\ SlotIsKept(c)
  <2>1. /\ closing[c] = "open" /\ recOn[c] = None /\ rec[c] = "tick" /\ replayPending[c] = {}
    BY DEF Init
  <2>2. Cardinality({}) = 0 /\ 0 <= MaxChannelReplays
    BY FS_EmptySet, BoundAssumption
  <2> QED
    BY <2>1, <2>2 DEF CloseWaits, Waits, Replaced, SlotIsKept, Slot
<1> QED
  BY <1>1, <1>2 DEF ReplaysInv

LEMMA ReplaysInvNext == ReplaysInv /\ [Next]_vars => ReplaysInv'
<1> SUFFICES ASSUME ReplaysInv, [Next]_vars PROVE ReplaysInv'
  OBVIOUS
<1>0. /\ BooksInv /\ ChannelBooksInv /\ TypeOK
      /\ \A c \in Channels : CloseWaits(c) /\ Replaced(c) /\ SlotIsKept(c)
  BY DEF ReplaysInv, BooksInv, ChannelBooksInv
<1>1. BooksInv'
  BY <1>0, BooksInvNext
<1>2. \A c \in Channels : CloseWaits(c)'
  BY <1>0, NextWaits
<1>3. ASSUME NEW d \in Channels, Quiet(d) PROVE Replaced(d)' /\ SlotIsKept(d)'
  BY <1>0, <1>3, UndisturbedKeepsSlot DEF Quiet
<1>4. \A d \in Channels : Replaced(d)' /\ SlotIsKept(d)'
  <2>1. ASSUME NEW c \in Channels, Upload(c) PROVE \A d \in Channels : Quiet(d)
    BY <1>0, <2>1, UploadQuiet
  <2>2. ASSUME NEW c \in Channels, Recover(c)
        PROVE  \A d \in Channels : Quiet(d) \/ (Replaced(d)' /\ SlotIsKept(d)')
    <3>1. OwnStep(c)
      BY <1>0, <2>2, RecoverSlot
    <3> QED
      BY <3>1 DEF OwnStep
  <2>3. ASSUME (\E t \in Tasks : Request(t)) \/ (\E e \in Channels : Close(e)) \/ LaneCloses
                 \/ UNCHANGED vars
        PROVE  \A d \in Channels : Quiet(d)
    BY <1>0, <2>3, OtherQuiet
  <2> QED
    BY <1>3, <2>1, <2>2, <2>3 DEF Next
<1> QED
  BY <1>1, <1>2, <1>4 DEF ReplaysInv

(***************************************************************************)
(* No channel ever has more than MAX_CHANNEL_REPLAYS replays in flight:    *)
(* the slot that _recover found free, or takes from the replay it cancels, *)
(* is still there when the new replay is admitted after all its awaits.    *)
(***************************************************************************)
THEOREM ReplaysCorrect == Spec => []ReplaysBounded
<1>1. ReplaysInv => ReplaysBounded
  BY DEF ReplaysInv, SlotIsKept, Slot, ReplaysBounded
<1> QED
  BY <1>1, ReplaysInvInit, ReplaysInvNext, PTL DEF Spec
=============================================================================
