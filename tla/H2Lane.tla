------------------------------- MODULE H2Lane -------------------------------
(***************************************************************************)
(* Admission, accounting, cancellation and teardown of the HTTP/2 media    *)
(* lanes of src/proxy/cf_h2.py.                                            *)
(*                                                                         *)
(* A lane (_HttpLane) is one HTTP/2 connection shared by several channels  *)
(* (_HttpChannel), one per native Telegram connection.  Every packet a     *)
(* channel uploads becomes an asyncio task, a request, that holds one slot *)
(* of its channel (pending, pendingBytes) and one slot of the lane         *)
(* (inflight, queuedBytes).  The actors are, per channel, the three tasks  *)
(* of bridge_h2 -- upload, download and _recover -- the bridge itself and  *)
(* whoever runs close(); and the request tasks.                            *)
(*                                                                         *)
(* A step is what asyncio runs between two suspension points, so a value   *)
(* read before an await is never assumed to be unchanged after it.  The    *)
(* condition variables are explicit: an upload parked in Condition.wait    *)
(* ("chanWait", "laneWait") runs again only when a notify_all moved it.    *)
(* Any time may pass between two steps: a request that was sent may be     *)
(* overdue or stale whenever _recover looks, and which retained packet is  *)
(* due for a replay is left open.  A lane must keep its books whatever the *)
(* choice.                                                                 *)
(***************************************************************************)
EXTENDS Integers, FiniteSets

CONSTANTS
  Channels,            \* native connections sharing the lane
  Tasks,               \* identities of request tasks alive at one time
  Sizes,               \* packet lengths
  MaxChannelRequests,  \* MAX_CHANNEL_REQUESTS
  MaxChannelBytes,     \* MAX_CHANNEL_BYTES
  MaxLaneRequests,     \* MAX_LANE_REQUESTS
  MaxLaneBytes,        \* MAX_LANE_BYTES
  MaxChannelReplays,   \* MAX_CHANNEL_REPLAYS
  None                 \* no task, no channel

ASSUME FiniteAssumption ==
  /\ IsFiniteSet(Channels)
  /\ IsFiniteSet(Tasks)
  /\ Channels \cap Tasks = {}
  /\ None \notin Channels \cup Tasks

ASSUME BoundAssumption ==
  /\ MaxChannelRequests \in Nat \ {0}
  /\ MaxLaneRequests \in Nat \ {0}
  /\ MaxChannelReplays \in Nat \ {0}
  /\ MaxChannelBytes \in Nat
  /\ MaxLaneBytes \in Nat
  /\ Sizes \subseteq Nat \ {0}

VARIABLES
  closed,         \* channel.closed
  closing,        \* where close() is: "open", "gather", "done"
  closeSet,       \* the tasks close() still waits for
  pending,        \* channel.pending, the tasks the channel accounts for
  replayPending,  \* channel.replay_pending
  pendingBytes,   \* channel.pending_bytes
  history,        \* channel.replay_history may hold a packet
  sendLock,       \* holder of channel.send_lock
  up,             \* control of the upload task
  upSize,         \* length of the packet being uploaded
  rec,            \* control of the _recover task
  recOn,          \* the task _recover cancelled and gathers
  recSize,        \* length of the packet being replayed
  bridge,         \* control of bridge_h2
  phase,          \* control of a request task
  owner,          \* its channel
  size,           \* the length of its packet
  sentSince,      \* the requests in channel.sent_since
  doomed,         \* requests whose cancellation is not delivered yet
  replayable,     \* originals whose packet the channel retains
  ahead,          \* order of those queueing for, or parked on, lane.capacity
  inflight,       \* lane.inflight
  queuedBytes,    \* lane.queued_bytes
  laneClosed      \* lane.closed

chanVars == <<closed, closing, closeSet, history, bridge>>
bookVars == <<pending, replayPending, pendingBytes>>
upVars   == <<up, upSize>>
recVars  == <<rec, recOn, recSize>>
taskVars == <<phase, owner, size, sentSince, doomed, replayable>>
bookkeeping == <<inflight, queuedBytes>>
laneVars == <<bookkeeping, ahead, laneClosed>>
vars == <<chanVars, bookVars, sendLock, upVars, recVars, taskVars, laneVars>>

(***************************************************************************)
(* Control states.                                                         *)
(***************************************************************************)
\* idle: reading the next native packet      lock: waiting for send_lock
\* chan / chanWait: in capacity.wait_for     lane / laneWait: in _reserve
\* give: returning a reservation             dead: the task has ended
UpStates == {"idle", "lock", "chan", "chanWait", "lane", "laneWait", "give", "dead"}

\* tick: waiting for the wakeup or the timer
\* room / swap: gathering a request cancelled for capacity / for a new replay
\* lane: acquiring lane.capacity for a replay; give: returning it
RecStates == {"tick", "room", "swap", "lane", "give", "dead"}

\* new: created, not started    run: in _post    body: receiving the response
\* release: popped from pending, acquiring lane.capacity
\* void: cancelled before it started, still in pending
Phases == {"free", "new", "run", "body", "release", "void"}
Started == {"run", "body"}

(***************************************************************************)
(* Capacity and the condition variables.  A definition that precedes one   *)
(* of the specification and carries its name with a suffix (OffByOne,      *)
(* Unchecked, Without...) is a plausible mistake in the code: no action    *)
(* uses it, and the runs check that the properties tell it from the code.  *)
(***************************************************************************)
HasCapacity(c, n) ==
  /\ Cardinality(pending[c]) < MaxChannelRequests
  /\ pendingBytes[c] + n <= MaxChannelBytes

LaneHasCapacityOffByOne(n) ==
  /\ inflight <= MaxLaneRequests
  /\ queuedBytes + n <= MaxLaneBytes

LaneHasCapacity(n) ==
  /\ inflight < MaxLaneRequests
  /\ queuedBytes + n <= MaxLaneBytes

\* notify_all of the lane's condition, and of one channel's.
NotifyNobody(u) == u
NotifyLane(u) == [c \in Channels |-> IF u[c] = "laneWait" THEN "lane" ELSE u[c]]
NotifyChannel(u, c) == [u EXCEPT ![c] = IF @ = "chanWait" THEN "chan" ELSE @]

(***************************************************************************)
(* The lock of lane.capacity is FIFO: ahead[x] are those x waits behind,   *)
(* and an actor runs with the lock when nobody is ahead.  A channel stands *)
(* for its upload or its replay: send_lock lets only one of them get here. *)
(* The parked uploads are kept in order too, and queue in it when notified.*)
(* An actor that finds no queue takes and leaves the lock without          *)
(* suspending; only an upload keeps it, around the wait_for of _reserve.   *)
(***************************************************************************)
Actors == Channels \cup Tasks

Queue ==
  {c \in Channels : up[c] \in {"lane", "give"} \/ rec[c] \in {"lane", "give"}}
    \cup {t \in Tasks : phase[t] = "release"}

Parked == {c \in Channels : up[c] = "laneWait"}

First(x) == ahead[x] = {}

\* ahead' when x leaves and stands behind the actors of S from then on.
Requeue(x, S) ==
  ahead' = [y \in Actors |-> IF y = x THEN S \ {x} ELSE ahead[y] \ {x}]

Leave(x) == Requeue(x, {})

\* x leaves and notifies: the parked uploads queue behind the others.
LeaveAndNotify(x) ==
  ahead' = [y \in Actors |->
              IF y = x THEN {}
              ELSE (ahead[y] \cup IF y \in Parked THEN Queue ELSE {}) \ {x}]

\* The lane takes one slot and n bytes back, or gives them out.
LaneRelease(n) ==
  /\ inflight' = inflight - 1
  /\ queuedBytes' = queuedBytes - n

LaneReserveForgetsBytes(n) ==
  /\ LaneHasCapacity(n)
  /\ ~laneClosed
  /\ inflight' = inflight + 1
  /\ UNCHANGED queuedBytes

LaneReserve(n) ==
  /\ LaneHasCapacity(n)
  /\ ~laneClosed
  /\ inflight' = inflight + 1
  /\ queuedBytes' = queuedBytes + n

\* What send() tests again after it waited for the lane.
StillOpen(c) == ~closed[c]

SendLockIsFreeUnlooked(c) == TRUE

\* What send(replay=True) tests before it takes send_lock.
SendLockIsFree(c) == sendLock[c] = "free"

\* Task.cancel() of the tasks in S.
Cancel(S) == doomed' = doomed \cup S

\* Task t is done: the gathers waiting for it see it.
TaskDone(t) ==
  /\ recOn' = [c \in Channels |-> IF recOn[c] = t THEN None ELSE recOn[c]]
  /\ closeSet' = [c \in Channels |-> closeSet[c] \ {t}]

Unlock(c, holder) == sendLock' = [sendLock EXCEPT ![c] = IF @ = holder THEN "free" ELSE @]

(***************************************************************************)
(* A request of n bytes enters the books of channel c (end of _send).  An  *)
(* upload may push older packets out of the history, or clear it when the  *)
(* key changed: their requests are not replayable any more.                *)
(***************************************************************************)
Admit(c, n, replay, kept) ==
  \E t \in Tasks :
    /\ phase[t] = "free"
    /\ phase' = [phase EXCEPT ![t] = "new"]
    /\ owner' = [owner EXCEPT ![t] = c]
    /\ size' = [size EXCEPT ![t] = n]
    /\ pending' = [pending EXCEPT ![c] = @ \cup {t}]
    /\ pendingBytes' = [pendingBytes EXCEPT ![c] = @ + n]
    /\ replayPending' = IF replay THEN [replayPending EXCEPT ![c] = @ \cup {t}] ELSE replayPending
    /\ \E lost \in SUBSET (replayable \cap pending[c]) :
         /\ replay => lost = {}
         /\ replayable' = (replayable \ lost) \cup (IF kept THEN {t} ELSE {})
    /\ history' = [history EXCEPT ![c] = @ \/ kept]
    /\ UNCHANGED <<sentSince, doomed>>

(***************************************************************************)
(* The upload task: read a packet and send() it.                           *)
(***************************************************************************)
ReadPacket(c, n) ==
  /\ up[c] = "idle"
  /\ upSize' = [upSize EXCEPT ![c] = n]
  /\ IF sendLock[c] = "free"
       THEN /\ up' = [up EXCEPT ![c] = "chan"]
            /\ sendLock' = [sendLock EXCEPT ![c] = "upload"]
       ELSE /\ up' = [up EXCEPT ![c] = "lock"]
            /\ UNCHANGED sendLock
  /\ UNCHANGED <<chanVars, bookVars, recVars, taskVars, laneVars>>

\* The native side ends, or sends what _read_packet refuses.
ReadFails(c) ==
  /\ up[c] = "idle"
  /\ up' = [up EXCEPT ![c] = "dead"]
  /\ UNCHANGED <<chanVars, bookVars, sendLock, upSize, recVars, taskVars, laneVars>>

AcquireSendLock(c) ==
  /\ up[c] = "lock"
  /\ sendLock[c] = "free"
  /\ sendLock' = [sendLock EXCEPT ![c] = "upload"]
  /\ up' = [up EXCEPT ![c] = "chan"]
  /\ UNCHANGED <<chanVars, bookVars, upSize, recVars, taskVars, laneVars>>

\* send() returns or raises: it leaves send_lock.  w are the controls of the
\* uploads once those this step wakes are woken.
UploadLeaves(c, w, next) ==
  /\ up' = [w EXCEPT ![c] = next]
  /\ upSize' = [upSize EXCEPT ![c] = 0]
  /\ Unlock(c, "upload")

UploadEnds(c) ==
  /\ UploadLeaves(c, up, "dead")
  /\ Leave(c)

AwaitChannelCapacity(c) ==
  /\ up[c] = "chan"
  /\ \/ /\ closed[c]
        /\ UploadEnds(c)
     \/ /\ ~closed[c]
        /\ HasCapacity(c, upSize[c])
        /\ up' = [up EXCEPT ![c] = "lane"]
        /\ Requeue(c, Queue)
        /\ UNCHANGED <<upSize, sendLock>>
     \/ /\ ~closed[c]
        /\ ~HasCapacity(c, upSize[c])
        /\ up' = [up EXCEPT ![c] = "chanWait"]
        /\ UNCHANGED <<upSize, sendLock, ahead>>
  /\ UNCHANGED <<chanVars, bookVars, recVars, taskVars, bookkeeping, laneClosed>>

\* REQUEST_TIMEOUT expires in one of the two wait_for.
UploadTimeout(c) ==
  /\ up[c] \in {"chanWait", "laneWait"}
  /\ UploadEnds(c)
  /\ UNCHANGED <<chanVars, bookVars, recVars, taskVars, bookkeeping, laneClosed>>

LaneRefuses(c) ==
  /\ up[c] = "lane"
  /\ First(c)
  /\ laneClosed
  /\ UploadEnds(c)
  /\ UNCHANGED <<chanVars, bookVars, recVars, taskVars, bookkeeping, laneClosed>>

AwaitLaneCapacity(c) ==
  /\ up[c] = "lane"
  /\ First(c)
  /\ ~laneClosed
  /\ ~LaneHasCapacity(upSize[c])
  /\ up' = [up EXCEPT ![c] = "laneWait"]
  /\ Requeue(c, Parked)
  /\ UNCHANGED <<chanVars, bookVars, sendLock, upSize, recVars, taskVars, bookkeeping,
                 laneClosed>>

\* The lane admits the upload and the channel is still open.  The packet is
\* kept for replays unless it is a plaintext handshake or too large.
Send(c) ==
  /\ up[c] = "lane"
  /\ First(c)
  /\ LaneReserve(upSize[c])
  /\ StillOpen(c)
  /\ \E kept \in BOOLEAN : Admit(c, upSize[c], FALSE, kept)
  /\ UploadLeaves(c, up, "idle")
  /\ Leave(c)
  /\ UNCHANGED <<closed, closing, closeSet, bridge, recVars, laneClosed>>

\* The channel closed while the upload waited: the reservation goes back, at
\* once when nobody queues for lane.capacity, behind those who do otherwise.
SendOnClosed(c) ==
  /\ up[c] = "lane"
  /\ First(c)
  /\ closed[c]
  /\ ~laneClosed
  /\ LaneHasCapacity(upSize[c])
  /\ \/ /\ Queue = {c}
        /\ UploadLeaves(c, NotifyLane(up), "dead")
        /\ LeaveAndNotify(c)
        /\ UNCHANGED bookkeeping
     \/ /\ Queue # {c}
        /\ LaneReserve(upSize[c])
        /\ up' = [up EXCEPT ![c] = "give"]
        /\ Requeue(c, Queue)
        /\ UNCHANGED <<sendLock, upSize>>
  /\ UNCHANGED <<chanVars, bookVars, recVars, taskVars, laneClosed>>

UploadGivesBack(c) ==
  /\ up[c] = "give"
  /\ First(c)
  /\ LaneRelease(upSize[c])
  /\ UploadLeaves(c, NotifyLane(up), "dead")
  /\ LeaveAndNotify(c)
  /\ UNCHANGED <<chanVars, bookVars, recVars, taskVars, laneClosed>>

\* bridge_h2 cancels the task at whatever it awaits.  A reservation it was
\* giving back stays in the books of the lane: _release never ran.  The one
\* exception is a wait_for that has its result: see UploadSurvives.
CancelUpload(c) ==
  /\ bridge[c] = "stop"
  /\ up[c] # "dead"
  /\ UploadEnds(c)
  /\ UNCHANGED <<chanVars, bookVars, recVars, taskVars, bookkeeping, laneClosed>>

(***************************************************************************)
(* The _recover task: one pass makes room for a waiting upload, then sends *)
(* at most one replay.                                                     *)
(***************************************************************************)
\* The channels whose requests may be cancelled for the waiting upload of c.
RoomTargets(c) ==
  CASE up[c] \in {"chan", "chanWait"} /\ ~HasCapacity(c, upSize[c]) -> {c}
    [] up[c] \in {"lane", "laneWait", "give"} /\ ~LaneHasCapacity(upSize[c]) ->
         {d \in Channels : closing[d] # "done"}
    [] OTHER -> {}

\* _capacity_candidate: a request without a response that may be overdue, and
\* is a replay or an original whose packet is retained and young enough.  It
\* does not look at the attempts that are left, so it may cancel an original
\* that nothing will send again.
Candidates(c) ==
  {t \in UNION {pending[d] : d \in RoomTargets(c)} :
     /\ phase[t] = "run"
     /\ t \in sentSince
     /\ t \in replayable \cup replayPending[owner[t]]}

\* rec of channel c goes to r; it gathers t.
RecoverCancelsOnly(c, r, t) ==
  /\ rec' = [rec EXCEPT ![c] = r]
  /\ Cancel({t})
  /\ UNCHANGED <<chanVars, bookVars, sendLock, upVars, recOn, recSize, phase, owner, size,
                 laneVars>>

RecoverAwaits(c, r, t) ==
  /\ rec' = [rec EXCEPT ![c] = r]
  /\ recOn' = [recOn EXCEPT ![c] = t]
  /\ Cancel({t})
  /\ UNCHANGED <<chanVars, bookVars, sendLock, upVars, recSize, phase, owner, size,
                 laneVars>>

RecoverGoes(c, r) ==
  /\ rec' = [rec EXCEPT ![c] = r]
  /\ recSize' = [recSize EXCEPT ![c] = 0]
  /\ UNCHANGED recOn

\* The end of send(replay=True): every outcome of _reserve without waiting, the
\* re-check of closed, and the re-check that the packet is still due.
ReplayReserve(c, n) ==
  \/ \* _reserve refuses, or raises
     /\ ~LaneHasCapacity(n) \/ laneClosed
     /\ RecoverGoes(c, IF LaneHasCapacity(n) THEN "dead" ELSE "tick")
     /\ Unlock(c, "recover")
     /\ Leave(c)
     /\ UNCHANGED <<chanVars, bookVars, upVars, taskVars, bookkeeping, laneClosed>>
  \/ \* closed, or not due any more: the reservation goes back
     /\ LaneHasCapacity(n)
     /\ ~laneClosed
     /\ \/ /\ Queue \subseteq {c}
           /\ RecoverGoes(c, IF closed[c] THEN "dead" ELSE "tick")
           /\ up' = NotifyLane(up)
           /\ Unlock(c, "recover")
           /\ LeaveAndNotify(c)
           /\ UNCHANGED bookkeeping
        \/ /\ ~ Queue \subseteq {c}
           /\ LaneReserve(n)
           /\ rec' = [rec EXCEPT ![c] = "give"]
           /\ Requeue(c, Queue)
           /\ UNCHANGED <<recOn, recSize, sendLock, up>>
     /\ UNCHANGED <<chanVars, bookVars, upSize, taskVars, laneClosed>>
  \/ /\ LaneReserve(n)
     /\ StillOpen(c)
     /\ Admit(c, n, TRUE, FALSE)
     /\ RecoverGoes(c, "tick")
     /\ Unlock(c, "recover")
     /\ Leave(c)
     /\ UNCHANGED <<closed, closing, closeSet, bridge, upVars, laneClosed>>

\* send(replay=True) of a retained packet of n bytes.
SendReplay(c, n) ==
  \/ /\ ~SendLockIsFree(c) \/ ~HasCapacity(c, n)
     /\ RecoverGoes(c, "tick")
     /\ UNCHANGED <<chanVars, bookVars, sendLock, upVars, taskVars, laneVars>>
  \/ /\ SendLockIsFree(c)
     /\ HasCapacity(c, n)
     /\ closed[c]
     /\ RecoverGoes(c, "dead")
     /\ UNCHANGED <<chanVars, bookVars, sendLock, upVars, taskVars, laneVars>>
  \/ /\ SendLockIsFree(c)
     /\ HasCapacity(c, n)
     /\ ~closed[c]
     /\ \/ /\ Queue = {}
           /\ ReplayReserve(c, n)
        \/ /\ Queue # {}
           /\ rec' = [rec EXCEPT ![c] = "lane"]
           /\ recSize' = [recSize EXCEPT ![c] = n]
           /\ sendLock' = [sendLock EXCEPT ![c] = "recover"]
           /\ Requeue(c, Queue)
           /\ UNCHANGED <<chanVars, bookVars, upVars, recOn, taskVars, bookkeeping, laneClosed>>

\* A replay of channel c may join those in flight.
ReplaySlot(c) == Cardinality(replayPending[c]) < MaxChannelReplays

\* What follows _make_upload_room in one pass: nothing is due; a replay that
\* occupies the slot too long is replaced; or a slot is free.
ReplayPass(c) ==
  \/ /\ RecoverGoes(c, "tick")
     /\ UNCHANGED <<chanVars, bookVars, sendLock, upVars, taskVars, laneVars>>
  \/ /\ history[c]
     /\ \E r \in replayPending[c] :
          /\ phase[r] = "run"
          /\ r \in sentSince
          /\ RecoverAwaits(c, "swap", r)
          /\ UNCHANGED <<sentSince, replayable>>
  \/ /\ history[c]
     /\ ReplaySlot(c)
     /\ \E n \in Sizes : SendReplay(c, n)

RecoverTick(c) ==
  /\ rec[c] = "tick"
  /\ ~closed[c]
  /\ \/ ReplayPass(c)  \* no room is wanted, or no candidate is overdue
     \/ \E t \in Candidates(c) :
          /\ sentSince' = sentSince \ {t}
          /\ UNCHANGED replayable
          /\ RecoverAwaits(c, "room", t)

RoomMade(c) ==
  /\ rec[c] = "room"
  /\ recOn[c] = None
  /\ ~closed[c]
  /\ ReplayPass(c)

SlotFreed(c) ==
  /\ rec[c] = "swap"
  /\ recOn[c] = None
  /\ \E n \in Sizes : SendReplay(c, n)

ReplayLocked(c) ==
  /\ rec[c] = "lane"
  /\ First(c)
  /\ ReplayReserve(c, recSize[c])

RecoverGivesBack(c) ==
  /\ rec[c] = "give"
  /\ First(c)
  /\ LaneRelease(recSize[c])
  /\ up' = NotifyLane(up)
  /\ LeaveAndNotify(c)
  /\ RecoverGoes(c, IF closed[c] THEN "dead" ELSE "tick")
  /\ Unlock(c, "recover")
  /\ UNCHANGED <<chanVars, bookVars, upSize, taskVars, laneClosed>>

\* The loop condition: a closed channel ends the task.
RecoverEnds(c) ==
  /\ \/ rec[c] = "tick"
     \/ rec[c] = "room" /\ recOn[c] = None
  /\ closed[c]
  /\ RecoverGoes(c, "dead")
  /\ UNCHANGED <<chanVars, bookVars, sendLock, upVars, taskVars, laneVars>>

\* bridge_h2 cancels the task.  Cancelling a gather cancels what it gathers.
GatheredOrNone(c) == {recOn[c]}
Gathered(c) == {recOn[c]} \ {None}

CancelRecoverOfClosed(c) ==
  /\ closed[c]
  /\ bridge[c] \in {"stop", "outlived"}
  /\ rec[c] # "dead"
  /\ rec' = [rec EXCEPT ![c] = "dead"]
  /\ recOn' = [recOn EXCEPT ![c] = None]
  /\ recSize' = [recSize EXCEPT ![c] = 0]
  /\ Cancel(Gathered(c))
  /\ Unlock(c, "recover")
  /\ IF rec[c] \in {"lane", "give"} THEN Leave(c) ELSE UNCHANGED ahead
  /\ UNCHANGED <<chanVars, bookVars, upVars, phase, owner, size, sentSince,
                 replayable, bookkeeping, laneClosed>>

CancelRecover(c) ==
  /\ bridge[c] \in {"stop", "outlived"}
  /\ rec[c] # "dead"
  /\ rec' = [rec EXCEPT ![c] = "dead"]
  /\ recOn' = [recOn EXCEPT ![c] = None]
  /\ recSize' = [recSize EXCEPT ![c] = 0]
  /\ Cancel(Gathered(c))
  /\ Unlock(c, "recover")
  /\ IF rec[c] \in {"lane", "give"} THEN Leave(c) ELSE UNCHANGED ahead
  /\ UNCHANGED <<chanVars, bookVars, upVars, phase, owner, size, sentSince,
                 replayable, bookkeeping, laneClosed>>

(***************************************************************************)
(* The request tasks (_run_request, _post, _finish_request).               *)
(***************************************************************************)
StartRequest(t) ==
  /\ phase[t] = "new"
  /\ t \notin doomed
  /\ phase' = [phase EXCEPT ![t] = "run"]
  /\ UNCHANGED <<chanVars, bookVars, sendLock, upVars, recVars, owner, size, sentSince,
                 doomed, replayable, laneVars>>

\* A task cancelled before it first runs never reaches its finally block.
DropUnstarted(t) ==
  /\ phase[t] = "new"
  /\ t \in doomed
  /\ phase' = [phase EXCEPT ![t] = "void"]
  /\ doomed' = doomed \ {t}
  /\ TaskDone(t)
  /\ UNCHANGED <<closed, closing, history, bridge, bookVars, sendLock, upVars, rec, recSize,
                 owner, size, sentSince, replayable, laneVars>>

\* The trace event http2.send_request_body.complete.
BodySent(t) ==
  /\ phase[t] = "run"
  /\ t \notin sentSince
  /\ sentSince' = sentSince \cup {t}
  /\ UNCHANGED <<chanVars, bookVars, sendLock, upVars, recVars, phase, owner, size,
                 doomed, replayable, laneVars>>

\* response_started, called by the reader of the connection.
ResponseStarts(t) ==
  /\ phase[t] = "run"
  /\ phase' = [phase EXCEPT ![t] = "body"]
  /\ UNCHANGED <<chanVars, bookVars, sendLock, upVars, recVars, owner, size, sentSince,
                 doomed, replayable, laneVars>>

\* lane._release and the notify_all that follows it.
Release(t) ==
  /\ LaneRelease(size[t])
  /\ LeaveAndNotify(t)
  /\ up' = NotifyChannel(NotifyLane(up), owner[t])
  /\ phase' = [phase EXCEPT ![t] = "free"]
  /\ owner' = [owner EXCEPT ![t] = None]
  /\ size' = [size EXCEPT ![t] = 0]

\* _finish_request pops the request from the books of its channel before it
\* awaits the lane.
Finish(t) ==
  LET c == owner[t] IN
  /\ pending' = [pending EXCEPT ![c] = @ \ {t}]
  /\ pendingBytes' = [pendingBytes EXCEPT ![c] = @ - size[t]]
  /\ replayPending' = [replayPending EXCEPT ![c] = @ \ {t}]
  /\ sentSince' = sentSince \ {t}
  /\ doomed' = doomed \ {t}
  /\ replayable' = replayable \ {t}

FinishRequest(t) ==
  /\ Finish(t)
  /\ \/ /\ Queue = {}
        /\ Release(t)
        /\ TaskDone(t)
     \/ /\ Queue # {}
        /\ phase' = [phase EXCEPT ![t] = "release"]
        /\ Requeue(t, Queue)
        /\ UNCHANGED <<closeSet, recOn, up, owner, size, bookkeeping>>

\* The response is complete; its reply, if any, is queued.
Answered(t) ==
  /\ phase[t] = "body"
  /\ FinishRequest(t)
  /\ UNCHANGED <<closed, closing, history, bridge, sendLock, upSize, rec, recSize, laneClosed>>

\* An error of the transport, the endpoint or a bound: _fail closes the channel.
Failed(t) ==
  /\ phase[t] \in Started
  /\ closed' = [closed EXCEPT ![owner[t]] = TRUE]
  /\ FinishRequest(t)
  /\ UNCHANGED <<closing, history, bridge, sendLock, upSize, rec, recSize, laneClosed>>

\* The CancelledError is raised at whatever _post awaits.  The waits of the
\* transport are wait_for too, where it may get lost (see UploadSurvives): the
\* request then goes on, so that BodySent, ResponseStarts, Answered and Failed
\* do not test doomed.
Unwind(t) ==
  /\ phase[t] \in Started
  /\ t \in doomed
  /\ FinishRequest(t)
  /\ UNCHANGED <<closed, closing, history, bridge, sendLock, upSize, rec, recSize, laneClosed>>

\* lane.capacity is acquired at last.
ReleaseLater(t) ==
  /\ phase[t] = "release"
  /\ First(t)
  /\ t \notin doomed
  /\ Release(t)
  /\ TaskDone(t)
  /\ UNCHANGED <<closed, closing, history, bridge, bookVars, sendLock, upSize, rec, recSize,
                 sentSince, doomed, replayable, laneClosed>>

\* A second cancellation reaches a task that awaits lane.capacity: the slot
\* stays in the books of the lane, and nobody is notified.
ReleaseCancelled(t) ==
  /\ phase[t] = "release"
  /\ t \in doomed
  /\ phase' = [phase EXCEPT ![t] = "free"]
  /\ owner' = [owner EXCEPT ![t] = None]
  /\ size' = [size EXCEPT ![t] = 0]
  /\ doomed' = doomed \ {t}
  /\ Leave(t)
  /\ TaskDone(t)
  /\ UNCHANGED <<closed, closing, history, bridge, bookVars, sendLock, upVars, rec, recSize,
                 sentSince, replayable, bookkeeping, laneClosed>>

(***************************************************************************)
(* bridge_h2 and close().                                                  *)
(***************************************************************************)
\* FIRST_COMPLETED: an upload or _recover that ended, a closed channel, or the
\* native side refusing a reply (at any time).
BridgeStops(c) ==
  /\ bridge[c] = "run"
  /\ bridge' = [bridge EXCEPT ![c] = "stop"]
  /\ UNCHANGED <<closed, closing, closeSet, history, bookVars, sendLock, upVars, recVars,
                 taskVars, laneVars>>

\* Before Python 3.12 wait_for returns the result it has although it is being
\* cancelled (CPython #86296, named in _recover): the cancellation that meets an
\* upload whose condition has just come true is lost.  The upload sends and reads
\* on, and the bridge, which cancels only once, gathers it meanwhile.
UploadSurvives(c) ==
  /\ bridge[c] = "stop"
  /\ \/ up[c] = "chan" /\ (closed[c] \/ HasCapacity(c, upSize[c]))
     \/ up[c] = "lane" /\ First(c) /\ (laneClosed \/ LaneHasCapacity(upSize[c]))
  /\ bridge' = [bridge EXCEPT ![c] = "outlived"]
  /\ UNCHANGED <<closed, closing, closeSet, history, bookVars, sendLock, upVars, recVars,
                 taskVars, laneVars>>

BridgeJoined(c) ==
  /\ bridge[c] \in {"stop", "outlived"}
  /\ up[c] = "dead"
  /\ rec[c] = "dead"
  /\ bridge' = [bridge EXCEPT ![c] = "end"]
  /\ UNCHANGED <<closed, closing, closeSet, history, bookVars, sendLock, upVars, recVars,
                 taskVars, laneVars>>

\* close(), called by the bridge and by the close() of the lane; close_lock
\* makes the second caller wait for the first.
CloseBegins(c) ==
  /\ closing[c] = "open"
  /\ bridge[c] = "end" \/ laneClosed
  /\ closing' = [closing EXCEPT ![c] = "gather"]
  /\ closed' = [closed EXCEPT ![c] = TRUE]
  /\ closeSet' = [closeSet EXCEPT ![c] = pending[c]]
  /\ Cancel(pending[c])
  /\ UNCHANGED <<history, bridge, bookVars, sendLock, upVars, recVars, phase, owner, size,
                 sentSince, replayable, laneVars>>

\* _finish_request for a task that was cancelled before it started.
CloseFinishes(c, t) ==
  /\ closing[c] = "gather"
  /\ closeSet[c] = {}
  /\ t \in pending[c]
  /\ Finish(t)
  /\ \/ /\ Queue = {}
        /\ Release(t)
        /\ UNCHANGED closeSet
     \/ /\ Queue # {}
        /\ phase' = [phase EXCEPT ![t] = "release"]
        /\ Requeue(t, Queue)
        /\ closeSet' = [closeSet EXCEPT ![c] = {t}]
        /\ UNCHANGED <<up, owner, size, bookkeeping>>
  /\ UNCHANGED <<closed, closing, history, bridge, sendLock, upSize, recVars, laneClosed>>

CloseDoneUnfinished(c) ==
  /\ closing[c] = "gather"
  /\ closeSet[c] = {}
  /\ closing' = [closing EXCEPT ![c] = "done"]
  /\ history' = [history EXCEPT ![c] = FALSE]
  /\ replayPending' = [replayPending EXCEPT ![c] = {}]
  /\ UNCHANGED <<closed, closeSet, bridge, pending, pendingBytes, sendLock, upVars, recVars,
                 taskVars, laneVars>>

CloseDone(c) ==
  /\ closing[c] = "gather"
  /\ closeSet[c] = {}
  /\ pending[c] = {}
  /\ closing' = [closing EXCEPT ![c] = "done"]
  /\ history' = [history EXCEPT ![c] = FALSE]
  /\ replayPending' = [replayPending EXCEPT ![c] = {}]
  /\ UNCHANGED <<closed, closeSet, bridge, pending, pendingBytes, sendLock, upVars, recVars,
                 taskVars, laneVars>>

\* lane.close(): the flag, then notify_all; the channels' close() follows.
LaneCloses ==
  /\ ~laneClosed
  /\ laneClosed' = TRUE
  /\ up' = NotifyLane(up)
  /\ LeaveAndNotify(None)
  /\ UNCHANGED <<chanVars, bookVars, sendLock, upSize, recVars, taskVars, bookkeeping>>

-----------------------------------------------------------------------------
\* Every channel is open and its bridge has just started its three tasks.
Init ==
  /\ closed = [c \in Channels |-> FALSE]
  /\ closing = [c \in Channels |-> "open"]
  /\ closeSet = [c \in Channels |-> {}]
  /\ pending = [c \in Channels |-> {}]
  /\ replayPending = [c \in Channels |-> {}]
  /\ pendingBytes = [c \in Channels |-> 0]
  /\ history = [c \in Channels |-> FALSE]
  /\ sendLock = [c \in Channels |-> "free"]
  /\ up = [c \in Channels |-> "idle"]
  /\ upSize = [c \in Channels |-> 0]
  /\ rec = [c \in Channels |-> "tick"]
  /\ recOn = [c \in Channels |-> None]
  /\ recSize = [c \in Channels |-> 0]
  /\ bridge = [c \in Channels |-> "run"]
  /\ phase = [t \in Tasks |-> "free"]
  /\ owner = [t \in Tasks |-> None]
  /\ size = [t \in Tasks |-> 0]
  /\ sentSince = {}
  /\ doomed = {}
  /\ replayable = {}
  /\ ahead = [x \in Actors |-> {}]
  /\ inflight = 0
  /\ queuedBytes = 0
  /\ laneClosed = FALSE

\* What the upload does as soon as the event loop runs it.
UploadRuns(c) ==
  \/ AcquireSendLock(c)
  \/ AwaitChannelCapacity(c)
  \/ LaneRefuses(c)
  \/ AwaitLaneCapacity(c)
  \/ Send(c)
  \/ SendOnClosed(c)
  \/ UploadGivesBack(c)

Upload(c) ==
  \/ \E n \in Sizes : ReadPacket(c, n)
  \/ ReadFails(c)
  \/ UploadTimeout(c)
  \/ UploadRuns(c)
  \/ CancelUpload(c)

Recover(c) ==
  \/ RecoverTick(c)
  \/ RoomMade(c)
  \/ SlotFreed(c)
  \/ ReplayLocked(c)
  \/ RecoverGivesBack(c)
  \/ RecoverEnds(c)
  \/ CancelRecover(c)

Request(t) ==
  \/ StartRequest(t)
  \/ DropUnstarted(t)
  \/ BodySent(t)
  \/ ResponseStarts(t)
  \/ Answered(t)
  \/ Failed(t)
  \/ Unwind(t)
  \/ ReleaseLater(t)
  \/ ReleaseCancelled(t)

Close(c) ==
  \/ BridgeStops(c)
  \/ UploadSurvives(c)
  \/ BridgeJoined(c)
  \/ CloseBegins(c)
  \/ \E t \in Tasks : CloseFinishes(c, t)
  \/ CloseDone(c)

Next ==
  \/ \E c \in Channels : Upload(c) \/ Recover(c) \/ Close(c)
  \/ \E t \in Tasks : Request(t)
  \/ LaneCloses

Spec == Init /\ [][Next]_vars

(***************************************************************************)
(* The event loop runs every task that is ready; the timer of an upload    *)
(* that stays parked expires; and a request that was started ends, by an   *)
(* answer or an error, which is what RequestsEnd of H2Transport says of    *)
(* it.  Nothing is assumed of the native client, which may stay and say    *)
(* nothing, nor that a cancellation is not lost.                           *)
(***************************************************************************)
Fairness ==
  /\ \A c \in Channels :
       /\ WF_vars(UploadRuns(c))
       /\ WF_vars(CancelUpload(c))
       /\ WF_vars(UploadTimeout(c))
       /\ WF_vars(CancelRecover(c))
       /\ WF_vars(RecoverEnds(c))
       /\ WF_vars(closed[c] /\ SlotFreed(c))
       /\ WF_vars(ReplayLocked(c))
       /\ WF_vars(RecoverGivesBack(c))
       /\ WF_vars(rec[c] = "dead" /\ BridgeStops(c))
       /\ WF_vars(BridgeJoined(c))
       /\ WF_vars(CloseBegins(c))
       /\ WF_vars(\E t \in Tasks : CloseFinishes(c, t))
       /\ WF_vars(CloseDone(c))
  /\ \A t \in Tasks :
       /\ WF_vars(DropUnstarted(t))
       /\ WF_vars(Answered(t) \/ Failed(t) \/ Unwind(t))
       /\ WF_vars(ReleaseLater(t))
       /\ WF_vars(ReleaseCancelled(t))

FairSpec == Spec /\ Fairness

-----------------------------------------------------------------------------
(***************************************************************************)
(* Type correctness.                                                       *)
(***************************************************************************)
ChannelTypes ==
  /\ closed \in [Channels -> BOOLEAN]
  /\ closing \in [Channels -> {"open", "gather", "done"}]
  /\ closeSet \in [Channels -> SUBSET Tasks]
  /\ history \in [Channels -> BOOLEAN]
  /\ bridge \in [Channels -> {"run", "stop", "outlived", "end"}]

BookTypes ==
  /\ pending \in [Channels -> SUBSET Tasks]
  /\ replayPending \in [Channels -> SUBSET Tasks]
  /\ pendingBytes \in [Channels -> Int]

UploadTypes ==
  /\ sendLock \in [Channels -> {"free", "upload", "recover"}]
  /\ up \in [Channels -> UpStates]
  /\ upSize \in [Channels -> Sizes \cup {0}]

RecoverTypes ==
  /\ rec \in [Channels -> RecStates]
  /\ recOn \in [Channels -> Tasks \cup {None}]
  /\ recSize \in [Channels -> Sizes \cup {0}]

TaskTypes ==
  /\ phase \in [Tasks -> Phases]
  /\ owner \in [Tasks -> Channels \cup {None}]
  /\ size \in [Tasks -> Sizes \cup {0}]
  /\ sentSince \subseteq Tasks
  /\ doomed \subseteq Tasks
  /\ replayable \subseteq Tasks

LaneTypes ==
  /\ ahead \in [Actors -> SUBSET Actors]
  /\ inflight \in Int
  /\ queuedBytes \in Int
  /\ laneClosed \in BOOLEAN

TypeOK ==
  /\ ChannelTypes
  /\ BookTypes
  /\ UploadTypes
  /\ RecoverTypes
  /\ TaskTypes
  /\ LaneTypes

(***************************************************************************)
(* What really occupies the lane: requests that are not finished, and      *)
(* reservations on their way back.                                         *)
(***************************************************************************)
Live == {t \in Tasks : phase[t] # "free"}
UploadsGiving == {c \in Channels : up[c] = "give"}
RecoversGiving == {c \in Channels : rec[c] = "give"}
Occupied == Cardinality(Live) + Cardinality(UploadsGiving) + Cardinality(RecoversGiving)

(***************************************************************************)
(* The lane never carries more than MAX_LANE_REQUESTS requests, whatever   *)
(* is cancelled, fails or is closed in between: the books never show less  *)
(* than what is there (_reserve, _release, _finish_request).               *)
(***************************************************************************)
LaneNotOversubscribed ==
  /\ Occupied <= inflight
  /\ inflight <= MaxLaneRequests

(***************************************************************************)
(* What makes the two bounds inductive: a task in the books of a channel   *)
(* is one of its own and not finished, so that nothing is given back       *)
(* twice; and while the upload or the replay of a channel is past its test *)
(* of the channel's capacity it holds send_lock and the channel has room.  *)
(***************************************************************************)
PendingAreLive ==
  \A c \in Channels : \A t \in pending[c] :
    owner[t] = c /\ phase[t] \in {"new", "run", "body", "void"}

SendLockKeepsRoom ==
  \A c \in Channels :
    /\ up[c] \in {"chan", "chanWait", "lane", "laneWait", "give"} => sendLock[c] = "upload"
    /\ rec[c] \in {"lane", "give"} => sendLock[c] = "recover"
    /\ up[c] \in {"lane", "laneWait"} => Cardinality(pending[c]) < MaxChannelRequests
    /\ rec[c] = "lane" => Cardinality(pending[c]) < MaxChannelRequests

\* The bytes of the packets of S, each told apart, and how many they are.
Bytes(f, S) == UNION {{x} \X (1 .. f[x]) : x \in S}
SumOver(f, S) == Cardinality(Bytes(f, S))

(***************************************************************************)
(* The byte books: queued_bytes covers every packet that occupies the lane *)
(* and stays within MAX_LANE_BYTES; pending_bytes is exactly the packets   *)
(* of the channel and stays within MAX_CHANNEL_BYTES.                      *)
(***************************************************************************)
BytesAccounted ==
  /\ SumOver(size, Live) + SumOver(upSize, UploadsGiving) + SumOver(recSize, RecoversGiving)
       <= queuedBytes
  /\ queuedBytes <= MaxLaneBytes
  /\ \A c \in Channels :
       /\ pendingBytes[c] = SumOver(size, pending[c])
       /\ pendingBytes[c] <= MaxChannelBytes

(***************************************************************************)
(* A channel never has more than MAX_CHANNEL_REQUESTS requests, although   *)
(* an upload tests the bound long before it sends: send_lock keeps the     *)
(* replays of _recover out meanwhile (send, _send).                        *)
(***************************************************************************)
ChannelBounded ==
  \A c \in Channels : Cardinality(pending[c]) <= MaxChannelRequests

(***************************************************************************)
(* When close() has returned, the channel accounts for nothing and none of *)
(* its requests is running or about to run, those cancelled before they    *)
(* started included.                                                       *)
(***************************************************************************)
ClosedChannelIsEmpty ==
  \A c \in Channels : closing[c] = "done" =>
    /\ pending[c] = {}
    /\ replayPending[c] = {}
    /\ pendingBytes[c] = 0
    /\ \A t \in Tasks : owner[t] = c => phase[t] = "release"

(***************************************************************************)
(* No lost wakeup at the lane: an upload parked in _reserve has no room    *)
(* (every _release notifies) and is not left behind by lane.close().       *)
(***************************************************************************)
NoLostLaneWakeup ==
  \A c \in Channels : up[c] = "laneWait" =>
    /\ ~LaneHasCapacity(upSize[c])
    /\ ~laneClosed

(***************************************************************************)
(* A channel never has more than MAX_CHANNEL_REPLAYS replays in flight.    *)
(* _recover tests the number, or cancels a stale replay and gathers it,    *)
(* and the new one enters replay_pending only after the wait for the lane; *)
(* meanwhile the old one may be answered, fail, survive its cancellation   *)
(* or wait for the lane itself (_recover, _send, _finish_request).         *)
(***************************************************************************)
ReplaysBounded ==
  \A c \in Channels : Cardinality(replayPending[c]) <= MaxChannelReplays

(***************************************************************************)
(* The lane's books are empty when every channel is closed and no request  *)
(* is left, as the tests of close() assert of inflight and queued_bytes.   *)
(***************************************************************************)
ClosedLaneIsEmpty ==
  (Occupied = 0 /\ \A c \in Channels : closing[c] = "done") =>
    inflight = 0 /\ queuedBytes = 0

\* The bridge gathers an upload that survived its cancellation and is reading.
HeldByClient(c) == bridge[c] = "outlived" /\ up[c] = "idle"

(***************************************************************************)
(* A channel that failed, whose bridge stopped or whose lane closes is     *)
(* torn down: no task waits for another for ever.  The exception is an     *)
(* upload whose cancellation got lost and whose client stays and says      *)
(* nothing: it holds the bridge until it ends or the lane closes           *)
(* (bridge_h2, close, lane.close).                                         *)
(***************************************************************************)
TeardownCompletes ==
  \A c \in Channels :
    (closed[c] \/ bridge[c] # "run" \/ laneClosed)
      ~> (closing[c] = "done" \/ (HeldByClient(c) /\ ~laneClosed))
=============================================================================
