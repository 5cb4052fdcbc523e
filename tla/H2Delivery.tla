------------------------------ MODULE H2Delivery ------------------------------
(***************************************************************************)
(* How replies reach the Telegram client: the request tasks of a lane read *)
(* response bodies into buffers that share one bound (_post), put whole    *)
(* replies into the queue of their channel or fail it (_run_request,       *)
(* _fail), the bridge takes them out, writes them to the client and, when  *)
(* it ends, may write a transport error (receive, bridge_h2, close), all   *)
(* of src/proxy/cf_h2.py.                                                  *)
(*                                                                         *)
(* A step is what asyncio runs between two suspension points.  A length    *)
(* stands for a chunk or a reply.  The admission of requests and the locks *)
(* of their release are H2Lane's; what is sent again, and when, is open    *)
(* here; so is lane.close(), which runs the close() of each channel.       *)
(***************************************************************************)
EXTENDS Integers, Sequences, FiniteSets

CONSTANTS
  Channels,
  Tasks,              \* identities of request tasks alive at one time
  ChunkSizes,         \* lengths in which bodies arrive
  MaxPacket,          \* MAX_PACKET
  MaxLaneReplyBytes,  \* MAX_LANE_REPLY_BYTES
  MaxChannelBytes,    \* MAX_CHANNEL_BYTES
  QueueSize,          \* maxsize of channel.queue
  None

ASSUME FiniteAssumption == IsFiniteSet(Tasks)

ASSUME DeliveryAssumption ==
  /\ ChunkSizes \subseteq Nat \ {0}
  /\ MaxPacket \in Nat
  /\ MaxLaneReplyBytes \in Nat
  /\ MaxChannelBytes \in Nat
  /\ QueueSize \in Nat \ {0}
  /\ None \notin Channels

VARIABLES
  closed,       \* channel.closed
  error,        \* channel.transport_error is not None
  queue,        \* channel.queue: lengths of replies, or the exception
  replyBytes,   \* channel.reply_bytes
  wakeup,       \* channel.recovery_wakeup
  download,     \* its task: "wait" in receive, "write" in drain, "ended"
  bridge,       \* bridge_h2: "run", "stop", "report", "close", "done"
  aborted,      \* the task of bridge_h2 was cancelled
  told,         \* the transport error was written to the client
  gathered,     \* the requests close() waits for
  polled,       \* history: _recover has looked at the channel since it is idle
  owner,        \* the channel of a request task
  phase,        \* control of a request task
  doomed,       \* requests whose cancellation is not delivered yet
  receiving,    \* the receiving_tasks of the channels
  buffered,     \* buffered in _post
  replyBuffer   \* lane.reply_buffer_bytes

streamVars == <<closed, error, queue, replyBytes>>
bridgeVars == <<download, bridge, aborted, told, gathered>>
requestVars == <<owner, phase, doomed, receiving, buffered, replyBuffer>>
vars == <<streamVars, wakeup, bridgeVars, polled, requestVars>>

\* new: created, not started     post: no response yet     body: reading one
\* release: popped, on its way out     void: cancelled before it started
Phases == {"free", "new", "post", "body", "release", "void"}

\* The exception in the queue; no reply is empty.
Exception == 0

\* channel.pending
Pending(c) == {t \in Tasks : owner[t] = c /\ phase[t] \in {"new", "post", "body", "void"}}

\* native_backpressure
Backpressure(c) == replyBytes[c] > 0 \/ download[c] = "write"

Idle(c) == ~closed[c] /\ Pending(c) = {} /\ ~Backpressure(c)

-----------------------------------------------------------------------------
(***************************************************************************)
(* The end of the stream.  A definition that no action uses and that       *)
(* precedes one of the same name with another ending is a plausible        *)
(* mistake that the properties must tell from the code.                    *)
(***************************************************************************)
\* _fail
FailTwice(c, transport) ==
  /\ error' = [error EXCEPT ![c] = @ \/ transport]
  /\ closed' = [closed EXCEPT ![c] = TRUE]
  /\ wakeup' = [wakeup EXCEPT ![c] = TRUE]
  /\ queue' = [queue EXCEPT ![c] = <<Exception>>]
  /\ replyBytes' = [replyBytes EXCEPT ![c] = 0]

Fail(c, transport) ==
  \/ closed[c] /\ UNCHANGED <<streamVars, wakeup>>
  \/ /\ ~closed[c]
     /\ error' = [error EXCEPT ![c] = transport]
     /\ closed' = [closed EXCEPT ![c] = TRUE]
     /\ wakeup' = [wakeup EXCEPT ![c] = TRUE]
     /\ queue' = [queue EXCEPT ![c] = <<Exception>>]
     /\ replyBytes' = [replyBytes EXCEPT ![c] = 0]

-----------------------------------------------------------------------------
(***************************************************************************)
(* Request tasks.                                                          *)
(***************************************************************************)
\* _send creates one, of an upload or a replay.
Request(c, t) ==
  /\ bridge[c] = "run" /\ ~closed[c]
  /\ phase[t] = "free"
  /\ owner' = [owner EXCEPT ![t] = c]
  /\ phase' = [phase EXCEPT ![t] = "new"]
  /\ UNCHANGED <<streamVars, wakeup, bridgeVars, doomed, receiving, buffered, replyBuffer>>

StartRequest(t) ==
  /\ phase[t] = "new" /\ t \notin doomed
  /\ phase' = [phase EXCEPT ![t] = "post"]
  /\ UNCHANGED <<streamVars, wakeup, bridgeVars, owner, doomed, receiving, buffered, replyBuffer>>

\* response_started, called by the reader of the connection
ResponseStarted(t) ==
  /\ phase[t] = "post" /\ t \notin receiving
  /\ receiving' = receiving \cup {t}
  /\ UNCHANGED <<streamVars, wakeup, bridgeVars, owner, phase, doomed, buffered, replyBuffer>>

\* The status and the headers are those of a reply; response_started again.
ReadBody(t) ==
  /\ phase[t] = "post" /\ t \notin doomed
  /\ phase' = [phase EXCEPT ![t] = "body"]
  /\ receiving' = receiving \cup {t}
  /\ UNCHANGED <<streamVars, wakeup, bridgeVars, owner, doomed, buffered, replyBuffer>>

\* One pass of the loop over the body.  Passing a bound is an exception, as are
\* the others of RequestFails.
Chunk(t, n) ==
  /\ phase[t] = "body" /\ t \notin doomed
  /\ buffered[t] + n <= MaxPacket
  /\ replyBuffer + n <= MaxLaneReplyBytes
  /\ buffered' = [buffered EXCEPT ![t] = @ + n]
  /\ replyBuffer' = replyBuffer + n
  /\ UNCHANGED <<streamVars, wakeup, bridgeVars, owner, phase, doomed, receiving>>

\* The finally clause of _post and the beginning of _finish_request.
LeavesKeepingBuffer(t) ==
  /\ buffered' = [buffered EXCEPT ![t] = 0]
  /\ replyBuffer' = replyBuffer
  /\ receiving' = receiving \ {t}
  /\ phase' = [phase EXCEPT ![t] = "release"]

Leaves(t) ==
  /\ buffered' = [buffered EXCEPT ![t] = 0]
  /\ replyBuffer' = replyBuffer - buffered[t]
  /\ receiving' = receiving \ {t}
  /\ phase' = [phase EXCEPT ![t] = "release"]

HasRoomForAny(c, n) == replyBytes[c] + n <= MaxChannelBytes
HasRoom(c, n) == Len(queue[c]) < QueueSize /\ replyBytes[c] + n <= MaxChannelBytes

\* The body is complete: the reply is queued, unless it is empty or too late.
Answered(t) ==
  LET c == owner[t]
      n == buffered[t]
  IN  /\ phase[t] = "body" /\ t \notin doomed
      /\ \/ /\ closed[c] \/ n = 0
            /\ UNCHANGED <<streamVars, wakeup>>
         \/ /\ ~closed[c] /\ n > 0 /\ HasRoom(c, n)
            /\ queue' = [queue EXCEPT ![c] = Append(@, n)]
            /\ replyBytes' = [replyBytes EXCEPT ![c] = @ + n]
            /\ UNCHANGED <<closed, error, wakeup>>
         \/ /\ ~closed[c] /\ n > 0 /\ ~HasRoom(c, n)
            /\ Fail(c, FALSE)
      /\ Leaves(t)
      /\ UNCHANGED <<bridgeVars, owner, doomed>>

\* A status that means a transport error, or a body that is one; or any other
\* exception: a time-out, a reset, a bound, a body that is no packet.
RequestFails(t, transport) ==
  /\ phase[t] \in {"post", "body"} /\ t \notin doomed
  /\ Fail(owner[t], transport)
  /\ Leaves(t)
  /\ UNCHANGED <<bridgeVars, owner, doomed>>

RequestCancelled(t) ==
  /\ t \in doomed
  /\ doomed' = doomed \ {t}
  /\ \/ /\ phase[t] = "new"
        /\ phase' = [phase EXCEPT ![t] = "void"]
        /\ UNCHANGED <<receiving, buffered, replyBuffer>>
     \/ phase[t] # "new" /\ Leaves(t)
  /\ UNCHANGED <<streamVars, wakeup, bridgeVars, owner>>

\* The end of _finish_request, with _wake_receiver.
FinishRequest(t) ==
  LET c == owner[t]
  IN  /\ phase[t] = "release"
      /\ phase' = [phase EXCEPT ![t] = "free"]
      /\ owner' = [owner EXCEPT ![t] = None]
      /\ gathered' = [gathered EXCEPT ![c] = @ \ {t}]
      /\ wakeup' = IF Idle(c) THEN [wakeup EXCEPT ![c] = TRUE] ELSE wakeup
      /\ UNCHANGED <<streamVars, download, bridge, aborted, told, doomed, receiving, buffered, replyBuffer>>

-----------------------------------------------------------------------------
(***************************************************************************)
(* The bridge: upload, download and recovery tasks, then close().          *)
(***************************************************************************)
\* download takes a reply, writes it and waits for the client.  At the wake-up
\* of receive, delivering_since is not set yet.
Receive(c) ==
  /\ bridge[c] = "run" /\ download[c] = "wait"
  /\ queue[c] # <<>> /\ Head(queue[c]) # Exception
  /\ queue' = [queue EXCEPT ![c] = Tail(@)]
  /\ replyBytes' = [replyBytes EXCEPT ![c] = @ - Head(queue[c])]
  /\ download' = [download EXCEPT ![c] = IF closed[c] THEN "ended" ELSE "write"]
  /\ wakeup' = IF ~closed[c] /\ Pending(c) = {} /\ replyBytes'[c] = 0
               THEN [wakeup EXCEPT ![c] = TRUE] ELSE wakeup
  /\ UNCHANGED <<closed, error, bridge, aborted, told, gathered, requestVars>>

ReceiveRaises(c) ==
  /\ bridge[c] = "run" /\ download[c] = "wait"
  /\ queue[c] # <<>> /\ Head(queue[c]) = Exception
  /\ queue' = [queue EXCEPT ![c] = Tail(@)]
  /\ download' = [download EXCEPT ![c] = "ended"]
  /\ UNCHANGED <<closed, error, replyBytes, wakeup, bridge, aborted, told, gathered, requestVars>>

DeliveredSilently(c) ==
  /\ bridge[c] = "run" /\ download[c] = "write"
  /\ download' = [download EXCEPT ![c] = "wait"]
  /\ UNCHANGED <<streamVars, wakeup, bridge, aborted, told, gathered, requestVars>>

Delivered(c) ==
  /\ bridge[c] = "run" /\ download[c] = "write"
  /\ download' = [download EXCEPT ![c] = "wait"]
  /\ wakeup' = IF ~closed[c] /\ Pending(c) = {} /\ replyBytes[c] = 0
               THEN [wakeup EXCEPT ![c] = TRUE] ELSE wakeup
  /\ UNCHANGED <<streamVars, bridge, aborted, told, gathered, requestVars>>

\* The client has gone, or the cancellation of the bridge arrives.
DownloadEnds(c) ==
  /\ \/ bridge[c] = "run" /\ download[c] = "write"
     \/ bridge[c] # "run" /\ download[c] # "ended"
  /\ download' = [download EXCEPT ![c] = "ended"]
  /\ UNCHANGED <<streamVars, wakeup, bridge, aborted, told, gathered, requestVars>>

\* A pass of _recover.  It may cancel a request that has no response yet, to
\* make room or to send a packet again.
Recover(c) ==
  /\ bridge[c] = "run" /\ ~closed[c]
  /\ wakeup' = [wakeup EXCEPT ![c] = FALSE]
  /\ \/ UNCHANGED doomed
     \/ \E t \in Pending(c) \ receiving : phase[t] = "post" /\ doomed' = doomed \cup {t}
  /\ UNCHANGED <<streamVars, bridgeVars, owner, phase, receiving, buffered, replyBuffer>>

\* One of the three tasks has ended (the upload may at any time, the recovery
\* does when the channel is closed): all are cancelled and gathered.
Stop(c) ==
  /\ bridge[c] = "run"
  /\ bridge' = [bridge EXCEPT ![c] = "stop"]
  /\ UNCHANGED <<streamVars, wakeup, download, aborted, told, gathered, requestVars>>

\* close(), up to its gather
CloseCancels(c) ==
  /\ bridge' = [bridge EXCEPT ![c] = "close"]
  /\ Fail(c, FALSE)
  /\ doomed' = doomed \cup {t \in Pending(c) : phase[t] # "void"}
  /\ gathered' = [gathered EXCEPT ![c] = Pending(c)]
  /\ UNCHANGED <<download, owner, phase, receiving, buffered, replyBuffer>>

ReportsIfOpen(c) == error[c] /\ ~closed[c] /\ ~aborted[c]
Reports(c) == error[c] /\ ~aborted[c]

\* The tasks are gathered: a transport error is written, or the channel closed.
Gathered(c) ==
  /\ bridge[c] = "stop" /\ download[c] = "ended"
  /\ \/ /\ Reports(c)
        /\ bridge' = [bridge EXCEPT ![c] = "report"]
        /\ told' = [told EXCEPT ![c] = TRUE]
        /\ UNCHANGED <<streamVars, wakeup, download, aborted, gathered, requestVars>>
     \/ ~Reports(c) /\ CloseCancels(c) /\ UNCHANGED <<aborted, told>>

\* The error is drained, or the client has gone.
Reported(c) ==
  /\ bridge[c] = "report"
  /\ CloseCancels(c)
  /\ UNCHANGED <<aborted, told>>

\* The task of bridge_h2 is cancelled: while its tasks run, they are cancelled
\* and gathered; in the gather or in the report, it goes straight to close().
Abort(c) ==
  /\ ~aborted[c]
  /\ aborted' = [aborted EXCEPT ![c] = TRUE]
  /\ \/ /\ bridge[c] = "run"
        /\ bridge' = [bridge EXCEPT ![c] = "stop"]
        /\ UNCHANGED <<streamVars, wakeup, download, gathered, requestVars>>
     \/ bridge[c] \in {"stop", "report"} /\ CloseCancels(c)
  /\ UNCHANGED told

\* The gather of close() returns; what never started is finished here.
CloseReturns(c) ==
  /\ bridge[c] = "close"
  /\ \A t \in gathered[c] : phase[t] = "void"
  /\ bridge' = [bridge EXCEPT ![c] = "done"]
  /\ phase' = [t \in Tasks |-> IF t \in gathered[c] THEN "free" ELSE phase[t]]
  /\ owner' = [t \in Tasks |-> IF t \in gathered[c] THEN None ELSE owner[t]]
  /\ gathered' = [gathered EXCEPT ![c] = {}]
  /\ UNCHANGED <<streamVars, wakeup, download, aborted, told, doomed, receiving, buffered, replyBuffer>>

-----------------------------------------------------------------------------
Init ==
  /\ closed = [c \in Channels |-> FALSE]
  /\ error = [c \in Channels |-> FALSE]
  /\ queue = [c \in Channels |-> <<>>]
  /\ replyBytes = [c \in Channels |-> 0]
  /\ wakeup = [c \in Channels |-> FALSE]
  /\ download = [c \in Channels |-> "wait"]
  /\ bridge = [c \in Channels |-> "run"]
  /\ aborted = [c \in Channels |-> FALSE]
  /\ told = [c \in Channels |-> FALSE]
  /\ gathered = [c \in Channels |-> {}]
  /\ polled = [c \in Channels |-> TRUE]
  /\ owner = [t \in Tasks |-> None]
  /\ phase = [t \in Tasks |-> "free"]
  /\ doomed = {}
  /\ receiving = {}
  /\ buffered = [t \in Tasks |-> 0]
  /\ replyBuffer = 0

RequestStep(t) ==
  \/ StartRequest(t)
  \/ ResponseStarted(t)
  \/ ReadBody(t)
  \/ \E n \in ChunkSizes : Chunk(t, n)
  \/ Answered(t)
  \/ \E transport \in BOOLEAN : RequestFails(t, transport)
  \/ RequestCancelled(t)
  \/ FinishRequest(t)

BridgeStep(c) ==
  \/ \E t \in Tasks : Request(c, t)
  \/ Receive(c)
  \/ ReceiveRaises(c)
  \/ Delivered(c)
  \/ DownloadEnds(c)
  \/ Stop(c)
  \/ Gathered(c)
  \/ Reported(c)
  \/ Abort(c)
  \/ CloseReturns(c)

\* A channel that is busy again has to be polled again.
StillPolled == polled' = [c \in Channels |-> polled[c] /\ Idle(c)']

Next ==
  \/ \E t \in Tasks : RequestStep(t) /\ StillPolled
  \/ \E c \in Channels : BridgeStep(c) /\ StillPolled
  \/ \E c \in Channels : Recover(c) /\ polled' = [polled EXCEPT ![c] = Idle(c)']

Spec == Init /\ [][Next]_vars

\* The event loop runs a task that can run, and recovery ends once the channel
\* is closed, with it the bridge; nothing is assumed of the network, the client
\* or of who cancels the bridge.
FairSpec ==
  /\ Spec
  /\ \A c \in Channels :
       /\ WF_vars((closed[c] \/ download[c] = "ended") /\ Stop(c) /\ StillPolled)
       /\ WF_vars(bridge[c] # "run" /\ DownloadEnds(c) /\ StillPolled)
       /\ WF_vars(Gathered(c) /\ StillPolled)

-----------------------------------------------------------------------------
TypeOK ==
  /\ closed \in [Channels -> BOOLEAN]
  /\ error \in [Channels -> BOOLEAN]
  /\ queue \in [Channels -> Seq(0 .. MaxPacket)]
  /\ \A c \in Channels : Len(queue[c]) <= QueueSize
  /\ replyBytes \in [Channels -> Int]
  /\ \A c \in Channels : replyBytes[c] <= MaxChannelBytes
  /\ wakeup \in [Channels -> BOOLEAN]
  /\ download \in [Channels -> {"wait", "write", "ended"}]
  /\ bridge \in [Channels -> {"run", "stop", "report", "close", "done"}]
  /\ aborted \in [Channels -> BOOLEAN]
  /\ told \in [Channels -> BOOLEAN]
  /\ gathered \in [Channels -> SUBSET Tasks]
  /\ polled \in [Channels -> BOOLEAN]
  /\ owner \in [Tasks -> Channels \cup {None}]
  /\ \A t \in Tasks : (phase[t] = "free") = (owner[t] = None)
  /\ phase \in [Tasks -> Phases]
  /\ doomed \in SUBSET Tasks
  /\ receiving \in SUBSET Tasks
  /\ buffered \in [Tasks -> 0 .. MaxPacket]
  /\ replyBuffer \in Int /\ replyBuffer <= MaxLaneReplyBytes

\* A sum, as the number of the bytes that are summed.
Bytes(f, S) == UNION {{x} \X (1 .. f[x]) : x \in S}
SumOver(f, S) == Cardinality(Bytes(f, S))

\* The books of the buffers: reply_bytes is what the queue holds, the lane's
\* counter what its requests hold, and whoever is marked as receiving, or holds
\* anything, is a request that is still reading: every way out gives back.
BuffersAccounted ==
  /\ \A c \in Channels : replyBytes[c] = SumOver(queue[c], 1 .. Len(queue[c]))
  /\ replyBuffer = SumOver(buffered, Tasks)
  /\ \A t \in Tasks : buffered[t] > 0 => phase[t] = "body"
  /\ \A t \in receiving : phase[t] \in {"post", "body"}

\* An idle channel, with no request and nothing to deliver, has been looked at by
\* _recover since it became so, or will be woken for it: whichever of the last
\* request and the last delivery ends later wakes it (_wake_receiver).
IdleIsPolled ==
  \A c \in Channels : Idle(c) /\ bridge[c] = "run" /\ download[c] = "wait" =>
    \/ polled[c] \/ wakeup[c]
    \/ \E t \in Tasks : owner[t] = c /\ phase[t] = "release"

\* A transport error reaches the client before the channel closes, unless the
\* bridge itself is cancelled (transport_error, and the end of bridge_h2).
ErrorIsTold == \A c \in Channels : error[c] ~> (told[c] \/ aborted[c])

(***************************************************************************)
(* The channels implement the reply stream: what is in the queue after the *)
(* end is the exception only.                                              *)
(***************************************************************************)
Stream == INSTANCE ReplyStream WITH
  Lengths <- 1 .. MaxPacket,
  waiting <- [c \in Channels |-> IF closed[c] THEN <<>> ELSE queue[c]],
  bytes <- replyBytes,
  ended <- closed

ImplementsStream == Stream!Spec
=============================================================================
