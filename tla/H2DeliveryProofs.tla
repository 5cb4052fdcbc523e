-------------------------- MODULE H2DeliveryProofs --------------------------
(***************************************************************************)
(* Proofs about H2Delivery, for any channels, requests, lengths and        *)
(* bounds: a channel implements the reply stream, the books of the buffers *)
(* balance, and an idle channel is polled.                                 *)
(***************************************************************************)
EXTENDS H2Delivery, SequenceTheorems, FiniteSetTheorems, TLAPS

\* What _fail leaves behind stays: the exception alone is in the queue, or has
\* been taken out; before, the queue holds replies.  The error is only told
\* when download has ended.
StreamInv ==
  /\ \A c \in Channels : closed[c] => replyBytes[c] = 0 /\ queue[c] \in {<<>>, <<Exception>>}
  /\ \A c \in Channels : ~closed[c] => \A i \in 1 .. Len(queue[c]) : queue[c][i] # Exception
  /\ \A c \in Channels : error[c] => closed[c]
  /\ \A c \in Channels : told[c] => error[c] /\ bridge[c] \notin {"run", "stop"}

-----------------------------------------------------------------------------
(***************************************************************************)
(* Types.                                                                  *)
(***************************************************************************)
StreamTypes ==
  /\ closed \in [Channels -> BOOLEAN]
  /\ error \in [Channels -> BOOLEAN]
  /\ queue \in [Channels -> Seq(0 .. MaxPacket)]
  /\ \A c \in Channels : Len(queue[c]) <= QueueSize
  /\ replyBytes \in [Channels -> Int]
  /\ \A c \in Channels : replyBytes[c] <= MaxChannelBytes
  /\ wakeup \in [Channels -> BOOLEAN]

BridgeTypes ==
  /\ download \in [Channels -> {"wait", "write", "ended"}]
  /\ bridge \in [Channels -> {"run", "stop", "report", "close", "done"}]
  /\ aborted \in [Channels -> BOOLEAN]
  /\ told \in [Channels -> BOOLEAN]
  /\ gathered \in [Channels -> SUBSET Tasks]

\* A cancellation that is on its way finds a task that has begun no clean-up.
DoomedAlive == \A t \in doomed : phase[t] \in {"new", "post", "body"}

RequestTypes ==
  /\ owner \in [Tasks -> Channels \cup {None}]
  /\ \A t \in Tasks : (phase[t] = "free") = (owner[t] = None)
  /\ phase \in [Tasks -> Phases]
  /\ doomed \in SUBSET Tasks
  /\ receiving \in SUBSET Tasks
  /\ buffered \in [Tasks -> 0 .. MaxPacket]
  /\ replyBuffer \in Int /\ replyBuffer <= MaxLaneReplyBytes
  /\ DoomedAlive

\* The types that are inductive.
Types == StreamTypes /\ BridgeTypes /\ RequestTypes /\ polled \in [Channels -> BOOLEAN]

LEMMA TypesGiveTypeOK == Types => TypeOK
BY DEF Types, TypeOK, StreamTypes, BridgeTypes, RequestTypes

LEMMA FailTypes ==
  ASSUME StreamTypes, NEW c \in Channels, NEW transport \in BOOLEAN, Fail(c, transport)
  PROVE  StreamTypes'
<1>1. CASE UNCHANGED <<streamVars, wakeup>>
  BY <1>1 DEF StreamTypes, streamVars
<1>2. CASE ~closed[c] /\ closed' = [closed EXCEPT ![c] = TRUE]
  <2>1. /\ <<Exception>> \in Seq(0 .. MaxPacket)
        /\ Len(<<Exception>>) <= QueueSize
    BY DeliveryAssumption DEF Exception
  <2>2. /\ error' = [error EXCEPT ![c] = transport]
        /\ wakeup' = [wakeup EXCEPT ![c] = TRUE]
        /\ queue' = [queue EXCEPT ![c] = <<Exception>>]
        /\ replyBytes' = [replyBytes EXCEPT ![c] = 0]
    BY <1>2 DEF Fail, streamVars
  <2>3. queue' \in [Channels -> Seq(0 .. MaxPacket)]
    BY <2>1, <2>2 DEF StreamTypes
  <2>4. \A d \in Channels : Len(queue'[d]) <= QueueSize
    BY <2>1, <2>2 DEF StreamTypes
  <2>5. /\ replyBytes' \in [Channels -> Int]
        /\ \A d \in Channels : replyBytes'[d] <= MaxChannelBytes
    BY <2>2, DeliveryAssumption DEF StreamTypes
  <2> QED
    BY <1>2, <2>2, <2>3, <2>4, <2>5 DEF StreamTypes
<1> QED
  BY <1>1, <1>2 DEF Fail

LEMMA LeavesTypes ==
  ASSUME RequestTypes, NEW t \in Tasks, phase[t] # "free", Leaves(t),
         UNCHANGED owner, doomed' \in SUBSET doomed, t \notin doomed'
  PROVE  RequestTypes'
<1>1. buffered[t] \in 0 .. MaxPacket /\ 0 \in 0 .. MaxPacket
  BY DeliveryAssumption DEF RequestTypes
<1> QED
  BY <1>1, DeliveryAssumption DEF RequestTypes, DoomedAlive, Leaves, Phases

\* The owner of a task that is not free is a channel.
LEMMA OwnerIsChannel ==
  ASSUME RequestTypes, NEW t \in Tasks, phase[t] # "free"
  PROVE  owner[t] \in Channels
BY DEF RequestTypes

LEMMA RequestStepTypes ==
  ASSUME Types, NEW t \in Tasks, RequestStep(t)
  PROVE  StreamTypes' /\ BridgeTypes' /\ RequestTypes'
<1>0. StreamTypes /\ BridgeTypes /\ RequestTypes
  BY DEF Types
<1>1. CASE StartRequest(t)
  BY <1>0, <1>1 DEF StartRequest, StreamTypes, BridgeTypes, RequestTypes, streamVars, bridgeVars, Phases, DoomedAlive
<1>2. CASE ResponseStarted(t)
  BY <1>0, <1>2 DEF ResponseStarted, StreamTypes, BridgeTypes, RequestTypes, streamVars, bridgeVars, DoomedAlive
<1>3. CASE ReadBody(t)
  BY <1>0, <1>3 DEF ReadBody, StreamTypes, BridgeTypes, RequestTypes, streamVars, bridgeVars, Phases, DoomedAlive
<1>4. CASE \E n \in ChunkSizes : Chunk(t, n)
  <2>1. PICK n \in ChunkSizes : Chunk(t, n)
    BY <1>4
  <2>2. buffered[t] + n \in 0 .. MaxPacket
    BY <1>0, <2>1, DeliveryAssumption DEF Chunk, RequestTypes
  <2>3. replyBuffer + n \in Int
    BY <1>0, DeliveryAssumption DEF RequestTypes
  <2> QED
    BY <1>0, <2>1, <2>2, <2>3 DEF Chunk, StreamTypes, BridgeTypes, RequestTypes, streamVars, bridgeVars, DoomedAlive
<1>5. CASE Answered(t)
  <2>1. phase[t] # "free" /\ doomed' \in SUBSET doomed /\ t \notin doomed' /\ UNCHANGED owner
    BY <1>0, <1>5 DEF Answered, RequestTypes
  <2>2. RequestTypes'
    BY <1>0, <1>5, <2>1, LeavesTypes DEF Answered
  <2>3. BridgeTypes'
    BY <1>0, <1>5 DEF Answered, BridgeTypes, bridgeVars
  <2> DEFINE c == owner[t]
  <2> DEFINE n == buffered[t]
  <2>4. c \in Channels /\ n \in 0 .. MaxPacket
    BY <1>0, <2>1, OwnerIsChannel DEF RequestTypes
  <2>5. CASE UNCHANGED <<streamVars, wakeup>>
    BY <1>0, <2>2, <2>3, <2>5 DEF StreamTypes, streamVars
  <2>6. CASE Fail(c, FALSE)
    BY <1>0, <2>2, <2>3, <2>4, <2>6, FailTypes
  <2>7. CASE /\ HasRoom(c, n)
             /\ queue' = [queue EXCEPT ![c] = Append(@, n)]
             /\ replyBytes' = [replyBytes EXCEPT ![c] = @ + n]
             /\ UNCHANGED <<closed, error, wakeup>>
    <3> HIDE DEF c, n
    <3>1. /\ Append(queue[c], n) \in Seq(0 .. MaxPacket)
          /\ Len(Append(queue[c], n)) = Len(queue[c]) + 1
      BY <1>0, <2>4 DEF StreamTypes
    <3>2. Len(queue[c]) + 1 <= QueueSize /\ replyBytes[c] + n \in Int /\ replyBytes[c] + n <= MaxChannelBytes
      BY <1>0, <2>4, <2>7, DeliveryAssumption DEF StreamTypes, HasRoom
    <3>3. StreamTypes'
      BY <1>0, <2>4, <2>7, <3>1, <3>2 DEF StreamTypes
    <3> QED
      BY <2>2, <2>3, <3>3
  <2> QED
    BY <1>5, <2>5, <2>6, <2>7 DEF Answered
<1>6. CASE \E transport \in BOOLEAN : RequestFails(t, transport)
  <2>1. PICK transport \in BOOLEAN : RequestFails(t, transport)
    BY <1>6
  <2>2. phase[t] # "free" /\ doomed' \in SUBSET doomed /\ t \notin doomed' /\ UNCHANGED owner
    BY <1>0, <2>1 DEF RequestFails, RequestTypes
  <2>3. owner[t] \in Channels
    BY <1>0, <2>2, OwnerIsChannel
  <2>4. StreamTypes'
    BY <1>0, <2>1, <2>3, FailTypes DEF RequestFails
  <2>5. RequestTypes'
    BY <1>0, <2>1, <2>2, LeavesTypes DEF RequestFails
  <2> QED
    BY <1>0, <2>1, <2>4, <2>5 DEF RequestFails, BridgeTypes, bridgeVars
<1>7. CASE RequestCancelled(t)
  <2>1. StreamTypes' /\ BridgeTypes'
    BY <1>0, <1>7 DEF RequestCancelled, StreamTypes, BridgeTypes, streamVars, bridgeVars
  <2>2. CASE phase[t] = "new"
    BY <1>0, <1>7, <2>1, <2>2 DEF RequestCancelled, RequestTypes, Phases, DoomedAlive
  <2>3. CASE phase[t] # "new"
    <3>1. phase[t] # "free" /\ doomed' \in SUBSET doomed /\ t \notin doomed' /\ UNCHANGED owner
      BY <1>0, <1>7, <2>3 DEF RequestCancelled, RequestTypes, DoomedAlive
    <3> QED
      BY <1>0, <1>7, <2>1, <2>3, <3>1, LeavesTypes DEF RequestCancelled
  <2> QED
    BY <2>2, <2>3
<1>8. CASE FinishRequest(t)
  <2>1. owner[t] \in Channels
    BY <1>0, <1>8, OwnerIsChannel DEF FinishRequest
  <2>2. wakeup' \in [Channels -> BOOLEAN]
    BY <1>0, <1>8, <2>1 DEF FinishRequest, StreamTypes
  <2>3. StreamTypes'
    BY <1>0, <1>8, <2>2 DEF FinishRequest, StreamTypes, streamVars
  <2>4. BridgeTypes'
    BY <1>0, <1>8 DEF FinishRequest, BridgeTypes
  <2>5. RequestTypes'
    BY <1>0, <1>8 DEF FinishRequest, RequestTypes, DoomedAlive, Phases
  <2> QED
    BY <2>3, <2>4, <2>5
<1> QED
  BY <1>1, <1>2, <1>3, <1>4, <1>5, <1>6, <1>7, <1>8 DEF RequestStep

LEMMA CloseCancelsTypes ==
  ASSUME Types, NEW c \in Channels, CloseCancels(c), UNCHANGED told, aborted' \in [Channels -> BOOLEAN]
  PROVE  StreamTypes' /\ BridgeTypes' /\ RequestTypes'
<1>1. StreamTypes'
  BY FailTypes DEF CloseCancels, Types
<1>2. Pending(c) \in SUBSET Tasks
  BY DEF Pending
<1>3. BridgeTypes'
  BY <1>2 DEF CloseCancels, Types, BridgeTypes
<1>4. RequestTypes'
  BY <1>2 DEF CloseCancels, Types, RequestTypes, DoomedAlive, Pending
<1> QED
  BY <1>1, <1>3, <1>4

\* What taking the head out of a queue leaves.
LEMMA HeadAndTail ==
  ASSUME StreamTypes, NEW c \in Channels, queue[c] # <<>>
  PROVE  /\ Head(queue[c]) \in 0 .. MaxPacket
         /\ Tail(queue[c]) \in Seq(0 .. MaxPacket)
         /\ Len(Tail(queue[c])) = Len(queue[c]) - 1
         /\ Len(Tail(queue[c])) <= QueueSize
<1>1. queue[c] \in Seq(0 .. MaxPacket) /\ Len(queue[c]) <= QueueSize /\ Len(queue[c]) \in Nat
  BY DEF StreamTypes
<1>2. /\ Head(queue[c]) \in 0 .. MaxPacket
      /\ Tail(queue[c]) \in Seq(0 .. MaxPacket)
      /\ Len(Tail(queue[c])) = Len(queue[c]) - 1
  BY <1>1, HeadTailProperties
<1> QED
  BY <1>1, <1>2, DeliveryAssumption

LEMMA BridgeStepTypes ==
  ASSUME Types, NEW c \in Channels, BridgeStep(c) \/ Recover(c)
  PROVE  StreamTypes' /\ BridgeTypes' /\ RequestTypes'
<1>0. StreamTypes /\ BridgeTypes /\ RequestTypes
  BY DEF Types
<1>1. CASE \E t \in Tasks : Request(c, t)
  <2>1. PICK t \in Tasks : Request(c, t)
    BY <1>1
  <2>2. RequestTypes'
    BY <1>0, <2>1, DeliveryAssumption DEF Request, RequestTypes, DoomedAlive, Phases
  <2> QED
    BY <1>0, <2>1, <2>2 DEF Request, StreamTypes, BridgeTypes, streamVars, bridgeVars
<1>2. CASE Receive(c)
  <2>1. BridgeTypes' /\ RequestTypes'
    BY <1>0, <1>2 DEF Receive, BridgeTypes, RequestTypes, DoomedAlive, requestVars
  <2>2. /\ Tail(queue[c]) \in Seq(0 .. MaxPacket)
        /\ Len(Tail(queue[c])) <= QueueSize
        /\ Head(queue[c]) \in 0 .. MaxPacket
    BY <1>0, <1>2, HeadAndTail DEF Receive
  <2>3. /\ replyBytes[c] - Head(queue[c]) \in Int
        /\ replyBytes[c] - Head(queue[c]) <= MaxChannelBytes
    BY <1>0, <2>2, DeliveryAssumption DEF StreamTypes
  <2>4. wakeup' \in [Channels -> BOOLEAN]
    BY <1>0, <1>2 DEF Receive, StreamTypes
  <2>5. /\ queue' \in [Channels -> Seq(0 .. MaxPacket)]
        /\ \A d \in Channels : Len(queue'[d]) <= QueueSize
    BY <1>0, <1>2, <2>2 DEF Receive, StreamTypes
  <2>6. /\ replyBytes' \in [Channels -> Int]
        /\ \A d \in Channels : replyBytes'[d] <= MaxChannelBytes
    BY <1>0, <1>2, <2>3 DEF Receive, StreamTypes
  <2> QED
    BY <1>0, <1>2, <2>1, <2>4, <2>5, <2>6 DEF Receive, StreamTypes
<1>3. CASE ReceiveRaises(c)
  <2>1. /\ Tail(queue[c]) \in Seq(0 .. MaxPacket)
        /\ Len(Tail(queue[c])) <= QueueSize
    BY <1>0, <1>3, HeadAndTail DEF ReceiveRaises
  <2>2. StreamTypes'
    BY <1>0, <1>3, <2>1 DEF ReceiveRaises, StreamTypes
  <2> QED
    BY <1>0, <1>3, <2>2 DEF ReceiveRaises, BridgeTypes, RequestTypes, DoomedAlive, requestVars
<1>4. CASE Delivered(c)
  BY <1>0, <1>4 DEF Delivered, StreamTypes, BridgeTypes, RequestTypes, DoomedAlive, streamVars, requestVars
<1>5. CASE DownloadEnds(c)
  BY <1>0, <1>5 DEF DownloadEnds, StreamTypes, BridgeTypes, RequestTypes, DoomedAlive, streamVars, requestVars
<1>6. CASE Stop(c)
  BY <1>0, <1>6 DEF Stop, StreamTypes, BridgeTypes, RequestTypes, DoomedAlive, streamVars, requestVars
<1>7. CASE Gathered(c)
  <2>1. CASE Reports(c) /\ bridge' = [bridge EXCEPT ![c] = "report"]
                       /\ told' = [told EXCEPT ![c] = TRUE]
                       /\ UNCHANGED <<streamVars, wakeup, download, aborted, gathered, requestVars>>
    BY <1>0, <2>1 DEF StreamTypes, BridgeTypes, RequestTypes, DoomedAlive, streamVars, requestVars
  <2>2. CASE CloseCancels(c) /\ UNCHANGED <<aborted, told>>
    <3>1. aborted' \in [Channels -> BOOLEAN]
      BY <1>0, <2>2 DEF BridgeTypes
    <3> QED
      BY <2>2, <3>1, CloseCancelsTypes
  <2> QED
    BY <1>7, <2>1, <2>2 DEF Gathered
<1>8. CASE Reported(c)
  <2>1. aborted' \in [Channels -> BOOLEAN]
    BY <1>0, <1>8 DEF BridgeTypes, Reported
  <2> QED
    BY <1>8, <2>1, CloseCancelsTypes DEF Reported
<1>9. CASE Abort(c)
  <2>1. aborted' \in [Channels -> BOOLEAN]
    BY <1>0, <1>9 DEF BridgeTypes, Abort
  <2>2. CASE CloseCancels(c)
    BY <1>9, <2>1, <2>2, CloseCancelsTypes DEF Abort
  <2>3. CASE bridge' = [bridge EXCEPT ![c] = "stop"]
              /\ UNCHANGED <<streamVars, wakeup, download, gathered, requestVars>>
    BY <1>0, <1>9, <2>1, <2>3 DEF Abort, StreamTypes, BridgeTypes, RequestTypes, DoomedAlive, streamVars, requestVars
  <2> QED
    BY <1>9, <2>2, <2>3 DEF Abort
<1>10. CASE CloseReturns(c)
  <2>1. StreamTypes' /\ BridgeTypes'
    BY <1>0, <1>10 DEF CloseReturns, StreamTypes, BridgeTypes, streamVars
  <2>2. owner' \in [Tasks -> Channels \cup {None}] /\ phase' \in [Tasks -> Phases]
    BY <1>0, <1>10 DEF CloseReturns, RequestTypes, Phases
  <2>3. \A t \in Tasks : (phase'[t] = "free") = (owner'[t] = None)
    BY <1>0, <1>10 DEF CloseReturns, RequestTypes
  <2>4. DoomedAlive'
    BY <1>0, <1>10 DEF CloseReturns, RequestTypes, DoomedAlive
  <2> QED
    BY <1>0, <1>10, <2>1, <2>2, <2>3, <2>4 DEF CloseReturns, RequestTypes
<1>11. CASE Recover(c)
  <2>1. StreamTypes' /\ BridgeTypes'
    BY <1>0, <1>11 DEF Recover, StreamTypes, BridgeTypes, streamVars, bridgeVars
  <2>2. doomed' \in SUBSET Tasks /\ DoomedAlive'
    BY <1>0, <1>11 DEF Recover, RequestTypes, DoomedAlive, Pending
  <2> QED
    BY <1>0, <1>11, <2>1, <2>2 DEF Recover, RequestTypes
<1> QED
  BY <1>1, <1>2, <1>3, <1>4, <1>5, <1>6, <1>7, <1>8, <1>9, <1>10, <1>11 DEF BridgeStep

LEMMA InitTypes == Init => Types
<1> SUFFICES ASSUME Init PROVE Types
  OBVIOUS
<1>1. 0 \in 0 .. MaxPacket /\ <<>> \in Seq(0 .. MaxPacket) /\ Len(<<>>) = 0
  BY DeliveryAssumption
<1>2. StreamTypes
  BY <1>1, DeliveryAssumption DEF Init, StreamTypes
<1>3. RequestTypes
  BY <1>1, DeliveryAssumption DEF Init, RequestTypes, DoomedAlive, Phases
<1> QED
  BY <1>2, <1>3 DEF Init, Types, BridgeTypes

LEMMA NextTypes == Types /\ [Next]_vars => Types'
<1> SUFFICES ASSUME Types, [Next]_vars PROVE Types'
  OBVIOUS
<1>1. CASE \E t \in Tasks : RequestStep(t) /\ StillPolled
  BY <1>1, RequestStepTypes DEF Types, StillPolled, Idle
<1>2. CASE \E c \in Channels : BridgeStep(c) /\ StillPolled
  BY <1>2, BridgeStepTypes DEF Types, StillPolled, Idle
<1>3. CASE \E c \in Channels : Recover(c) /\ polled' = [polled EXCEPT ![c] = Idle(c)']
  BY <1>3, BridgeStepTypes DEF Types, Idle
<1>4. CASE UNCHANGED vars
  BY <1>4 DEF Types, StreamTypes, BridgeTypes, RequestTypes, DoomedAlive, vars, streamVars, bridgeVars, requestVars
<1> QED
  BY <1>1, <1>2, <1>3, <1>4 DEF Next

\* The types of the state, for any constants: the queue keeps its bound, the
\* lane's and the channels' buffers keep theirs.
THEOREM TypeCorrect == Spec => []TypeOK
<1>1. Spec => []Types
  BY InitTypes, NextTypes, PTL DEF Spec
<1> QED
  BY <1>1, TypesGiveTypeOK, PTL

-----------------------------------------------------------------------------
(***************************************************************************)
(* The stream.                                                             *)
(***************************************************************************)
LEMMA FailKeepsInv ==
  ASSUME Types, StreamInv, NEW c \in Channels, NEW transport \in BOOLEAN, Fail(c, transport),
         \A d \in Channels : told'[d] => told[d] /\ bridge'[d] \notin {"run", "stop"}
  PROVE  StreamInv'
<1>1. CASE closed[c] /\ UNCHANGED <<streamVars, wakeup>>
  BY <1>1 DEF StreamInv, streamVars
<1>2. CASE ~closed[c]
  <2>1. /\ error' = [error EXCEPT ![c] = transport]
        /\ closed' = [closed EXCEPT ![c] = TRUE]
        /\ queue' = [queue EXCEPT ![c] = <<Exception>>]
        /\ replyBytes' = [replyBytes EXCEPT ![c] = 0]
    BY <1>2 DEF Fail
  <2>2. ~told[c]
    BY <1>2 DEF StreamInv
  <2>3. \A d \in Channels : closed'[d] => replyBytes'[d] = 0 /\ queue'[d] \in {<<>>, <<Exception>>}
    BY <2>1 DEF StreamInv, Types, StreamTypes
  <2>4. \A d \in Channels : ~closed'[d] => \A i \in 1 .. Len(queue'[d]) : queue'[d][i] # Exception
    BY <2>1 DEF StreamInv, Types, StreamTypes
  <2> QED
    BY <2>1, <2>2, <2>3, <2>4 DEF StreamInv, Types, StreamTypes
<1> QED
  BY <1>1, <1>2 DEF Fail

LEMMA FailIsEnd ==
  ASSUME Types, StreamInv, NEW c \in Channels, NEW transport \in BOOLEAN, Fail(c, transport), UNCHANGED told
  PROVE  Stream!End(c) \/ UNCHANGED Stream!vars
<1>1. CASE closed[c] /\ UNCHANGED <<streamVars, wakeup>>
  BY <1>1 DEF Stream!vars, streamVars
<1>2. CASE ~closed[c]
  <2>1. /\ error' = [error EXCEPT ![c] = transport]
        /\ closed' = [closed EXCEPT ![c] = TRUE]
        /\ queue' = [queue EXCEPT ![c] = <<Exception>>]
        /\ replyBytes' = [replyBytes EXCEPT ![c] = 0]
    BY <1>2 DEF Fail
  <2> QED
    BY <1>2, <2>1 DEF Stream!End, Types, StreamTypes
<1> QED
  BY <1>1, <1>2 DEF Fail

LEMMA RequestStepStream ==
  ASSUME Types, StreamInv, NEW t \in Tasks, RequestStep(t)
  PROVE  StreamInv' /\ [Stream!Next]_(Stream!vars)
<1>0. UNCHANGED <<bridge, told>>
  BY DEF RequestStep, StartRequest, ResponseStarted, ReadBody, Chunk, Answered, RequestFails,
         RequestCancelled, FinishRequest, bridgeVars
<1>1. CASE UNCHANGED streamVars
  BY <1>0, <1>1 DEF StreamInv, Stream!vars, streamVars
<1>2. CASE \E transport \in BOOLEAN :
             phase[t] # "free" /\ Fail(owner[t], transport)
  <2>1. PICK transport \in BOOLEAN : phase[t] # "free" /\ Fail(owner[t], transport)
    BY <1>2
  <2>2. PICK c \in Channels : c = owner[t]
    BY <2>1, OwnerIsChannel DEF Types
  <2>3. \A d \in Channels : told'[d] => told[d] /\ bridge'[d] \notin {"run", "stop"}
    BY <1>0 DEF StreamInv
  <2>4. Fail(c, transport)
    BY <2>1, <2>2
  <2>5. StreamInv'
    BY <2>3, <2>4, FailKeepsInv
  <2>6. Stream!End(c) \/ UNCHANGED Stream!vars
    BY <1>0, <2>4, FailIsEnd
  <2> QED
    BY <2>5, <2>6 DEF Stream!Next
<1>3. CASE /\ phase[t] # "free" /\ ~closed[owner[t]] /\ buffered[t] > 0
           /\ HasRoom(owner[t], buffered[t])
           /\ queue' = [queue EXCEPT ![owner[t]] = Append(@, buffered[t])]
           /\ replyBytes' = [replyBytes EXCEPT ![owner[t]] = @ + buffered[t]]
           /\ UNCHANGED <<closed, error>>
  <2>1. PICK c \in Channels : c = owner[t]
    BY <1>3, OwnerIsChannel DEF Types
  <2>0. PICK n \in 1 .. MaxPacket : n = buffered[t]
    BY <1>3, DeliveryAssumption DEF Types, RequestTypes
  <2>2. queue[c] \in Seq(0 .. MaxPacket)
    BY <2>1 DEF Types, StreamTypes
  <2>3. /\ ~closed[c]
        /\ HasRoom(c, n)
        /\ queue' = [queue EXCEPT ![c] = Append(@, n)]
        /\ replyBytes' = [replyBytes EXCEPT ![c] = @ + n]
    BY <1>3, <2>1, <2>0
  <2>4. \A i \in 1 .. Len(Append(queue[c], n)) : Append(queue[c], n)[i] # Exception
    BY <2>1, <2>2, <2>3 DEF StreamInv, Exception
  <2>5. \A d \in Channels : closed'[d] => replyBytes'[d] = 0 /\ queue'[d] \in {<<>>, <<Exception>>}
    BY <1>3, <2>1, <2>3 DEF StreamInv, Types, StreamTypes
  <2>6. \A d \in Channels : ~closed'[d] => \A i \in 1 .. Len(queue'[d]) : queue'[d][i] # Exception
    <3>1. ASSUME NEW d \in Channels, d = c
          PROVE  \A i \in 1 .. Len(queue'[d]) : queue'[d][i] # Exception
      BY <2>1, <2>3, <2>4, <3>1 DEF Types, StreamTypes
    <3>2. ASSUME NEW d \in Channels, d # c, ~closed'[d]
          PROVE  \A i \in 1 .. Len(queue'[d]) : queue'[d][i] # Exception
      <4>1. queue'[d] = queue[d] /\ ~closed[d]
        BY <1>3, <2>1, <2>3, <3>2 DEF Types, StreamTypes
      <4> QED
        BY <4>1 DEF StreamInv
    <3> QED
      BY <3>1, <3>2
  <2>7. StreamInv'
    BY <1>0, <1>3, <2>5, <2>6 DEF StreamInv
  <2>8. Stream!Accept(c, n)
    <3>1. queue \in [Channels -> Seq(0 .. MaxPacket)]
      BY DEF Types, StreamTypes
    <3>2. Len(queue[c]) < QueueSize /\ replyBytes[c] + n <= MaxChannelBytes
      BY <2>3 DEF HasRoom
    <3>3. [d \in Channels |-> IF closed'[d] THEN <<>> ELSE queue'[d]]
           = [[d \in Channels |-> IF closed[d] THEN <<>> ELSE queue[d]]
                EXCEPT ![c] = Append(queue[c], n)]
      BY <1>3, <2>3, <3>1
    <3> QED
      BY <1>0, <1>3, <2>3, <3>2, <3>3 DEF Stream!Accept
  <2> QED
    BY <2>1, <2>7, <2>8 DEF Stream!Next
<1> QED
  BY <1>1, <1>2, <1>3 DEF RequestStep, StartRequest, ResponseStarted, ReadBody, Chunk, Answered, RequestFails,
         RequestCancelled, FinishRequest, streamVars

LEMMA CloseCancelsStream ==
  ASSUME Types, StreamInv, NEW c \in Channels, CloseCancels(c), UNCHANGED told
  PROVE  StreamInv' /\ [Stream!Next]_(Stream!vars)
<1>1. Fail(c, FALSE)
  BY DEF CloseCancels
<1>2. \A d \in Channels : told'[d] => told[d] /\ bridge'[d] \notin {"run", "stop"}
  BY DEF CloseCancels, StreamInv, Types, BridgeTypes
<1>3. StreamInv'
  BY <1>1, <1>2, FailKeepsInv
<1>4. Stream!End(c) \/ UNCHANGED Stream!vars
  BY <1>1, FailIsEnd
<1> QED
  BY <1>3, <1>4 DEF Stream!Next

LEMMA BridgeStepStream ==
  ASSUME Types, StreamInv, NEW c \in Channels, BridgeStep(c) \/ Recover(c)
  PROVE  StreamInv' /\ [Stream!Next]_(Stream!vars)
<1>0. StreamTypes /\ BridgeTypes
  BY DEF Types
<1>1. CASE Receive(c)
  <2>1. ~closed[c] /\ queue[c] # <<>>
    BY <1>1 DEF Receive, StreamInv
  <2>2. UNCHANGED <<closed, error, bridge, told>>
    BY <1>1 DEF Receive
  <2>3. /\ queue' = [queue EXCEPT ![c] = Tail(@)]
        /\ replyBytes' = [replyBytes EXCEPT ![c] = @ - Head(queue[c])]
    BY <1>1 DEF Receive
  <2>4. queue[c] \in Seq(0 .. MaxPacket)
    BY <1>0 DEF StreamTypes
  <2>5. \A i \in 1 .. Len(Tail(queue[c])) : Tail(queue[c])[i] # Exception
    BY <2>1, <2>4 DEF StreamInv
  <2>6. \A d \in Channels : closed'[d] => replyBytes'[d] = 0 /\ queue'[d] \in {<<>>, <<Exception>>}
    BY <1>0, <2>1, <2>2, <2>3 DEF StreamInv, StreamTypes
  <2>7. \A d \in Channels : ~closed'[d] => \A i \in 1 .. Len(queue'[d]) : queue'[d][i] # Exception
    BY <1>0, <2>2, <2>3, <2>5 DEF StreamInv, StreamTypes
  <2>8. Stream!Deliver(c)
    BY <1>0, <2>1, <2>2, <2>3 DEF Stream!Deliver, StreamTypes
  <2> QED
    BY <2>2, <2>6, <2>7, <2>8 DEF StreamInv, Stream!Next
<1>2. CASE ReceiveRaises(c)
  <2>1. /\ queue' = [queue EXCEPT ![c] = Tail(@)]
        /\ UNCHANGED <<closed, error, replyBytes, bridge, told>>
    BY <1>2 DEF ReceiveRaises
  <2>2. closed[c]
    <3> SUFFICES ASSUME ~closed[c] PROVE FALSE
      OBVIOUS
    <3>1. queue[c] \in Seq(0 .. MaxPacket) /\ queue[c] # <<>> /\ Head(queue[c]) = Exception
      BY <1>0, <1>2 DEF ReceiveRaises, StreamTypes
    <3>2. 1 \in 1 .. Len(queue[c]) /\ queue[c][1] = Exception
      BY <3>1
    <3> QED
      BY <3>2 DEF StreamInv
  <2>3. Tail(queue[c]) = <<>>
    <3>1. queue[c] = <<Exception>>
      BY <1>2, <2>2 DEF StreamInv, ReceiveRaises
    <3>2. Tail(queue[c]) \in Seq(0 .. MaxPacket) /\ Len(Tail(queue[c])) = 0
      BY <1>0, <3>1, HeadAndTail
    <3> QED
      BY <3>2, EmptySeq
  <2>4. \A d \in Channels : closed'[d] => replyBytes'[d] = 0 /\ queue'[d] \in {<<>>, <<Exception>>}
    BY <1>0, <2>1, <2>3 DEF StreamInv, StreamTypes
  <2>5. \A d \in Channels : ~closed'[d] => \A i \in 1 .. Len(queue'[d]) : queue'[d][i] # Exception
    BY <1>0, <2>1, <2>2 DEF StreamInv, StreamTypes
  <2>6. UNCHANGED Stream!vars
    BY <1>0, <2>1, <2>2 DEF Stream!vars, StreamTypes
  <2> QED
    BY <2>1, <2>4, <2>5, <2>6 DEF StreamInv
<1>3. CASE Gathered(c)
  <2>1. CASE CloseCancels(c) /\ UNCHANGED <<aborted, told>>
    BY <2>1, CloseCancelsStream
  <2>2. CASE /\ Reports(c)
             /\ bridge' = [bridge EXCEPT ![c] = "report"]
             /\ told' = [told EXCEPT ![c] = TRUE]
             /\ UNCHANGED <<streamVars, wakeup, download, aborted, gathered, requestVars>>
    <3>1. error[c] /\ ~told[c]
      BY <1>3, <2>2 DEF Gathered, Reports, StreamInv
    <3>2. StreamInv'
      BY <1>0, <2>2, <3>1 DEF StreamInv, BridgeTypes, streamVars
    <3>3. Stream!Tell(c)
      BY <2>2, <3>1 DEF Stream!Tell, streamVars
    <3> QED
      BY <3>2, <3>3 DEF Stream!Next
  <2> QED
    BY <1>3, <2>1, <2>2 DEF Gathered
<1>4. CASE Reported(c)
  BY <1>4, CloseCancelsStream DEF Reported
<1>5. CASE Abort(c) /\ CloseCancels(c)
  BY <1>5, CloseCancelsStream DEF Abort
<1>6. CASE /\ UNCHANGED <<streamVars, told>>
           /\ \A d \in Channels : bridge'[d] = bridge[d] \/ ~told[d]
                                 \/ bridge'[d] \notin {"run", "stop"}
  BY <1>6 DEF StreamInv, Stream!vars, streamVars
<1>7. CASE \/ \E t \in Tasks : Request(c, t)
           \/ Delivered(c) \/ DownloadEnds(c) \/ Recover(c)
  <2>1. UNCHANGED <<streamVars, told, bridge>>
    BY <1>7 DEF Request, Delivered, DownloadEnds, Recover, bridgeVars
  <2> QED
    BY <1>6, <2>1
<1>8. CASE Stop(c) \/ (Abort(c) /\ ~CloseCancels(c))
  <2>1. /\ bridge[c] = "run"
        /\ bridge' = [bridge EXCEPT ![c] = "stop"]
        /\ UNCHANGED <<streamVars, told>>
    BY <1>8 DEF Stop, Abort
  <2>2. \A d \in Channels : bridge'[d] = bridge[d] \/ ~told[d]
    BY <1>0, <2>1 DEF StreamInv, BridgeTypes
  <2> QED
    BY <1>6, <2>1, <2>2
<1>9. CASE CloseReturns(c)
  <2>1. UNCHANGED <<streamVars, told>> /\ bridge' = [bridge EXCEPT ![c] = "done"]
    BY <1>9 DEF CloseReturns
  <2>2. \A d \in Channels : bridge'[d] = bridge[d] \/ bridge'[d] \notin {"run", "stop"}
    BY <1>0, <2>1 DEF BridgeTypes
  <2> QED
    BY <1>6, <2>1, <2>2
<1> QED
  BY <1>1, <1>2, <1>3, <1>4, <1>5, <1>7, <1>8, <1>9 DEF BridgeStep

LEMMA StreamSteps ==
  Types /\ StreamInv /\ [Next]_vars => StreamInv' /\ [Stream!Next]_(Stream!vars)
<1> SUFFICES ASSUME Types, StreamInv, [Next]_vars
             PROVE  StreamInv' /\ [Stream!Next]_(Stream!vars)
  OBVIOUS
<1>1. CASE \E t \in Tasks : RequestStep(t)
  BY <1>1, RequestStepStream
<1>2. CASE \E c \in Channels : BridgeStep(c) \/ Recover(c)
  BY <1>2, BridgeStepStream
<1>3. CASE UNCHANGED vars
  BY <1>3 DEF StreamInv, Stream!vars, vars, streamVars, bridgeVars
<1> QED
  BY <1>1, <1>2, <1>3 DEF Next

LEMMA StreamInit == Init => StreamInv /\ Stream!Init
BY DEF Init, StreamInv, Stream!Init

\* For any constants, the channels implement the reply stream: replies are
\* queued, bounded, delivered in order, the stream ends once and the error is
\* told at most once, after the end.
THEOREM StreamCorrect == Spec => ImplementsStream
<1>1. Spec => []Types
  BY InitTypes, NextTypes, PTL DEF Spec
<1>2. Spec => []StreamInv
  BY <1>1, StreamInit, StreamSteps, PTL DEF Spec
<1> QED
  BY <1>1, <1>2, StreamInit, StreamSteps, PTL DEF Spec, ImplementsStream, Stream!Spec

-----------------------------------------------------------------------------
(***************************************************************************)
(* Sums as counts of bytes, as those of H2LaneProofs; and what a reply     *)
(* more at the end of a queue, or one less at its head, means for the sum  *)
(* of the queue.                                                           *)
(***************************************************************************)
LEMMA BytesFinite ==
  ASSUME NEW f, NEW S, IsFiniteSet(S), \A x \in S : f[x] \in Nat
  PROVE  IsFiniteSet(Bytes(f, S))
<1> DEFINE packet == [x \in S |-> {x} \X (1 .. f[x])]
           Packets == {{x} \X (1 .. f[x]) : x \in S}
<1>1. packet \in Surjection(S, Packets)
  BY DEF Surjection
<1>2. IsFiniteSet(Packets)
  <2> HIDE DEF packet, Packets
  <2> QED
    BY <1>1, FS_Surjection
<1>3. \A p \in Packets : IsFiniteSet(p)
  <2>1. ASSUME NEW x \in S PROVE IsFiniteSet({x} \X (1 .. f[x]))
    <3>1. f[x] \in Nat
      BY <2>1
    <3>2. IsFiniteSet(1 .. f[x])
      BY <3>1, FS_Interval
    <3>3. IsFiniteSet({x})
      BY FS_Singleton
    <3> QED
      BY <3>2, <3>3, FS_Product
  <2> QED
    BY <2>1
<1> HIDE DEF Packets
<1>4. IsFiniteSet(UNION Packets)
  BY <1>2, <1>3, FS_UNION
<1> QED
  BY <1>4 DEF Bytes, Packets

LEMMA SumType ==
  ASSUME NEW f, NEW S, IsFiniteSet(S), \A x \in S : f[x] \in Nat
  PROVE  SumOver(f, S) \in Nat
BY BytesFinite, FS_CardinalityType DEF SumOver

LEMMA SumEmpty == \A f : SumOver(f, {}) = 0
BY FS_EmptySet DEF SumOver, Bytes

LEMMA SumSame ==
  ASSUME NEW f, NEW g, NEW S, \A x \in S : f[x] = g[x]
  PROVE  SumOver(f, S) = SumOver(g, S)
<1>1. Bytes(f, S) = Bytes(g, S)
  BY DEF Bytes
<1> QED
  BY <1>1 DEF SumOver

LEMMA SumAdd ==
  ASSUME NEW f, NEW S, IsFiniteSet(S), NEW z, z \notin S, \A x \in S \cup {z} : f[x] \in Nat
  PROVE  SumOver(f, S \cup {z}) = SumOver(f, S) + f[z]
<1> DEFINE P == {z} \X (1 .. f[z])
<1>1. Bytes(f, S \cup {z}) = Bytes(f, S) \cup P
  BY DEF Bytes
<1>2. Bytes(f, S) \cap P = {}
  BY DEF Bytes
<1>3. IsFiniteSet(P) /\ Cardinality(P) = f[z]
  <2>1. IsFiniteSet(1 .. f[z]) /\ Cardinality(1 .. f[z]) = f[z]
    BY FS_Interval
  <2>2. IsFiniteSet({z}) /\ Cardinality({z}) = 1
    BY FS_Singleton
  <2>3. IsFiniteSet(P) /\ Cardinality(P) = Cardinality({z}) * Cardinality(1 .. f[z])
    BY <2>1, <2>2, FS_Product
  <2> QED
    BY <2>1, <2>2, <2>3
<1>4. IsFiniteSet(Bytes(f, S))
  BY BytesFinite
<1>5. Cardinality(Bytes(f, S) \cup P) = Cardinality(Bytes(f, S)) + Cardinality(P) - Cardinality({})
  <2> HIDE DEF P
  <2> QED
    BY <1>2, <1>3, <1>4, FS_Union
<1>6. Cardinality(Bytes(f, S)) \in Nat /\ Cardinality({}) = 0
  BY <1>4, FS_CardinalityType, FS_EmptySet
<1>7. Cardinality(Bytes(f, S \cup {z})) = Cardinality(Bytes(f, S) \cup P)
  BY <1>1
<1> HIDE DEF P
<1> QED
  BY <1>3, <1>5, <1>6, <1>7 DEF SumOver

LEMMA SumRemove ==
  ASSUME NEW f, NEW S, IsFiniteSet(S), NEW z \in S, \A x \in S : f[x] \in Nat
  PROVE  SumOver(f, S \ {z}) = SumOver(f, S) - f[z] /\ f[z] <= SumOver(f, S)
<1>1. IsFiniteSet(S \ {z}) /\ z \notin S \ {z}
  BY FS_Subset
<1>2. SumOver(f, (S \ {z}) \cup {z}) = SumOver(f, S \ {z}) + f[z]
  BY <1>1, SumAdd
<1>3. (S \ {z}) \cup {z} = S
  OBVIOUS
<1>4. SumOver(f, S \ {z}) \in Nat
  BY <1>1, SumType
<1>5. SumOver(f, S) = SumOver(f, S \ {z}) + f[z]
  BY <1>2, <1>3
<1> QED
  BY <1>4, <1>5

\* Other values for one member: the sum changes by the difference.
LEMMA SumChange ==
  ASSUME NEW f, NEW g, NEW S, IsFiniteSet(S), NEW z \in S,
         \A x \in S : f[x] \in Nat, \A x \in S : g[x] \in Nat,
         \A x \in S \ {z} : f[x] = g[x]
  PROVE  SumOver(g, S) = SumOver(f, S) - f[z] + g[z]
<1>1. SumOver(f, S \ {z}) = SumOver(f, S) - f[z]
  BY SumRemove
<1>2. SumOver(g, S \ {z}) = SumOver(g, S) - g[z]
  BY SumRemove
<1>3. SumOver(f, S \ {z}) = SumOver(g, S \ {z})
  BY SumSame
<1>4. SumOver(f, S) \in Nat /\ SumOver(g, S) \in Nat
  BY SumType
<1> QED
  BY <1>1, <1>2, <1>3, <1>4

QueueSum(q) == SumOver(q, 1 .. Len(q))

LEMMA QueueSumType ==
  ASSUME NEW q \in Seq(0 .. MaxPacket)
  PROVE  QueueSum(q) \in Nat
<1>1. IsFiniteSet(1 .. Len(q))
  BY FS_Interval
<1>2. \A i \in 1 .. Len(q) : q[i] \in Nat
  BY DeliveryAssumption
<1> QED
  BY <1>1, <1>2, SumType DEF QueueSum

LEMMA QueueSumOne == QueueSum(<<>>) = 0 /\ QueueSum(<<Exception>>) = 0
<1>1. QueueSum(<<>>) = 0
  <2>1. 1 .. Len(<<>>) = {}
    OBVIOUS
  <2> QED
    BY <2>1, SumEmpty DEF QueueSum
<1>2. QueueSum(<<Exception>>) = 0
  <2> DEFINE q == <<Exception>>
  <2>1. 1 .. Len(q) = {1} /\ q[1] = 0
    BY DEF Exception
  <2>2. Bytes(q, {1}) = {}
    BY <2>1 DEF Bytes
  <2> QED
    BY <2>1, <2>2, FS_EmptySet DEF QueueSum, SumOver
<1> QED
  BY <1>1, <1>2

LEMMA QueueSumAppend ==
  ASSUME NEW q \in Seq(0 .. MaxPacket), NEW n \in 0 .. MaxPacket
  PROVE  QueueSum(Append(q, n)) = QueueSum(q) + n
<1> DEFINE r == Append(q, n)
           k == Len(q)
<1>1. k \in Nat /\ r \in Seq(0 .. MaxPacket) /\ Len(r) = k + 1 /\ r[k + 1] = n
  OBVIOUS
<1>2. \A i \in 1 .. k : r[i] = q[i]
  OBVIOUS
<1>3. \A i \in 1 .. (k + 1) : r[i] \in Nat
  BY <1>1, DeliveryAssumption
<1>4. Len(q) = k
  OBVIOUS
<1> HIDE DEF r, k
<1>5. (1 .. k) \cup {k + 1} = 1 .. (k + 1) /\ k + 1 \notin 1 .. k
  BY <1>1
<1>6. IsFiniteSet(1 .. k)
  BY <1>1, FS_Interval
<1>7. SumOver(r, (1 .. k) \cup {k + 1}) = SumOver(r, 1 .. k) + r[k + 1]
  <2>1. \A i \in (1 .. k) \cup {k + 1} : r[i] \in Nat
    BY <1>3, <1>5
  <2> DEFINE S == 1 .. k
             z == k + 1
  <2>2. IsFiniteSet(S) /\ z \notin S /\ \A i \in S \cup {z} : r[i] \in Nat
    BY <1>5, <1>6, <2>1
  <2> HIDE DEF S, z
  <2>3. SumOver(r, S \cup {z}) = SumOver(r, S) + r[z]
    BY <2>2, SumAdd
  <2> QED
    BY <2>3 DEF S, z
<1>8. SumOver(r, 1 .. k) = SumOver(q, 1 .. k)
  BY <1>2, SumSame
<1>9. QueueSum(r) = QueueSum(q) + n
  BY <1>1, <1>4, <1>5, <1>7, <1>8 DEF QueueSum
<1> QED
  BY <1>9 DEF r

\* Taking the head moves the bytes of the rest one place forward.
LEMMA QueueSumTail ==
  ASSUME NEW q \in Seq(0 .. MaxPacket), q # <<>>
  PROVE  QueueSum(Tail(q)) = QueueSum(q) - Head(q)
<1> DEFINE r == Tail(q)
           k == Len(q)
<1>1. k \in Nat \ {0} /\ Head(q) = q[1]
  OBVIOUS
<1>2. r \in Seq(0 .. MaxPacket) /\ Len(r) = k - 1 /\ \A i \in 1 .. (k - 1) : r[i] = q[i + 1]
  OBVIOUS
<1>3. \A i \in 1 .. k : q[i] \in Nat
  BY DeliveryAssumption
<1>4. Len(q) = k
  OBVIOUS
<1> HIDE DEF r, k
<1>5. /\ IsFiniteSet(1 .. k) /\ IsFiniteSet(2 .. k)
      /\ (1 .. k) \ {1} = 2 .. k
      /\ 1 \in 1 .. k
  <2>1. 1 \in Int /\ 2 \in Int /\ k \in Int
    BY <1>1
  <2>2. IsFiniteSet(1 .. k) /\ IsFiniteSet(2 .. k)
    BY <2>1, FS_Interval
  <2>3. (1 .. k) \ {1} = 2 .. k /\ 1 \in 1 .. k
    BY <1>1
  <2> QED
    BY <2>2, <2>3
<1>6. SumOver(q, 2 .. k) = SumOver(q, 1 .. k) - q[1]
  BY <1>3, <1>5, SumRemove
<1>7. SumOver(r, 1 .. (k - 1)) = SumOver(q, 2 .. k)
  <2> DEFINE S == Bytes(q, 2 .. k)
             T == Bytes(r, 1 .. (k - 1))
             back == [b \in S |-> <<b[1] - 1, b[2]>>]
  <2>1. IsFiniteSet(S)
    <3>1. \A i \in 2 .. k : q[i] \in Nat
      BY <1>3, <1>5
    <3> QED
      BY <1>5, <3>1, BytesFinite
  <2>2. \A b \in S : \E i \in 2 .. k : \E j \in 1 .. q[i] : b = <<i, j>>
    BY DEF Bytes
  <2>3. \A i \in 2 .. k : \A j \in 1 .. q[i] : <<i, j>> \in S
    BY DEF Bytes
  <2>4. \A b \in T : \E i \in 1 .. (k - 1) : \E j \in 1 .. r[i] : b = <<i, j>>
    BY DEF Bytes
  <2>5. \A i \in 1 .. (k - 1) : \A j \in 1 .. r[i] : <<i, j>> \in T
    BY DEF Bytes
  <2> HIDE DEF S, T
  <2>6. \A b \in S : <<b[1] - 1, b[2]>> \in T
    <3> SUFFICES ASSUME NEW b \in S PROVE <<b[1] - 1, b[2]>> \in T
      OBVIOUS
    <3>1. PICK i \in 2 .. k : \E j \in 1 .. q[i] : b = <<i, j>>
      BY <2>2
    <3>2. PICK j \in 1 .. q[i] : b = <<i, j>>
      BY <3>1
    <3>3. i - 1 \in 1 .. (k - 1) /\ r[i - 1] = q[i]
      BY <1>1, <1>2
    <3> QED
      BY <2>5, <3>2, <3>3
  <2>7. \A a, b \in S : <<a[1] - 1, a[2]>> = <<b[1] - 1, b[2]>> => a = b
    BY <1>1, <2>2
  <2>8. \A b \in T : \E a \in S : b = <<a[1] - 1, a[2]>>
    <3> SUFFICES ASSUME NEW b \in T PROVE \E a \in S : b = <<a[1] - 1, a[2]>>
      OBVIOUS
    <3>1. PICK i \in 1 .. (k - 1) : \E j \in 1 .. r[i] : b = <<i, j>>
      BY <2>4
    <3>2. PICK j \in 1 .. r[i] : b = <<i, j>>
      BY <3>1
    <3>3. i + 1 \in 2 .. k /\ j \in 1 .. q[i + 1] /\ i + 1 - 1 = i
      BY <1>1, <1>2
    <3>4. PICK a \in S : a = <<i + 1, j>>
      BY <2>3, <3>3
    <3>5. a[1] = i + 1 /\ a[2] = j
      BY <3>4
    <3>6. b = <<a[1] - 1, a[2]>>
      BY <3>2, <3>3, <3>5
    <3> QED
      BY <3>6
  <2>9. back \in Bijection(S, T)
    BY <2>6, <2>7, <2>8 DEF Bijection, Injection, Surjection, IsInjective
  <2>10. ExistsBijection(S, T)
    BY <2>9 DEF ExistsBijection
  <2>11. Cardinality(T) = Cardinality(S)
    BY <2>1, <2>10, FS_Bijection
  <2> QED
    BY <2>11 DEF S, T, SumOver
<1>8. QueueSum(r) = QueueSum(q) - Head(q)
  BY <1>1, <1>2, <1>4, <1>6, <1>7 DEF QueueSum
<1> QED
  BY <1>8 DEF r

-----------------------------------------------------------------------------
(***************************************************************************)
(* The books of the buffers.                                               *)
(***************************************************************************)
QueueBooks == \A c \in Channels : replyBytes[c] = QueueSum(queue[c])

BufferBooks ==
  /\ replyBuffer = SumOver(buffered, Tasks)
  /\ \A t \in Tasks : buffered[t] > 0 => phase[t] = "body"
  /\ \A t \in receiving : phase[t] \in {"post", "body"}

LEMMA BooksAreAccounts == BuffersAccounted <=> QueueBooks /\ BufferBooks
BY DEF BuffersAccounted, QueueBooks, BufferBooks, QueueSum

LEMMA FailBooks ==
  ASSUME Types, QueueBooks, NEW c \in Channels, NEW transport \in BOOLEAN, Fail(c, transport)
  PROVE  QueueBooks'
<1>1. CASE UNCHANGED <<streamVars, wakeup>>
  BY <1>1 DEF QueueBooks, streamVars
<1>2. CASE /\ queue' = [queue EXCEPT ![c] = <<Exception>>]
           /\ replyBytes' = [replyBytes EXCEPT ![c] = 0]
  BY <1>2, QueueSumOne DEF QueueBooks, Types, StreamTypes
<1> QED
  BY <1>1, <1>2 DEF Fail

\* A queue and its counter move together: by what is put at the end or taken
\* from the head.
LEMMA MoveBooks ==
  ASSUME Types, QueueBooks, NEW c \in Channels, NEW q, NEW b,
         queue' = [queue EXCEPT ![c] = q], replyBytes' = [replyBytes EXCEPT ![c] = b],
         b = QueueSum(q)
  PROVE  QueueBooks'
BY DEF QueueBooks, Types, StreamTypes

LEMMA LeavesBooks ==
  ASSUME Types, BufferBooks, NEW t \in Tasks, Leaves(t)
  PROVE  BufferBooks'
<1>0. buffered \in [Tasks -> 0 .. MaxPacket] /\ \A u \in Tasks : buffered[u] \in Nat
  BY DeliveryAssumption DEF Types, RequestTypes
<1>1. /\ buffered' = [buffered EXCEPT ![t] = 0]
      /\ replyBuffer' = replyBuffer - buffered[t]
      /\ receiving' = receiving \ {t}
      /\ phase' = [phase EXCEPT ![t] = "release"]
  BY DEF Leaves
<1>2. /\ \A u \in Tasks : buffered'[u] \in Nat
      /\ \A u \in Tasks \ {t} : buffered[u] = buffered'[u]
      /\ buffered'[t] = 0
  BY <1>0, <1>1
<1>3. SumOver(buffered', Tasks) = SumOver(buffered, Tasks) - buffered[t] + 0
  BY <1>0, <1>2, FiniteAssumption, SumChange
<1>4. SumOver(buffered, Tasks) \in Nat
  BY <1>0, FiniteAssumption, SumType
<1>5. replyBuffer' = SumOver(buffered', Tasks)
  BY <1>0, <1>1, <1>3, <1>4 DEF BufferBooks
<1>6. \A u \in Tasks : buffered'[u] > 0 => phase'[u] = "body"
  BY <1>0, <1>1 DEF BufferBooks, Types, RequestTypes
<1>7. \A u \in receiving' : phase'[u] \in {"post", "body"}
  BY <1>1 DEF BufferBooks, Types, RequestTypes
<1> QED
  BY <1>5, <1>6, <1>7 DEF BufferBooks

LEMMA ChunkBooks ==
  ASSUME Types, BufferBooks, NEW t \in Tasks, NEW n \in ChunkSizes, Chunk(t, n)
  PROVE  BufferBooks'
<1>0. buffered \in [Tasks -> 0 .. MaxPacket] /\ (\A u \in Tasks : buffered[u] \in Nat) /\ n \in Nat
  BY DeliveryAssumption DEF Types, RequestTypes
<1>1. /\ phase[t] = "body"
      /\ buffered' = [buffered EXCEPT ![t] = @ + n]
      /\ replyBuffer' = replyBuffer + n
      /\ UNCHANGED <<phase, receiving>>
  BY DEF Chunk
<1>2. /\ \A u \in Tasks : buffered'[u] \in Nat
      /\ \A u \in Tasks \ {t} : buffered[u] = buffered'[u]
      /\ buffered'[t] = buffered[t] + n
  BY <1>0, <1>1
<1>3. SumOver(buffered', Tasks) = SumOver(buffered, Tasks) - buffered[t] + buffered'[t]
  BY <1>0, <1>2, FiniteAssumption, SumChange
<1>4. SumOver(buffered, Tasks) \in Nat
  BY <1>0, FiniteAssumption, SumType
<1>5. replyBuffer' = SumOver(buffered', Tasks)
  BY <1>0, <1>1, <1>2, <1>3, <1>4 DEF BufferBooks
<1>6. \A u \in Tasks : buffered'[u] > 0 => phase'[u] = "body"
  BY <1>0, <1>1 DEF BufferBooks
<1>7. \A u \in receiving' : phase'[u] \in {"post", "body"}
  BY <1>1 DEF BufferBooks
<1> QED
  BY <1>5, <1>6, <1>7 DEF BufferBooks

LEMMA RequestStepBooks ==
  ASSUME Types, QueueBooks, BufferBooks, NEW t \in Tasks, RequestStep(t)
  PROVE  QueueBooks' /\ BufferBooks'
<1>0. /\ phase \in [Tasks -> Phases] /\ receiving \subseteq Tasks
      /\ buffered \in [Tasks -> 0 .. MaxPacket]
  BY DEF Types, RequestTypes
<1>1. CASE StartRequest(t)
  BY <1>0, <1>1 DEF StartRequest, QueueBooks, BufferBooks, streamVars
<1>2. CASE ResponseStarted(t)
  BY <1>0, <1>2 DEF ResponseStarted, QueueBooks, BufferBooks, streamVars
<1>3. CASE ReadBody(t)
  BY <1>0, <1>3 DEF ReadBody, QueueBooks, BufferBooks, streamVars
<1>4. CASE \E n \in ChunkSizes : Chunk(t, n)
  BY <1>4, ChunkBooks DEF Chunk, QueueBooks, streamVars
<1>5. CASE Answered(t)
  <2>1. BufferBooks'
    BY <1>5, LeavesBooks DEF Answered
  <2>2. PICK c \in Channels : c = owner[t]
    BY <1>5, OwnerIsChannel DEF Types, Answered
  <2>3. PICK n \in 0 .. MaxPacket : n = buffered[t]
    BY <1>0
  <2>4. CASE UNCHANGED <<streamVars, wakeup>>
    BY <2>1, <2>4 DEF QueueBooks, streamVars
  <2>5. CASE Fail(c, FALSE)
    BY <2>1, <2>5, FailBooks
  <2>6. CASE /\ queue' = [queue EXCEPT ![c] = Append(@, n)]
             /\ replyBytes' = [replyBytes EXCEPT ![c] = @ + n]
    <3>1. queue[c] \in Seq(0 .. MaxPacket)
      BY DEF Types, StreamTypes
    <3>2. QueueSum(Append(queue[c], n)) = replyBytes[c] + n
      BY <3>1, QueueSumAppend DEF QueueBooks
    <3>3. /\ queue' = [queue EXCEPT ![c] = Append(queue[c], n)]
          /\ replyBytes' = [replyBytes EXCEPT ![c] = replyBytes[c] + n]
      BY <2>6
    <3>4. QueueBooks'
      BY <3>2, <3>3, MoveBooks
    <3> QED
      BY <2>1, <3>4
  <2> QED
    BY <1>5, <2>2, <2>3, <2>4, <2>5, <2>6 DEF Answered
<1>6. CASE \E transport \in BOOLEAN : RequestFails(t, transport)
  <2>1. PICK transport \in BOOLEAN : RequestFails(t, transport)
    BY <1>6
  <2>2. BufferBooks'
    BY <2>1, LeavesBooks DEF RequestFails
  <2>3. owner[t] \in Channels
    BY <2>1, OwnerIsChannel DEF Types, RequestFails
  <2> QED
    BY <2>1, <2>2, <2>3, FailBooks DEF RequestFails
<1>7. CASE RequestCancelled(t)
  <2>1. QueueBooks'
    BY <1>7 DEF RequestCancelled, QueueBooks, streamVars
  <2>2. CASE phase[t] = "new" /\ phase' = [phase EXCEPT ![t] = "void"]
                              /\ UNCHANGED <<receiving, buffered, replyBuffer>>
    BY <1>0, <2>1, <2>2 DEF BufferBooks
  <2>3. CASE Leaves(t)
    BY <2>1, <2>3, LeavesBooks
  <2> QED
    BY <1>7, <2>2, <2>3 DEF RequestCancelled
<1>8. CASE FinishRequest(t)
  BY <1>0, <1>8 DEF FinishRequest, QueueBooks, BufferBooks, streamVars
<1> QED
  BY <1>1, <1>2, <1>3, <1>4, <1>5, <1>6, <1>7, <1>8 DEF RequestStep

LEMMA BridgeStepBooks ==
  ASSUME Types, QueueBooks, BufferBooks, NEW c \in Channels, BridgeStep(c) \/ Recover(c)
  PROVE  QueueBooks' /\ BufferBooks'
<1>0. /\ phase \in [Tasks -> Phases] /\ receiving \subseteq Tasks
      /\ buffered \in [Tasks -> 0 .. MaxPacket]
      /\ queue[c] \in Seq(0 .. MaxPacket)
      /\ replyBytes \in [Channels -> Int]
  BY DEF Types, RequestTypes, StreamTypes
<1>1. CASE \E t \in Tasks : Request(c, t)
  BY <1>0, <1>1 DEF Request, QueueBooks, BufferBooks, streamVars
<1>2. CASE Receive(c)
  <2>1. QueueSum(Tail(queue[c])) = replyBytes[c] - Head(queue[c])
    BY <1>0, <1>2, QueueSumTail DEF QueueBooks, Receive
  <2>2. /\ queue' = [queue EXCEPT ![c] = Tail(queue[c])]
        /\ replyBytes' = [replyBytes EXCEPT ![c] = replyBytes[c] - Head(queue[c])]
    BY <1>2 DEF Receive
  <2>3. QueueBooks'
    BY <2>1, <2>2, MoveBooks
  <2> QED
    BY <1>2, <2>3 DEF Receive, BufferBooks, requestVars
<1>3. CASE ReceiveRaises(c)
  <2>1. QueueSum(Tail(queue[c])) = replyBytes[c] - Exception
    BY <1>0, <1>3, QueueSumTail DEF QueueBooks, ReceiveRaises
  <2>2. QueueSum(Tail(queue[c])) = replyBytes[c]
    BY <1>0, <2>1 DEF Exception
  <2>3. /\ queue' = [queue EXCEPT ![c] = Tail(queue[c])]
        /\ replyBytes' = [replyBytes EXCEPT ![c] = replyBytes[c]]
    BY <1>0, <1>3 DEF ReceiveRaises
  <2>4. QueueBooks'
    BY <2>2, <2>3, MoveBooks
  <2> QED
    BY <1>3, <2>4 DEF ReceiveRaises, BufferBooks, requestVars
<1>4. CASE CloseCancels(c)
  BY <1>4, FailBooks DEF CloseCancels, BufferBooks
<1>5. CASE UNCHANGED streamVars /\ UNCHANGED <<phase, receiving, buffered, replyBuffer>>
  BY <1>5 DEF QueueBooks, BufferBooks, streamVars
<1>6. CASE CloseReturns(c)
  <2>1. /\ UNCHANGED <<streamVars, receiving, buffered, replyBuffer>>
        /\ \A t \in Tasks : phase[t] # "void" => phase'[t] = phase[t]
    BY <1>6 DEF CloseReturns
  <2> QED
    BY <1>0, <2>1 DEF QueueBooks, BufferBooks, streamVars
<1> QED
  BY <1>1, <1>2, <1>3, <1>4, <1>5, <1>6
     DEF BridgeStep, Delivered, DownloadEnds, Stop, Gathered, Reported, Abort, Recover, requestVars

LEMMA BooksInit == Init => QueueBooks /\ BufferBooks
<1> SUFFICES ASSUME Init PROVE QueueBooks /\ BufferBooks
  OBVIOUS
<1>1. QueueBooks
  BY QueueSumOne DEF Init, QueueBooks
<1>2. Bytes(buffered, Tasks) = {}
  BY DEF Init, Bytes
<1>3. SumOver(buffered, Tasks) = 0
  BY <1>2, FS_EmptySet DEF SumOver
<1> QED
  BY <1>1, <1>3 DEF Init, BufferBooks

LEMMA BooksSteps == Types /\ QueueBooks /\ BufferBooks /\ [Next]_vars => QueueBooks' /\ BufferBooks'
<1> SUFFICES ASSUME Types, QueueBooks, BufferBooks, [Next]_vars PROVE QueueBooks' /\ BufferBooks'
  OBVIOUS
<1>1. CASE \E t \in Tasks : RequestStep(t)
  BY <1>1, RequestStepBooks
<1>2. CASE \E c \in Channels : BridgeStep(c) \/ Recover(c)
  BY <1>2, BridgeStepBooks
<1>3. CASE UNCHANGED vars
  BY <1>3 DEF QueueBooks, BufferBooks, vars, streamVars, requestVars
<1> QED
  BY <1>1, <1>2, <1>3 DEF Next

LEMMA BooksHold == Spec => [](QueueBooks /\ BufferBooks)
<1>1. Spec => []Types
  BY InitTypes, NextTypes, PTL DEF Spec
<1> QED
  BY <1>1, BooksInit, BooksSteps, PTL DEF Spec

\* For any constants, with finitely many requests at a time: reply_bytes is
\* what the queue of the channel holds, the lane's counter what its requests
\* hold, and only a request that is still reading holds anything or is counted
\* as receiving.
THEOREM BuffersCorrect == Spec => []BuffersAccounted
BY BooksHold, BooksAreAccounts, PTL

-----------------------------------------------------------------------------
(***************************************************************************)
(* Polling.                                                                *)
(***************************************************************************)
\* close() gathers the requests of its own channel.
GatheredOwned == \A c \in Channels : \A t \in gathered[c] : owner[t] = c

Calm(c) == Idle(c) /\ bridge[c] = "run" /\ download[c] = "wait"

Leaving(c) == \E t \in Tasks : owner[t] = c /\ phase[t] = "release"

\* What is inductive: whoever makes a channel idle wakes it, or leaves behind a
\* request that will; and close() of one channel frees no request of another.
PollInv ==
  /\ \A c \in Channels : Calm(c) => polled[c] \/ wakeup[c] \/ Leaving(c)
  /\ GatheredOwned

LEMMA PollIsPolled == PollInv => IdleIsPolled
BY DEF PollInv, IdleIsPolled, Calm, Leaving

\* A channel that was calm and stays so is polled as before.
LEMMA CalmStays ==
  ASSUME PollInv, StillPolled, NEW d \in Channels, Calm(d), Calm(d)',
         wakeup[d] => wakeup'[d], Leaving(d) => Leaving(d)' \/ wakeup'[d]
  PROVE  polled'[d] \/ wakeup'[d] \/ Leaving(d)'
BY DEF PollInv, StillPolled, Calm

\* The queue's counter is not negative: a channel that has nothing to deliver
\* counts zero.
LEMMA NothingIsZero ==
  ASSUME Types, QueueBooks, NEW c \in Channels
  PROVE  replyBytes[c] \in Nat
<1>1. queue[c] \in Seq(0 .. MaxPacket)
  BY DEF Types, StreamTypes
<1> QED
  BY <1>1, QueueSumType DEF QueueBooks

\* Nothing that a channel's calm rests on changes, but a request of it may have
\* begun to leave.
LEMMA LeavesPolled ==
  ASSUME Types, PollInv, StillPolled, NEW t \in Tasks, Leaves(t), phase[t] # "release",
         UNCHANGED <<bridge, download, owner, gathered>>,
         \A d \in Channels : /\ wakeup[d] => wakeup'[d]
                             /\ ~closed'[d] => ~closed[d]
                             /\ ~closed'[d] /\ owner[t] # d => replyBytes'[d] = replyBytes[d]
  PROVE  PollInv'
<1>1. phase' = [phase EXCEPT ![t] = "release"] /\ phase \in [Tasks -> Phases]
  BY DEF Leaves, Types, RequestTypes
<1>2. ASSUME NEW d \in Channels, Calm(d)' PROVE polled'[d] \/ wakeup'[d] \/ Leaving(d)'
  <2>1. CASE owner[t] = d
    BY <1>1, <2>1 DEF Leaving
  <2>2. CASE owner[t] # d
    <3>1. Pending(d)' = Pending(d)
      BY <1>1, <2>2 DEF Pending
    <3>2. bridge[d] = "run" /\ download[d] = "wait" /\ ~closed'[d] /\ replyBytes'[d] = replyBytes[d]
      BY <1>2, <2>2 DEF Calm, Idle
    <3>3. Calm(d)
      BY <1>2, <3>1, <3>2 DEF Calm, Idle, Backpressure
    <3>4. Leaving(d) => Leaving(d)'
      BY <1>1 DEF Leaving
    <3> QED
      BY <1>2, <3>3, <3>4, CalmStays
  <2> QED
    BY <2>1, <2>2
<1>3. GatheredOwned'
  BY DEF PollInv, GatheredOwned
<1> QED
  BY <1>2, <1>3 DEF PollInv

\* The same for a step that takes nobody off the books.
LEMMA NobodyLeavesPolled ==
  ASSUME Types, PollInv, StillPolled,
         UNCHANGED <<bridge, download, owner, gathered, streamVars, wakeup>>,
         \A u \in Tasks : \/ phase'[u] = phase[u]
                          \/ phase[u] # "release" /\ phase'[u] \in {"post", "body", "void"}
  PROVE  PollInv'
<1>1. ASSUME NEW d \in Channels, Calm(d)' PROVE polled'[d] \/ wakeup'[d] \/ Leaving(d)'
  <2>1. Pending(d) \subseteq Pending(d)'
    BY DEF Pending
  <2>2. Calm(d)
    BY <1>1, <2>1 DEF Calm, Idle, Backpressure, streamVars
  <2>3. Leaving(d) => Leaving(d)'
    BY DEF Leaving
  <2> QED
    BY <1>1, <2>2, <2>3, CalmStays
<1>2. GatheredOwned'
  BY DEF PollInv, GatheredOwned
<1> QED
  BY <1>1, <1>2 DEF PollInv

LEMMA FailPolled ==
  ASSUME Types, NEW c \in Channels, NEW transport \in BOOLEAN, Fail(c, transport)
  PROVE  \A d \in Channels : /\ wakeup[d] => wakeup'[d]
                             /\ closed[d] => closed'[d]
                             /\ ~closed'[d] => replyBytes'[d] = replyBytes[d]
BY DEF Fail, Types, StreamTypes, streamVars

LEMMA RequestStepPolled ==
  ASSUME Types, PollInv, StillPolled, NEW t \in Tasks, RequestStep(t)
  PROVE  PollInv'
<1>0. /\ phase \in [Tasks -> Phases] /\ owner \in [Tasks -> Channels \cup {None}]
      /\ gathered \in [Channels -> SUBSET Tasks] /\ wakeup \in [Channels -> BOOLEAN]
      /\ replyBytes \in [Channels -> Int]
  BY DEF Types, RequestTypes, BridgeTypes, StreamTypes
<1>1. CASE StartRequest(t) \/ ResponseStarted(t) \/ ReadBody(t) \/ \E n \in ChunkSizes : Chunk(t, n)
  <2>1. UNCHANGED <<bridge, download, owner, gathered, streamVars, wakeup>>
    BY <1>1 DEF StartRequest, ResponseStarted, ReadBody, Chunk, bridgeVars
  <2>2. \A u \in Tasks : \/ phase'[u] = phase[u]
                         \/ phase[u] # "release" /\ phase'[u] \in {"post", "body"}
    BY <1>0, <1>1 DEF StartRequest, ResponseStarted, ReadBody, Chunk
  <2> QED
    BY <2>1, <2>2, NobodyLeavesPolled
<1>2. CASE Answered(t)
  <2>1. PICK c \in Channels : c = owner[t]
    BY <1>2, OwnerIsChannel DEF Types, Answered
  <2>2. UNCHANGED <<bridge, download, owner, gathered>> /\ Leaves(t) /\ phase[t] # "release"
    BY <1>2 DEF Answered, bridgeVars
  <2>3. \A d \in Channels : /\ wakeup[d] => wakeup'[d]
                            /\ ~closed'[d] => ~closed[d]
                            /\ ~closed'[d] => replyBytes'[d] = replyBytes[d] \/ d = c
    BY <1>0, <1>2, <2>1, FailPolled DEF Answered, streamVars
  <2> QED
    BY <1>0, <2>1, <2>2, <2>3, LeavesPolled
<1>3. CASE \E transport \in BOOLEAN : RequestFails(t, transport)
  <2>1. PICK transport \in BOOLEAN : RequestFails(t, transport)
    BY <1>3
  <2>2. owner[t] \in Channels
    BY <2>1, OwnerIsChannel DEF Types, RequestFails
  <2>3. UNCHANGED <<bridge, download, owner, gathered>> /\ Leaves(t) /\ phase[t] # "release"
    BY <2>1 DEF RequestFails, bridgeVars
  <2>4. Fail(owner[t], transport)
    BY <2>1 DEF RequestFails
  <2> QED
    BY <2>2, <2>3, <2>4, FailPolled, LeavesPolled
<1>4. CASE RequestCancelled(t)
  <2>1. UNCHANGED <<bridge, download, owner, gathered, streamVars, wakeup>>
    BY <1>4 DEF RequestCancelled, bridgeVars
  <2>2. CASE phase[t] = "new" /\ phase' = [phase EXCEPT ![t] = "void"]
    <3>1. \A u \in Tasks : phase'[u] = phase[u] \/ (phase[u] # "release" /\ phase'[u] = "void")
      BY <1>0, <2>2
    <3> QED
      BY <2>1, <3>1, NobodyLeavesPolled
  <2>3. CASE Leaves(t)
    <3>1. phase[t] # "release"
      BY <1>4 DEF RequestCancelled, Types, RequestTypes, DoomedAlive
    <3> QED
      BY <2>1, <2>3, <3>1, LeavesPolled DEF streamVars
  <2> QED
    BY <1>4, <2>2, <2>3 DEF RequestCancelled
<1>5. CASE FinishRequest(t)
  <2>1. PICK c \in Channels : c = owner[t]
    BY <1>5, OwnerIsChannel DEF Types, FinishRequest
  <2>2. /\ phase[t] = "release"
        /\ phase' = [phase EXCEPT ![t] = "free"]
        /\ owner' = [owner EXCEPT ![t] = None]
        /\ gathered' = [gathered EXCEPT ![c] = @ \ {t}]
        /\ wakeup' = IF Idle(c) THEN [wakeup EXCEPT ![c] = TRUE] ELSE wakeup
        /\ UNCHANGED <<streamVars, download, bridge>>
    BY <1>5, <2>1 DEF FinishRequest
  <2>3. ASSUME NEW d \in Channels, Calm(d)' PROVE polled'[d] \/ wakeup'[d] \/ Leaving(d)'
    <3>1. Pending(d)' = Pending(d)
      BY <1>0, <2>2, DeliveryAssumption DEF Pending
    <3>2. Calm(d)
      BY <2>2, <2>3, <3>1 DEF Calm, Idle, Backpressure, streamVars
    <3>3. wakeup[d] => wakeup'[d]
      BY <1>0, <2>2
    <3>4. CASE d = c
      BY <1>0, <2>2, <3>2, <3>4 DEF Calm
    <3>5. CASE d # c
      <4>1. Leaving(d) => Leaving(d)'
        BY <1>0, <2>1, <2>2, <3>5 DEF Leaving
      <4> QED
        BY <2>3, <3>2, <3>3, <4>1, CalmStays
    <3> QED
      BY <3>4, <3>5
  <2>4. GatheredOwned'
    BY <1>0, <2>1, <2>2 DEF PollInv, GatheredOwned
  <2> QED
    BY <2>3, <2>4 DEF PollInv
<1> QED
  BY <1>1, <1>2, <1>3, <1>4, <1>5 DEF RequestStep

LEMMA CloseCancelsPolled ==
  ASSUME Types, PollInv, StillPolled, NEW c \in Channels, CloseCancels(c)
  PROVE  PollInv'
<1>0. /\ bridge \in [Channels -> {"run", "stop", "report", "close", "done"}]
      /\ gathered \in [Channels -> SUBSET Tasks]
  BY DEF Types, BridgeTypes
<1>1. /\ bridge' = [bridge EXCEPT ![c] = "close"]
      /\ gathered' = [gathered EXCEPT ![c] = Pending(c)]
      /\ UNCHANGED <<download, owner, phase>>
      /\ Fail(c, FALSE)
  BY DEF CloseCancels
<1>2. ASSUME NEW d \in Channels, Calm(d)' PROVE polled'[d] \/ wakeup'[d] \/ Leaving(d)'
  <2>1. d # c /\ bridge[d] = "run"
    BY <1>0, <1>1, <1>2 DEF Calm
  <2>2. Pending(d)' = Pending(d) /\ (Leaving(d) => Leaving(d)')
    BY <1>1 DEF Pending, Leaving
  <2>3. (wakeup[d] => wakeup'[d]) /\ (closed[d] => closed'[d])
        /\ (~closed'[d] => replyBytes'[d] = replyBytes[d])
    BY <1>1, FailPolled
  <2>4. Calm(d)
    BY <1>1, <1>2, <2>1, <2>2, <2>3 DEF Calm, Idle, Backpressure
  <2> QED
    BY <1>2, <2>2, <2>3, <2>4, CalmStays
<1>3. GatheredOwned'
  <2>1. \A t \in Pending(c) : owner'[t] = c
    BY <1>1 DEF Pending
  <2> QED
    BY <1>0, <1>1, <2>1 DEF PollInv, GatheredOwned
<1> QED
  BY <1>2, <1>3 DEF PollInv

LEMMA BridgeStepPolled ==
  ASSUME Types, QueueBooks, PollInv, StillPolled, NEW c \in Channels, BridgeStep(c)
  PROVE  PollInv'
<1>0. /\ phase \in [Tasks -> Phases] /\ owner \in [Tasks -> Channels \cup {None}]
      /\ gathered \in [Channels -> SUBSET Tasks] /\ wakeup \in [Channels -> BOOLEAN]
      /\ replyBytes \in [Channels -> Int]
      /\ download \in [Channels -> {"wait", "write", "ended"}]
      /\ bridge \in [Channels -> {"run", "stop", "report", "close", "done"}]
  BY DEF Types, RequestTypes, BridgeTypes, StreamTypes
<1>1. CASE \E t \in Tasks : Request(c, t)
  <2>1. PICK t \in Tasks : Request(c, t)
    BY <1>1
  <2>2. /\ phase[t] = "free"
        /\ owner' = [owner EXCEPT ![t] = c]
        /\ phase' = [phase EXCEPT ![t] = "new"]
        /\ UNCHANGED <<closed, replyBytes, wakeup, bridge, download, gathered>>
    BY <2>1 DEF Request, streamVars, bridgeVars
  <2>3. owner[t] = None
    BY <2>2 DEF Types, RequestTypes
  <2>4. ASSUME NEW d \in Channels, Calm(d)' PROVE polled'[d] \/ wakeup'[d] \/ Leaving(d)'
    <3>1. Pending(d) \subseteq Pending(d)'
      BY <1>0, <2>2, <2>3, DeliveryAssumption DEF Pending
    <3>2. Calm(d)
      BY <2>2, <2>4, <3>1 DEF Calm, Idle, Backpressure
    <3>3. Leaving(d) => Leaving(d)'
      BY <1>0, <2>2 DEF Leaving
    <3> QED
      BY <2>2, <2>4, <3>2, <3>3, CalmStays
  <2>5. GatheredOwned'
    BY <1>0, <2>2, <2>3, DeliveryAssumption DEF PollInv, GatheredOwned
  <2> QED
    BY <2>4, <2>5 DEF PollInv
<1>2. CASE /\ UNCHANGED <<requestVars, closed, gathered>>
           /\ \A d \in Channels : /\ wakeup[d] => wakeup'[d]
                                  /\ bridge'[d] = "run" => bridge[d] = "run"
                                  /\ d # c => replyBytes'[d] = replyBytes[d] /\ download'[d] = download[d]
           /\ \/ download'[c] # "wait" \/ bridge'[c] # "run"
              \/ download'[c] = download[c] /\ replyBytes'[c] = replyBytes[c]
              \/ Idle(c)' => wakeup'[c]
  <2>1. ASSUME NEW d \in Channels, Calm(d)' PROVE polled'[d] \/ wakeup'[d] \/ Leaving(d)'
    <3>1. Pending(d)' = Pending(d) /\ (Leaving(d) => Leaving(d)')
      BY <1>2 DEF Pending, Leaving, requestVars
    <3>2. CASE d = c /\ wakeup'[c]
      BY <3>2
    <3>3. CASE download'[d] = download[d] /\ replyBytes'[d] = replyBytes[d]
      <4>1. Calm(d)
        BY <1>2, <2>1, <3>1, <3>3 DEF Calm, Idle, Backpressure
      <4> QED
        BY <1>2, <2>1, <3>1, <4>1, CalmStays
    <3> QED
      BY <1>2, <2>1, <3>2, <3>3 DEF Calm
  <2>2. GatheredOwned'
    BY <1>2 DEF PollInv, GatheredOwned, requestVars
  <2> QED
    BY <2>1, <2>2 DEF PollInv
<1>3. CASE Receive(c)
  <2>1. /\ UNCHANGED <<requestVars, closed, gathered, bridge>>
        /\ \A d \in Channels : wakeup[d] => wakeup'[d]
    BY <1>0, <1>3 DEF Receive
  <2>2. \A d \in Channels : d # c => replyBytes'[d] = replyBytes[d] /\ download'[d] = download[d]
    BY <1>0, <1>3 DEF Receive
  <2>3. download'[c] # "wait"
    BY <1>0, <1>3 DEF Receive
  <2> QED
    BY <1>2, <2>1, <2>2, <2>3
<1>4. CASE ReceiveRaises(c) \/ DownloadEnds(c)
  <2>1. /\ UNCHANGED <<requestVars, closed, gathered, bridge, wakeup, replyBytes>>
        /\ download' = [download EXCEPT ![c] = "ended"]
    BY <1>4 DEF ReceiveRaises, DownloadEnds, streamVars
  <2> QED
    BY <1>0, <1>2, <2>1
<1>5. CASE Delivered(c)
  <2>1. /\ UNCHANGED <<requestVars, closed, gathered, bridge, replyBytes>>
        /\ download' = [download EXCEPT ![c] = "wait"]
        /\ wakeup' = IF ~closed[c] /\ Pending(c) = {} /\ replyBytes[c] = 0
                     THEN [wakeup EXCEPT ![c] = TRUE] ELSE wakeup
    BY <1>5 DEF Delivered, streamVars
  <2>2. Idle(c)' => wakeup'[c]
    <3>1. Pending(c)' = Pending(c)
      BY <2>1 DEF Pending, requestVars
    <3>2. replyBytes[c] \in Nat
      BY NothingIsZero
    <3> QED
      BY <1>0, <2>1, <3>1, <3>2 DEF Idle, Backpressure
  <2>3. \A d \in Channels : wakeup[d] => wakeup'[d]
    BY <1>0, <2>1
  <2> QED
    BY <1>0, <1>2, <2>1, <2>2, <2>3
<1>6. CASE Stop(c) \/ (Abort(c) /\ ~CloseCancels(c))
  <2>1. /\ UNCHANGED <<requestVars, closed, gathered, wakeup, replyBytes, download>>
        /\ bridge' = [bridge EXCEPT ![c] = "stop"]
    BY <1>6 DEF Stop, Abort, streamVars
  <2> QED
    BY <1>0, <1>2, <2>1
<1>7. CASE CloseCancels(c)
  BY <1>7, CloseCancelsPolled
<1>8. CASE Gathered(c) /\ ~CloseCancels(c)
  <2>1. /\ UNCHANGED <<requestVars, closed, gathered, wakeup, replyBytes, download>>
        /\ bridge' = [bridge EXCEPT ![c] = "report"]
    BY <1>8 DEF Gathered, streamVars
  <2> QED
    BY <1>0, <1>2, <2>1
<1>9. CASE CloseReturns(c)
  <2>1. /\ bridge' = [bridge EXCEPT ![c] = "done"]
        /\ phase' = [t \in Tasks |-> IF t \in gathered[c] THEN "free" ELSE phase[t]]
        /\ owner' = [t \in Tasks |-> IF t \in gathered[c] THEN None ELSE owner[t]]
        /\ gathered' = [gathered EXCEPT ![c] = {}]
        /\ UNCHANGED <<closed, replyBytes, wakeup, download>>
    BY <1>9 DEF CloseReturns, streamVars
  <2>2. \A t \in gathered[c] : owner[t] = c
    BY DEF PollInv, GatheredOwned
  <2>3. ASSUME NEW d \in Channels, d # c
        PROVE  /\ Pending(d)' = Pending(d)
               /\ Leaving(d) => Leaving(d)'
    BY <2>1, <2>2, <2>3, DeliveryAssumption DEF Pending, Leaving
  <2>4. ASSUME NEW d \in Channels, Calm(d)' PROVE polled'[d] \/ wakeup'[d] \/ Leaving(d)'
    <3>1. d # c
      BY <1>0, <2>1, <2>4 DEF Calm
    <3>2. Calm(d)
      BY <1>0, <2>1, <2>3, <2>4, <3>1 DEF Calm, Idle, Backpressure
    <3> QED
      BY <2>1, <2>3, <2>4, <3>1, <3>2, CalmStays
  <2>5. GatheredOwned'
    BY <1>0, <2>1, <2>2 DEF PollInv, GatheredOwned
  <2> QED
    BY <2>4, <2>5 DEF PollInv
<1> QED
  BY <1>1, <1>3, <1>4, <1>5, <1>6, <1>7, <1>8, <1>9 DEF BridgeStep, Reported

LEMMA RecoverPolled ==
  ASSUME Types, PollInv, NEW c \in Channels, Recover(c), polled' = [polled EXCEPT ![c] = Idle(c)']
  PROVE  PollInv'
<1>0. wakeup \in [Channels -> BOOLEAN] /\ polled \in [Channels -> BOOLEAN]
  BY DEF Types, StreamTypes
<1>1. /\ wakeup' = [wakeup EXCEPT ![c] = FALSE]
      /\ UNCHANGED <<streamVars, bridgeVars, owner, phase>>
  BY DEF Recover
<1>2. ASSUME NEW d \in Channels, Calm(d)' PROVE polled'[d] \/ wakeup'[d] \/ Leaving(d)'
  <2>1. Calm(d) /\ (Leaving(d) => Leaving(d)')
    BY <1>1, <1>2 DEF Calm, Idle, Backpressure, Pending, Leaving, streamVars, bridgeVars
  <2>2. CASE d = c
    BY <1>0, <1>2, <2>2 DEF Calm
  <2>3. CASE d # c
    BY <1>0, <1>1, <2>1, <2>3 DEF PollInv
  <2> QED
    BY <2>2, <2>3
<1>3. GatheredOwned'
  BY <1>1 DEF PollInv, GatheredOwned, bridgeVars
<1> QED
  BY <1>2, <1>3 DEF PollInv

LEMMA PollInit == Init => PollInv
BY DEF Init, PollInv, GatheredOwned

LEMMA PollSteps == Types /\ QueueBooks /\ PollInv /\ [Next]_vars => PollInv'
<1> SUFFICES ASSUME Types, QueueBooks, PollInv, [Next]_vars PROVE PollInv'
  OBVIOUS
<1>1. CASE \E t \in Tasks : RequestStep(t) /\ StillPolled
  BY <1>1, RequestStepPolled
<1>2. CASE \E c \in Channels : BridgeStep(c) /\ StillPolled
  BY <1>2, BridgeStepPolled
<1>3. CASE \E c \in Channels : Recover(c) /\ polled' = [polled EXCEPT ![c] = Idle(c)']
  BY <1>3, RecoverPolled
<1>4. CASE UNCHANGED vars
  BY <1>4 DEF PollInv, GatheredOwned, Calm, Leaving, Idle, Pending, Backpressure,
              vars, streamVars, bridgeVars, requestVars
<1> QED
  BY <1>1, <1>2, <1>3, <1>4 DEF Next

\* For any constants, with finitely many requests at a time: an idle channel
\* whose bridge runs has been looked at by _recover since it became idle, or is
\* woken, or a request that leaves will wake it.
THEOREM PollCorrect == Spec => []IdleIsPolled
<1>1. Spec => []Types
  BY InitTypes, NextTypes, PTL DEF Spec
<1>2. Spec => []QueueBooks
  BY BooksHold, PTL
<1>3. Spec => []PollInv
  BY <1>1, <1>2, PollInit, PollSteps, PTL DEF Spec
<1> QED
  BY <1>3, PollIsPolled, PTL
=============================================================================
