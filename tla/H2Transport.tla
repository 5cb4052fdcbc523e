------------------------------ MODULE H2Transport ------------------------------
(***************************************************************************)
(* H2Transport, _Connection and _ResponseStream of                         *)
(* src/proxy/h2_transport.py: requests share one connection, which is      *)
(* dialled under a lock when there is none or the last one has failed.     *)
(*                                                                         *)
(* A step is what a task does between two awaits.  asyncio.wait_for is     *)
(* Python 3.12's: a wait is registered at once, so that setting an event   *)
(* moves every task that waits for it.  What the reader takes from one     *)
(* read is a step per event.  Sizes are in units of one DATA frame.        *)
(***************************************************************************)
EXTENDS Naturals, FiniteSets

CONSTANTS
  Requests,
  MaxStreams,    \* max_streams
  Window,        \* STREAM_RECEIVE_WINDOW
  Batch,         \* IO_BATCH_SIZE
  BodySize,      \* frames of a request's body
  ReplySize,     \* bound: frames of a reply
  MaxAsked,      \* bound: requests that are sent altogether
  MaxSettings,   \* bound: SETTINGS of the peer, over all connections
  None

ASSUME TransportAssumption ==
  /\ None \notin Requests /\ IsFiniteSet(Requests)
  /\ {MaxStreams, BodySize, ReplySize, MaxAsked, MaxSettings} \subseteq Nat
  /\ Window \in Nat \ {0} /\ Batch \in 1 .. Window

VARIABLES
  connection,  \* "none", "live" or "failed"
  lock,        \* the request that holds connect_lock while it dials, or None
  closing,     \* aclose: "no", "asked" or "done"; closed is closing # "no"
  limit,       \* streams the peer admits; 0 before its first SETTINGS
  streams,     \* connection.streams
  place,       \* where a request stands
  lost,        \* requests whose connection has failed
  stream,      \* the stream of a request
  asked, settings  \* bounded counts

vars == <<connection, lock, closing, limit, streams, place, lost, stream, asked, settings>>
counts == <<asked, settings>>

Waits == {"slot", "window", "headers", "body"}
Runs == {"reserve", "send", "readHeaders", "readBody", "deliver"}

\* "window" is what the peer lets us send, "peerWindow" what we let it send, and "coming"
\* what it has left of the reply.
NewStream ==
  [body |-> BodySize, window |-> 0, headers |-> FALSE, ended |-> FALSE, error |-> FALSE,
   chunks |-> 0, credit |-> 0, peerWindow |-> Window, coming |-> ReplySize]

Init ==
  /\ connection = "none"
  /\ lock = None
  /\ closing = "no"
  /\ limit = 0
  /\ streams = {}
  /\ place = [r \in Requests |-> "idle"]
  /\ lost = {}
  /\ stream = [r \in Requests |-> NewStream]
  /\ asked = 0
  /\ settings = 0

Moved(r, to) == [place EXCEPT ![r] = to]

\* The events: connection.changed for all that wait on it, stream.changed for one.
ConnectionChanged(at) ==
  [r \in Requests |-> IF r \in lost THEN at[r]
                      ELSE CASE at[r] = "slot" -> "reserve"
                             [] at[r] = "window" -> "send"
                             [] OTHER -> at[r]]

StreamChanged(at, r) ==
  [at EXCEPT ![r] = CASE at[r] = "headers" -> "readHeaders"
                      [] at[r] = "body" -> "readBody"
                      [] OTHER -> at[r]]

\* fail(): streams that have not ended get the error, and everybody who waits is woken.
OnConnection == {r \in Requests : place[r] \in Waits \cup Runs /\ r \notin lost}

Broken(strs) == [r \in Requests |->
                   IF r \in streams /\ ~strs[r].ended THEN [strs[r] EXCEPT !.error = TRUE]
                   ELSE strs[r]]

AllWoken(at) == [r \in Requests |-> ConnectionChanged(StreamChanged(at, r))[r]]

Fail ==
  /\ connection = "live"
  /\ connection' = "failed"
  /\ lost' = lost \cup OnConnection
  /\ stream' = Broken(stream)
  /\ streams' = {}

\* release(): the slot is free again, and the others look.
Release(r, at) == IF r \in streams THEN ConnectionChanged(at) ELSE at

Ends(r) ==
  /\ streams' = streams \ {r}
  /\ place' = Release(r, Moved(r, "idle"))
  /\ lost' = lost \ {r}
  /\ stream' = [stream EXCEPT ![r] = NewStream]
  /\ UNCHANGED <<connection, lock, closing, limit, counts>>

(***************************************************************************)
(* handle_async_request.                                                   *)
(***************************************************************************)
Ask(r) ==
  /\ place[r] = "idle"
  /\ asked < MaxAsked
  /\ asked' = asked + 1
  /\ place' = Moved(r, "lock")
  /\ UNCHANGED <<connection, lock, closing, limit, streams, lost, stream, settings>>

Refused(r) == place[r] = "lock" /\ lock = None /\ closing # "no" /\ Ends(r)

Reuses(r) ==
  /\ place[r] = "lock"
  /\ lock = None
  /\ closing = "no"
  /\ connection = "live"
  /\ place' = Moved(r, "reserve")
  /\ UNCHANGED <<connection, lock, closing, limit, streams, lost, stream, counts>>

Dials(r) ==
  /\ place[r] = "lock"
  /\ lock = None
  /\ closing = "no"
  /\ connection # "live"
  /\ lock' = r
  /\ place' = Moved(r, "dial")
  /\ UNCHANGED <<connection, closing, limit, streams, lost, stream, counts>>

Connects(r) ==
  /\ place[r] = "dial"
  /\ connection' = "live"
  /\ limit' = 0
  /\ streams' = {}
  /\ lock' = None
  /\ place' = Moved(r, "reserve")
  /\ UNCHANGED <<closing, lost, stream, counts>>

\* It fails, times out or is cancelled; the last connection stays what it is.
DialFails(r) ==
  /\ place[r] = "dial"
  /\ lock' = None
  /\ place' = Moved(r, "idle")
  /\ UNCHANGED <<connection, closing, limit, streams, lost, stream, counts>>

\* Variant: the slot is counted before the wait for the peer's settings.
ReservesAtOnce(r) ==
  /\ place[r] = "reserve"
  /\ r \notin lost
  /\ streams' = streams \cup {r}
  /\ place' = Moved(r, IF Cardinality(streams) < limit THEN "send" ELSE "slot")
  /\ UNCHANGED <<connection, lock, closing, limit, lost, stream, counts>>

Reserves(r) ==
  /\ place[r] = "reserve"
  /\ r \notin lost
  /\ IF Cardinality(streams) < limit
     THEN streams' = streams \cup {r} /\ place' = Moved(r, "send")
     ELSE place' = Moved(r, "slot") /\ UNCHANGED streams
  /\ UNCHANGED <<connection, lock, closing, limit, lost, stream, counts>>

\* send_body: a batch, or the end of the stream; between them it drains.
Sends(r) ==
  /\ place[r] = "send"
  /\ r \notin lost /\ ~stream[r].error
  /\ \/ /\ stream[r].body = 0
        /\ place' = Moved(r, "readHeaders")
        /\ UNCHANGED stream
     \/ /\ stream[r].body > 0
        /\ stream[r].window > 0
        /\ stream' = [stream EXCEPT ![r].body = @ - 1, ![r].window = @ - 1]
        /\ UNCHANGED place
     \/ /\ stream[r].body > 0
        /\ stream[r].window = 0
        /\ place' = Moved(r, "window")
        /\ UNCHANGED stream
  /\ UNCHANGED <<connection, lock, closing, limit, streams, lost, counts>>

ReadsHeaders(r) ==
  /\ place[r] = "readHeaders"
  /\ ~stream[r].error
  /\ place' = Moved(r, IF stream[r].headers THEN "readBody" ELSE "headers")
  /\ UNCHANGED <<connection, lock, closing, limit, streams, lost, stream, counts>>

\* A step of the iterator: a chunk, the end, or a wait.
ReadsBody(r) ==
  /\ place[r] = "readBody"
  /\ ~stream[r].error
  /\ \/ /\ stream[r].chunks > 0
        /\ stream' = [stream EXCEPT ![r].chunks = @ - 1]
        /\ place' = Moved(r, "deliver")
        /\ UNCHANGED <<connection, lock, closing, limit, streams, lost, counts>>
     \/ /\ stream[r].chunks = 0
        /\ ~stream[r].ended
        /\ place' = Moved(r, "body")
        /\ UNCHANGED <<connection, lock, closing, limit, streams, lost, stream, counts>>
     \/ stream[r].chunks = 0 /\ stream[r].ended /\ Ends(r)

\* Variant: credit is returned in whole batches only.
ConsumedInBatches(s, r) ==
  LET sum == s.credit + 1
  IN IF s.ended \/ r \in lost THEN s
     ELSE IF sum < Batch THEN [s EXCEPT !.credit = sum]
     ELSE [s EXCEPT !.credit = 0, !.peerWindow = @ + sum]

\* Variant: what has been returned is returned again.
ConsumedAgain(s, r) ==
  LET sum == s.credit + 1
  IN IF s.ended \/ r \in lost THEN s
     ELSE IF s.chunks > 0 /\ sum < Batch THEN [s EXCEPT !.credit = sum]
     ELSE [s EXCEPT !.credit = 1, !.peerWindow = @ + sum]

\* consumed(): credit is held back while more is buffered, up to a batch.
Consumed(s, r) ==
  LET sum == s.credit + 1
  IN IF s.ended \/ r \in lost THEN s
     ELSE IF s.chunks > 0 /\ sum < Batch THEN [s EXCEPT !.credit = sum]
     ELSE [s EXCEPT !.credit = 0, !.peerWindow = @ + sum]

Resumes(r) ==
  /\ place[r] = "deliver"
  /\ stream' = [stream EXCEPT ![r] = Consumed(@, r)]
  /\ place' = Moved(r, "readBody")
  /\ UNCHANGED <<connection, lock, closing, limit, streams, lost, counts>>

\* check_error.
Raises(r) ==
  /\ \/ place[r] \in {"reserve", "send"} /\ r \in lost
     \/ place[r] \in {"send", "readHeaders", "readBody"} /\ stream[r].error
  /\ Ends(r)

\* Variant: upload flow control has no timer.
PoolTimesOut(r) == place[r] = "slot" /\ Ends(r)

\* PoolTimeout and WriteTimeout, of upload flow control.
TimesOut(r) == place[r] \in {"slot", "window"} /\ Ends(r)

\* ReadTimeout: nobody else has a reply coming, so the connection has had it.
OthersAlive(r) == \E q \in streams \ {r} : ~stream[q].ended

\* A request fails the connection it is on, and ends.
FailsWith(r) ==
  /\ connection' = "failed"
  /\ streams' = {}
  /\ lost' = (lost \cup OnConnection) \ {r}
  /\ stream' = [Broken(stream) EXCEPT ![r] = NewStream]
  /\ place' = [AllWoken(place) EXCEPT ![r] = "idle"]
  /\ UNCHANGED <<lock, closing, limit, counts>>

ReadTimesOut(r) ==
  /\ place[r] \in {"headers", "body"}
  /\ IF r \in lost \/ OthersAlive(r) THEN Ends(r) ELSE FailsWith(r)

\* drain(), after a batch or the end of the body: an error, or WriteTimeout.
WriteFails(r) ==
  /\ \/ place[r] = "send" /\ stream[r].body < BodySize
     \/ place[r] = "readHeaders"
  /\ r \notin lost
  /\ FailsWith(r)

\* The caller goes away, or is done with the response.
Cancelled(r) == place[r] \in {"lock", "send", "readBody", "deliver"} \cup Waits /\ Ends(r)

(***************************************************************************)
(* The peer, as read_loop sees it; and whatever else ends a connection:    *)
(* GOAWAY, the end of the stream, an error, a write that takes too long.   *)
(***************************************************************************)
PeerSettings ==
  /\ connection = "live"
  /\ settings < MaxSettings
  /\ settings' = settings + 1
  /\ limit' \in (0 .. MaxStreams) \ {limit}
  /\ place' = ConnectionChanged(place)
  /\ UNCHANGED <<connection, lock, closing, streams, lost, stream, asked>>

PeerSends(r, s, at) ==
  /\ r \in streams
  /\ ~stream[r].error
  /\ stream' = [stream EXCEPT ![r] = s]
  /\ place' = at
  /\ UNCHANGED <<connection, lock, closing, limit, streams, lost, counts>>

PeerWindow(r) ==
  /\ stream[r].window < stream[r].body
  /\ PeerSends(r, [stream[r] EXCEPT !.window = @ + 1], ConnectionChanged(place))

PeerHeaders(r) ==
  /\ ~stream[r].headers
  /\ PeerSends(r, [stream[r] EXCEPT !.headers = TRUE], StreamChanged(place, r))

Speaks(r) ==
  /\ stream[r].headers /\ ~stream[r].ended
  /\ stream[r].coming > 0 /\ stream[r].peerWindow > 0

Spoken(s) == [s EXCEPT !.coming = @ - 1, !.peerWindow = @ - 1]

PeerData(r) ==
  /\ Speaks(r)
  /\ PeerSends(r, [Spoken(stream[r]) EXCEPT !.chunks = @ + 1], StreamChanged(place, r))

\* A frame of padding: its credit is returned by the reader.
PeerPadding(r) ==
  /\ Speaks(r)
  /\ PeerSends(r, Consumed(Spoken(stream[r]), r), StreamChanged(place, r))

PeerEnds(r) ==
  /\ stream[r].headers /\ ~stream[r].ended
  /\ PeerSends(r, [stream[r] EXCEPT !.ended = TRUE], StreamChanged(place, r))

PeerResets(r) ==
  /\ ~stream[r].ended
  /\ PeerSends(r, [stream[r] EXCEPT !.error = TRUE],
               ConnectionChanged(StreamChanged(place, r)))

ConnectionFails ==
  /\ Fail
  /\ place' = AllWoken(place)
  /\ UNCHANGED <<lock, closing, limit, counts>>

(***************************************************************************)
(* aclose.                                                                 *)
(***************************************************************************)
CloseAsked ==
  /\ closing = "no"
  /\ closing' = "asked"
  /\ UNCHANGED <<connection, lock, limit, streams, place, lost, stream, counts>>

Closes ==
  /\ closing = "asked"
  /\ lock = None
  /\ closing' = "done"
  /\ IF connection = "live" THEN Fail /\ place' = AllWoken(place)
     ELSE UNCHANGED <<connection, streams, place, lost, stream>>
  /\ UNCHANGED <<lock, limit, counts>>

--------------------------------------------------------------------------------
\* What a request's own task does, and the timers that end its waits.
Proceeds(r) ==
  \/ Refused(r) \/ Reuses(r) \/ Dials(r)
  \/ Connects(r) \/ DialFails(r)
  \/ Reserves(r) \/ Sends(r) \/ ReadsHeaders(r) \/ ReadsBody(r) \/ Resumes(r)
  \/ Raises(r)
  \/ TimesOut(r) \/ ReadTimesOut(r) \/ WriteFails(r)

Peer(r) ==
  \/ PeerWindow(r) \/ PeerHeaders(r) \/ PeerData(r) \/ PeerPadding(r)
  \/ PeerEnds(r) \/ PeerResets(r)

Next ==
  \/ \E r \in Requests : Ask(r) \/ Proceeds(r) \/ Cancelled(r) \/ Peer(r)
  \/ PeerSettings
  \/ ConnectionFails
  \/ CloseAsked \/ Closes

Spec == Init /\ [][Next]_vars

\* Tasks run, every wait has a timer, and a lock that is free is taken.
FairSpec == Spec /\ \A r \in Requests : WF_vars(Proceeds(r))

--------------------------------------------------------------------------------
StreamType ==
  [body : 0 .. BodySize, window : 0 .. BodySize, headers : BOOLEAN, ended : BOOLEAN,
   error : BOOLEAN, chunks : 0 .. Window, credit : 0 .. Batch - 1,
   peerWindow : 0 .. Window, coming : 0 .. ReplySize]

TypeOK ==
  /\ connection \in {"none", "live", "failed"}
  /\ lock \in Requests \cup {None}
  /\ closing \in {"no", "asked", "done"}
  /\ limit \in 0 .. MaxStreams
  /\ streams \in SUBSET Requests
  /\ place \in [Requests -> {"idle", "lock", "dial"} \cup Waits \cup Runs]
  /\ lost \in SUBSET Requests
  /\ stream \in [Requests -> StreamType]
  /\ asked \in 0 .. MaxAsked
  /\ settings \in 0 .. MaxSettings

\* Nobody sleeps through what it waits for: a slot, the peer's window, the reply or an
\* error; and a reader that waits owes the peer nothing, so that it may send all of a
\* window, whatever was buffered, held back or padding before.
\* (reserve, send_body, wait, consumed, fail, read_loop)
NobodyOversleeps ==
  \A r \in Requests :
    /\ place[r] \in Waits => r \notin lost /\ ~stream[r].error
    /\ place[r] = "slot" => Cardinality(streams) >= limit
    /\ place[r] = "window" => stream[r].window = 0
    /\ place[r] = "headers" => ~stream[r].headers
    /\ place[r] = "body" => /\ stream[r].chunks = 0 /\ ~stream[r].ended
                            /\ stream[r].peerWindow = Window

\* A slot belongs to a request that is under way on this very connection, however the
\* others ended; and after aclose there is no connection nor will there be one.
\* (release, aclose, handle_async_request)
SlotsReturned ==
  /\ \A r \in streams : place[r] \in (Waits \cup Runs) \ {"slot", "reserve"} /\ r \notin lost
  /\ connection # "live" => streams = {}
  /\ lock \in Requests => place[lock] = "dial"
  /\ closing = "done" => connection # "live" /\ lock = None

\* A request ends, whatever the peer does or leaves undone.
\* (request, wait, reserve, send_body)
RequestsEnd == \A r \in Requests : place[r] = "lock" ~> place[r] = "idle"
================================================================================
