--------------------------- MODULE H2TransportProofs ---------------------------
(***************************************************************************)
(* What holds of the transport for any requests, limits and sizes.         *)
(***************************************************************************)
EXTENDS H2Transport, FiniteSetTheorems, TLAPS

Unsent(r) == place[r] \in {"idle", "lock", "dial", "reserve", "slot"}

\* Where a request stands says what it has of the connection: nothing of its stream
\* before it has a slot, then the slot, unless the connection is lost, of which its
\* stream then knows or has no need to.
PlaceInv(r) ==
  /\ place[r] = "dial" => lock = r /\ connection # "live"
  /\ r \in lost => /\ place[r] \in Runs
                   /\ place[r] = "reserve" \/ stream[r].error \/ stream[r].ended
  /\ place[r] \in Waits \cup Runs /\ r \notin lost => connection = "live"
  /\ place[r] \in (Waits \cup Runs) \ {"slot", "reserve"} /\ r \notin lost => r \in streams
  /\ Unsent(r) => stream[r] = NewStream

OnTheWay(r) == IF place[r] = "deliver" THEN 1 ELSE 0

Held(r) == stream[r].chunks + stream[r].credit + stream[r].peerWindow + OnTheWay(r)

\* The window of the peer is accounted for: it may use it, or it lies here as chunks, in
\* the reader's hands or as credit; and credit is held back only while there is more.
CreditInv(r) ==
  /\ stream[r].ended => stream[r].headers
  /\ stream[r].window <= stream[r].body
  /\ Held(r) <= Window
  /\ r \in streams /\ ~stream[r].ended =>
       /\ Held(r) = Window
       /\ stream[r].credit > 0 => place[r] = "deliver" \/ stream[r].chunks > 0

RequestsInv == \A r \in Requests : PlaceInv(r) /\ CreditInv(r)

TransportInv == TypeOK /\ SlotsReturned /\ NobodyOversleeps /\ RequestsInv

USE DEF Waits, Runs

-----------------------------------------------------------------------------
LEMMA Sizes == {Window, Batch, BodySize, ReplySize} \subseteq Nat /\ Batch \in 1 .. Window
BY TransportAssumption

LEMMA NewStreamType == NewStream \in StreamType /\ ~NewStream.error
BY TransportAssumption DEF NewStream, StreamType

LEMMA SlotCounts ==
  ASSUME TypeOK
  PROVE  Cardinality(streams) \in Nat
BY TransportAssumption, FS_Subset, FS_CardinalityType DEF TypeOK

LEMMA InitCorrect == Init => TransportInv
<1> SUFFICES ASSUME Init PROVE TransportInv
  OBVIOUS
<1>1. TypeOK
  BY NewStreamType, TransportAssumption DEF Init, TypeOK
<1>2. SlotsReturned
  BY TransportAssumption DEF Init, SlotsReturned
<1>3. NobodyOversleeps
  BY DEF Init, NobodyOversleeps
<1>4. RequestsInv
  BY TransportAssumption DEF Init, RequestsInv, PlaceInv, CreditInv, NewStream, Held, OnTheWay
<1> QED
  BY <1>1, <1>2, <1>3, <1>4 DEF TransportInv

-----------------------------------------------------------------------------
\* Who is woken: nobody stands anywhere else than before, but for those who waited.
LEMMA WokenType ==
  ASSUME TypeOK, NEW at \in [Requests -> {"idle", "lock", "dial"} \cup Waits \cup Runs],
         NEW r \in Requests
  PROVE  /\ ConnectionChanged(at) \in [Requests -> {"idle", "lock", "dial"} \cup Waits \cup Runs]
         /\ StreamChanged(at, r) \in [Requests -> {"idle", "lock", "dial"} \cup Waits \cup Runs]
BY DEF ConnectionChanged, StreamChanged

\* A request that leaves gives back its slot, and no more.
LEMMA EndsKeeps ==
  ASSUME TransportInv, NEW r \in Requests, place[r] # "dial", Ends(r)
  PROVE  TransportInv'
<1>1. TypeOK'
  BY NewStreamType, WokenType DEF TransportInv, TypeOK, Ends, Release, Moved, counts
<1>2. SlotsReturned'
  BY DEF TransportInv, SlotsReturned, TypeOK, Ends, Release, Moved, ConnectionChanged
<1>3. ASSUME NEW q \in Requests PROVE PlaceInv(q)'
  BY <1>3 DEF TransportInv, RequestsInv, PlaceInv, SlotsReturned, TypeOK, Ends, Release,
              Moved, ConnectionChanged, Unsent
<1>4. ASSUME NEW q \in Requests PROVE CreditInv(q)'
  BY <1>4, TransportAssumption
     DEF TransportInv, RequestsInv, CreditInv, SlotsReturned, TypeOK, Ends, Release,
         Moved, ConnectionChanged, Held, OnTheWay, NewStream
<1>5. NobodyOversleeps'
  BY NewStreamType
     DEF TransportInv, NobodyOversleeps, TypeOK, Ends, Release, Moved, ConnectionChanged
<1> QED
  BY <1>1, <1>2, <1>3, <1>4, <1>5 DEF TransportInv, RequestsInv

\* A failure leaves streams behind.
LEMMA BrokenType ==
  ASSUME TypeOK
  PROVE  Broken(stream) \in [Requests -> StreamType]
<1>1. \A x \in Requests : stream[x] \in StreamType /\ [stream[x] EXCEPT !.error = TRUE] \in StreamType
  BY DEF TypeOK, StreamType
<1> QED
  BY <1>1 DEF Broken

\* The error a failure leaves in a stream is all that it changes there.
LEMMA BrokenKeeps ==
  ASSUME TypeOK, NEW q \in Requests
  PROVE  /\ Broken(stream)[q].body = stream[q].body
         /\ Broken(stream)[q].window = stream[q].window
         /\ Broken(stream)[q].headers = stream[q].headers
         /\ Broken(stream)[q].ended = stream[q].ended
         /\ Broken(stream)[q].chunks = stream[q].chunks
         /\ Broken(stream)[q].credit = stream[q].credit
         /\ Broken(stream)[q].peerWindow = stream[q].peerWindow
<1>1. stream[q] \in StreamType
  BY DEF TypeOK
<1>2. CASE q \in streams /\ ~stream[q].ended
  <2>1. Broken(stream)[q] = [stream[q] EXCEPT !.error = TRUE]
    BY <1>2 DEF Broken
  <2> QED
    BY <1>1, <2>1 DEF StreamType
<1>3. CASE ~(q \in streams /\ ~stream[q].ended)
  <2>1. Broken(stream)[q] = stream[q]
    BY <1>3 DEF Broken
  <2> QED
    BY <2>1
<1> QED
  BY <1>2, <1>3

\* Nobody who is woken comes to hold a chunk, or lets go of one.
LEMMA WokenDelivers ==
  ASSUME TypeOK, NEW q \in Requests
  PROVE  AllWoken(place)[q] = "deliver" <=> place[q] = "deliver"
BY DEF TypeOK, AllWoken, ConnectionChanged, StreamChanged

\* When the connection fails, everybody on it is awake and knows; only who still dials,
\* or has not begun, keeps what it had.
LEMMA FailKeeps ==
  ASSUME TransportInv, Fail, place' = AllWoken(place), UNCHANGED <<lock, limit, counts>>,
         closing' \in {"no", "asked", "done"}, closing' = "done" => lock = None
  PROVE  TransportInv'
<1>0. TypeOK
  BY DEF TransportInv
<1>1. TypeOK'
  <2>1. stream' \in [Requests -> StreamType]
    BY <1>0, BrokenType DEF Fail
  <2>2. place' \in [Requests -> {"idle", "lock", "dial"} \cup Waits \cup Runs]
    BY <1>0 DEF TypeOK, AllWoken, ConnectionChanged, StreamChanged
  <2> QED
    BY <1>0, <2>1, <2>2 DEF TypeOK, Fail, counts, OnConnection
<1>2. SlotsReturned'
  BY DEF TransportInv, SlotsReturned, TypeOK, Fail, AllWoken, ConnectionChanged,
         StreamChanged
<1>3. ASSUME NEW q \in Requests PROVE PlaceInv(q)'
  BY <1>3 DEF TransportInv, RequestsInv, PlaceInv, SlotsReturned, TypeOK, StreamType, Fail,
              AllWoken, ConnectionChanged, StreamChanged, Broken, OnConnection, Unsent
<1>4. ASSUME NEW q \in Requests PROVE CreditInv(q)'
  <2>1. OnTheWay(q)' = OnTheWay(q)
    BY <1>0, WokenDelivers DEF OnTheWay
  <2>2. Held(q)' = Held(q)
    BY <1>0, <2>1, BrokenKeeps DEF Fail, Held
  <2> QED
    BY <1>0, <2>2, BrokenKeeps DEF TransportInv, RequestsInv, Fail, CreditInv
<1>5. NobodyOversleeps'
  BY DEF TransportInv, NobodyOversleeps, RequestsInv, PlaceInv, TypeOK, Fail, AllWoken,
         ConnectionChanged, StreamChanged
<1> QED
  BY <1>1, <1>2, <1>3, <1>4, <1>5 DEF TransportInv, RequestsInv

LEMMA FailsWithKeeps ==
  ASSUME TransportInv, NEW r \in Requests, place[r] \in Waits \cup Runs, r \notin lost,
         FailsWith(r)
  PROVE  TransportInv'
<1>0. TypeOK
  BY DEF TransportInv
<1>1. TypeOK'
  <2>1. stream' \in [Requests -> StreamType]
    BY <1>0, BrokenType, NewStreamType DEF FailsWith
  <2>2. place' \in [Requests -> {"idle", "lock", "dial"} \cup Waits \cup Runs]
    BY <1>0 DEF TypeOK, FailsWith, AllWoken, ConnectionChanged, StreamChanged
  <2> QED
    BY <1>0, <2>1, <2>2 DEF TypeOK, FailsWith, counts, OnConnection
<1>2. SlotsReturned'
  BY DEF TransportInv, SlotsReturned, RequestsInv, PlaceInv, TypeOK, FailsWith, AllWoken,
         ConnectionChanged, StreamChanged
<1>3. ASSUME NEW q \in Requests PROVE PlaceInv(q)'
  BY <1>3 DEF TransportInv, RequestsInv, PlaceInv, SlotsReturned, TypeOK, StreamType,
              FailsWith, AllWoken, ConnectionChanged, StreamChanged, Broken, OnConnection, Unsent
<1>4. ASSUME NEW q \in Requests PROVE CreditInv(q)'
  <2>1. CASE q = r
    BY <2>1, TransportAssumption
       DEF TransportInv, CreditInv, TypeOK, FailsWith, AllWoken, Broken, Held, OnTheWay,
           NewStream
  <2>2. CASE q # r
    <3>1. stream'[q] = Broken(stream)[q] /\ place'[q] = AllWoken(place)[q] /\ streams' = {}
      BY <1>0, <2>2, BrokenKeeps DEF FailsWith, AllWoken
    <3>2. OnTheWay(q)' = OnTheWay(q)
      BY <1>0, <3>1, WokenDelivers DEF OnTheWay
    <3>3. Held(q)' = Held(q)
      BY <1>0, <3>1, <3>2, BrokenKeeps DEF Held
    <3> QED
      BY <1>0, <3>1, <3>3, BrokenKeeps DEF TransportInv, RequestsInv, CreditInv
  <2> QED
    BY <2>1, <2>2
<1>5. NobodyOversleeps'
  BY DEF TransportInv, NobodyOversleeps, RequestsInv, PlaceInv, TypeOK, FailsWith, AllWoken,
         ConnectionChanged, StreamChanged
<1> QED
  BY <1>1, <1>2, <1>3, <1>4, <1>5 DEF TransportInv, RequestsInv

-----------------------------------------------------------------------------
\* A request gets its slot only while there is one; the others that wait for one find
\* no fewer taken.
LEMMA ReservesKeeps ==
  ASSUME TransportInv, NEW r \in Requests, Reserves(r)
  PROVE  TransportInv'
<1>0. /\ Cardinality(streams) \in Nat
      /\ Cardinality(streams \cup {r}) \in Nat
      /\ Cardinality(streams) <= Cardinality(streams \cup {r})
      /\ limit \in Nat
  <2>1. TypeOK /\ IsFiniteSet(streams)
    BY TransportAssumption, FS_Subset DEF TransportInv, TypeOK
  <2>2. limit \in Nat
    BY <2>1, TransportAssumption DEF TypeOK
  <2>3. Cardinality(streams) \in Nat
    BY <2>1, SlotCounts
  <2>4. Cardinality(streams \cup {r})
          = IF r \in streams THEN Cardinality(streams) ELSE Cardinality(streams) + 1
    BY <2>1, FS_AddElement
  <2> QED
    BY <2>2, <2>3, <2>4
<1>1. TypeOK'
  BY DEF TransportInv, TypeOK, Reserves, Moved, counts
<1>2. SlotsReturned'
  BY DEF TransportInv, SlotsReturned, RequestsInv, PlaceInv, TypeOK, Reserves, Moved
<1>3. ASSUME NEW q \in Requests PROVE PlaceInv(q)'
  BY <1>3 DEF TransportInv, RequestsInv, PlaceInv, TypeOK, Reserves, Moved, Unsent
<1>4. ASSUME NEW q \in Requests PROVE CreditInv(q)'
  <2>1. UNCHANGED stream /\ Held(q)' = Held(q)
    BY <1>4 DEF TransportInv, TypeOK, Reserves, Moved, Held, OnTheWay
  <2>2. CASE q = r
    BY <2>1, <2>2, TransportAssumption
       DEF TransportInv, RequestsInv, PlaceInv, Unsent, NewStream, CreditInv, TypeOK,
           Reserves, Held, OnTheWay
  <2>3. CASE q # r
    BY <1>4, <2>1, <2>3
       DEF TransportInv, RequestsInv, CreditInv, TypeOK, Reserves, Moved
  <2> QED
    BY <2>2, <2>3
<1>5. NobodyOversleeps'
  BY <1>0, NewStreamType
     DEF TransportInv, NobodyOversleeps, RequestsInv, PlaceInv, Unsent, TypeOK, Reserves, Moved
<1> QED
  BY <1>1, <1>2, <1>3, <1>4, <1>5 DEF TransportInv, RequestsInv

LEMMA ConnectsKeeps ==
  ASSUME TransportInv, NEW r \in Requests, Connects(r)
  PROVE  TransportInv'
<1>1. TypeOK'
  BY TransportAssumption DEF TransportInv, TypeOK, Connects, Moved, counts
<1>2. SlotsReturned'
  BY TransportAssumption
     DEF TransportInv, SlotsReturned, RequestsInv, PlaceInv, TypeOK, Connects, Moved
<1>3. ASSUME NEW q \in Requests PROVE PlaceInv(q)'
  BY <1>3 DEF TransportInv, RequestsInv, PlaceInv, SlotsReturned, TypeOK, Connects, Moved,
              Unsent
<1>4. ASSUME NEW q \in Requests PROVE CreditInv(q)'
  BY <1>4 DEF TransportInv, RequestsInv, CreditInv, TypeOK, Connects, Moved, Held, OnTheWay
<1>5. NobodyOversleeps'
  BY FS_EmptySet
     DEF TransportInv, NobodyOversleeps, RequestsInv, PlaceInv, TypeOK, Connects, Moved
<1> QED
  BY <1>1, <1>2, <1>3, <1>4, <1>5 DEF TransportInv, RequestsInv

-----------------------------------------------------------------------------
\* What the peer sends moves credit about, and whoever waits for it is woken.
Wakes(r, s, at) ==
  \/ at = StreamChanged(place, r) /\ s.window = stream[r].window /\ ~s.error
  \/ /\ at = ConnectionChanged(place)
     /\ s.headers = stream[r].headers /\ s.ended = stream[r].ended
     /\ s.chunks = stream[r].chunks /\ s.peerWindow = stream[r].peerWindow
     /\ ~s.error
  \/ at = ConnectionChanged(StreamChanged(place, r))

Balanced(r, s) ==
  /\ s.ended => s.headers
  /\ s.window <= s.body
  /\ s.chunks + s.credit + s.peerWindow
       = stream[r].chunks + stream[r].credit + stream[r].peerWindow
  /\ stream[r].ended => s.ended
  /\ ~s.ended /\ s.credit > 0 => place[r] = "deliver" \/ s.chunks > 0

LEMMA PeerKeeps ==
  ASSUME TransportInv, NEW r \in Requests, NEW s \in StreamType, NEW at,
         PeerSends(r, s, at), Balanced(r, s), Wakes(r, s, at)
  PROVE  TransportInv'
<1>1. TypeOK'
  BY DEF TransportInv, TypeOK, PeerSends, Wakes, ConnectionChanged, StreamChanged, counts
<1>2. SlotsReturned'
  BY DEF TransportInv, SlotsReturned, TypeOK, PeerSends, Wakes, ConnectionChanged,
         StreamChanged
<1>3. ASSUME NEW q \in Requests PROVE PlaceInv(q)'
  BY <1>3 DEF TransportInv, RequestsInv, PlaceInv, SlotsReturned, TypeOK, PeerSends, Wakes,
              ConnectionChanged, StreamChanged, Unsent
<1>4. ASSUME NEW q \in Requests PROVE CreditInv(q)'
  <2>1. CASE q = r
    BY <2>1 DEF TransportInv, RequestsInv, CreditInv, TypeOK, StreamType, PeerSends, Wakes,
                ConnectionChanged, StreamChanged, Balanced, Held, OnTheWay
  <2>2. CASE q # r
    BY <1>4, <2>2
       DEF TransportInv, RequestsInv, CreditInv, TypeOK, StreamType, PeerSends, Wakes,
           ConnectionChanged, StreamChanged, Held, OnTheWay
  <2> QED
    BY <2>1, <2>2
<1>5. NobodyOversleeps'
  BY DEF TransportInv, NobodyOversleeps, TypeOK, StreamType, PeerSends, Wakes,
         ConnectionChanged, StreamChanged
<1> QED
  BY <1>1, <1>2, <1>3, <1>4, <1>5 DEF TransportInv, RequestsInv

LEMMA ConsumedType ==
  ASSUME NEW r \in Requests, NEW s \in StreamType, s.chunks + s.credit + s.peerWindow < Window
  PROVE  /\ Consumed(s, r) \in StreamType
         /\ Consumed(s, r).chunks = s.chunks
         /\ Consumed(s, r).window = s.window /\ Consumed(s, r).body = s.body
         /\ Consumed(s, r).headers = s.headers /\ Consumed(s, r).ended = s.ended
         /\ Consumed(s, r).error = s.error
         /\ ~s.ended /\ r \notin lost =>
              /\ Consumed(s, r).credit + Consumed(s, r).peerWindow = s.credit + s.peerWindow + 1
              /\ Consumed(s, r).credit > 0 => s.chunks > 0
         /\ s.ended \/ r \in lost => Consumed(s, r) = s
<1> DEFINE sum == s.credit + 1
<1>1. CASE s.ended \/ r \in lost
  BY <1>1 DEF Consumed
<1>2. CASE ~(s.ended \/ r \in lost) /\ s.chunks > 0 /\ sum < Batch
  <2>1. Consumed(s, r) = [s EXCEPT !.credit = sum]
    BY <1>2 DEF Consumed
  <2> QED
    BY <1>2, <2>1, TransportAssumption DEF StreamType
<1>3. CASE ~(s.ended \/ r \in lost) /\ ~(s.chunks > 0 /\ sum < Batch)
  <2> DEFINE m == [s EXCEPT !.credit = 0]
  <2>1. /\ m \in StreamType /\ m.credit = 0 /\ m.peerWindow = s.peerWindow
        /\ m.chunks = s.chunks /\ m.window = s.window /\ m.body = s.body
        /\ m.headers = s.headers /\ m.ended = s.ended /\ m.error = s.error
    BY Sizes DEF StreamType
  <2>2. Consumed(s, r) = [m EXCEPT !.peerWindow = @ + sum]
    BY <1>3 DEF Consumed
  <2>3. sum \in Nat /\ s.credit \in Nat /\ s.chunks \in Nat /\ s.peerWindow \in Nat
    BY Sizes DEF StreamType
  <2> HIDE DEF m
  <2> QED
    BY <1>3, <2>1, <2>2, <2>3, Sizes DEF StreamType
<1> QED
  BY <1>1, <1>2, <1>3

LEMMA SpokenType ==
  ASSUME NEW c \in StreamType, c.coming > 0, c.peerWindow > 0
  PROVE  /\ Spoken(c) \in StreamType
         /\ Spoken(c).peerWindow + 1 = c.peerWindow
         /\ Spoken(c).chunks = c.chunks /\ Spoken(c).credit = c.credit
         /\ Spoken(c).window = c.window /\ Spoken(c).body = c.body
         /\ Spoken(c).headers = c.headers /\ Spoken(c).ended = c.ended
         /\ Spoken(c).error = c.error
<1> DEFINE m == [c EXCEPT !.coming = @ - 1]
<1>1. /\ m \in StreamType /\ m.peerWindow = c.peerWindow
      /\ m.chunks = c.chunks /\ m.credit = c.credit /\ m.window = c.window
      /\ m.body = c.body /\ m.headers = c.headers /\ m.ended = c.ended /\ m.error = c.error
  BY Sizes DEF StreamType
<1>2. Spoken(c) = [m EXCEPT !.peerWindow = @ - 1]
  BY DEF Spoken
<1> HIDE DEF m
<1> QED
  BY <1>1, <1>2, Sizes DEF StreamType

\* What is known of a stream the peer may send on.
LEMMA StreamFacts ==
  ASSUME TransportInv, NEW r \in Requests, r \in streams, ~stream[r].error
  PROVE  /\ stream[r] \in StreamType
         /\ r \notin lost
         /\ stream[r].ended => stream[r].headers
         /\ stream[r].window <= stream[r].body
         /\ ~stream[r].ended =>
              /\ stream[r].chunks + stream[r].credit + stream[r].peerWindow <= Window
              /\ stream[r].credit > 0 => place[r] = "deliver" \/ stream[r].chunks > 0
BY TransportAssumption
   DEF TransportInv, RequestsInv, CreditInv, SlotsReturned, TypeOK, StreamType, Held, OnTheWay

LEMMA PeerCorrect ==
  ASSUME TransportInv, NEW r \in Requests, Peer(r)
  PROVE  TransportInv'
<1>1. CASE PeerWindow(r)
  <2> DEFINE c == stream[r]
             s == [c EXCEPT !.window = @ + 1]
  <2>1. PeerSends(r, s, ConnectionChanged(place)) /\ r \in streams /\ ~c.error
    BY <1>1 DEF PeerWindow, PeerSends
  <2>2. /\ c \in StreamType /\ (c.ended => c.headers) /\ c.window <= c.body
        /\ ~c.ended => /\ c.chunks + c.credit + c.peerWindow <= Window
                       /\ c.credit > 0 => place[r] = "deliver" \/ c.chunks > 0
    BY <2>1, StreamFacts
  <2>3. s \in StreamType
    BY <1>1, <2>2, TransportAssumption DEF PeerWindow, StreamType, Speaks, Spoken
  <2>4. Balanced(r, s)
    BY <1>1, <2>2 DEF PeerWindow, Speaks, Spoken, Balanced, StreamType
  <2>5. Wakes(r, s, ConnectionChanged(place))
    BY <1>1, <2>1, <2>2 DEF PeerWindow, Spoken, Wakes, StreamType
  <2> HIDE DEF s
  <2> QED
    BY <2>1, <2>3, <2>4, <2>5, PeerKeeps
<1>2. CASE PeerHeaders(r)
  <2> DEFINE c == stream[r]
             s == [c EXCEPT !.headers = TRUE]
  <2>1. PeerSends(r, s, StreamChanged(place, r)) /\ r \in streams /\ ~c.error
    BY <1>2 DEF PeerHeaders, PeerSends
  <2>2. /\ c \in StreamType /\ (c.ended => c.headers) /\ c.window <= c.body
        /\ ~c.ended => /\ c.chunks + c.credit + c.peerWindow <= Window
                       /\ c.credit > 0 => place[r] = "deliver" \/ c.chunks > 0
    BY <2>1, StreamFacts
  <2>3. s \in StreamType
    BY <1>2, <2>2, TransportAssumption DEF PeerHeaders, StreamType, Speaks, Spoken
  <2>4. Balanced(r, s)
    BY <1>2, <2>2 DEF PeerHeaders, Speaks, Spoken, Balanced, StreamType
  <2>5. Wakes(r, s, StreamChanged(place, r))
    BY <1>2, <2>1, <2>2 DEF PeerHeaders, Spoken, Wakes, StreamType
  <2> HIDE DEF s
  <2> QED
    BY <2>1, <2>3, <2>4, <2>5, PeerKeeps
<1>3. CASE PeerData(r)
  <2> DEFINE c == stream[r]
             p == Spoken(c)
             s == [p EXCEPT !.chunks = @ + 1]
  <2>1. /\ PeerSends(r, s, StreamChanged(place, r)) /\ r \in streams /\ ~c.error
        /\ c.headers /\ ~c.ended /\ c.coming > 0 /\ c.peerWindow > 0
    BY <1>3 DEF PeerData, PeerSends, Speaks
  <2>2. /\ c \in StreamType /\ c.window <= c.body
        /\ c.chunks + c.credit + c.peerWindow <= Window
    BY <2>1, StreamFacts
  <2>3. /\ p \in StreamType /\ p.peerWindow + 1 = c.peerWindow
        /\ p.chunks = c.chunks /\ p.credit = c.credit /\ p.window = c.window
        /\ p.body = c.body /\ p.headers /\ ~p.ended /\ ~p.error
    BY <2>1, <2>2, SpokenType
  <2> HIDE DEF p
  <2>4. s \in StreamType
    BY <2>1, <2>2, <2>3, Sizes DEF StreamType
  <2>5. /\ s.chunks = c.chunks + 1 /\ s.credit = c.credit /\ s.peerWindow + 1 = c.peerWindow
        /\ s.window = c.window /\ s.body = c.body /\ s.headers /\ ~s.ended /\ ~s.error
        /\ {c.chunks, c.credit, c.peerWindow, s.peerWindow, c.window, c.body} \subseteq Nat
    BY <2>2, <2>3, Sizes DEF StreamType
  <2> HIDE DEF s
  <2>6. Balanced(r, s)
    BY <2>1, <2>2, <2>5 DEF Balanced
  <2>7. Wakes(r, s, StreamChanged(place, r))
    BY <2>5 DEF Wakes
  <2> QED
    BY <2>1, <2>4, <2>6, <2>7, PeerKeeps
<1>4. CASE PeerPadding(r)
  <2> DEFINE c == stream[r]
             p == Spoken(c)
             s == Consumed(p, r)
  <2>1. PeerSends(r, s, StreamChanged(place, r)) /\ r \in streams /\ ~c.error
    BY <1>4 DEF PeerPadding, PeerSends
  <2>2. /\ c \in StreamType /\ (c.ended => c.headers) /\ c.window <= c.body
        /\ r \notin lost
        /\ ~c.ended => /\ c.chunks + c.credit + c.peerWindow <= Window
                       /\ c.credit > 0 => place[r] = "deliver" \/ c.chunks > 0
    BY <2>1, StreamFacts
  <2>3. c.headers /\ ~c.ended /\ c.coming > 0 /\ c.peerWindow > 0
    BY <1>4 DEF PeerPadding, Speaks
  <2>4. /\ p \in StreamType /\ p.peerWindow + 1 = c.peerWindow
        /\ p.chunks = c.chunks /\ p.credit = c.credit /\ p.window = c.window
        /\ p.body = c.body /\ p.headers /\ ~p.ended /\ ~p.error
    BY <2>1, <2>2, <2>3, SpokenType
  <2> HIDE DEF p
  <2>5. /\ s \in StreamType /\ s.chunks = c.chunks /\ s.window = c.window /\ s.body = c.body
        /\ s.headers /\ ~s.ended /\ ~s.error
        /\ s.credit + s.peerWindow = c.credit + c.peerWindow
        /\ s.credit > 0 => c.chunks > 0
    <3>1. ~p.ended /\ r \notin lost /\ p \in StreamType
      BY <2>2, <2>4
    <3>2. p.credit \in Nat /\ p.peerWindow \in Nat /\ p.chunks \in Nat
      BY <2>4, Sizes DEF StreamType
    <3>3. p.chunks + p.credit + p.peerWindow < Window
      BY <2>2, <2>3, <2>4, <3>2, Sizes DEF StreamType
    <3> QED
      BY <2>4, <3>1, <3>2, <3>3, ConsumedType
  <2> HIDE DEF s
  <2>6. Balanced(r, s) /\ Wakes(r, s, StreamChanged(place, r))
    BY <1>4, <2>2, <2>5 DEF PeerPadding, Speaks, Balanced, Wakes, StreamType
  <2> QED
    BY <2>1, <2>5, <2>6, PeerKeeps
<1>5. CASE PeerEnds(r)
  <2> DEFINE c == stream[r]
             s == [c EXCEPT !.ended = TRUE]
  <2>1. PeerSends(r, s, StreamChanged(place, r)) /\ r \in streams /\ ~c.error
    BY <1>5 DEF PeerEnds, PeerSends
  <2>2. /\ c \in StreamType /\ (c.ended => c.headers) /\ c.window <= c.body
        /\ ~c.ended => /\ c.chunks + c.credit + c.peerWindow <= Window
                       /\ c.credit > 0 => place[r] = "deliver" \/ c.chunks > 0
    BY <2>1, StreamFacts
  <2>3. s \in StreamType
    BY <1>5, <2>2, TransportAssumption DEF PeerEnds, StreamType, Speaks, Spoken
  <2>4. Balanced(r, s)
    BY <1>5, <2>2 DEF PeerEnds, Speaks, Spoken, Balanced, StreamType
  <2>5. Wakes(r, s, StreamChanged(place, r))
    BY <1>5, <2>1, <2>2 DEF PeerEnds, Spoken, Wakes, StreamType
  <2> HIDE DEF s
  <2> QED
    BY <2>1, <2>3, <2>4, <2>5, PeerKeeps
<1>6. CASE PeerResets(r)
  <2> DEFINE c == stream[r]
             s == [c EXCEPT !.error = TRUE]
  <2>1. PeerSends(r, s, ConnectionChanged(StreamChanged(place, r))) /\ r \in streams /\ ~c.error
    BY <1>6 DEF PeerResets, PeerSends
  <2>2. /\ c \in StreamType /\ (c.ended => c.headers) /\ c.window <= c.body
        /\ ~c.ended => /\ c.chunks + c.credit + c.peerWindow <= Window
                       /\ c.credit > 0 => place[r] = "deliver" \/ c.chunks > 0
    BY <2>1, StreamFacts
  <2>3. s \in StreamType
    BY <1>6, <2>2, TransportAssumption DEF PeerResets, StreamType, Speaks, Spoken
  <2>4. Balanced(r, s)
    BY <1>6, <2>2 DEF PeerResets, Speaks, Spoken, Balanced, StreamType
  <2>5. Wakes(r, s, ConnectionChanged(StreamChanged(place, r)))
    BY <1>6, <2>1, <2>2 DEF PeerResets, Spoken, Wakes, StreamType
  <2> HIDE DEF s
  <2> QED
    BY <2>1, <2>3, <2>4, <2>5, PeerKeeps
<1> QED
  BY <1>1, <1>2, <1>3, <1>4, <1>5, <1>6 DEF Peer

-----------------------------------------------------------------------------
\* Steps of a request that move it and leave its stream alone.
Walks(r) == Ask(r) \/ Reuses(r) \/ Dials(r) \/ DialFails(r) \/ ReadsHeaders(r)

LEMMA WalksKeep ==
  ASSUME TransportInv, NEW r \in Requests, Walks(r)
  PROVE  TransportInv'
<1> USE DEF Walks, Ask, Reuses, Dials, DialFails, ReadsHeaders, Moved
<1>1. TypeOK'
  BY TransportAssumption DEF TransportInv, TypeOK, counts
<1>2. SlotsReturned'
  BY TransportAssumption DEF TransportInv, SlotsReturned, RequestsInv, PlaceInv, TypeOK
<1>3. UNCHANGED <<stream, streams, lost, connection, limit>>
  OBVIOUS
<1>4. ASSUME NEW q \in Requests PROVE PlaceInv(q)'
  BY <1>3, <1>4, TransportAssumption
     DEF TransportInv, RequestsInv, PlaceInv, CreditInv, SlotsReturned, TypeOK, Unsent
<1>5. ASSUME NEW q \in Requests PROVE CreditInv(q)'
  <2>1. OnTheWay(q)' = OnTheWay(q) /\ (place'[q] = "deliver" <=> place[q] = "deliver")
    BY <1>5 DEF TransportInv, TypeOK, OnTheWay
  <2> QED
    BY <1>3, <1>5, <2>1 DEF TransportInv, RequestsInv, CreditInv, TypeOK, Held
<1>6. NobodyOversleeps'
  BY <1>3 DEF TransportInv, NobodyOversleeps, RequestsInv, PlaceInv, CreditInv, TypeOK
<1> QED
  BY <1>1, <1>2, <1>4, <1>5, <1>6 DEF TransportInv, RequestsInv

LEMMA SendsKeeps ==
  ASSUME TransportInv, NEW r \in Requests, Sends(r)
  PROVE  TransportInv'
<1> USE DEF Sends, Moved
<1>0. /\ stream[r] \in StreamType /\ stream[r].window <= stream[r].body
      /\ place \in [Requests -> {"idle", "lock", "dial"} \cup Waits \cup Runs]
      /\ stream \in [Requests -> StreamType]
      /\ place[r] = "send" /\ r \notin lost /\ r \in streams
  BY DEF TransportInv, RequestsInv, PlaceInv, CreditInv, TypeOK
<1>1. CASE UNCHANGED stream
  <2>1. TypeOK'
    BY <1>1 DEF TransportInv, TypeOK, counts
  <2>2. SlotsReturned'
    BY <1>0, <1>1, TransportAssumption DEF TransportInv, SlotsReturned, TypeOK
  <2>3. ASSUME NEW q \in Requests PROVE PlaceInv(q)'
    BY <1>0, <1>1, <2>3 DEF TransportInv, RequestsInv, PlaceInv, Unsent
  <2>4. ASSUME NEW q \in Requests PROVE CreditInv(q)'
    BY <1>0, <1>1, <2>4 DEF TransportInv, RequestsInv, CreditInv, Held, OnTheWay
  <2>5. NobodyOversleeps'
    BY <1>0, <1>1 DEF TransportInv, NobodyOversleeps, StreamType
  <2> QED
    BY <2>1, <2>2, <2>3, <2>4, <2>5 DEF TransportInv, RequestsInv
<1>2. CASE /\ stream[r].body > 0 /\ stream[r].window > 0
           /\ stream' = [stream EXCEPT ![r].body = @ - 1, ![r].window = @ - 1]
           /\ UNCHANGED place
  <2> DEFINE m == [stream[r] EXCEPT !.body = @ - 1]
             s == [m EXCEPT !.window = @ - 1]
  <2>1. /\ m.window = stream[r].window /\ m.body = stream[r].body - 1 /\ m.ended = stream[r].ended
        /\ m.headers = stream[r].headers /\ m.error = stream[r].error
        /\ m.chunks = stream[r].chunks /\ m.credit = stream[r].credit
        /\ m.peerWindow = stream[r].peerWindow /\ m \in StreamType
    BY <1>0, <1>2, Sizes DEF StreamType
  <2>2. stream' = [stream EXCEPT ![r] = s]
    BY <1>0, <1>2
  <2> HIDE DEF m
  <2>3. /\ s.window <= s.body /\ s.ended = stream[r].ended /\ s.headers = stream[r].headers
        /\ s.error = stream[r].error /\ s.chunks = stream[r].chunks
        /\ s.credit = stream[r].credit /\ s.peerWindow = stream[r].peerWindow
        /\ s \in StreamType
    BY <1>0, <1>2, <2>1, Sizes DEF StreamType
  <2> HIDE DEF s
  <2>4. TypeOK'
    BY <1>2, <2>2, <2>3 DEF TransportInv, TypeOK, counts
  <2>5. SlotsReturned'
    BY <1>2 DEF TransportInv, SlotsReturned
  <2>6. ASSUME NEW q \in Requests PROVE PlaceInv(q)'
    BY <1>0, <1>2, <2>2, <2>3, <2>6 DEF TransportInv, RequestsInv, PlaceInv, Unsent
  <2>7. ASSUME NEW q \in Requests PROVE CreditInv(q)'
    <3>1. CreditInv(q) /\ streams' = streams /\ OnTheWay(q)' = OnTheWay(q)
          /\ place'[q] = place[q]
      BY <1>2 DEF TransportInv, RequestsInv, OnTheWay
    <3>2. /\ stream'[q].ended = stream[q].ended /\ stream'[q].headers = stream[q].headers
          /\ stream'[q].chunks = stream[q].chunks /\ stream'[q].credit = stream[q].credit
          /\ stream'[q].peerWindow = stream[q].peerWindow
      BY <1>0, <2>2, <2>3
    <3>3. stream'[q].window <= stream'[q].body
      BY <1>0, <2>2, <2>3, <3>1 DEF CreditInv
    <3>4. Held(q)' = Held(q)
      BY <3>1, <3>2 DEF Held
    <3> QED
      BY <3>1, <3>2, <3>3, <3>4 DEF CreditInv
  <2>8. NobodyOversleeps'
    BY <1>0, <1>2, <2>2, <2>3 DEF TransportInv, NobodyOversleeps
  <2> QED
    BY <2>4, <2>5, <2>6, <2>7, <2>8 DEF TransportInv, RequestsInv
<1> QED
  BY <1>1, <1>2

\* A reader sleeps only when all its window is with the peer again: what it had is read,
\* and nothing is held back.
LEMMA ReadsBodyKeeps ==
  ASSUME TransportInv, NEW r \in Requests, ReadsBody(r)
  PROVE  TransportInv'
<1>0. /\ stream[r] \in StreamType /\ stream \in [Requests -> StreamType]
      /\ place \in [Requests -> {"idle", "lock", "dial"} \cup Waits \cup Runs]
      /\ place[r] = "readBody" /\ ~stream[r].error
      /\ PlaceInv(r) /\ CreditInv(r)
  BY DEF ReadsBody, TransportInv, RequestsInv, TypeOK
<1>1. CASE /\ stream[r].chunks > 0
           /\ stream' = [stream EXCEPT ![r].chunks = @ - 1]
           /\ place' = Moved(r, "deliver")
           /\ UNCHANGED <<connection, lock, closing, limit, streams, lost, counts>>
  <2> DEFINE s == [stream[r] EXCEPT !.chunks = @ - 1]
  <2>1. /\ s.chunks = stream[r].chunks - 1 /\ s.credit = stream[r].credit
        /\ s.peerWindow = stream[r].peerWindow /\ s.window = stream[r].window
        /\ s.body = stream[r].body /\ s.headers = stream[r].headers
        /\ s.ended = stream[r].ended /\ s.error = stream[r].error /\ s \in StreamType
    BY <1>0, <1>1, Sizes DEF StreamType
  <2>2. stream' = [stream EXCEPT ![r] = s]
    BY <1>0, <1>1
  <2> HIDE DEF s
  <2>3. TypeOK'
    BY <1>0, <1>1, <2>1, <2>2 DEF TransportInv, TypeOK, counts, Moved
  <2>4. SlotsReturned'
    BY <1>0, <1>1, TransportAssumption DEF TransportInv, SlotsReturned, TypeOK, Moved
  <2>5. ASSUME NEW q \in Requests PROVE PlaceInv(q)'
    BY <1>0, <1>1, <2>1, <2>2, <2>5 DEF TransportInv, RequestsInv, PlaceInv, Unsent, Moved
  <2>6. ASSUME NEW q \in Requests PROVE CreditInv(q)'
    <3>1. CASE q = r
      <4>1. {stream[r].chunks, stream[r].credit, stream[r].peerWindow} \subseteq Nat
        BY <1>0, Sizes DEF StreamType
      <4>2. Held(r)' = s.chunks + s.credit + s.peerWindow + 1
        BY <1>0, <1>1, <2>2 DEF Held, OnTheWay, Moved
      <4>3. Held(r) = stream[r].chunks + stream[r].credit + stream[r].peerWindow
        BY <1>0, <4>1 DEF Held, OnTheWay
      <4>4. stream'[r] = s /\ place'[r] = "deliver" /\ streams' = streams
        BY <1>0, <1>1, <2>2 DEF Moved
      <4> QED
        BY <1>0, <2>1, <3>1, <4>1, <4>2, <4>3, <4>4 DEF CreditInv
    <3>2. CASE q # r
      BY <1>0, <1>1, <2>2, <2>6, <3>2
         DEF TransportInv, RequestsInv, CreditInv, Held, OnTheWay, Moved
    <3> QED
      BY <3>1, <3>2
  <2>7. NobodyOversleeps'
    BY <1>0, <1>1, <2>1, <2>2 DEF TransportInv, NobodyOversleeps, Moved
  <2> QED
    BY <2>3, <2>4, <2>5, <2>6, <2>7 DEF TransportInv, RequestsInv
<1>2. CASE /\ stream[r].chunks = 0
           /\ ~stream[r].ended
           /\ place' = Moved(r, "body")
           /\ UNCHANGED <<connection, lock, closing, limit, streams, lost, stream, counts>>
  <2>1. r \notin lost /\ r \in streams
    BY <1>0, <1>2 DEF PlaceInv
  <2>2. stream[r].peerWindow = Window
    BY <1>0, <1>2, <2>1, Sizes DEF CreditInv, Held, OnTheWay, StreamType
  <2>3. TypeOK'
    BY <1>0, <1>2 DEF TransportInv, TypeOK, counts, Moved
  <2>4. SlotsReturned'
    BY <1>0, <1>2, TransportAssumption DEF TransportInv, SlotsReturned, TypeOK, Moved
  <2>5. ASSUME NEW q \in Requests PROVE PlaceInv(q)'
    BY <1>0, <1>2, <2>1, <2>5 DEF TransportInv, RequestsInv, PlaceInv, Unsent, Moved
  <2>6. ASSUME NEW q \in Requests PROVE CreditInv(q)'
    BY <1>0, <1>2, <2>6 DEF TransportInv, RequestsInv, CreditInv, Held, OnTheWay, Moved
  <2>7. NobodyOversleeps'
    BY <1>0, <1>2, <2>1, <2>2 DEF TransportInv, NobodyOversleeps, Moved
  <2> QED
    BY <2>3, <2>4, <2>5, <2>6, <2>7 DEF TransportInv, RequestsInv
<1>3. CASE stream[r].chunks = 0 /\ stream[r].ended /\ Ends(r)
  BY <1>0, <1>3, EndsKeeps
<1> QED
  BY <1>1, <1>2, <1>3 DEF ReadsBody

LEMMA ResumesKeeps ==
  ASSUME TransportInv, NEW r \in Requests, Resumes(r)
  PROVE  TransportInv'
<1> DEFINE s == Consumed(stream[r], r)
<1>0. /\ stream[r] \in StreamType /\ stream \in [Requests -> StreamType]
      /\ place \in [Requests -> {"idle", "lock", "dial"} \cup Waits \cup Runs]
      /\ place[r] = "deliver" /\ place' = Moved(r, "readBody")
      /\ stream' = [stream EXCEPT ![r] = s]
      /\ UNCHANGED <<connection, lock, closing, limit, streams, lost, counts>>
      /\ PlaceInv(r) /\ CreditInv(r)
  BY DEF Resumes, TransportInv, RequestsInv, TypeOK
<1>1. /\ {stream[r].chunks, stream[r].credit, stream[r].peerWindow} \subseteq Nat
      /\ Held(r) = stream[r].chunks + stream[r].credit + stream[r].peerWindow + 1
  BY <1>0, Sizes DEF StreamType, Held, OnTheWay
<1>2. stream[r].chunks + stream[r].credit + stream[r].peerWindow < Window
  BY <1>0, <1>1, Sizes DEF CreditInv
<1>3. /\ s \in StreamType
      /\ s.chunks = stream[r].chunks /\ s.window = stream[r].window /\ s.body = stream[r].body
      /\ s.headers = stream[r].headers /\ s.ended = stream[r].ended /\ s.error = stream[r].error
      /\ ~stream[r].ended /\ r \notin lost =>
           /\ s.credit + s.peerWindow = stream[r].credit + stream[r].peerWindow + 1
           /\ s.credit > 0 => stream[r].chunks > 0
      /\ stream[r].ended \/ r \in lost => s = stream[r]
  BY <1>0, <1>2, ConsumedType
<1> HIDE DEF s
<1>4. TypeOK'
  BY <1>0, <1>3 DEF TransportInv, TypeOK, counts, Moved
<1>5. SlotsReturned'
  BY <1>0, TransportAssumption DEF TransportInv, SlotsReturned, TypeOK, Moved
<1>6. ASSUME NEW q \in Requests PROVE PlaceInv(q)'
  BY <1>0, <1>3, <1>6 DEF TransportInv, RequestsInv, PlaceInv, Unsent, Moved
<1>7. ASSUME NEW q \in Requests PROVE CreditInv(q)'
  <2>1. CASE q = r
    <3>1. Held(r)' = s.chunks + s.credit + s.peerWindow + 0
      BY <1>0 DEF Held, OnTheWay, Moved
    <3>2. stream'[r] = s /\ place'[r] = "readBody" /\ streams' = streams
      BY <1>0 DEF Moved
    <3>3. r \in streams => r \notin lost
      BY DEF TransportInv, SlotsReturned
    <3>4. {s.credit, s.peerWindow} \subseteq Nat
      BY <1>3, Sizes DEF StreamType
    <3> QED
      BY <1>0, <1>1, <1>3, <2>1, <3>1, <3>2, <3>3, <3>4, Sizes DEF CreditInv
  <2>2. CASE q # r
    BY <1>0, <1>7, <2>2
       DEF TransportInv, RequestsInv, CreditInv, Held, OnTheWay, Moved
  <2> QED
    BY <2>1, <2>2
<1>8. NobodyOversleeps'
  BY <1>0, <1>3 DEF TransportInv, NobodyOversleeps, Moved
<1> QED
  BY <1>4, <1>5, <1>6, <1>7, <1>8 DEF TransportInv, RequestsInv

LEMMA SettingsKeep ==
  ASSUME TransportInv, PeerSettings
  PROVE  TransportInv'
<1>1. TypeOK'
  BY TransportAssumption
     DEF TransportInv, TypeOK, PeerSettings, ConnectionChanged
<1>2. SlotsReturned'
  BY TransportAssumption DEF TransportInv, SlotsReturned, TypeOK, PeerSettings, ConnectionChanged
<1>3. ASSUME NEW q \in Requests PROVE PlaceInv(q)'
  BY <1>3 DEF TransportInv, RequestsInv, PlaceInv, TypeOK, PeerSettings, ConnectionChanged,
              Unsent
<1>4. ASSUME NEW q \in Requests PROVE CreditInv(q)'
  BY <1>4 DEF TransportInv, RequestsInv, CreditInv, TypeOK, PeerSettings, ConnectionChanged,
              Held, OnTheWay
<1>5. NobodyOversleeps'
  BY DEF TransportInv, NobodyOversleeps, TypeOK, PeerSettings, ConnectionChanged
<1> QED
  BY <1>1, <1>2, <1>3, <1>4, <1>5 DEF TransportInv, RequestsInv

LEMMA CloseKeeps ==
  ASSUME TransportInv, CloseAsked \/ Closes
  PROVE  TransportInv'
<1>1. CASE /\ UNCHANGED <<connection, lock, limit, streams, place, lost, stream, counts>>
           /\ CloseAsked \/ (Closes /\ connection # "live")
  <2>1. TypeOK'
    BY <1>1 DEF CloseAsked, Closes, TransportInv, TypeOK, counts
  <2>2. SlotsReturned'
    BY <1>1 DEF CloseAsked, Closes, TransportInv, SlotsReturned
  <2>3. NobodyOversleeps'
    BY <1>1 DEF TransportInv, NobodyOversleeps
  <2>4. RequestsInv'
    BY <1>1 DEF TransportInv, RequestsInv, PlaceInv, CreditInv, Unsent, Held, OnTheWay
  <2> QED
    BY <2>1, <2>2, <2>3, <2>4 DEF TransportInv
<1>2. CASE Closes /\ connection = "live"
  BY <1>2, FailKeeps DEF Closes
<1> QED
  BY <1>1, <1>2 DEF CloseAsked, Closes, counts

LEMMA StepCorrect ==
  ASSUME TransportInv, [Next]_vars
  PROVE  TransportInv'
<1>1. ASSUME NEW r \in Requests,
             Refused(r) \/ Raises(r) \/ TimesOut(r) \/ Cancelled(r)
      PROVE  TransportInv'
  BY <1>1, EndsKeeps DEF Refused, Raises, TimesOut, Cancelled
<1>2. ASSUME NEW r \in Requests, ReadTimesOut(r) PROVE TransportInv'
  BY <1>2, EndsKeeps, FailsWithKeeps DEF ReadTimesOut
<1>3. ASSUME NEW r \in Requests, WriteFails(r) PROVE TransportInv'
  BY <1>3, FailsWithKeeps DEF WriteFails
<1>4. ASSUME NEW r \in Requests, Peer(r) PROVE TransportInv'
  BY <1>4, PeerCorrect
<1>5. ASSUME NEW r \in Requests,
             Ask(r) \/ Reuses(r) \/ Dials(r) \/ DialFails(r) \/ ReadsHeaders(r)
      PROVE  TransportInv'
  BY <1>5, WalksKeep DEF Walks
<1>6. ASSUME NEW r \in Requests,
             Connects(r) \/ Reserves(r) \/ Sends(r) \/ ReadsBody(r) \/ Resumes(r)
      PROVE  TransportInv'
  BY <1>6, ConnectsKeeps, ReservesKeeps, SendsKeeps, ReadsBodyKeeps, ResumesKeeps
<1>7. CASE PeerSettings
  BY <1>7, SettingsKeep
<1>8. CASE ConnectionFails
  BY <1>8, FailKeeps DEF ConnectionFails, TransportInv, TypeOK, SlotsReturned, Fail
<1>9. CASE CloseAsked \/ Closes
  BY <1>9, CloseKeeps
<1>10. CASE UNCHANGED vars
  BY <1>10 DEF vars, TransportInv, TypeOK, SlotsReturned, NobodyOversleeps, RequestsInv,
               PlaceInv, CreditInv, Unsent, Held, OnTheWay
<1> QED
  BY <1>1, <1>2, <1>3, <1>4, <1>5, <1>6, <1>7, <1>8, <1>9, <1>10 DEF Next, Proceeds

LEMMA InvCorrect == Spec => []TransportInv
BY InitCorrect, StepCorrect, PTL DEF Spec

-----------------------------------------------------------------------------
\* The state of the transport stays within its types: credit below a batch, the peer's
\* window and what is buffered within STREAM_RECEIVE_WINDOW, however frames of data and
\* padding, reads and cancellations follow each other.
THEOREM TypeCorrect == Spec => []TypeOK
BY InvCorrect, PTL DEF TransportInv

\* A slot is given back by whoever leaves, on whichever path, and after aclose there is no
\* connection and no dial under way: release(), aclose() and the connect lock.
THEOREM SlotsCorrect == Spec => []SlotsReturned
BY InvCorrect, PTL DEF TransportInv

\* Nobody sleeps through what it waits for, and a reader that sleeps has returned all the
\* credit it holds: the two events, fail() and consumed().
THEOREM WakeupsCorrect == Spec => []NobodyOversleeps
BY InvCorrect, PTL DEF TransportInv

=============================================================================
