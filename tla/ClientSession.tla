----------------------------- MODULE ClientSession -----------------------------
(***************************************************************************)
(* A client session from its first byte to its last: _handle_client and    *)
(* the handshake in src/proxy/tg_ws_proxy.py, the fallbacks and the relays *)
(* in src/proxy/bridge.py, with the codecs they read and write through.    *)
(*                                                                         *)
(* A step is what asyncio runs between two suspension points.  A session   *)
(* is the identity of a client; when its handler has ended another client  *)
(* may take it.  What a client and the servers upstream send is fixed by a *)
(* script; how it is cut on the way is open.  The pools, the balancer and  *)
(* the bridge over HTTP/2 are modelled in modules of their own: here each  *)
(* of their operations has any of its results.                             *)
(***************************************************************************)
EXTENDS MsgSplitter, FakeTls, RawWebSocket

CONSTANTS
  Sessions,
  Scripts,       \* what the clients of a session may do and get, see ScriptType
  Configs,       \* proxy_config: records of BOOLEAN, see ConfigType
  Dsts,          \* addresses of data centres
  InitLen,       \* HANDSHAKE_LEN
  ReadSize,      \* 65536, the most one read of a client returns
  BackoffInitial, BackoffMax,   \* TCP_BACKOFF_INITIAL, TCP_BACKOFF_MAX
  BackoffSteps   \* 7, the doublings that are counted

ASSUME SessionAssumption ==
  /\ {InitLen, ReadSize, BackoffInitial, BackoffMax, BackoffSteps} \subseteq Nat \ {0}
  /\ None \notin Dsts

VARIABLES
  cfg,         \* proxy_config of this run of the proxy
  at,          \* where the handler of a session stands
  script,      \* what its client and its upstream do
  client,      \* is the client's socket open?
  upstream,    \* the socket to the server, see UpstreamStates
  wsClosed,    \* ws._closed
  methods,     \* methods do_fallback has still to try
  relays,      \* relay tasks that run
  conn,        \* buffers and wires, see NewConn
  connecting,  \* _tcp_connecting
  failures,    \* _tcp_failures, counted to BackoffSteps + 1, where it stops to matter
  retryIn      \* what remains of _tcp_retry_after

vars == <<cfg, at, script, client, upstream, wsClosed, methods, relays, conn,
          connecting, failures, retryIn>>
control == <<client, upstream, wsClosed, methods, relays>>
backoff == <<connecting, failures, retryIn>>

Handshake == {"line", "first", "hello", "tlsinit", "init"}
Fallback == {"worker", "h2open", "front", "tcp"}
Bridges == {"ws", "tcpbridge"}
Places == {"free", "draining", "maskdial", "masked", "pool", "send", "h2", "unbridge",
           "closing"} \cup Handshake \cup Fallback \cup Bridges

\* "lost" is a socket nobody closes: its end is left to the garbage collector.
UpstreamStates == {"none", "open", "closed", "lost"}

ConfigType == [masking : BOOLEAN, proxyLine : BOOLEAN, worker : BOOLEAN,
               cf : BOOLEAN, h2 : BOOLEAN]

Byte == 0..(2 * High - 1)

\* hello: what the client opens with; good: its secret and protocol tag are right;
\* records: the lengths of the TLS records it cuts its bytes into; packets: what it
\* sends after its init, the first whole of them well formed and complete; frames:
\* what a server sends over a WebSocket, and the messages they are, up to its close;
\* deaf: who in the end neither reads what waits for it nor leaves.
ScriptType(s) ==
  /\ s.hello \in {"tls", "forged", "other"}
  /\ s.good \in BOOLEAN
  /\ s.media \in BOOLEAN
  /\ s.test \in BOOLEAN
  /\ s.dst \in Dsts \cup {None}
  /\ s.proto \in {"abridged", "intermediate"}
  /\ s.records \in Seq(Nat)
  /\ s.packets \in Seq(Seq(Byte))
  /\ s.whole \in 0..Len(s.packets)
  /\ s.frames \in Seq([op : 0..(Fin - 1), fin : BOOLEAN, data : Seq(Byte)])
  /\ s.messages \in Seq(Seq(Byte))
  /\ s.deaf \subseteq {"client", "server"}

\* Where the records begin in the bytes that are cut.
Starts(lengths) ==
  LET from[i \in 1..Len(lengths)] == IF i = 1 THEN 0 ELSE from[i - 1] + lengths[i - 1]
  IN from

Data(frame) == frame.op \in {OP_CONT, OP_TEXT, OP_BINARY}

\* What the data frames after frame i and up to frame j carry.
DataOf(frames, i, j) ==
  FlattenSeq([k \in 1..(j - i) |-> IF Data(frames[i + k]) THEN frames[i + k].data ELSE <<>>])

\* The messages that frames are, one ending with frame ends[m]; after the last of them
\* the server closes, or sends more than is accepted, before it completes another.
Conveys(frames, messages) ==
  LET Whole(j)    == Data(frames[j]) /\ frames[j].fin
      Stops(i, j) == \/ frames[j].op = OP_CLOSE
                     \/ MaxMessage < Len(frames[j].data)
                     \/ Data(frames[j]) /\ MaxMessage < Len(DataOf(frames, i, j))
      Count       == Len(messages)
  IN \E ends \in [0..Count -> 0..Len(frames)] :
       /\ ends[0] = 0
       /\ \A m \in 1..Count :
            /\ ends[m - 1] < ends[m]
            /\ messages[m] = DataOf(frames, ends[m - 1], ends[m])
            /\ Whole(ends[m])
            /\ \A j \in (ends[m - 1] + 1)..ends[m] :
                 ~Stops(ends[m - 1], j) /\ (Whole(j) => j = ends[m])
       /\ \A j \in (ends[Count] + 1)..Len(frames) :
            Whole(j) => \E i \in (ends[Count] + 1)..j : Stops(ends[Count], i)

\* A packet has the length it says, a record begins in what is sent.
WellFormed(s) ==
  /\ \A i \in 1..s.whole :
       s.packets[i] # <<>> /\ NextPacketLen(s.proto, s.packets[i]) = Len(s.packets[i])
  /\ \A i \in DOMAIN s.records :
       Starts(s.records)[i] <= InitLen + Len(FlattenSeq(s.packets))
  /\ Conveys(s.frames, s.messages)

ASSUME ScriptAssumption ==
  \A s \in Sessions : \A c \in Scripts[s] : ScriptType(c) /\ WellFormed(c)

\* The doublings are numbers: what the provers know of no power.
ASSUME LadderAssumption == \A n \in 0 .. BackoffSteps : 2 ^ n \in Nat

(***************************************************************************)
(* Key streams: an enciphered byte carries its place and its key, and only *)
(* who reads it with that key at that place gets the byte.                 *)
(***************************************************************************)
CltUp   == 1   \* clt_dec and the client's encryptor
TgUp    == 2   \* tg_enc and the server's decryptor
TgDown  == 3   \* tg_dec
CltDown == 4   \* clt_enc
Garbage == 0 - 1

Encipher(key, from, plain) ==
  [i \in DOMAIN plain |-> <<plain[i], from + i - 1, key>>]

Decipher(key, from, cipher) ==
  [i \in DOMAIN cipher |->
     IF cipher[i][3] = key /\ cipher[i][2] = from + i - 1 THEN cipher[i][1] ELSE Garbage]

InitBytes == [i \in 1..InitLen |-> 0]

\* Cuts bytes into records of the given lengths; the length 0 stands for a
\* change-cipher record, and the last record may promise more than is sent.
InRecords(lengths, bytes) ==
  LET from == Starts(lengths)
  IN FlattenSeq([i \in 1..Len(lengths) |->
       IF lengths[i] = 0 THEN <<Record(CCS, 1), <<1, 0, 0>>>>
       ELSE <<Record(APPDATA, lengths[i])>>
              \o SubSeq(bytes, from[i] + 1, Min({from[i] + lengths[i], Len(bytes)}))])

ClientWire(s, tls) ==
  LET bytes == Encipher(CltUp, 0, InitBytes \o FlattenSeq(s.packets))
  IN IF tls THEN InRecords(s.records, bytes) ELSE bytes

\* The frames of the server, enciphered one after the other; control frames are not.
ServerWire(s) ==
  LET place(i) == IF Data(s.frames[i]) THEN Len(DataOf(s.frames, 0, i - 1)) ELSE 0
  IN FlattenSeq([i \in 1..Len(s.frames) |->
       EncodeFrame(s.frames[i].op, s.frames[i].fin,
                   Encipher(TgDown, place(i), s.frames[i].data))])

ServerBytes(s) ==
  Encipher(TgDown, 0, FlattenSeq([i \in 1..Len(s.frames) |-> s.frames[i].data]))

\* tls, left, buf: FakeTlsStream; wire: what the client sends and nobody has read;
\* dec, enc, tgDec, cltEnc: places of the four key streams (CryptoCtx); split, sp: is
\* there a splitter, and what it holds; eof: has the upload ended in good order;
\* sent: the wire to the server; served: what the server sends and nobody has read;
\* frag: ws._frag; got: the wire to the client.
NewConn ==
  [tls |-> FALSE, left |-> 0, buf |-> <<>>, wire |-> <<>>, dec |-> 0, enc |-> 0,
   tgDec |-> 0, cltEnc |-> 0, split |-> FALSE, sp |-> NewSplitter("abridged"),
   eof |-> FALSE, sent |-> <<>>, served |-> <<>>, frag |-> <<>>, got |-> <<>>]

Blank ==
  [hello |-> "other", good |-> FALSE, media |-> FALSE, test |-> FALSE, dst |-> None,
   proto |-> "abridged", records |-> <<>>, packets |-> <<>>, whole |-> 0,
   frames |-> <<>>, messages |-> <<>>, deaf |-> {}]

Init ==
  /\ cfg \in Configs
  /\ at = [s \in Sessions |-> "free"]
  /\ script = [s \in Sessions |-> Blank]
  /\ client = [s \in Sessions |-> FALSE]
  /\ upstream = [s \in Sessions |-> "none"]
  /\ wsClosed = [s \in Sessions |-> FALSE]
  /\ methods = [s \in Sessions |-> <<>>]
  /\ relays = [s \in Sessions |-> {}]
  /\ conn = [s \in Sessions |-> NewConn]
  /\ connecting = {}
  /\ failures = [d \in Dsts |-> 0]
  /\ retryIn = [d \in Dsts |-> 0]

--------------------------------------------------------------------------------
Goes(s, place) == at' = [at EXCEPT ![s] = place]
Set(s, c) == conn' = [conn EXCEPT ![s] = c]

\* The finally clause of _handle_client: the writer is closed, the locals are gone and
\* the socket upstream is as it was left.
Leaves(s, up) ==
  /\ Goes(s, "closing")
  /\ script' = [script EXCEPT ![s] = Blank]
  /\ client' = [client EXCEPT ![s] = FALSE]
  /\ upstream' = [upstream EXCEPT ![s] = up]
  /\ wsClosed' = [wsClosed EXCEPT ![s] = FALSE]
  /\ methods' = [methods EXCEPT ![s] = <<>>]
  /\ relays' = [relays EXCEPT ![s] = {}]
  /\ Set(s, NewConn)

(***************************************************************************)
(* The handshake: _read_client_init and _try_handshake.                    *)
(***************************************************************************)
Accept(s) ==
  /\ at[s] = "free"
  /\ \E c \in Scripts[s] : script' = [script EXCEPT ![s] = c]
  /\ client' = [client EXCEPT ![s] = TRUE]
  /\ Goes(s, IF cfg.proxyLine THEN "line" ELSE "first")
  /\ UNCHANGED <<cfg, upstream, wsClosed, methods, relays, conn, backoff>>

\* A line that is no PROXY header is dropped all the same.
ReadLine(s) ==
  /\ at[s] = "line"
  /\ Goes(s, "first")
  /\ UNCHANGED <<cfg, script, control, conn, backoff>>

ReadFirst(s) ==
  /\ at[s] = "first"
  /\ \/ /\ ~cfg.masking
        /\ Goes(s, "init")
        /\ Set(s, [conn[s] EXCEPT !.wire = ClientWire(script[s], FALSE)])
        /\ UNCHANGED <<script, control>>
     \/ /\ cfg.masking
        /\ script[s].hello # "other"
        /\ Goes(s, IF script[s].hello = "tls" THEN "hello" ELSE "maskdial")
        /\ UNCHANGED <<script, control, conn>>
     \/ /\ cfg.masking
        /\ script[s].hello = "other"
        /\ Leaves(s, "none")
  /\ UNCHANGED <<cfg, backoff>>

SendHello(s) ==
  /\ at[s] = "hello"
  /\ Goes(s, "tlsinit")
  /\ Set(s, [conn[s] EXCEPT !.tls = TRUE, !.wire = ClientWire(script[s], TRUE)])
  /\ UNCHANGED <<cfg, script, control, backoff>>

TryHandshakeUnsynced(s, c) ==
  IF script[s].good /\ (c.tls <=> script[s].hello = "tls")
  THEN /\ Goes(s, "pool")
       /\ Set(s, [c EXCEPT !.dec = InitLen, !.sp = NewSplitter(script[s].proto)])
  ELSE /\ Goes(s, "draining")
       /\ Set(s, c)

\* c is the connection once the init is read: with a right secret the contexts are
\* built, past the inits; with a wrong one the client is read until it ends.
TryHandshake(s, c) ==
  IF script[s].good /\ (c.tls <=> script[s].hello = "tls")
  THEN /\ Goes(s, "pool")
       /\ Set(s, [c EXCEPT !.dec = InitLen, !.enc = InitLen,
                           !.sp = NewSplitter(script[s].proto)])
  ELSE /\ Goes(s, "draining")
       /\ Set(s, c)

ReadInit(s) ==
  /\ at[s] = "init"
  /\ InitLen <= Len(conn[s].wire)
  /\ TryHandshake(s, [conn[s] EXCEPT !.wire = Drop(@, InitLen)])
  /\ UNCHANGED <<cfg, script, control, backoff>>

ReadTlsInit(s) ==
  /\ at[s] = "tlsinit"
  /\ \E p \in Payloads(conn[s].left, conn[s].wire) :
       LET buf == conn[s].buf \o p.data
           c   == [conn[s] EXCEPT !.left = p.left, !.wire = p.wire, !.buf = buf]
       IN \/ p.data = <<>> /\ Leaves(s, "none")
          \/ /\ p.data # <<>>
             /\ IF Len(buf) < InitLen THEN Set(s, c) /\ UNCHANGED at
                ELSE TryHandshake(s, [c EXCEPT !.buf = Drop(buf, InitLen)])
             /\ UNCHANGED <<script, control>>
  /\ UNCHANGED <<cfg, backoff>>

\* The client ends, resets the connection or is too slow.
HandshakeEnds(s) ==
  /\ at[s] \in Handshake \cup {"draining"}
  /\ Leaves(s, "none")
  /\ UNCHANGED <<cfg, backoff>>

\* proxy_to_masking_domain: each relay closes what it writes to when it ends.
MaskDials(s) ==
  /\ at[s] = "maskdial"
  /\ \/ /\ Goes(s, "masked")
        /\ upstream' = [upstream EXCEPT ![s] = "open"]
        /\ relays' = [relays EXCEPT ![s] = {"up", "down"}]
        /\ UNCHANGED <<script, client, wsClosed, methods, conn>>
     \/ Leaves(s, "none")
  /\ UNCHANGED <<cfg, backoff>>

MaskRelayEnds(s, r) ==
  /\ at[s] = "masked"
  /\ r \in relays[s]
  /\ \/ /\ relays[s] # {r}
        /\ relays' = [relays EXCEPT ![s] = @ \ {r}]
        /\ client' = [client EXCEPT ![s] = r = "up"]
        /\ upstream' = [upstream EXCEPT ![s] = IF r = "up" THEN "closed" ELSE "open"]
        /\ UNCHANGED <<at, script, wsClosed, methods, conn>>
     \/ relays[s] = {r} /\ Leaves(s, "closed")
  /\ UNCHANGED <<cfg, backoff>>

(***************************************************************************)
(* The way upstream: the pool, then do_fallback's methods in their order.  *)
(***************************************************************************)
Methods(s) ==
  (IF cfg.worker /\ script[s].dst # None THEN <<"worker">> ELSE <<>>)
    \o (IF cfg.cf /\ ~script[s].test THEN <<"cf">> ELSE <<>>)
    \o (IF script[s].dst # None THEN <<"tcp">> ELSE <<>>)

TcpRests(d) == 0 < retryIn[d]
TcpBlocked(d) == d \in connecting \/ 0 < retryIn[d]

\* From here to the next await; todo are the methods left, of which tcp is the last.
Tries(s, todo) ==
  LET next == CASE todo = <<>> -> "closing"
                [] todo # <<>> /\ todo[1] = "worker" -> "worker"
                [] todo # <<>> /\ todo[1] = "cf" ->
                     IF script[s].media /\ cfg.h2 THEN "h2open" ELSE "front"
                [] todo # <<>> /\ todo[1] = "tcp" ->
                     IF TcpBlocked(script[s].dst) THEN "closing" ELSE "tcp"
  IN /\ connecting' = IF next = "tcp" THEN connecting \cup {script[s].dst} ELSE connecting
     /\ \/ next = "closing" /\ Leaves(s, "none")
        \/ /\ next # "closing"
           /\ Goes(s, next)
           /\ methods' = [methods EXCEPT ![s] = Drop(todo, 1)]
           /\ UNCHANGED <<script, client, upstream, wsClosed, relays, conn>>
     /\ UNCHANGED <<cfg, failures, retryIn>>

PoolMiss(s) == at[s] = "pool" /\ Tries(s, Methods(s))

\* RawWebSocket.connect: the socket is open, and the upgrade asked for.
Dials(s) ==
  /\ at[s] \in {"worker", "front"}
  /\ upstream[s] = "none"
  /\ upstream' = [upstream EXCEPT ![s] = "open"]
  /\ UNCHANGED <<cfg, at, script, client, wsClosed, methods, relays, conn, backoff>>

Upgrading(s) == at[s] \in {"worker", "front"} /\ upstream[s] = "open"

\* Another answer, an empty one, none in time, or an error: the socket is closed, and
\* the next candidate dialled or the method given up.
UpgradeFails(s) ==
  /\ Upgrading(s)
  /\ upstream' = [upstream EXCEPT ![s] = "none"]
  /\ UNCHANGED <<cfg, at, script, client, wsClosed, methods, relays, conn, backoff>>

MethodFails(s) ==
  at[s] \in {"worker", "front"} /\ upstream[s] = "none" /\ Tries(s, methods[s])

\* A socket of the pool, a worker or a front.  The worker's bridge has no splitter.
Connects(s) ==
  /\ at[s] = "pool" \/ Upgrading(s)
  /\ Goes(s, "send")
  /\ upstream' = [upstream EXCEPT ![s] = "open"]
  /\ Set(s, [conn[s] EXCEPT !.split = at[s] # "worker"])
  /\ UNCHANGED <<cfg, script, client, wsClosed, methods, relays, backoff>>

\* CfH2Pool.open: a channel, None, or an exception when the pool is closed.
H2Opens(s) ==
  /\ at[s] = "h2open"
  /\ \/ Leaves(s, "none")
     \/ /\ \E place \in {"h2", "front"} : Goes(s, place)
        /\ UNCHANGED <<script, control, conn>>
  /\ UNCHANGED <<cfg, backoff>>

H2Ends(s) == at[s] = "h2" /\ Leaves(s, "none") /\ UNCHANGED <<cfg, backoff>>

InitToServer == Encipher(TgUp, 0, InitBytes)

SendInit(s) ==
  /\ at[s] = "send"
  /\ Goes(s, "ws")
  /\ relays' = [relays EXCEPT ![s] = {"up", "down"}]
  /\ Set(s, [conn[s] EXCEPT !.sent = BuildFrame(OP_BINARY, InitToServer),
                            !.served = ServerWire(script[s])])
  /\ UNCHANGED <<cfg, script, client, upstream, wsClosed, methods, backoff>>

\* The exception leaves the fallback, which tries nothing else and closes nothing.
SendInitFails(s) ==
  at[s] = "send" /\ Leaves(s, "lost") /\ UNCHANGED <<cfg, backoff>>

TcpConnects(s) ==
  LET d == script[s].dst
  IN /\ at[s] = "tcp"
     /\ Goes(s, "tcpbridge")
     /\ upstream' = [upstream EXCEPT ![s] = "open"]
     /\ relays' = [relays EXCEPT ![s] = {"up", "down"}]
     /\ Set(s, [conn[s] EXCEPT !.sent = InitToServer, !.served = ServerBytes(script[s])])
     /\ connecting' = connecting \ {d}
     /\ failures' = [failures EXCEPT ![d] = 0]
     /\ retryIn' = [retryIn EXCEPT ![d] = 0]
     /\ UNCHANGED <<cfg, script, client, wsClosed, methods>>

TcpDelay(n) == Min({BackoffInitial * 2^Min({n - 1, BackoffSteps}), BackoffMax})

TcpFails(s) ==
  LET d == script[s].dst
      n == Min({failures[d] + 1, BackoffSteps + 1})
  IN /\ at[s] = "tcp"
     /\ Leaves(s, "none")
     /\ connecting' = connecting \ {d}
     /\ failures' = [failures EXCEPT ![d] = n]
     /\ retryIn' = [retryIn EXCEPT ![d] = TcpDelay(n)]
     /\ UNCHANGED cfg

(***************************************************************************)
(* The relays of bridge_ws_reencrypt and _bridge_tcp_reencrypt.            *)
(***************************************************************************)
\* Every outcome of clt_reader.read: the connection afterwards and the data.
ReadClient(c) ==
  IF c.buf # <<>>
  THEN {[c    |-> [c EXCEPT !.buf = Drop(@, ReadSize)],
         data |-> SubSeq(c.buf, 1, Min({ReadSize, Len(c.buf)}))]}
  ELSE IF c.tls
  THEN {[c    |-> [c EXCEPT !.left = p.left, !.wire = p.wire, !.buf = Drop(p.data, ReadSize)],
         data |-> SubSeq(p.data, 1, Min({ReadSize, Len(p.data)}))] :
          p \in Payloads(c.left, c.wire)}
  ELSE {[c    |-> [c EXCEPT !.wire = Drop(@, k)],
         data |-> SubSeq(c.wire, 1, k)] : k \in 1..Min({ReadSize, Len(c.wire)})}

RelayEnds(s, r) == relays' = [relays EXCEPT ![s] = @ \ {r}]

Frames(parts) ==
  FlattenSeq([i \in DOMAIN parts |-> BuildFrame(OP_BINARY, parts[i])])

\* ws.send and ws.send_batch: they raise when the socket is closed.
SendParts(s, c, parts) ==
  IF parts # <<>> /\ wsClosed[s]
  THEN RelayEnds(s, "up") /\ Set(s, c)
  ELSE Set(s, [c EXCEPT !.sent = @ \o Frames(parts)]) /\ UNCHANGED relays

Upload(s) ==
  /\ "up" \in relays[s]
  /\ at[s] \in Bridges
  /\ \E r \in ReadClient(conn[s]) :
       LET plain  == Decipher(CltUp, r.c.dec, r.data)
           cipher == Encipher(TgUp, r.c.enc, plain)
           c      == [r.c EXCEPT !.dec = @ + Len(r.data), !.enc = @ + Len(r.data)]
           cut    == Split(c.sp, cipher, plain)
       IN /\ r.data # <<>>
          /\ IF at[s] = "tcpbridge"
             THEN Set(s, [c EXCEPT !.sent = @ \o cipher]) /\ UNCHANGED relays
             ELSE IF c.split THEN SendParts(s, [c EXCEPT !.sp = cut.sp], cut.parts)
             ELSE SendParts(s, c, <<cipher>>)
  /\ UNCHANGED <<cfg, at, script, client, upstream, wsClosed, methods, backoff>>

\* The client ends: read() returns nothing, and the splitter is flushed, or, between
\* two records, raises.
AtEnd(c) ==
  \/ \E r \in ReadClient(c) : r.data = <<>>
  \/ ReadClient(c) = {} /\ (c.tls => ~EndRaises(c.left, c.wire))

UploadEnds(s) ==
  LET c    == conn[s]
      tail == IF c.split THEN Flush(c.sp).parts ELSE <<>>
  IN /\ "up" \in relays[s]
     /\ at[s] \in Bridges
     /\ AtEnd(c)
     /\ Set(s, [c EXCEPT !.sp = IF c.split THEN Flush(@).sp ELSE @,
                         !.eof = tail = <<>> \/ ~wsClosed[s],
                         !.sent = IF wsClosed[s] THEN @ ELSE @ \o Frames(tail)])
     /\ RelayEnds(s, "up")
     /\ UNCHANGED <<cfg, at, script, client, upstream, wsClosed, methods, backoff>>

\* A reset on either side, or the end of the connection where more was expected.
RelayBreaks(s, r) ==
  /\ at[s] \in Bridges
  /\ r \in relays[s]
  /\ RelayEnds(s, r)
  /\ UNCHANGED <<cfg, at, script, client, upstream, wsClosed, methods, conn, backoff>>

\* What the client gets of data from upstream.
ToClient(c, data) ==
  LET cipher == Encipher(CltDown, c.cltEnc, Decipher(TgDown, c.tgDec, data))
  IN [c EXCEPT !.tgDec = @ + Len(data), !.cltEnc = @ + Len(data),
               !.got = @ \o (IF c.tls THEN WrapTlsRecord(cipher) ELSE cipher)]

DownloadTcp(s) ==
  /\ at[s] = "tcpbridge"
  /\ "down" \in relays[s]
  /\ \E k \in 1..Min({ReadSize, Len(conn[s].served)}) :
       Set(s, ToClient([conn[s] EXCEPT !.served = Drop(@, k)],
                       SubSeq(conn[s].served, 1, k)))
  /\ UNCHANGED <<cfg, at, script, control, backoff>>

\* One frame: ws.recv() and, if it delivers, the write to the client.
Download(s) ==
  LET wire == conn[s].served
      r    == Recv(conn[s].frag, wire)
      c    == [conn[s] EXCEPT !.served = Drop(wire, ReadFrame(wire).size), !.frag = r.frag]
      Answer(op) == Set(s, [c EXCEPT !.sent = @ \o BuildFrame(op, r.data)])
  IN /\ at[s] = "ws"
     /\ "down" \in relays[s]
     /\ wire # <<>>
     /\ \/ r.does = "deliver" /\ Set(s, ToClient(c, r.data)) /\ UNCHANGED <<relays, wsClosed>>
        \/ r.does = "skip" /\ Set(s, c) /\ UNCHANGED <<relays, wsClosed>>
        \/ r.does = "pong" /\ Answer(OP_PONG) /\ UNCHANGED <<relays, wsClosed>>
        \/ r.does = "raise" /\ Set(s, c) /\ RelayEnds(s, "down") /\ UNCHANGED wsClosed
        \/ r.does = "close" /\ Answer(OP_CLOSE) /\ RelayEnds(s, "down")
                            /\ wsClosed' = [wsClosed EXCEPT ![s] = TRUE]
     /\ UNCHANGED <<cfg, at, script, client, upstream, methods, backoff>>

AllEnded(s) == relays[s] = {}
OneEnded(s) == relays[s] # {"up", "down"}

\* The relays of _bridge_tcp_reencrypt are over: the client is closed, and flushed
\* before the server is closed.
LetsClientGo(s) ==
  /\ at[s] = "tcpbridge"
  /\ client[s]
  /\ client' = [client EXCEPT ![s] = FALSE]
  /\ relays' = [relays EXCEPT ![s] = {}]
  /\ UNCHANGED <<at, script, upstream, wsClosed, methods, conn>>

\* Those of bridge_ws_reencrypt are: ws.close() comes first.
LetsServerGo(s) ==
  /\ at[s] = "ws"
  /\ Goes(s, "unbridge")
  /\ relays' = [relays EXCEPT ![s] = {}]
  /\ UNCHANGED <<script, client, upstream, wsClosed, methods, conn>>

\* The bridge wakes when one relay has ended, and cancels the other.
EndRelays(s) ==
  /\ OneEnded(s)
  /\ LetsServerGo(s) \/ LetsClientGo(s)
  /\ UNCHANGED <<cfg, backoff>>

\* ws.close() returns at once if the peer closed first: its socket stays as it is.
\* Else it sends a close and flushes the socket, which takes a server that reads.
Unbridge(s) ==
  /\ at[s] = "unbridge"
  /\ Leaves(s, IF wsClosed[s] THEN "lost" ELSE "closed")
  /\ UNCHANGED <<cfg, backoff>>

\* The client has read or left, and the server is closed.
UnbridgeTcp(s) ==
  /\ at[s] = "tcpbridge"
  /\ ~client[s]
  /\ Leaves(s, "closed")
  /\ UNCHANGED <<cfg, backoff>>

(***************************************************************************)
(* The end of the handler, its cancellation by _run, and the clock.        *)
(***************************************************************************)
Close(s) ==
  /\ at[s] = "closing"
  /\ Goes(s, "free")
  /\ upstream' = [upstream EXCEPT ![s] = "none"]
  /\ UNCHANGED <<cfg, script, client, wsClosed, methods, relays, conn, backoff>>

\* The exception leaves through every finally clause on its way.  It does not pass
\* the send of the init, nor the drain inside ws.close(), with the socket closed.
Cancel(s) ==
  /\ at[s] \notin {"free", "closing"}
  /\ connecting' = IF at[s] = "tcp" THEN connecting \ {script[s].dst} ELSE connecting
  /\ \/ LetsServerGo(s) \/ LetsClientGo(s)
     \/ at[s] = "unbridge" /\ ~wsClosed[s] /\ Leaves(s, "closed")
     \/ at[s] \in {"send", "unbridge"} /\ Leaves(s, "lost")
     \/ /\ at[s] \notin {"ws", "send", "unbridge"}
        /\ at[s] = "tcpbridge" => ~client[s]
        /\ Leaves(s, IF upstream[s] = "none" THEN "none" ELSE "closed")
  /\ UNCHANGED <<cfg, failures, retryIn>>

Tick ==
  /\ \E d \in Dsts : 0 < retryIn[d]
  /\ retryIn' = [d \in Dsts |-> IF 0 < retryIn[d] THEN retryIn[d] - 1 ELSE 0]
  /\ UNCHANGED <<cfg, at, script, control, conn, connecting, failures>>

\* _run starts again, perhaps configured anew: reset_tcp_backoff.
Restart ==
  /\ \A s \in Sessions : at[s] = "free"
  /\ cfg' \in Configs
  /\ connecting' = {}
  /\ failures' = [d \in Dsts |-> 0]
  /\ retryIn' = [d \in Dsts |-> 0]
  /\ UNCHANGED <<at, script, control, conn>>

Handshakes(s) ==
  \/ Accept(s) \/ ReadLine(s) \/ ReadFirst(s) \/ SendHello(s)
  \/ ReadInit(s) \/ ReadTlsInit(s) \/ HandshakeEnds(s)
  \/ MaskDials(s) \/ \E r \in {"up", "down"} : MaskRelayEnds(s, r)

Falls(s) ==
  \/ PoolMiss(s) \/ Dials(s) \/ UpgradeFails(s) \/ MethodFails(s) \/ Connects(s)
  \/ H2Opens(s) \/ H2Ends(s)
  \/ SendInit(s) \/ SendInitFails(s) \/ TcpConnects(s) \/ TcpFails(s)

Relays(s) ==
  \/ Upload(s) \/ UploadEnds(s) \/ Download(s) \/ DownloadTcp(s)
  \/ \E r \in {"up", "down"} : RelayBreaks(s, r)

Ends(s) == EndRelays(s) \/ Unbridge(s) \/ UnbridgeTcp(s) \/ Close(s) \/ Cancel(s)

Next ==
  \/ \E s \in Sessions : Handshakes(s) \/ Falls(s) \/ Relays(s) \/ Ends(s)
  \/ Tick
  \/ Restart

Spec == Init /\ [][Next]_vars

\* Who awaits the flush of a socket waits for its peer, without a time-out.
AwaitsServer(s) == at[s] = "unbridge" /\ ~wsClosed[s]
AwaitsClient(s) == at[s] = "tcpbridge" /\ ~client[s]

HeldByPeer(s) ==
  \/ AwaitsServer(s) /\ "server" \in script[s].deaf
  \/ AwaitsClient(s) /\ "client" \in script[s].deaf
  \/ at[s] = "masked" /\ script[s].deaf # {}

\* The event loop resumes a handler whose relays ended, and one whose peer has read
\* or left; the second relay of a masked connection reads the end of the socket that
\* the first one closed, once both peers let it.  That a peer does is its own affair.
FairSpec ==
  /\ Spec
  /\ \A s \in Sessions :
       /\ WF_vars(EndRelays(s))
       /\ WF_vars(~HeldByPeer(s) /\ Unbridge(s))
       /\ WF_vars(~HeldByPeer(s) /\ UnbridgeTcp(s))
       /\ \A r \in {"up", "down"} :
            WF_vars(~HeldByPeer(s) /\ MaskRelayEnds(s, r) /\ relays[s] # {"up", "down"})

--------------------------------------------------------------------------------
TypeOK ==
  /\ cfg \in Configs
  /\ at \in [Sessions -> Places]
  /\ \A s \in Sessions : ScriptType(script[s])
  /\ client \in [Sessions -> BOOLEAN]
  /\ upstream \in [Sessions -> UpstreamStates]
  /\ wsClosed \in [Sessions -> BOOLEAN]
  /\ relays \in [Sessions -> SUBSET {"up", "down"}]
  /\ connecting \in SUBSET Dsts
  /\ failures \in [Dsts -> 0..(BackoffSteps + 1)]
  /\ retryIn \in [Dsts -> 0..BackoffMax]

\* A peer's view: the frames of a wire, read one after the other; one that the wire
\* does not hold whole is the last.
FramesOf(wire) ==
  LET from[i \in 0..Len(wire)] ==
        IF i = Len(wire) THEN <<>>
        ELSE LET f == ReadFrame(Drop(wire, i))
             IN <<f>> \o (IF f.size \in 1..(Len(wire) - i) THEN from[i + f.size] ELSE <<>>)
  IN from[0]

\* What the messages of a wire carry.
Messages(wire) ==
  LET fs == FramesOf(wire)
  IN FlattenSeq([i \in DOMAIN fs |-> IF fs[i].op = OP_BINARY THEN <<fs[i].data>> ELSE <<>>])

\* Is a wire a sequence of whole records that a client accepts?
InAppData(wire) ==
  LET heads   == {i \in DOMAIN wire : wire[i][3] = Plain}
      next(i) == i + 1 + wire[i][1]
  IN /\ wire = <<>> \/ 1 \in heads
     /\ \A i \in heads :
          /\ wire[i][1] \in 1..AppDataMax /\ wire[i] = Record(APPDATA, wire[i][1])
          /\ next(i) \in heads \cup {Len(wire) + 1}
          /\ \A j \in (i + 1)..(next(i) - 1) : j \notin heads

Payload(wire) ==
  FlattenSeq([i \in DOMAIN wire |-> IF wire[i][3] = Plain THEN <<>> ELSE <<wire[i]>>])

Said(s) == InitBytes \o FlattenSeq(script[s].packets)

\* The server reads, with its own key streams, what the client said and nothing else:
\* through TLS records, however the network cuts them, two key streams, the splitter
\* and frames with pongs in between.  A frame is a packet of the client, but for the
\* tail of an upload that ended, and after a packet without length.  An upload that
\* ended in good order left nothing behind.
\* (tcp_to_ws, forward, MsgSplitter.split, FakeTlsStream.read, _build_frame)
UploadIntact ==
  \A s \in Sessions :
    LET parts == Messages(conn[s].sent)
        bytes == IF at[s] = "tcpbridge" THEN conn[s].sent ELSE FlattenSeq(parts)
        plain == Decipher(TgUp, 0, bytes)
    IN at[s] \in {"ws", "tcpbridge", "unbridge"} =>
         /\ IsPrefix(plain, Said(s))
         /\ conn[s].eof => Len(plain) = conn[s].enc
         /\ at[s] # "tcpbridge" =>
              /\ parts[1] = InitToServer
              /\ conn[s].split =>
                   \A i \in 1..Min({Len(parts) - 1, script[s].whole}) :
                     \/ Len(parts[i + 1]) = Len(script[s].packets[i])
                     \/ conn[s].eof /\ i = Len(parts) - 1

\* The client reads what the server said and nothing else, in records it accepts, and
\* all of it if the server closed in good order, whatever the client did meanwhile.
\* (ws_to_tcp, forward, RawWebSocket.recv, wrap_tls_record)
DownloadIntact ==
  \A s \in Sessions :
    LET c     == conn[s]
        plain == Decipher(CltDown, 0, IF c.tls THEN Payload(c.got) ELSE c.got)
        said  == IF at[s] = "tcpbridge"
                 THEN FlattenSeq([i \in DOMAIN script[s].frames |-> script[s].frames[i].data])
                 ELSE FlattenSeq(script[s].messages)
    IN at[s] \in {"ws", "tcpbridge", "unbridge"} =>
         /\ IsPrefix(plain, said)
         /\ c.tls => InAppData(c.got)
         /\ at[s] = "ws" /\ wsClosed[s] => plain = said

\* Every variable has its type, the delays of the backoff their limit among them.  A
\* data centre is dialled by one session, never while it is rested for, and its mark
\* is gone when that session does anything else, however it got there; and a session
\* that has ended, while it dials or later, leaves no connection open.
\* (_tcp_fallback, _tcp_connecting, RawWebSocket.connect)
DialsAccounted ==
  /\ TypeOK
  /\ connecting = {script[s].dst : s \in {t \in Sessions : at[t] = "tcp"}}
  /\ \A s, t \in Sessions :
       at[s] = "tcp" /\ at[t] = "tcp" /\ script[s].dst = script[t].dst => s = t
  /\ \A s \in Sessions : at[s] = "tcp" => retryIn[script[s].dst] = 0
  /\ \A s \in Sessions : at[s] \in {"free", "closing"} => upstream[s] # "open"

\* When one of its two relays has ended, whichever it was and whatever the other one
\* is doing, the session ends and both its sockets are closed or given up.  Only one
\* peer can hold half of the connection by neither reading nor leaving: the server
\* behind a WebSocket, the client of a TCP connection (either, when masked); the other
\* one cannot.
\* (bridge_ws_reencrypt, RawWebSocket.close, _bridge_tcp_reencrypt,
\* proxy_to_masking_domain)
SessionsEnd ==
  \A s \in Sessions :
    at[s] \in Bridges \cup {"masked"} /\ relays[s] # {"up", "down"}
      ~> \/ at[s] = "closing" /\ ~client[s] /\ upstream[s] # "open"
         \/ HeldByPeer(s)
================================================================================
