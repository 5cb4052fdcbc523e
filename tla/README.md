# HideSelf tgws: a verification development

TLA+ models of the proxy in `src/`, the TLC configurations that check them on
small instances, and TLAPS proofs of what holds on every instance. Definitions
are translated from the Python source; `PROJECT.json` maps each one to the lines
it stands for.

## 1. The system and its parts

The program is a local MTProto proxy. A Telegram client connects to it, the
handshake tells the data centre (DC) and whether the connection carries media,
and the proxy carries the traffic over a WebSocket to Telegram, over one of many
Cloudflare *fronts*, over a Cloudflare *worker*, over plain TCP, or, for media,
over HTTP/2 requests. Everything runs in one asyncio event loop, except a thread
that refreshes the list of fronts and the GUI.

| Part | State it keeps | Operations | Interacts with | What is hard | What makes it correct |
| --- | --- | --- | --- | --- | --- |
| HTTP/2 lane and channels, `cf_h2.py` `_HttpLane`, `_HttpChannel`, `bridge_h2` | lane: requests in flight, queued bytes, a condition; channel: pending tasks, bytes, send lock, replay history, reply queue | upload, request task, recovery, receive, close | many channels share a lane; bridge cancels, `close()` cancels and gathers | every await can be cancelled; values read before it go stale; two condition variables and a lock nest | limits never exceeded, books exact, no lost wakeup, teardown ends and leaves nothing |
| Reply delivery, `_run_request`, `receive`, `_fail` | bounded reply queue, reply bytes, transport error | queue a reply, fail, read | request tasks write, the bridge reads | replies arrive in parallel, failure races delivery | no reply twice or after the end; bounds; a failure reaches the reader |
| Replay history, `_recover`, `_trim_history` | retained packets with age, attempts, originals | remember, trim, choose, resend | shares slots with uploads | answers race resends | history bounded; nothing is sent after it was forgotten (not modelled, section 12) |
| HTTP/2 pool, `CfH2Pool` | lanes, locks per host, cool-downs | open, close | balancer, lanes | set-up times out or is cancelled while it holds a lock | one lane per host; a failed one is closed (not modelled, section 12) |
| HTTP/2 transport, `h2_transport.py` | streams, flow-control credit, GOAWAY | reserve, send, read loop, release | hyper-h2 (external) | the peer changes limits meanwhile | stream limit, credit returned, everyone woken on error |
| WebSocket pool, `pool.py` `_WsPool` | idle sockets, refill and rotation tasks, back-off | get, refill, rotate, reset, close | client sessions | background connects race reset and get | no socket leaks or is shared; size bound |
| Worker pool, `pool.py` `_CfWorkerPool` | the same, and a circuit breaker | the same, report | fallback | parallel failures of one outage | one step up the ladder per outage |
| Front balancer, `balancer.py` | cool-downs, failures, proven fronts, front per DC | offer, report success or failure, refresh | fallbacks, H2 pool, refresh thread | a dial lies between two offers; another thread rewrites the dictionaries | cool-downs respected, no front stranded, dials spread |
| Fallback routing, `bridge.py` | TCP back-off and single-flight marks | worker, front, TCP in order | balancer, pools | cancellation must release the mark | a destination has one connect in flight |
| Bridges, `bridge.py`, `raw_websocket.py` | two relay tasks per client, byte counts | relay, close | client and server sockets | either side ends first | nothing relayed after the end, both sides closed |
| Splitter, `bridge.py` `MsgSplitter` | partial packets of the upload stream | split, flush | WebSocket bridge | lengths in partly received headers | bytes in = bytes out, cut at packets |
| Client session, `tg_ws_proxy.py` | the client's socket, key streams, the bytes read beyond the init | handshake, pool or fallback, bridge | all of the above | ends and cancellation at every await; four key streams in two tasks | both directions intact, every path closes the client |
| Server lifecycle, `_run`, `event_loop.py`, `tray_common.py` | listener, client tasks, pools and stop event in globals, proxy thread | start, stop, watchdog, restart | everything | several threads stop and start through two globals; a join that gives up | a stop ends the run and leaves nothing to the next one |
| FakeTLS, `fake_tls.py` | record buffer | read, write records | client session | partial records | stream preserved |
| Updates and lock files, `utils/` | files on disk | install with rollback, take the instance lock | other processes | crash between two steps | the old program survives |
| Configuration, statistics, AES, GUI, packaging | settings, counters | | | | no protocol of their own |

The `hazards` of `PROJECT.json` give the lines at which these difficulties bite.

## 2. Modules

| Module | Of | With |
| --- | --- | --- |
| `H2Lane` | lanes, admission, cancellation, teardown | `MCH2Lane`, `H2LaneProofs` |
| `Balancer` | breaker, fallbacks, refresh thread | `MCBalancer`, `BalancerProofs` |
| `WsPool` | warm sockets; refill, rotation, reset, close | `MCWsPool`, `WsPoolProofs` |
| `CfWorkerPool` | the same over workers, with the breaker | `MCCfWorkerPool`, `CfWorkerPoolProofs` |
| `H2Delivery` | reply queue, reply buffers, failure path; implements `ReplyStream` | `MCH2Delivery`, `H2DeliveryProofs` |
| `ClientSession` | handshake, fallbacks, bridges; composes `MsgSplitter`, `FakeTls`, `RawWebSocket` | `MCClientSession`, `ClientSessionProofs` |
| `Desktop` | guard, update, menu; composes `ServerLifecycle`, the runs of the proxy | `MCDesktop`, `DesktopProofs` |
| `H2Transport` | one HTTP/2 connection: streams, flow control, read loop, release | `MCH2Transport`, `H2TransportProofs` |

The order is that in which they were written: first the shared state that every
media client depends on, then what all clients go through, then the application
around it. Components that meet have one run of the composition where what goes
wrong lies between them: a session's bytes pass TLS records, key streams, the
splitter and frames in one model, and the tray's threads meet the runs of the
proxy, the update and a second instance in another. Where a component only
depends on what another one returns (a session on the pools), the model has every
result the other may give.

Every safety property that a passing run checks is also proved for every value of
the constants, under the assumptions its section names. Liveness (the `PROPERTY`s
under a specification with fairness) is model-checked only: the provers know neither
fairness nor `ENABLED`. What is left to model is listed in section 12.

## 3. `H2Lane`: HTTP/2 lanes

One lane shared by several channels. A step is what asyncio runs between two
suspension points. Actors, and the variables that hold their control:

* the upload task of a channel (`up`): `ReadPacket`, `AcquireSendLock`,
  `AwaitChannelCapacity`, `AwaitLaneCapacity`, `Send`, `SendOnClosed`,
  `UploadGivesBack`, `UploadTimeout`, `CancelUpload` are `bridge_h2.upload`,
  `send`, `_send` and `_reserve`;
* the `_recover` task (`rec`): `RecoverTick` and `RoomMade` are one pass, that
  makes room for a waiting upload by cancelling an overdue request and sends at
  most one replay; `SlotFreed`, `ReplayLocked`, `RecoverGivesBack` continue it
  after its awaits; `CancelRecover` is the bridge;
* the request tasks (`phase`): `StartRequest` to `Answered`, `Failed`, `Unwind`,
  then `_finish_request`, which pops the request from its channel and afterwards
  awaits the lane (`ReleaseLater`, `ReleaseCancelled`);
* the bridge and `close()` (`bridge`, `closing`): stop, join, cancel everything
  pending, gather, and finish the requests that never started.

Before Python 3.12 `asyncio.wait_for` returns the result it already has although
its task is being cancelled, and `requires-python` allows 3.8; the comment at
`cf_h2.py:539` names this for `_recover`. The model has both: a cancelled upload
normally ends (`CancelUpload`), but one whose condition has just come true may
lose the cancellation (`UploadSurvives`), send and read on, while the bridge, which
cancels once, gathers it; a request that loses its cancellation inside the
transport simply goes on, since `BodySent`, `ResponseStarts`, `Answered` and `Failed`
do not ask whether it was cancelled.

`lane.capacity` is a FIFO lock (`ahead`) with a condition: an upload parked in
`wait_for` runs again only after a `notify_all`. `pending`, `pendingBytes`,
`inflight` and `queuedBytes` are the books; what really occupies the lane is
derived from the control of the tasks (`Occupied`), so that the properties can
compare the two.

Left out, each so that the model can do more than the code: time (a request may
be overdue or stale whenever somebody looks); which retained packet is due, its
attempts and budget (any: `_capacity_candidate` does not look at them either, so
that it may cancel an original whose attempts are used up and nothing sends it
again; see section 12); the reply queue and back-pressure
(`H2Delivery`). The flag and the notification of `lane.close()` are one step, as
are the two notifications of a release. The cancellation of a handler while it
runs `close()` itself at shutdown, and the reacquisition of the lock by a
cancelled `Condition.wait`, are not modelled.

Runs (`MCH2Lane`):

| Run | Instance | Shows |
| --- | --- | --- |
| `lane_contention` | 2 channels, one lane slot | the lane is not oversubscribed, no upload sleeps on free capacity or a closed lane, and a closed channel ends empty |
| `lane_channel` | 1 channel, 3 tasks, packets of 2 sizes, lane of 3 requests and 4 bytes, channel of 2 and 2, fairness | limits of requests, bytes and replays in flight; books exact; a failed or stopped channel is closed in the end, unless a lost cancellation leaves its bridge to a silent client |
| `lane_books` | as contention | *violated*: see findings |

Two channels and one slot are the smallest instance in which one actor waits for
another's slot, holds the send lock meanwhile and is cancelled; one channel with
three tasks has an upload, a replay and a request on their way out together. The
bounds are `Tasks` (requests alive together) and `Sizes`. Runs say
`CHECK_DEADLOCK FALSE` because a lane whose channels are all closed stops.

Fairness (`FairSpec`): a task that can run does, a gather whose tasks ended
returns, the `REQUEST_TIMEOUT` of an upload that stays parked expires, and a request
that was started ends, which is what `RequestsEnd` of `H2Transport` says under its
own timers. Nothing is assumed of the native client, and none of it forces a
cancellation to arrive where it may get lost. `TeardownCompletes` therefore has an
exception: an upload that outlived its cancellation and is reading from a client
that stays and says nothing holds its bridge until the lane closes.

Proofs (`H2LaneProofs`), for any finitely many channels and tasks, any positive
packet lengths (`upload` stops at an empty read) and any limits:

* `TypeCorrect`: `TypeOK`.
* `LaneCorrect`: `PendingAreLive` and `LaneNotOversubscribed`. The second is not
  inductive: a release may only give back what is counted once, so `LaneInv`
  adds that a task in the books of a channel is its own and not finished. Every
  action either keeps the occupants (`Keeps`), takes one slot (`Takes`) or gives
  one back (`GivesBack`); a lemma on cardinalities turns each into the bound.
* `RoomCorrect`: `ChannelBounded`. The capacity is tested before the wait for the
  lane; `SendLockKeepsRoom` (who is past the test holds the send lock, and there
  is room) carries the test across the wait.

`PendingAreLive` is a lemma of the inductive invariant and no property of a run.

* `WakeCorrect`: `NoLostLaneWakeup`. With `TypeOK` it is inductive: every step
  either wakes all who sleep, or (`WakesOrFills`) only fills the lane further, and
  an upload that goes to sleep has just found no room.
* `BooksCorrect`: `BytesAccounted`. What a set of requests weighs is the number of
  its bytes, a cardinality (`SumOver`), so that the lemmas `SumAdd`, `SumRemove` and
  `SumSubset` need no induction. `BooksInv` says whose a request is (`OwnersHold`),
  that a replay is pending (`ReplaysArePending`), what `close()` still waits for
  (`ClosingIsFinal`), that `pendingBytes` is the sum of the pending (`PendingSums`),
  that the room found by the test is there after the wait for the lane
  (`RoomIsKept`), and that the lane's books cover whatever occupies it, the
  requests on their way out included (`LoadCovered`).
* `ClosedCorrect`: `ClosedChannelIsEmpty`, from the same invariant.
* `ReplaysCorrect`: `ReplaysBounded`. `_recover` tests the number of replays, or
  cancels a stale one, and sends after further awaits. `ReplaysInv` adds that the
  slot it found is kept while it waits for the lane or for the replay it replaces
  (`SlotIsKept`), that what it gathers has started (`Replaced`), so that the gather
  returns only when that replay is out of `replay_pending`, and that `close()`
  finishes by itself only requests that never started (`CloseWaits`).

`LoadCovered` is an inequality, as `BytesAccounted` is: the first finding of
section 11 is a lane whose books stay above what occupies it. `TeardownCompletes`
is liveness, out of the prover's reach, and model-checked only.

## 4. `Balancer`: the circuit breaker over fronts

A fallback draws fronts from the generator `get_domains_for_dc` (`Begin`,
`GoesOn`, `GivesUp`): the candidates, in three tiers (the DC's front, proven,
unproven), are fixed when it starts, availability is looked up at each draw, and
a dial lies in between. `DialFails` reports the failure and resumes the
generator in the same step, as `_cfproxy_fallback` does; `DialSucceeds` reports
and makes the front the DC's; the HTTP/2 pool draws without reserving and
reports nothing (`H2Skips`, `H2Opens`); a cancelled fallback reports nothing.
Shuffles are nondeterministic. Deadlines are kept as the time that remains
(`rest`, counted down by `Tick`), so the clock needs no bound; `stamped` keeps
which keys the dictionary has.

The refresh thread (`InstallPool` ... `PruneHealthy`) is `update_domains_list`,
one step per assignment; each dictionary is read, then stored, and an entry that
the event loop changed in between is stored old or new. A key that came or went
in between raises in the comprehension (`RefreshDies`). With fronts given by the
user there is no refresh: `Pools` is empty. `owed` and `strays` are history
variables. Two refresh threads that overlap across a restart are not modelled.

| Run | Instance | Shows |
| --- | --- | --- |
| `balancer_breaker` | 3 fronts, 2 fallbacks, no refresh | cool-downs respected, fronts out no longer than earned, reserved dials of one front a hold apart |
| `balancer_refresh` | 2 fronts, one leaves and returns | state of departed fronts is forgotten, races included |
| `balancer_thread` | the code's proportions (unit: 6 s) | *violated*: see findings |

Times are scaled so that hold, cool-down and its cap differ and a dial may
outlive the hold; `DialLimit` bounds the longest dial, and `RefreshPeriod` need
only exceed the longest cool-down.

Proofs (`BalancerProofs`), for any fronts, fallbacks, data centres and times with
`TimeAssumption` (a hold is no longer than a cool-down, that than its cap) and
`LadderAssumption` (powers of two are positive integers, which the provers do
not know):

* `TypeCorrect`, with the refresh thread running;
* `BreakerCorrect` (`ReservedDialsSpaced`), `EarnedCorrect`
  (`OutNoLongerThanEarned`) and `CooldownCorrect` (`CooldownRespected`), when nothing
  refreshes the pool (`Pools = {}`: section 11 says why not more). The spacing of
  dials needs `HoldCovers`: until its hold is over, a reserved front is out for at
  least the rest of it or has proved to work; a failure keeps this because a
  cool-down is no shorter than a hold. `CooldownRespected` follows from `Owing`, which
  says the breaker never forgets part of a cool-down.
* `ForgetCorrect` (`DepartedForgotten`), with the refresh thread running and
  whatever fallbacks do between its assignments. `ForgetInv` says that a fallback
  holds no front outside the pool except those it held when the pool changed
  (`ReachesKept`), so that nothing departed is reported again, and that the deadlines,
  the counts and the proven fronts are rid of departed ones one after the other, as
  the thread passes its assignments.

## 5. `WsPool`: warm WebSocket connections

The pool of one key, through the life of the proxy. Actors:

* client sessions: `Hit`, `Miss` are `get`; `SessionEnds` closes the socket;
* refill tasks (`phase`): `StartRefill` computes what is needed, its dials are
  tasks of their own (`DialSucceeds`, `DialFails`), `Adopt` is one pass of the
  `as_completed` loop, `LoopEnds` sets or lifts the back-off, `CloseUnclaimed`
  and `EndRefill` are the `finally` clause, `CancelRefill` delivers a
  cancellation wherever the task stands;
* the rotation task (`Rotate`, `CancelRotation`) and the tasks that close stale
  sockets (`QuietClosed`);
* `_run`: `Start` (reset finds nothing, warmup schedules), `Close` and
  `CloseReturns`.

A socket that is too old and one whose peer has gone are both `stale`. How long a
back-off lasts, the order of the bucket and the choice between fronted and direct
dials are open. The test by which a refill finds that it was replaced
(`_refilling` names another one) and its early return when nothing is needed are
left out: `reset` cancels the refill it replaces, and a refill is created only
where the bucket has room and is its only supplier.

| Run | Instance | Shows |
| --- | --- | --- |
| `wspool` | 4 sockets, 2 refills, size 2, fairness | a socket has one owner, is open while it has one and is never lost; size bound; `close()` returns and leaves nothing; an empty pool fills if dials get through |

Size 2 is the smallest at which one dial of a refill is adopted while another is
under way; the second refill is that of a restart. `FairSpec` assumes that the
event loop runs what can run, that dials end (the connect time-out), that timers
expire, and, because the model has finitely many identities of sockets, that
sessions and background closes end. That the network works again is a premise of
`Refilled`, not an assumption.

Proofs (`WsPoolProofs`), for any pool size, sockets and refills: `TypeCorrect`;
`OwnersCorrect` (`Ownership`, that is `OneOwner`, `OwnedIsOpen`, `NothingLeaks` and
`ClosedIsClean`, together with `SingleFlight`) and `BoundCorrect` (`PoolBounded`). `OwnerInv` adds where tasks may be: `ControlInv`
(a cancelled refill is never in the dictionary, and exists only while `close()`
waits) and `HoldingInv` (a refill in its `finally` clause by itself has adopted
all it was given). Without the second, a refill that ends by a cancellation in
its `finally` clause would lose sockets. `BoundInv` counts the bucket together
with what the one live refill may still add.

## 6. `CfWorkerPool`: connections through workers

A dialler, the fallback of a session or the refill of a data centre, lists the
workers that do not rest once (`DialsNext`) and goes down its list: `DialFails`
and `RefillFails` report the failure and turn to the next worker in the same
step, as the loop does. `ReportFailure` has the four cases of the code: the
host's own network, an exhausted quota, a new outage, a further failure of the
outage being rested for. `rest` and `backoff` are the time that remains.
`TestSession` passes the pool by. A bucket holds one socket, so it is the worker
the socket goes through. `Restart` is one step: no session is left when the pool
closes.

| Run | Instance | Shows |
| --- | --- | --- |
| `worker_breaker` | 2 workers, 2 fallbacks, a refill, fairness | rests are earned, one outage costs one step, no failure shortens a rest, the bucket is filled again and again |

The times differ pairwise, and the cap cuts the ladder (3, then 5 instead of 6).
`RefillSteps` is where the refill back-off stops growing. `FairSpec` adds to the
event loop's fairness that sessions keep asking for the data centre: the pool is
only ever refilled on behalf of those who ask. `KeepsFilling` is about a proxy
that is not restarted any more.

Proofs (`CfWorkerPoolProofs`), for any workers, sessions, data centres and times
ordered as in `TimeAssumption`: `TypeCorrect`, `RestCorrect` (`RestIsEarned`),
`RestKept` (`RestsKept`) and `BucketCorrect`. A quota failure overwrites
the deadline without looking at it; that this never moves it earlier follows from
`RestIsEarned` (what is being rested for is at most what the counted failures
earn) and from the ladder being monotone (`LadderGrows`). `LadderAssumption` and
`RefillAssumption` state of powers of two what the provers do not know.

The two breakers differ: the worker's counts one outage once, the balancer's
counts each report. A socket from the bucket counts as a success of its worker,
although it was opened before the worker may have been set aside; it then ends a
rest that nothing has ended. The code means a hit to be a success, so no property
says otherwise.

## 7. `H2Delivery`: replies on their way to the client

`ReplyStream` is what a channel promises: replies are handed on in the order in
which they were accepted, few wait and of bounded length, the stream ends once,
what waits is dropped then, and a transport error may be told once, after the
end. `H2Delivery` is how the code does it:

* request tasks (`phase`): `Request` creates one, `StartRequest`,
  `ResponseStarted`, `ReadBody` and `Chunk` are `_post`, whose buffers share the
  bound of the lane; `Answered`, `RequestFails`, `RequestCancelled` end
  `_run_request` (they queue the reply, fail the channel or neither) together
  with the `finally` clause of `_post`; `FinishRequest` is the end of
  `_finish_request`;
* the bridge (`bridge`, `download`): `Receive`, `ReceiveRaises`, `Delivered`,
  `DownloadEnds` are the download task; `Recover` is a pass of the recovery task;
  `Stop`, `Gathered`, `Reported`, `CloseCancels`, `CloseReturns` are the rest of
  `bridge_h2` and `close()`; `Abort` is the cancellation of the handler.

`wakeup` is the event `recovery_wakeup`; `polled` is a history variable: has
`_recover` looked at the channel since it is idle? An exception in the queue is
the length 0, which no reply has. Left out: the admission of requests and the
locks of their release (`H2Lane`), which packets are sent again (any),
`lane.close()`, which runs the `close()` of each channel, and the exception's
kind beyond *transport error or not*. The test of `closed` after the queue
returns in `receive` finds nothing in the model: `_fail` empties the queue, so
that only the exception can come out once the channel is closed; this is part of
what is proved.

| Run | Instance | Shows |
| --- | --- | --- |
| `delivery` | 1 channel, 3 tasks, chunks of 1, packets up to 2, 3 bytes per lane and channel, queue of 2, fairness | the channel implements the reply stream; every way out of a request gives its buffer back; an idle channel is polled; a transport error reaches the client |

Channels meet only in the lane's buffer, and with respect to that buffer another
channel's request is a further task; three tasks fill the queue, with one left
that finds it full. Each limit is passed: the queue's length, the channel's bytes
(2 + 2), the lane's bytes and the packet's length. `CHECK_DEADLOCK FALSE`: a
closed channel stops. `FairSpec` assumes that the event loop ends the bridge once
one of its tasks has ended, delivers the cancellation of the download and resumes
the bridge after its gather; nothing of the network or the client.

Proofs (`H2DeliveryProofs`), for any channels, tasks, lengths and limits:

* `TypeCorrect`: `TypeOK`, bounds included. It is not inductive by itself: a
  cancellation must not reach a task that has begun to clean up (`DoomedAlive`),
  or a task that is free would be given back a second time.
* `StreamCorrect`: `ImplementsStream`. `StreamInv` says that the exception is in
  the queue of closed channels only, and alone, and that the error is told by a
  bridge that is past its gather. With it each step is one of the abstract
  stream's or a stutter: only `Fail` ends it (`FailIsEnd`), only `Answered`
  accepts, only `Receive` delivers, only `Gathered` tells.

* `BuffersCorrect`: `BuffersAccounted`, for finitely many requests at a time, which
  the lane's limit guarantees. The bytes of the queue and those of the lane's
  requests are cardinalities as in `H2Lane`. The tail of a queue holds the bytes of
  the rest (`QueueSumTail`: a bijection that shifts them by one place), an append adds
  those of the new reply. With the types of the variables the property is
  inductive.
* `PollCorrect`: `IdleIsPolled`. `PollInv` says it of each channel and adds that
  `close()` gathers its own requests only (`GatheredOwned`): a request that leaves
  while another channel closes still wakes its own. `BuffersCorrect` is needed for
  it: that the bytes queued are never negative is what makes a channel without
  replies an idle one.

`ErrorIsTold` is liveness and model-checked only.

## 8. `ClientSession`: from a client's first byte to its last

A session is the identity of a client, and `at` says where its handler stands:

* the handshake (`_read_client_init`): `ReadLine`, `ReadFirst`, `SendHello`,
  `ReadTlsInit`, `ReadInit`; a client that is not ours is relayed to the masking
  domain (`MaskDials`, `MaskRelayEnds`) or drained until it leaves;
* the pool (`PoolMiss`, or `SendInit` over a pooled socket) and the methods of
  `do_fallback` in their order: `H2Opens`, then worker and front (`Dials`,
  `UpgradeFails`, `MethodFails`, `Connects`), then TCP (`TcpConnects`,
  `TcpFails`) behind its single-flight mark and back-off, which `Tick` counts
  down;
* the relays (`Upload`, `UploadEnds`, `Download`, `DownloadTcp`, `RelayBreaks`),
  the end of a bridge and of the handler (`Close`); `Cancel` is the shutdown, at every
  await. A WebSocket bridge closes the server first (`LetsServerGo`, then `Unbridge`
  when `ws.close()` returns) and a TCP bridge the client first (`LetsClientGo`, then
  `UnbridgeTcp` when its `wait_closed()` does);
* `Restart` is `reset_tcp_backoff` of the next run.

What client and server say is a *script*; how the network cuts it is open: each
read returns any part of what is there. The bytes pass the codecs, three modules
of operators translated from their source: `MsgSplitter` (`split`, `flush` and
the lengths of abridged and intermediate packets), `FakeTls` (records read with a
buffer, records written in chunks), `RawWebSocket` (frames, fragments, control
frames, the limit on messages). A key stream is kept by its place: a byte is
enciphered as the triple of value, place and key, and whoever deciphers it at another
place gets `Garbage`. That is all AES-CTR has to do with the order of bytes.

| Run | Instance | Shows |
| --- | --- | --- |
| `session` | a client that talks (7 scripts; 3 more with a peer that does not read) and one that only connects (2), everything configured or nothing, one data centre, fairness | both directions arrive intact however they are cut, packets are framed one by one, a data centre is dialled by one session and its mark is never left behind, only the peer whose flush is awaited can make half of a connection stay |

Sizes are scaled down so that every boundary is crossed by a few bytes: a byte is
an octal digit (`High` is its flag bit), a long abridged length has one byte, an
intermediate one two, a frame's extended lengths start at 3 and 5, a message may
have 6 bytes, a record is written with at most 2 and read at most 3 at a time, the
init has 2. The scripts have the cases between which the code distinguishes: a
quick-acknowledge bit, a long header, a packet without length, one that does not
end, a change-cipher record, a record cut off, fragments with a ping between them,
a message and a frame over the limit, a close. The second client is there for what
sessions share, the TCP back-off, and says nothing.

`FairSpec` assumes that the event loop resumes a handler whose relays ended, and one
whose awaited flush is done. It assumes nothing of the handshake (a client may dawdle
there until it is timed out), and not that a peer reads: the waits at the end of a
bridge have no time-out (`bridge.py:460`, `465` and `510-513`,
`raw_websocket.py:234-239`). A script names the peers that are *deaf*, that neither read
nor leave; a step that waits for one of them (`HeldByPeer`) need not come. So
`SessionsEnd` says who can hold a session: the server of a WebSocket and the client of
a TCP connection, either of them when it is masked, and nobody else. The TCP case
keeps the server's socket open as long as the client stays away. At `"closing"` both
sockets are closed or given up; the handler's own wait for the client's last bytes
(`tg_ws_proxy.py:358-359`) is part of that place, and nothing is claimed of how long it
takes. A cancellation inside `ws.close()` leaves the server's socket either closed or
given up (`"lost"`), as the drain swallows it or not.

The model shows more than the properties say. The end of a FakeTLS connection
between two records raises `IncompleteReadError`, so that the splitter's tail is
dropped; a plain connection flushes it. An empty application record ends the
upload. A socket whose first send fails or is cancelled, whose server closes, or
whose `close()` is cancelled is left to the garbage collector (`"lost"`).

Proofs (`ClientSessionProofs`), for any sessions, scripts, addresses, lengths and
times: `DialsCorrect` (`DialsAccounted`), `UploadCorrect` (`UploadIntact`) and
`DownloadCorrect` (`DownloadIntact`).

*Dials.* `SessionInv` says that the marks are exactly the addresses of the sessions
that dial (`DialInv`), that no two of these dial one address, that none dials an
address that rests, and that a session that closes or has ended holds no open socket
(`SocketInv`). A session keeps the method TCP only with an address of its own
(`MethodTypes`), so every mark names a data centre. `DialBegins`, `DialEnds` and
`QuietDials` are what a step can do to the marks; a shutdown in the middle of a dial
is one of the ways it ends.

*Bytes.* The properties compare the two ends of a connection and are not inductive:
what the far end reads depends on what the codecs in between keep. `Conducts`
(`ConductsCorrect`) says place by place what that is, in `Standing`. On the way up
(`UpWs`, `UpTcp`): the reader of records is at a place of the client's stream that
its remaining length and its buffer agree with (`ReaderAt`), both key streams of the
upload have come exactly that far (`UpRun`), and what went out is frames whose
messages are consecutive cuts of the speech (`WentOut`), the rest of it being what
the splitter holds (`Holding`), cut at the ends of packets (`AtEndOf`). On the way
down (`DownWs`, `DownTcp`): what the server has yet to send begins at a frame, some
messages have been handed on whole, the fragments in hand are the ones after the last
of them (`Receiving`), and the client holds whole records that carry the same bytes
under its own key stream. A shutdown, an error or an end may come at every one of
those places.

Under it lie lemmas about the codecs, each for any bytes: what `Split` cuts off is
packets and what it keeps is the rest (`SplitEnabled`, `SplitDisabled`), what
`ReadClient` returns is the next bytes of the payload wherever the wire is cut
(`ReadClientIs`), a frame that was built is read back as it was, through both
extended lengths (`FrameRead`), `Recv` delivers the messages a script conveys
(`RecvStep`), and wrapped bytes are accepted records of the same payload
(`WrapIs`). The library's induction theorems take an operator as a parameter,
which the installed provers cannot instantiate; `Climb` and `Descend` state the
same for a set of numbers, and the recursive functions of the codecs are
determined with them, each by the set of the places where it has the value
claimed.

The assumptions are those on the constants: lengths and delays are positive
(`SplitterAssumption`, `FieldAssumption`, `ChunkAssumption`, `LengthAssumption`,
`SessionAssumption`), powers of two are numbers (`LadderAssumption`), and
`ScriptAssumption` says what a script is (`ScriptType`, `WellFormed`): the types of
what the model reads; that a record begins within what is sent; that the first
`whole` packets have the length they state, what comes after them being anything; and
which messages the frames are (`Conveys`): those that end with a final data frame,
up to a close or to more than the limit, wherever control frames stand between the
fragments. Every sequence of frames conveys exactly one sequence of messages, so
this leaves no server out. TLC evaluates the assumption for the scripts of the run.

`SessionsEnd` is liveness and model-checked only.

## 9. `Desktop` and `ServerLifecycle`: the application around the proxy

`ServerLifecycle` has the *runs*, each one call of `_run` in a thread of its own
(`at`): `LoopStarts`, `Listens`, `StartFails`, after which a message waits for the user
(`DialogDismissed`) or not; the clients' tasks (`ClientComes`, `HandlerStarts`,
`HandlerEnds`, `Unwinds`, `StuckEnds`); the watchdog (`ListenerDies`, `ServerClosed`,
`Listens` again, `RelistenFails`); the `finally` clause (`StopSeen`, then `Finally`,
`Gathered`, `Drained`, `H2Closes`); and the end of the thread, which cancels what is
left, closes the loop (`LoopCloses`) and forgets it (`ThreadEnds`). `tasks`, `h2`,
`poolsOpen`, `asyncStop` and `proxyThread` are the globals that all runs share. An
*actor* is a thread that calls `stop_proxy` (`StopWithoutLoop`, `StopSignals`,
`JoinReturns`, `StopRaises`) and `start_proxy`, which looks (`StartTests`) and assigns
(`StartSpawns`) in two steps, as the code has no lock in between.

`Desktop` composes them with the three kinds of actor there are: the main thread
(start and exit), the threads that restart, one per click (`RestartBegins`), and the
update's thread, which downloads, puts the new executable in place (`ExeMovedAway`,
`NewExeInPlace` on Windows, `ExeReplaced` on Linux), stops the proxy, gives the guard
up, launches, and rolls back where that fails. The guard is a mutex on Windows; on
Linux it is a lock file that is looked for and written in two steps. `Rival` is any
other start of the program. `Killed` is a crash, or the exit that is forced after
three seconds, at any moment.

The scan for lock files removes every one whose process `_same_process` does not
recognise. It recognises none in a program that is not frozen
(`docs/EN/README.linux.md:58-61` installs one), nor a process of another name, so a
*blind* scene is one where each instance removes the other's lock, living or not.

| Run | Instance | Shows |
| --- | --- | --- |
| `desktop` | two threads for the proxy, two that restart, an update, a rival; Windows, Linux and Linux blind; fairness | until the tray loses a living run, a run leaves nothing to the next one; the proxy runs beside another instance only after one of four things went wrong; a version is always on disk; a stop ends the run or says whom it waits for |

Two threads are enough for a run and the one that was lost before it; a dead thread is
used again. Each run has at most one client at a time. The run has six *scenes*
(`MCScenes`), each a platform and a cast, since the products of all of them would say no
more: two restarts that overlap, among clients and dying listeners; an update among
those, on each platform; an update, a restart and a rival, on each platform; an update
and a rival that do not recognise each other. A restart may be asked for at any time
the tray runs, and so may an update beside restarts. One bound on the user
(`UserIsIn`): nothing new is asked for once a run has been lost; what is under way goes
on. The theorems hold for any scenes. `CHECK_DEADLOCK FALSE`: after a crash between the
two steps of Windows' installation there is no executable to start (the backup is
there, and a person must rename it).

`FairSpec` assumes that a thread whose next step is due takes it, that a start or a
relisten succeeds or fails, and that closing the pools ends (section 5 shows it of
one). It assumes nothing of users and clients, and `StopHeard` names the
waits that only they end (`WaitsForOthers`): the message after a failed start, in which
the thread sits before it closes the loop (`tray_common.py:325-328`); a cancelled
handler that flushes its socket for a client that does not read
(`tg_ws_proxy.py:358-359`), in the `gather` or in the last one of the thread; and
`Server.wait_closed`, which on Python 3.12 and later waits for connected clients and on
earlier versions does not: the model has both (`ServerClosed` and `Drained` may come at
any time, and must come only when there is no client).

Simplified: the fallback to lock files when `CreateMutex` fails, the lock files of
dead processes (the next scan removes them), macOS and the console. Of `start_proxy`
the assignment of the thread and its `start()` are one step (a stop in between raises,
a start in between is one that has passed its test); of `stop_proxy` so are the test
and the unpacking of `_async_stop` (a run that ends in between makes it raise). That the
two instances recognise each other is the same in both directions.

`RunsAreClean` speaks of the time until an assignment of `_proxy_thread` has lost a run
that is alive (`orphaned`). There are these ways to it, which the model has:

* Two starts that both found no thread alive: two restarts whose stops and pauses
  coincide, or a restart and an update whose launch failed. Both start a thread, and the
  second assignment loses the first.
* A stop before there is a loop only forgets the thread, which then goes on.
* A join that gives up after five seconds: `stop_proxy` says so in the log and forgets
  the thread.
* Of two actors that stop at once, the second forgets the run that the first one has
  just started. (Or it finds the thread forgotten, or the loop closed, and raises, and
  its restart never starts the proxy; `docs/EN/README.windows.md:18`: "restart without
  exiting the application".)

What follows then the model has as well, and no property claims anything of it: a run
that was lost ends later, clears `_async_stop`, which is another run's by that time,
closes the pools that both share, and the other run's HTTP/2 pool; its `finally` clause
cancels the other run's clients, whose tasks are of another loop, so `gather` raises and
the rest of the clause is skipped. The other run's start in turn clears `_client_tasks`.
More that no property forbids:

* A relisten waits for all clients (Python 3.12 and later) and does not look at the
  stop event.
* A client whose task is cancelled before its first step (`"stuck"`) is never
  closed: `wait_closed` waits until it leaves by itself.
* An update whose `before_restart` raises rolls back with the guard still held by
  this very process; taking it again is refused, and the proxy stays stopped.
* On Linux a relaunch that fails keeps the new executable.
* The exit is forced after three seconds, the join before it waits for five.

`OneProxy` is about the instances, not the locks: the proxy of this one does not run
beside another. Its four exceptions are things the code does not prevent: `raced`, two
starts that both scan before either has written its file; `blind`; `orphaned`, a lost
run that goes on when the update has given the guard up; and `overlapped`, a restart
asked for while an update is being installed (it starts the proxy again after the
update has stopped it), an update installed while a restart is under way, or a restart
after the update was refused the guard. What is left is what the update must get
right, in any order of its failures, restarts before and after it, exits and rivals:
stop before it releases, and start again only with the guard in hand.

Proofs (`DesktopProofs`), for any number of threads and of actors that restart:
`TypeCorrect`, `CleanCorrect` (`RunsAreClean`), `ProxyCorrect` (`OneProxy`),
`DiskCorrect` (`ExeRecoverable`). `DesktopInv` adds to them what a run has of the
globals in each stage (`RunInv`, in `CleanInv`); that a start which has looked for
lock files counts like one that wrote its own (`GuardInv`); and that the place of
the update says what is on disk (`DiskInv`). Without the last, a rollback could put
back a backup that is not the version that runs. `ProxyInv` then says who may have
the proxy run: the main thread starts it before there is an update (`MainFirst`), a
start is about to happen only with the guard in hand (`StartsGuarded`), a restart that
met no update finds the guard where it was (`Apart`), and a run that is alive has the
guard, which is not about to be given up (`RunsGuarded`). The last one needs
`CleanInv`: `stop_proxy` has ended every run there is only if there was one at most
(`StopsLeaveNone`). `StopHeard` is liveness and model-checked only.

## 10. `H2Transport`: one HTTP/2 connection

The requests of `handle_async_request` share a connection, which is dialled under
`connect_lock` when there is none or it has failed. `place` says where a request
stands: it waits for the lock (`Reuses`, `Dials`, `Connects`, `DialFails`), for a
slot (`Reserves`), sends its body under the peer's window (`Sends`), waits for
headers and reads the body (`ReadsHeaders`, `ReadsBody`, `Resumes`, where
`Consumed` decides what credit goes back). `Ends` is `release`, on every way out:
`Raises`, `TimesOut`, `ReadTimesOut`, `WriteFails`, `Cancelled`. The peer, as
`read_loop` sees it, is `PeerSettings`, `PeerWindow`, `PeerHeaders`, `PeerData`,
`PeerPadding`, `PeerEnds`, `PeerResets`; `ConnectionFails` is GOAWAY, the end of the
stream or an error; `CloseAsked` and `Closes` are `aclose`. Setting an event moves
those that wait for it (`ConnectionChanged`, `StreamChanged`).

hyper-h2 is external and modelled by how it is used. The credit of the connection as
a whole is returned at once and not kept. `asyncio.wait_for` is that of Python 3.12,
which begins the wait at once; on older versions the wait begins a turn of the loop
later, and another task may clear the shared event in between.

| Run | Instance | Shows |
| --- | --- | --- |
| `transport` | 2 tasks, 3 requests, 2 slots, windows and batches of 2 frames, a body of 1, replies of up to 2, 2 changes of the limit, fairness | nobody sleeps through what he waits for or owes the peer credit meanwhile; slots belong to requests under way; nothing is left after `aclose`; a request ends whatever the peer does |

The limit may be lowered below what is in use (to 0 or 1); a window of two frames is
the smallest that holds credit back; the third request meets the connection the
first two left, dead or alive. Requests and SETTINGS are bounded because each
`changed` begins the waits for slots and windows anew: with endless ones a request
could wait for ever, and `RequestsEnd` is about finitely many. `FairSpec`: tasks run
and timers expire. `CHECK_DEADLOCK FALSE`: when all requests were made the model stops.

Proofs (`H2TransportProofs`), for any tasks, limits and sizes: `TypeCorrect`,
`SlotsCorrect` (`SlotsReturned`), `WakeupsCorrect` (`NobodyOversleeps`). The invariant
adds that where a request stands says what it has of the connection (`PlaceInv`), and
that the peer's window is accounted for (`CreditInv`): it is what the peer may use,
plus what lies here as chunks, in the reader's hands and as credit, and credit is
held back only while there is more to read. From this it follows that a reader which
waits owes the peer nothing. `RequestsEnd` is liveness and model-checked only.

## 11. Findings

* `lane_books`: a task cancelled while it waits for `lane.capacity` inside
  `_release` ends without giving its slot back. The lane's books stay positive
  after every channel closed, against what the tests assert of `close()`.
* `balancer_thread`: a key inserted or removed by the event loop while the
  refresh thread iterates ends that thread; the pool is not refreshed any more.

Further observations that no run claims, because nothing in the repository says
otherwise, stand in sections 6, 8 and 9, and three here. A failure that the event
loop reports between the refresh thread's read of a dictionary and its store is
overwritten, so the proofs of the cool-downs are about a pool that is not being
refreshed. The hold of an unproven front (12 s) covers the connect time-out, not
the handshake that follows, each line of which may take another 10 s; two
fallbacks may then wait on one front. And the workers are listed before the first
dial: one that another session sets aside meanwhile is dialled all the same.

## 12. What is not modelled

* **Replay history** (`_remember_packet`, `_trim_history`, `_replay_blocker`):
  arithmetic with a clock over the packets of one channel. `H2Lane` lets a recovery
  send any retained packet at any time, so its bounds hold for every choice; that
  the choice itself is right is not checked.
* **`CfH2Pool`**: a set-up under a lock per host. What comes of it enters the other
  models (`H2Opens` of `ClientSession`, `H2Skips` and `H2Opens` of `Balancer`,
  `H2Closes` of `ServerLifecycle`); the preflight, the hosts' cool-downs and the
  set-up time-out do not.
* **Data and I/O**: AES and key derivation, the HMAC and the bytes of the forged
  hello, parsing of addresses and versions, downloads, configuration files.
* **What nothing reads**: statistics, logging, diagnostics.
* **Presentation and packaging**: widgets, translations, icons, autostart, macOS and
  the console mode, build scripts and CI.

`components` of `PROJECT.json` has the same by source file.
