---------------------------- MODULE ServerLifecycle ----------------------------
(***************************************************************************)
(* The proxy inside a desktop application: _run in                         *)
(* src/proxy/tg_ws_proxy.py, the thread that runs it and the functions of  *)
(* src/utils/tray_common.py that start, stop and restart it.               *)
(*                                                                         *)
(* A run is one call of _run on a thread of its own, with a loop of its    *)
(* own; what _run keeps in globals is shared by all of them.  An actor is  *)
(* a thread that calls the tray's functions.  Bound: each run has at most  *)
(* one client at a time.  Of the pools it matters only whether they are    *)
(* open.                                                                   *)
(***************************************************************************)
EXTENDS Naturals, FiniteSets

CONSTANTS
  Runs,      \* proxy threads; a dead one may be used again
  Actors,    \* threads of the tray that stop and start the proxy
  None

ASSUME LifecycleAssumption == None \notin Runs /\ IsFiniteSet(Runs)

VARIABLES
  at,           \* where a run stands
  stop,         \* is the stop event of a run set?
  listener,     \* has it an open listening socket?
  client,       \* its client, see ClientStates
  tasks,        \* runs whose client's task is in _client_tasks
  h2,           \* the run that made cf_h2_pool, or None
  poolsOpen,    \* ws_pool and cf_worker_pool
  proxyThread,  \* _proxy_thread
  asyncStop,    \* the run whose loop and event are in _async_stop
  pc,           \* where an actor stands
  orphaned      \* history: has _proxy_thread lost a run that was alive?

runVars == <<at, stop, listener, client, tasks, h2, poolsOpen>>
trayVars == <<proxyThread, asyncStop, pc, orphaned>>
lifecycleVars == <<runVars, trayVars>>
allButPc == <<runVars, proxyThread, asyncStop, orphaned>>

\* "unseen" is a client whose task has not had its first step; "stuck" one whose task
\* was cancelled before it: nobody closes the connection.
ClientStates == {"none", "unseen", "served", "cancelled", "stuck"}

\* "dialog" shows the user why the start failed, "leftovers" cancels what is left on the
\* loop, and at "closed" the loop is closed.
Stages == {"dead", "new", "setup", "serving", "relisten", "pause", "gather", "drain",
           "h2", "dialog", "leftovers", "closed"}

Alive(r) == at[r] # "dead"

NoRun ==
  /\ at = [r \in Runs |-> "dead"]
  /\ stop = [r \in Runs |-> FALSE]
  /\ listener = [r \in Runs |-> FALSE]
  /\ client = [r \in Runs |-> "none"]
  /\ tasks = {}
  /\ h2 = None
  /\ poolsOpen = FALSE
  /\ proxyThread = None
  /\ asyncStop = None
  /\ orphaned = FALSE

Moves(r, from, to) == at[r] = from /\ at' = [at EXCEPT ![r] = to]

(***************************************************************************)
(* _run_proxy_thread and _run.                                             *)
(***************************************************************************)
LoopStarts(r) ==
  /\ Moves(r, "new", "setup")
  /\ asyncStop' = r
  /\ tasks' = {}
  /\ h2' = r
  /\ poolsOpen' = TRUE
  /\ UNCHANGED <<stop, listener, client, proxyThread, pc, orphaned>>

\* Variant: a new stop event for the new listener.
ListensAnew(r, from) ==
  /\ \A x \in Runs : ~listener[x]
  /\ Moves(r, from, "serving")
  /\ listener' = [listener EXCEPT ![r] = TRUE]
  /\ stop' = [stop EXCEPT ![r] = FALSE]
  /\ UNCHANGED <<client, tasks, h2, poolsOpen, trayVars>>

\* start_server: the port must not be a living listener's; it may be anybody's.
Listens(r, from) ==
  /\ \A x \in Runs : ~listener[x]
  /\ Moves(r, from, "serving")
  /\ listener' = [listener EXCEPT ![r] = TRUE]
  /\ UNCHANGED <<stop, client, tasks, h2, poolsOpen, trayVars>>

\* diagnose_listen_error has a message for some errors of the socket and none for others.
StartFails(r) ==
  /\ Moves(r, "setup", "dialog") \/ Moves(r, "setup", "leftovers")
  /\ UNCHANGED <<stop, listener, client, tasks, h2, poolsOpen, trayVars>>

\* The user closes the message, some time or never.
DialogDismissed(r) ==
  /\ Moves(r, "dialog", "leftovers")
  /\ UNCHANGED <<stop, listener, client, tasks, h2, poolsOpen, trayVars>>

\* Bound: one client at a time, of whichever run.
ClientComes(r) ==
  /\ listener[r]
  /\ client[r] = "none"
  /\ client' = [client EXCEPT ![r] = "unseen"]
  /\ tasks' = tasks \cup {r}
  /\ UNCHANGED <<at, stop, listener, h2, poolsOpen, trayVars>>

HandlerStarts(r) ==
  /\ client[r] = "unseen"
  /\ client' = [client EXCEPT ![r] = "served"]
  /\ UNCHANGED <<at, stop, listener, tasks, h2, poolsOpen, trayVars>>

ClientLeaves(r, state) ==
  /\ client[r] = state
  /\ client' = [client EXCEPT ![r] = "none"]
  /\ tasks' = tasks \ {r}
  /\ UNCHANGED <<at, stop, listener, h2, poolsOpen, trayVars>>

HandlerEnds(r) == ClientLeaves(r, "served")

\* A cancelled handler runs its finally clause, which closes the connection and waits for
\* what is buffered to be sent: as long as the client likes.
Unwinds(r) == ClientLeaves(r, "cancelled")

\* The other side closes a connection that has no handler.
StuckEnds(r) == ClientLeaves(r, "stuck")

\* The watchdog looks after an interval: a stop that is set by then comes first.
ListenerDies(r) ==
  /\ ~stop[r]
  /\ Moves(r, "serving", "relisten")
  /\ listener' = [listener EXCEPT ![r] = FALSE]
  /\ UNCHANGED <<stop, client, tasks, h2, poolsOpen, trayVars>>

\* Server.wait_closed returns; from Python 3.12 on not before the clients have gone.
ServerClosed(r) ==
  /\ Moves(r, "relisten", "pause")
  /\ UNCHANGED <<stop, listener, client, tasks, h2, poolsOpen, trayVars>>

Cancelled(state) ==
  CASE state = "unseen" -> "stuck"
    [] state = "served" -> "cancelled"
    [] OTHER -> state

\* The finally clause: every task in _client_tasks is cancelled, whose ever it is; a
\* task of another loop makes gather raise, the rest of the clause is skipped, and the
\* thread cancels what is left.
Finally(r, from) ==
  LET foreign == tasks \ {r} # {}
  IN /\ Moves(r, from, IF foreign THEN "leftovers" ELSE "gather")
     /\ listener' = [listener EXCEPT ![r] = FALSE]
     /\ client' = [x \in Runs |-> IF x \in tasks \/ (x = r /\ foreign)
                                  THEN Cancelled(client[x]) ELSE client[x]]
     /\ tasks' = {x \in tasks : client'[x] = "cancelled"}
     /\ UNCHANGED <<stop, h2, poolsOpen, trayVars>>

StopSeen(r) == stop[r] /\ Finally(r, "serving")

RelistenFails(r) == Finally(r, "pause")

Gathered(r) ==
  /\ client[r] # "cancelled"
  /\ Moves(r, "gather", "drain")
  /\ UNCHANGED <<stop, listener, client, tasks, h2, poolsOpen, trayVars>>

\* ws_pool.close() and cf_worker_pool.close() follow; their flags are set at once.
Drained(r) ==
  /\ Moves(r, "drain", "h2")
  /\ poolsOpen' = FALSE
  /\ UNCHANGED <<stop, listener, client, tasks, h2, trayVars>>

\* _run returns, and the thread cancels what is left.
H2Closes(r) ==
  /\ Moves(r, "h2", "leftovers")
  /\ h2' = None
  /\ client' = [client EXCEPT ![r] = Cancelled(@)]
  /\ tasks' = {x \in tasks : x # r \/ client'[r] = "cancelled"}
  /\ UNCHANGED <<stop, listener, poolsOpen, trayVars>>

LoopCloses(r) ==
  /\ client[r] # "cancelled"
  /\ Moves(r, "leftovers", "closed")
  /\ client' = [client EXCEPT ![r] = "none"]
  /\ tasks' = tasks \ {r}
  /\ UNCHANGED <<stop, listener, h2, poolsOpen, trayVars>>

\* Variant: _async_stop survives its loop.
ThreadEndsKeepingStop(r) ==
  /\ Moves(r, "closed", "dead")
  /\ stop' = [stop EXCEPT ![r] = FALSE]
  /\ UNCHANGED <<listener, client, tasks, h2, poolsOpen, trayVars>>

ThreadEnds(r) ==
  /\ Moves(r, "closed", "dead")
  /\ asyncStop' = None
  /\ stop' = [stop EXCEPT ![r] = FALSE]
  /\ UNCHANGED <<listener, client, tasks, h2, poolsOpen, proxyThread, pc,
                 orphaned>>

(***************************************************************************)
(* stop_proxy and start_proxy, called by an actor.                         *)
(***************************************************************************)
Goes(a, place) == pc' = [pc EXCEPT ![a] = place]

\* _proxy_thread is assigned, whatever it was.
Follows(thread) ==
  /\ proxyThread' = thread
  /\ orphaned' = (orphaned \/ (proxyThread # None /\ Alive(proxyThread)))

Forget == Follows(None)

\* Before there is a loop stop_proxy only forgets the thread.
StopWithoutLoop(a, next) ==
  /\ pc[a] = "stop"
  /\ asyncStop = None
  /\ Forget
  /\ Goes(a, next)
  /\ UNCHANGED <<runVars, asyncStop>>

StopSignals(a, next) ==
  /\ pc[a] = "stop"
  /\ asyncStop # None
  /\ at[asyncStop] # "closed"
  /\ stop' = [stop EXCEPT ![asyncStop] = TRUE]
  /\ Goes(a, IF proxyThread = None THEN next ELSE "join")
  /\ UNCHANGED <<at, listener, client, tasks, h2, poolsOpen, proxyThread, asyncStop,
                 orphaned>>

\* join(timeout=5) returns, for one reason or the other; the global is read again.
JoinReturns(a, next) ==
  /\ pc[a] = "join"
  /\ proxyThread # None
  /\ Forget
  /\ Goes(a, next)
  /\ UNCHANGED <<runVars, asyncStop>>

\* stop_proxy raises: the loop is closed and the thread has yet to say so, or another
\* actor forgot the thread.
StopRaises(a, next) ==
  /\ \/ pc[a] = "stop" /\ asyncStop # None /\ at[asyncStop] = "closed"
     \/ pc[a] = "join" /\ proxyThread = None
  /\ Goes(a, next)
  /\ UNCHANGED allButPc

\* stop_proxy; the caller goes on at next, or at failed.
Stops(a, next, failed) ==
  \/ StopWithoutLoop(a, next)
  \/ StopSignals(a, next)
  \/ JoinReturns(a, next)
  \/ StopRaises(a, failed)

\* Of the dead threads it does not matter which is used again.
Fresh(r) == at[r] = "dead" /\ r = CHOOSE x \in Runs : at[x] = "dead"

\* start_proxy does nothing beside a living thread or with a bad configuration; the thread
\* it starts otherwise is assigned later, with no lock in between.
StartTests(a) ==
  /\ pc[a] = "start"
  /\ \/ Goes(a, "idle")
     \/ (proxyThread # None => ~Alive(proxyThread)) /\ Goes(a, "spawn")
  /\ UNCHANGED allButPc

StartSpawns(a) ==
  /\ pc[a] = "spawn"
  /\ \E r \in Runs :
       /\ Fresh(r)
       /\ at' = [at EXCEPT ![r] = "new"]
       /\ Follows(r)
  /\ Goes(a, "idle")
  /\ UNCHANGED <<stop, listener, client, tasks, h2, poolsOpen, asyncStop>>

Starts(a) == StartTests(a) \/ StartSpawns(a)

\* The process ends, and every thread and every connection with it.
Vanishes(places) ==
  /\ at' = [r \in Runs |-> "dead"]
  /\ stop' = [r \in Runs |-> FALSE]
  /\ listener' = [r \in Runs |-> FALSE]
  /\ client' = [r \in Runs |-> "none"]
  /\ tasks' = {}
  /\ h2' = None
  /\ poolsOpen' = FALSE
  /\ proxyThread' = None
  /\ asyncStop' = None
  /\ pc' = places
  /\ orphaned' = FALSE

\* restart_proxy, from the menu or after new settings.
RestartAsked(a) ==
  /\ pc[a] = "idle"
  /\ Goes(a, "stop")
  /\ UNCHANGED allButPc

\* What a run goes on to do by itself: a stage ends in one of these ways or another.
Proceeds(r) ==
  \/ LoopStarts(r)
  \/ Listens(r, "setup") \/ StartFails(r)
  \/ Listens(r, "pause") \/ RelistenFails(r)
  \/ StopSeen(r)
  \/ client[r] = "none" /\ (ServerClosed(r) \/ Drained(r))
  \/ Gathered(r)
  \/ H2Closes(r)
  \/ LoopCloses(r)
  \/ ThreadEnds(r)

Happens(r) ==
  \/ ServerClosed(r)
  \/ Drained(r)
  \/ HandlerStarts(r)
  \/ HandlerEnds(r)
  \/ StuckEnds(r)
  \/ DialogDismissed(r)

Run(r) == Proceeds(r) \/ Unwinds(r) \/ Happens(r)

Disturbs(r) == ClientComes(r) \/ ListenerDies(r)

--------------------------------------------------------------------------------
LifecycleTypes ==
  /\ at \in [Runs -> Stages]
  /\ stop \in [Runs -> BOOLEAN]
  /\ listener \in [Runs -> BOOLEAN]
  /\ client \in [Runs -> ClientStates]
  /\ tasks \in SUBSET Runs
  /\ h2 \in Runs \cup {None}
  /\ poolsOpen \in BOOLEAN
  /\ proxyThread \in Runs \cup {None}
  /\ asyncStop \in Runs \cup {None}
  /\ orphaned \in BOOLEAN

\* The tray can stop the run there is, that one has its pools to itself while it serves,
\* and once it has ended nothing of it is left: no listener, no client, no task in
\* _client_tasks, no stop event to set in vain.  However clients come and go, the listener
\* dies, restarts overlap, and actors stop and start: as long as no assignment of
\* _proxy_thread has lost a living run, of a stop that came before there was a loop or
\* whose join gave up or joined another thread, or of a start beside another.
\* (_run, _run_proxy_thread, stop_proxy, start_proxy)
RunsAreClean ==
  ~orphaned =>
    /\ \A r \in Runs : Alive(r) => proxyThread = r
    /\ \A r \in Runs : at[r] \notin {"dead", "new"} <=> asyncStop = r
    /\ \A r \in Runs : at[r] = "serving" => poolsOpen /\ h2 = r
    /\ \A r \in Runs : ~Alive(r) =>
         ~listener[r] /\ client[r] = "none" /\ ~stop[r] /\ r \notin tasks

\* A client keeps its connection open, or does not read what is buffered for it; or the
\* user has not closed the message of a start that failed.
WaitsForOthers(r) ==
  \/ at[r] \in {"relisten", "drain"} /\ client[r] # "none"
  \/ at[r] \in {"gather", "leftovers"} /\ client[r] = "cancelled"
  \/ at[r] = "dialog"

\* A run that is told to stop ends, or stands at one of the three waits that somebody
\* else ends; a stop is lost in no stage, that of restoring the listener included.
\* (_run, _run_proxy_thread, stop_proxy)
StopHeard == \A r \in Runs : stop[r] ~> ~Alive(r) \/ WaitsForOthers(r)
================================================================================
