------------------------------- MODULE WsPool -------------------------------
(***************************************************************************)
(* The pool of warm WebSocket connections, _WsPool of src/proxy/pool.py,   *)
(* for one key (data centre, media, test), through the life of the proxy:  *)
(* reset and warmup when it starts, get by client sessions, close() when   *)
(* it stops, after the sessions have ended, and another start.             *)
(*                                                                         *)
(* Connections are made by refill tasks, each with a task per dial, and    *)
(* looked after by a rotation task.  A step is what asyncio runs between   *)
(* two suspension points.  Ages and dead peers are one thing, a stale      *)
(* socket; how long a back-off lasts, the order of the bucket and the      *)
(* choice between fronted and direct dials are left open.                  *)
(*                                                                         *)
(* The test of _refill that _refilling still names it is not modelled:     *)
(* reset also cancels the refill, so it never gets there.                  *)
(***************************************************************************)
EXTENDS Integers, FiniteSets

CONSTANTS
  Sockets,   \* identities of connections alive at one time
  Refills,   \* identities of refill tasks alive at one time
  PoolSize,  \* proxy_config.pool_size
  None

ASSUME PoolAssumption ==
  /\ IsFiniteSet(Sockets)
  /\ PoolSize \in Nat \ {0}
  /\ None \notin Refills

VARIABLES
  stage,      \* of the proxy: "serving", "closing" (in close()), "stopped"
  network,    \* dials get through
  open,       \* sockets really connected
  stale,      \* sockets that _is_stale rejects
  idle,       \* self._idle[key]
  taken,      \* sockets in the hands of client sessions
  closers,    \* sockets with a _quiet_close task of their own
  refilling,  \* self._refilling.get(key)
  rotation,   \* the rotation task: "none", "live", or "doomed" (cancelled)
  backoff,    \* self._refill_after[key] lies in the future
  phase,      \* control of a refill task
  doomed,     \* refill tasks whose cancellation is not delivered yet
  dials,      \* how many of its dials are under way
  results,    \* what its other dials returned
  adopted     \* those it put into the bucket

poolVars == <<idle, refilling, rotation, backoff>>
refillVars == <<phase, doomed, dials, results, adopted>>
vars == <<stage, network, open, stale, taken, closers, poolVars, refillVars>>

\* new: created, not started   run: in the as_completed loop
\* unwind: in the finally clause
Phases == {"free", "new", "run", "unwind"}

Unclaimed(r) == results[r] \ adopted[r]

-----------------------------------------------------------------------------
(***************************************************************************)
(* Scheduling.  A definition that no action uses and that precedes one of  *)
(* the same name with another ending is a plausible mistake that the       *)
(* properties must tell from the code.                                     *)
(***************************************************************************)
NoRefill == UNCHANGED <<refilling, phase>>
NewRefill(r) == /\ phase[r] = "free"
                /\ refilling' = r
                /\ phase' = [phase EXCEPT ![r] = "new"]

MayRefill == refilling = None /\ ~backoff

\* _schedule_refill, the rotation apart
ScheduleRefill == IF MayRefill THEN \E r \in Refills : NewRefill(r) ELSE NoRefill

\* _schedule_refill as get and warmup call it
ScheduleBoth ==
  /\ ScheduleRefill
  /\ rotation' = IF rotation = "none" THEN "live" ELSE rotation

\* get: the stale sockets it meets are closed in the background.
Hit(ws, met) ==
  /\ stage = "serving"
  /\ ws \in idle \ stale
  /\ met \subseteq idle \cap stale
  /\ idle' = idle \ (met \cup {ws})
  /\ closers' = closers \cup met
  /\ taken' = taken \cup {ws}
  /\ ScheduleBoth
  /\ UNCHANGED <<stage, network, open, stale, backoff, doomed, dials, results, adopted>>

Miss ==
  /\ stage = "serving"
  /\ idle \subseteq stale
  /\ idle' = {}
  /\ closers' = closers \cup idle
  /\ ScheduleBoth
  /\ UNCHANGED <<stage, network, open, stale, taken, backoff, doomed, dials, results, adopted>>

\* _rotate, from one sleep to the next
Rotate ==
  /\ rotation = "live"
  /\ idle' = idle \ stale
  /\ closers' = closers \cup (idle \cap stale)
  /\ IF Cardinality(idle \ stale) < PoolSize THEN ScheduleRefill ELSE NoRefill
  /\ UNCHANGED <<stage, network, open, stale, taken, rotation, backoff, doomed, dials, results, adopted>>

CancelRotation ==
  /\ rotation = "doomed"
  /\ rotation' = "none"
  /\ UNCHANGED <<stage, network, open, stale, taken, closers, idle, refilling, backoff, refillVars>>

-----------------------------------------------------------------------------
(***************************************************************************)
(* A refill task.                                                          *)
(***************************************************************************)
Everything == UNCHANGED <<stage, network, stale, taken, closers, rotation>>

\* The last step of the finally clause.
LeavesEntry(r) == refilling' = refilling
PopsEntry(r) == refilling' = IF refilling = r THEN None ELSE refilling

\* The task has ended, and what it holds is forgotten.
Forget(r) ==
  /\ phase' = [phase EXCEPT ![r] = "free"]
  /\ dials' = [dials EXCEPT ![r] = 0]
  /\ results' = [results EXCEPT ![r] = {}]
  /\ adopted' = [adopted EXCEPT ![r] = {}]

\* The early return, when nothing is needed, is never taken: a refill is created
\* where the bucket has room, and no other one fills it before it starts.
NeededAll == PoolSize
NeededOneMore == PoolSize - Cardinality(idle) + 1
Needed == PoolSize - Cardinality(idle)

StartRefill(r) ==
  /\ phase[r] = "new" /\ r \notin doomed
  /\ Needed > 0
  /\ phase' = [phase EXCEPT ![r] = "run"]
  /\ dials' = [dials EXCEPT ![r] = Needed]
  /\ UNCHANGED <<open, poolVars, doomed, results, adopted, stage, network, stale, taken, closers>>

\* _connect_one.  A dial that was cancelled may still have got through.
DialSucceeds(r, ws) ==
  /\ dials[r] > 0
  /\ network \/ phase[r] = "unwind"
  /\ ws \notin open \cup UNION {results[q] : q \in Refills}
  /\ dials' = [dials EXCEPT ![r] = @ - 1]
  /\ results' = [results EXCEPT ![r] = @ \cup {ws}]
  /\ open' = open \cup {ws}
  /\ stale' = stale \ {ws}
  /\ UNCHANGED <<stage, network, taken, closers, poolVars, phase, doomed, adopted>>

DialFails(r) ==
  /\ dials[r] > 0
  /\ ~network \/ phase[r] = "unwind"
  /\ dials' = [dials EXCEPT ![r] = @ - 1]
  /\ Everything /\ UNCHANGED <<open, idle, refilling, backoff, phase, doomed, results, adopted>>

AdoptUnnoted(r, ws) ==
  /\ phase[r] = "run" /\ r \notin doomed
  /\ ws \in results[r] \ idle
  /\ idle' = idle \cup {ws}
  /\ Everything /\ UNCHANGED <<open, refilling, backoff, refillVars>>

Adopt(r, ws) ==
  /\ phase[r] = "run" /\ r \notin doomed
  /\ ws \in Unclaimed(r)
  /\ idle' = idle \cup {ws}
  /\ adopted' = [adopted EXCEPT ![r] = @ \cup {ws}]
  /\ Everything /\ UNCHANGED <<open, refilling, backoff, phase, doomed, dials, results>>

\* Every dial was heard of: the back-off is set or lifted.
LoopEnds(r) ==
  /\ phase[r] = "run" /\ r \notin doomed
  /\ dials[r] = 0 /\ Unclaimed(r) = {}
  /\ phase' = [phase EXCEPT ![r] = "unwind"]
  /\ backoff' = (adopted[r] = {})
  /\ Everything /\ UNCHANGED <<open, idle, refilling, doomed, dials, results, adopted>>

\* CancelledError: in the loop it leads to the finally clause; before the first
\* step, and in the gather of the finally clause, to the end of the task.
CancelRefill(r) ==
  /\ r \in doomed
  /\ doomed' = doomed \ {r}
  /\ \/ /\ phase[r] = "run"
        /\ phase' = [phase EXCEPT ![r] = "unwind"]
        /\ UNCHANGED <<dials, results, adopted>>
     \/ phase[r] # "run" /\ Forget(r)
  /\ Everything /\ UNCHANGED <<open, idle, refilling, backoff>>

\* The finally clause, once its dials ended, closes what nobody adopted ...
CloseUnclaimed(r, ws) ==
  /\ phase[r] = "unwind" /\ r \notin doomed
  /\ dials[r] = 0
  /\ ws \in Unclaimed(r)
  /\ open' = open \ {ws}
  /\ results' = [results EXCEPT ![r] = @ \ {ws}]
  /\ Everything /\ UNCHANGED <<idle, refilling, backoff, phase, doomed, dials, adopted>>

\* ... and leaves the dictionary.
EndRefill(r) ==
  /\ phase[r] = "unwind" /\ r \notin doomed
  /\ dials[r] = 0 /\ Unclaimed(r) = {}
  /\ PopsEntry(r)
  /\ Forget(r)
  /\ Everything /\ UNCHANGED <<open, idle, backoff, doomed>>

-----------------------------------------------------------------------------
(***************************************************************************)
(* The life of the proxy.                                                  *)
(***************************************************************************)
\* reset: the idle sockets are closed at once, the tasks are cancelled.
ResetKeepsRotation ==
  /\ open' = open \ idle
  /\ idle' = {}
  /\ doomed' = doomed \cup ({refilling} \ {None})
  /\ rotation' = rotation
  /\ refilling' = None
  /\ backoff' = FALSE

Reset ==
  /\ open' = open \ idle
  /\ idle' = {}
  /\ doomed' = doomed \cup ({refilling} \ {None})
  /\ rotation' = IF rotation = "live" THEN "doomed" ELSE rotation
  /\ refilling' = None
  /\ backoff' = FALSE

\* close(), when every client session has ended
Close ==
  /\ stage = "serving" /\ taken = {}
  /\ stage' = "closing"
  /\ Reset
  /\ UNCHANGED <<network, stale, taken, closers, phase, dials, results, adopted>>

\* Its gather returns.
CloseReturns ==
  /\ stage = "closing" /\ rotation = "none"
  /\ \A r \in Refills : phase[r] = "free"
  /\ stage' = "stopped"
  /\ UNCHANGED <<network, open, stale, taken, closers, poolVars, refillVars>>

\* _run starts again: reset finds nothing, warmup schedules.
Start ==
  /\ stage = "stopped"
  /\ stage' = "serving"
  /\ ScheduleBoth
  /\ UNCHANGED <<network, open, stale, idle, taken, closers, backoff, doomed, dials, results, adopted>>

-----------------------------------------------------------------------------
(***************************************************************************)
(* The world.                                                              *)
(***************************************************************************)
\* A client session closes its socket and ends.
SessionEnds(ws) ==
  /\ ws \in taken
  /\ taken' = taken \ {ws}
  /\ open' = open \ {ws}
  /\ UNCHANGED <<stage, network, stale, closers, poolVars, refillVars>>

\* A _quiet_close task is done.
QuietClosed(ws) ==
  /\ ws \in closers
  /\ closers' = closers \ {ws}
  /\ open' = open \ {ws}
  /\ UNCHANGED <<stage, network, stale, taken, poolVars, refillVars>>

GoesStale(ws) ==
  /\ ws \in open \ stale
  /\ ws \in idle \cup UNION {results[r] : r \in Refills}
  /\ stale' = stale \cup {ws}
  /\ UNCHANGED <<stage, network, open, taken, closers, poolVars, refillVars>>

BackoffPasses ==
  /\ backoff
  /\ backoff' = FALSE
  /\ UNCHANGED <<stage, network, open, stale, taken, closers, idle, refilling, rotation, refillVars>>

NetworkChanges ==
  /\ network' = ~network
  /\ UNCHANGED <<stage, open, stale, taken, closers, poolVars, refillVars>>

-----------------------------------------------------------------------------
Init ==
  /\ stage = "stopped"
  /\ network \in BOOLEAN
  /\ open = {} /\ stale = {} /\ idle = {} /\ taken = {} /\ closers = {}
  /\ refilling = None /\ rotation = "none" /\ backoff = FALSE
  /\ phase = [r \in Refills |-> "free"]
  /\ doomed = {}
  /\ dials = [r \in Refills |-> 0]
  /\ results = [r \in Refills |-> {}]
  /\ adopted = [r \in Refills |-> {}]

Serve ==
  \/ \E ws \in Sockets, met \in SUBSET Sockets : Hit(ws, met)
  \/ Miss
  \/ Close
  \/ Start

Refill(r) ==
  \/ StartRefill(r)
  \/ \E ws \in Sockets : DialSucceeds(r, ws)
  \/ DialFails(r)
  \/ \E ws \in Sockets : Adopt(r, ws)
  \/ LoopEnds(r)
  \/ CancelRefill(r)
  \/ \E ws \in Sockets : CloseUnclaimed(r, ws)
  \/ EndRefill(r)

Next ==
  \/ Serve
  \/ \E r \in Refills : Refill(r)
  \/ Rotate
  \/ CancelRotation
  \/ CloseReturns
  \/ \E ws \in Sockets : SessionEnds(ws) \/ QuietClosed(ws) \/ GoesStale(ws)
  \/ BackoffPasses
  \/ NetworkChanges

Spec == Init /\ [][Next]_vars

\* The event loop runs what can run, a dial is bounded by its time-outs, and
\* the timers of rotation and back-off expire.  Sessions and background closes
\* end, or the identities of sockets, not those of the code, would run out.
FairSpec ==
  /\ Spec
  /\ \A r \in Refills : WF_vars(Refill(r))
  /\ WF_vars(Rotate)
  /\ WF_vars(CancelRotation)
  /\ WF_vars(CloseReturns)
  /\ WF_vars(BackoffPasses)
  /\ \A ws \in Sockets : WF_vars(SessionEnds(ws)) /\ WF_vars(QuietClosed(ws))

-----------------------------------------------------------------------------
TypeOK ==
  /\ stage \in {"serving", "closing", "stopped"}
  /\ network \in BOOLEAN
  /\ open \in SUBSET Sockets /\ stale \in SUBSET Sockets
  /\ idle \in SUBSET Sockets /\ taken \in SUBSET Sockets /\ closers \in SUBSET Sockets
  /\ refilling \in Refills \cup {None}
  /\ rotation \in {"none", "live", "doomed"}
  /\ backoff \in BOOLEAN
  /\ phase \in [Refills -> Phases]
  /\ doomed \in SUBSET Refills
  /\ dials \in [Refills -> 0 .. PoolSize]
  /\ results \in [Refills -> SUBSET Sockets]
  /\ adopted \in [Refills -> SUBSET Sockets]

\* A connection belongs to one party: the bucket, a session, a task that closes
\* it, or one refill that has not adopted it (get, _rotate, _refill's finally).
OneOwner ==
  /\ idle \cap (taken \cup closers) = {}
  /\ taken \cap closers = {}
  /\ \A r \in Refills : Unclaimed(r) \cap (idle \cup taken \cup closers) = {}
  /\ \A r, q \in Refills : r # q => Unclaimed(r) \cap Unclaimed(q) = {}

\* The bucket, sessions, closers and refills only hold connections that are
\* open: no session is given one the pool has closed.
OwnedIsOpen ==
  /\ idle \cup taken \cup closers \subseteq open
  /\ \A r \in Refills : Unclaimed(r) \subseteq open

\* No connection is lost: each that is open has a party that will use or close it.
NothingLeaks ==
  \A ws \in open : ws \in idle \cup taken \cup closers
                   \/ \E r \in Refills : phase[r] # "free" /\ ws \in Unclaimed(r)

\* The bucket, with what a refill will still add to it, never exceeds the
\* configured size (_refill computes what it needs long before it appends).
PoolBounded ==
  LET Coming(r) == IF phase[r] = "run" /\ r \notin doomed
                   THEN dials[r] + Cardinality(Unclaimed(r)) ELSE 0
  IN \A r \in Refills : Cardinality(idle) + Coming(r) <= PoolSize

\* There is one refill at a time, the one the dictionary names, but for those
\* that close() cancelled and waits for.
SingleFlight ==
  \A r \in Refills : phase[r] # "free" =>
    refilling = r \/ r \in doomed \/ (phase[r] = "unwind" /\ stage = "closing")

\* When close() has returned, no task is left behind and the only connections
\* not closed yet are those a background close is at work on.
ClosedIsClean ==
  stage = "stopped" =>
    /\ open \subseteq closers
    /\ rotation = "none" /\ refilling = None /\ doomed = {}
    /\ \A r \in Refills : phase[r] = "free"

\* A connection has one party that will use or close it, and that party holds it open;
\* none is lost, whichever task is cancelled in the middle of its dials; and close()
\* leaves nothing but background closes
\* (get, _refill, _rotate, reset, close).
Ownership == OneOwner /\ OwnedIsOpen /\ NothingLeaks /\ ClosedIsClean

\* close() returns.
CloseEnds == stage = "closing" ~> stage = "stopped"

\* An empty pool fills again, or is closed, if dials get through from some time
\* on: neither a hit, nor a back-off, nor an ended refill strands it.
Refilled ==
  <>[]network => (stage = "serving" /\ idle = {} ~> idle # {} \/ stage # "serving")
=============================================================================
