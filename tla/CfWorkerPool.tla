---------------------------- MODULE CfWorkerPool ----------------------------
(***************************************************************************)
(* The pool of connections through Cloudflare workers and the breaker that *)
(* rests a failing worker: _CfWorkerPool of src/proxy/pool.py, with the    *)
(* fallbacks of client sessions that share it (_cfproxy_worker_fallback of *)
(* src/proxy/bridge.py).                                                   *)
(*                                                                         *)
(* A dialler, a fallback or the refill of a data centre (DC), lists the    *)
(* workers that do not rest once and then dials them one after another, in *)
(* any order.  A step is what asyncio runs between two suspension points;  *)
(* deadlines are kept as the time that remains.  A bucket holds at most    *)
(* one socket (PER_DC_LIMIT), so it is the worker the socket goes through. *)
(***************************************************************************)
EXTENDS Integers, FiniteSets

CONSTANTS
  Workers,         \* proxy_config.cfproxy_worker_domains
  DCs,             \* data centres the pool serves
  Clients,         \* client fallbacks running at one time
  LocalAbort,      \* LOCAL_ABORT_COOLDOWN
  FailureCooldown, \* FAILURE_COOLDOWN
  QuotaCooldown,   \* QUOTA_COOLDOWN
  CooldownMax,     \* COOLDOWN_MAX
  BackoffSteps,    \* BACKOFF_STEPS
  RefillInitial,   \* REFILL_BACKOFF_INITIAL
  RefillMax,       \* REFILL_BACKOFF_MAX
  RefillSteps,     \* one more than the largest power in the refill back-off
  None

ASSUME NameAssumption == None \notin Workers /\ DCs \cap Clients = {}

ASSUME TimeAssumption ==
  /\ LocalAbort \in Nat \ {0}
  /\ FailureCooldown \in Nat /\ LocalAbort <= FailureCooldown
  /\ QuotaCooldown \in Nat /\ FailureCooldown <= QuotaCooldown
  /\ CooldownMax \in Nat /\ QuotaCooldown <= CooldownMax
  /\ BackoffSteps \in Nat \ {0}
  /\ RefillInitial \in Nat \ {0}
  /\ RefillMax \in Nat \ {0}
  /\ RefillSteps \in Nat \ {0}

\* What the provers know of no power: doublings are positive and grow.
ASSUME LadderAssumption ==
  \A n \in 1 .. BackoffSteps : /\ 2 ^ (n - 1) \in Nat \ {0}
                               /\ \A m \in 1 .. n : 2 ^ (m - 1) <= 2 ^ (n - 1)

ASSUME RefillAssumption == \A n \in 1 .. RefillSteps : 2 ^ (n - 1) \in Nat \ {0}

VARIABLES
  rest,            \* what remains of _unavailable_until, 0 when it has passed
  failures,        \* _failures, 0 when there is no key
  refillFailures,  \* _refill_failures, 0 when there is no key
  backoff,         \* what remains of _refill_after
  idle,            \* _idle: the worker of the socket in the bucket
  stale,           \* that socket has aged or died
  refill,          \* the refill of a DC: "none", "new", "run"
  list,            \* the workers a dialler has still to try
  target,          \* the worker it dials
  network          \* dials get through

breakerVars == <<rest, failures>>
bucketVars == <<idle, stale>>
refillVars == <<refill, refillFailures, backoff>>
dialVars == <<list, target>>
vars == <<breakerVars, bucketVars, refillVars, dialVars, network>>

Diallers == DCs \cup Clients
Kinds == {"refused", "quota", "abort"}

Lesser(a, b) == IF a <= b THEN a ELSE b
Greater(a, b) == IF a <= b THEN b ELSE a
Down(r) == IF r = 0 THEN 0 ELSE r - 1

-----------------------------------------------------------------------------
(***************************************************************************)
(* The breaker.  A definition that no action uses and that precedes one of *)
(* the same name with another ending is a plausible mistake that the       *)
(* properties must tell from the code.                                     *)
(***************************************************************************)
CooldownUncapped(base, n) == base * 2 ^ (n - 1)
CooldownOf(base, n) == Lesser(base * 2 ^ (n - 1), CooldownMax)

\* available_domains
Available == {w \in Workers : rest[w] = 0}

\* report_success
SuccessKeepsRest(w) ==
  /\ failures' = [failures EXCEPT ![w] = 0]
  /\ UNCHANGED rest

ReportSuccess(w) ==
  /\ rest' = [rest EXCEPT ![w] = 0]
  /\ failures' = [failures EXCEPT ![w] = 0]

Rests(w, r) == rest' = [rest EXCEPT ![w] = r]

Climbs(w, base) ==
  LET n == Lesser(failures[w] + 1, BackoffSteps)
  IN failures' = [failures EXCEPT ![w] = n] /\ Rests(w, CooldownOf(base, n))

\* report_failure: the host's own network is to blame; a quota is used up; an
\* ordinary refusal is a new outage, or belongs to the one the worker rests for.
BurstClimbs(w, kind) ==
  \/ /\ kind = "abort"
     /\ Rests(w, Greater(rest[w], LocalAbort)) /\ UNCHANGED failures
  \/ kind = "quota" /\ Climbs(w, QuotaCooldown)
  \/ kind = "refused" /\ Climbs(w, FailureCooldown)

ReportFailure(w, kind) ==
  \/ /\ kind = "abort"
     /\ Rests(w, Greater(rest[w], LocalAbort)) /\ UNCHANGED failures
  \/ kind = "quota" /\ Climbs(w, QuotaCooldown)
  \/ kind = "refused" /\ rest[w] = 0 /\ Climbs(w, FailureCooldown)
  \/ kind = "refused" /\ rest[w] > 0 /\ UNCHANGED breakerVars

-----------------------------------------------------------------------------
(***************************************************************************)
(* Dialling: x goes on with one of the workers W, or has none left.        *)
(***************************************************************************)
DialsNext(x, W) ==
  \E w \in W : /\ list' = [list EXCEPT ![x] = W \ {w}]
               /\ target' = [target EXCEPT ![x] = w]

Stops(x) == /\ list' = [list EXCEPT ![x] = {}]
            /\ target' = [target EXCEPT ![x] = None]

\* _schedule_refill
ScheduleRefill(dc) ==
  refill' = IF refill[dc] = "none" /\ backoff[dc] = 0
            THEN [refill EXCEPT ![dc] = "new"] ELSE refill

\* A fallback takes the socket of the bucket.  get reports a success of its
\* worker, though nothing was dialled.
Hit(c, dc) ==
  /\ target[c] = None
  /\ idle[dc] # None /\ ~stale[dc]
  /\ idle' = [idle EXCEPT ![dc] = None]
  /\ ReportSuccess(idle[dc])
  /\ ScheduleRefill(dc)
  /\ UNCHANGED <<stale, refillFailures, backoff, dialVars, network>>

\* It finds none, or a stale one that is closed, and lists the workers itself.
MissRefillsNothing(c, dc) ==
  /\ target[c] = None
  /\ idle[dc] = None \/ stale[dc]
  /\ idle' = [idle EXCEPT ![dc] = None]
  /\ IF Available = {} THEN Stops(c) ELSE DialsNext(c, Available)
  /\ UNCHANGED <<breakerVars, stale, refillVars, network>>

Miss(c, dc) ==
  /\ target[c] = None
  /\ idle[dc] = None \/ stale[dc]
  /\ idle' = [idle EXCEPT ![dc] = None]
  /\ stale' = [stale EXCEPT ![dc] = FALSE]
  /\ ScheduleRefill(dc)
  /\ IF Available = {} THEN Stops(c) ELSE DialsNext(c, Available)
  /\ UNCHANGED <<breakerVars, refillFailures, backoff, network>>

\* A session to a test DC passes the pool by.
TestSession(c) ==
  /\ target[c] = None
  /\ DialsNext(c, Available)
  /\ UNCHANGED <<breakerVars, bucketVars, refillVars, network>>

DialSucceeds(c) ==
  /\ target[c] # None /\ network
  /\ ReportSuccess(target[c])
  /\ Stops(c)
  /\ UNCHANGED <<bucketVars, refillVars, network>>

DialFails(c, kind) ==
  /\ target[c] # None /\ ~network
  /\ ReportFailure(target[c], kind)
  /\ IF list[c] = {} THEN Stops(c) ELSE DialsNext(c, list[c])
  /\ UNCHANGED <<bucketVars, refillVars, network>>

\* The session ends, or its set-up times out: nothing is reported.
Cancelled(c) ==
  /\ target[c] # None
  /\ Stops(c)
  /\ UNCHANGED <<breakerVars, bucketVars, refillVars, network>>

-----------------------------------------------------------------------------
(***************************************************************************)
(* The refill of a DC.  It is only created when the bucket is empty, and   *)
(* nothing else fills it, so one socket is always needed.                  *)
(***************************************************************************)
\* Every worker rests: that is no failure of the refill.
NothingToDial(dc) ==
  /\ refill[dc] = "new" /\ Available = {}
  /\ refill' = [refill EXCEPT ![dc] = "none"]
  /\ UNCHANGED <<breakerVars, bucketVars, refillFailures, backoff, dialVars, network>>

StartRefill(dc) ==
  /\ refill[dc] = "new"
  /\ DialsNext(dc, Available)
  /\ refill' = [refill EXCEPT ![dc] = "run"]
  /\ UNCHANGED <<breakerVars, bucketVars, refillFailures, backoff, network>>

\* Failures are counted no further than they matter here.
RefillBackoff(n) == Lesser(RefillInitial * 2 ^ (Lesser(n, RefillSteps) - 1), RefillMax)

RefillFails(dc, kind) ==
  /\ refill[dc] = "run" /\ ~network
  /\ ReportFailure(target[dc], kind)
  /\ \/ /\ list[dc] # {}
        /\ DialsNext(dc, list[dc])
        /\ UNCHANGED refillVars
     \/ /\ list[dc] = {}
        /\ Stops(dc)
        /\ refill' = [refill EXCEPT ![dc] = "none"]
        /\ refillFailures' = [refillFailures EXCEPT ![dc] = Lesser(@ + 1, RefillSteps)]
        /\ backoff' = [backoff EXCEPT ![dc] = RefillBackoff(refillFailures[dc] + 1)]
  /\ UNCHANGED <<bucketVars, network>>

\* The socket goes into the bucket; the breaker hears of it when it is taken.
RefillSucceeds(dc) ==
  /\ refill[dc] = "run" /\ network
  /\ idle' = [idle EXCEPT ![dc] = target[dc]]
  /\ stale' = [stale EXCEPT ![dc] = FALSE]
  /\ refill' = [refill EXCEPT ![dc] = "none"]
  /\ refillFailures' = [refillFailures EXCEPT ![dc] = 0]
  /\ backoff' = [backoff EXCEPT ![dc] = 0]
  /\ Stops(dc)
  /\ UNCHANGED <<rest, failures, network>>

-----------------------------------------------------------------------------
\* The proxy stops, when its sessions have ended, and starts again: close()
\* cancels the refills and forgets everything, warmup schedules new ones.
Restart ==
  /\ \A c \in Clients : target[c] = None
  /\ rest' = [w \in Workers |-> 0]
  /\ failures' = [w \in Workers |-> 0]
  /\ idle' = [dc \in DCs |-> None]
  /\ stale' = [dc \in DCs |-> FALSE]
  /\ refill' = [dc \in DCs |-> "new"]
  /\ refillFailures' = [dc \in DCs |-> 0]
  /\ backoff' = [dc \in DCs |-> 0]
  /\ list' = [x \in Diallers |-> {}]
  /\ target' = [x \in Diallers |-> None]
  /\ UNCHANGED network

Tick ==
  /\ rest' = [w \in Workers |-> Down(rest[w])]
  /\ backoff' = [dc \in DCs |-> Down(backoff[dc])]
  /\ UNCHANGED <<failures, bucketVars, refill, refillFailures, dialVars, network>>

GoesStale(dc) ==
  /\ idle[dc] # None /\ ~stale[dc]
  /\ stale' = [stale EXCEPT ![dc] = TRUE]
  /\ UNCHANGED <<breakerVars, idle, refillVars, dialVars, network>>

NetworkChanges ==
  /\ network' = ~network
  /\ UNCHANGED <<breakerVars, bucketVars, refillVars, dialVars>>

Init ==
  /\ rest = [w \in Workers |-> 0]
  /\ failures = [w \in Workers |-> 0]
  /\ idle = [dc \in DCs |-> None]
  /\ stale = [dc \in DCs |-> FALSE]
  /\ refill = [dc \in DCs |-> "new"]
  /\ refillFailures = [dc \in DCs |-> 0]
  /\ backoff = [dc \in DCs |-> 0]
  /\ list = [x \in Diallers |-> {}]
  /\ target = [x \in Diallers |-> None]
  /\ network \in BOOLEAN

Asks(dc) == \E c \in Clients : Hit(c, dc) \/ Miss(c, dc)

Session(c) ==
  \/ TestSession(c)
  \/ DialSucceeds(c)
  \/ \E kind \in Kinds : DialFails(c, kind)
  \/ Cancelled(c)

Refill(dc) ==
  \/ NothingToDial(dc)
  \/ StartRefill(dc)
  \/ \E kind \in Kinds : RefillFails(dc, kind)
  \/ RefillSucceeds(dc)

\* One run of the proxy.
Run ==
  \/ \E dc \in DCs : Asks(dc) \/ Refill(dc) \/ GoesStale(dc)
  \/ \E c \in Clients : Session(c)
  \/ Tick
  \/ NetworkChanges

Next == Run \/ Restart

Spec == Init /\ [][Next]_vars

\* The event loop runs what can run, dials are bounded by time-outs and time
\* passes; and sessions keep asking for every DC.
FairSpec ==
  /\ Spec
  /\ WF_vars(Tick)
  /\ \A c \in Clients : WF_vars(target[c] # None /\ Session(c))
  /\ \A dc \in DCs : WF_vars(Refill(dc)) /\ SF_vars(Asks(dc))

-----------------------------------------------------------------------------
TypeOK ==
  /\ rest \in [Workers -> 0 .. CooldownMax]
  /\ failures \in [Workers -> 0 .. BackoffSteps]
  /\ refillFailures \in [DCs -> 0 .. RefillSteps]
  /\ backoff \in [DCs -> 0 .. RefillMax]
  /\ idle \in [DCs -> Workers \cup {None}]
  /\ stale \in [DCs -> BOOLEAN]
  /\ refill \in [DCs -> {"none", "new", "run"}]
  /\ list \in [Diallers -> SUBSET Workers]
  /\ target \in [Diallers -> Workers \cup {None}]
  /\ \A dc \in DCs : (refill[dc] = "run") = (target[dc] # None)
  /\ network \in BOOLEAN

\* A worker never rests for longer than its counted failures earn; one without
\* failures rests no longer than a local abort lets it (report_failure, and a
\* success forgets the rest together with the failures).
RestIsEarned ==
  \A w \in Workers :
    rest[w] <= IF failures[w] = 0 THEN LocalAbort
               ELSE CooldownOf(QuotaCooldown, failures[w])

\* A refill only dials for an empty bucket, which it alone fills: the bucket
\* never exceeds PER_DC_LIMIT.
BucketEmptyWhileRefilling == \A dc \in DCs : refill[dc] # "none" => idle[dc] = None

\* No failure shortens a rest, whatever the order in which the failures of parallel
\* dials land: it runs down with time or ends with a success.  And one outage costs
\* one step: while a worker rests, only its quota or a local abort of its own length
\* makes the rest longer (report_failure and its comment).
RestsKept ==
  [][\A w \in Workers :
       /\ rest'[w] >= Down(rest[w]) \/ rest'[w] = 0
       /\ 0 < rest[w] /\ rest[w] < rest'[w]
          => rest'[w] \in {LocalAbort}
                        \cup {CooldownOf(QuotaCooldown, n) : n \in 1 .. BackoffSteps}]_vars

\* While the proxy runs, sessions keep asking and dials get through, the bucket is
\* filled again and again: neither a miss, a stale socket nor a back-off strands it.
KeepsFilling ==
  <>[]network /\ <>[][Run]_vars => \A dc \in DCs : []<>(idle[dc] # None)
=============================================================================
