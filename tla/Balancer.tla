------------------------------ MODULE Balancer ------------------------------
(***************************************************************************)
(* The circuit breaker over the Cloudflare fronts, src/proxy/balancer.py,  *)
(* with the fallbacks that dial the fronts it offers (_cfproxy_fallback of *)
(* src/proxy/bridge.py and CfH2Pool._open of src/proxy/cf_h2.py) and the   *)
(* thread that refreshes the pool (src/proxy/config.py).                   *)
(*                                                                         *)
(* A fallback draws fronts from a generator: the candidates are fixed when *)
(* it starts, their availability is looked up when each is drawn, and a    *)
(* dial of any length lies in between.  The shuffles are nondeterministic. *)
(* Deadlines are kept as the time that remains, counted down by Tick.      *)
(*                                                                         *)
(* The refresh runs in a thread of its own while the event loop reports    *)
(* successes and failures: update_domains_list is a step per assignment,   *)
(* and the two dictionaries it rebuilds are read some time before the      *)
(* result is stored.                                                       *)
(***************************************************************************)
EXTENDS Integers, FiniteSets

CONSTANTS
  Domains,        \* every front there is
  DCs,            \* data centres
  Fallbacks,      \* client fallbacks running at one time
  FirstPool,      \* the pool the program starts with
  Pools,          \* pools a refresh may bring; {} with user-given domains
  Hold,           \* IN_FLIGHT_HOLD
  Cooldown,       \* FAILURE_COOLDOWN
  MaxCooldown,    \* MAX_COOLDOWN
  BackoffSteps,   \* BACKOFF_STEPS
  MaxAttempts,    \* MAX_ATTEMPTS
  RefreshPeriod,  \* the hour between two refreshes
  DialLimit,      \* bound: the longest dial considered
  None

ASSUME PoolAssumption ==
  /\ FirstPool \in SUBSET Domains \ {{}}
  /\ Pools \subseteq SUBSET Domains \ {{}}
  /\ None \notin Domains

ASSUME TimeAssumption ==
  /\ Hold \in Nat \ {0}
  /\ Cooldown \in Nat /\ Hold <= Cooldown
  /\ MaxCooldown \in Nat /\ Cooldown <= MaxCooldown
  /\ BackoffSteps \in Nat \ {0}
  /\ MaxAttempts \in Nat \ {0}
  /\ RefreshPeriod \in Nat /\ MaxCooldown <= RefreshPeriod
  /\ DialLimit \in Nat

\* The doublings are positive integers: what the provers know of no power.
ASSUME LadderAssumption == \A n \in 1 .. BackoffSteps : 2 ^ (n - 1) \in Nat \ {0}

VARIABLES
  domains,   \* self.domains
  current,   \* self._dc_to_domain
  rest,      \* what remains of self._unavailable_until, 0 when it has passed
  stamped,   \* the keys of self._unavailable_until
  failures,  \* self._failures, 0 when there is no key
  healthy,   \* self._healthy
  mode,      \* what a fallback does: "idle", or dials for "ws" or "h2"
  dcOf,      \* its data centre
  left,      \* candidates it has not drawn: current, healthy, unproven
  attempts,  \* fronts it was given
  target,    \* the front it dials
  held,      \* its dial reserved the front
  age,       \* how long that dial has been going on
  thread,    \* where the refresh thread is in update_domains_list
  copy,      \* the values it has read of the dictionary it rebuilds
  keys,      \* the keys it has read
  quiet,     \* time since the last refresh
  owed,      \* history: what remains of the cooldown of the last failure
  strays     \* history: departed fronts a fallback still held at the refresh

breakerVars == <<domains, current, rest, stamped, failures, healthy>>
dialVars == <<mode, dcOf, left, attempts, target, held, age>>
threadVars == <<thread, copy, keys, quiet>>
vars == <<breakerVars, dialVars, threadVars, owed, strays>>

ThreadStates == {"wait", "current", "until", "untilStore", "failures", "failuresStore",
                 "healthy", "dead"}

Lesser(a, b) == IF a <= b THEN a ELSE b
Down(r) == IF r = 0 THEN 0 ELSE r - 1

-----------------------------------------------------------------------------
(***************************************************************************)
(* The breaker.  A definition that no action uses and that precedes one of *)
(* the same name with another ending (CooldownUncapped, AvailableTooSoon)  *)
(* is a plausible mistake that the properties must tell from the code.     *)
(***************************************************************************)
CooldownUncapped(n) == Cooldown * 2 ^ (n - 1)
CooldownOf(n) == Lesser(Cooldown * 2 ^ (n - 1), MaxCooldown)

AvailableTooSoon(d) == rest[d] <= 1
Available(d) == rest[d] = 0

\* report_success
SuccessKeepsCooldown(d) ==
  /\ failures' = [failures EXCEPT ![d] = 0]
  /\ healthy' = healthy \cup {d}
  /\ owed' = [owed EXCEPT ![d] = 0]
  /\ UNCHANGED <<rest, stamped>>

ReportSuccess(d) ==
  /\ rest' = [rest EXCEPT ![d] = 0]
  /\ stamped' = stamped \ {d}
  /\ failures' = [failures EXCEPT ![d] = 0]
  /\ healthy' = healthy \cup {d}
  /\ owed' = [owed EXCEPT ![d] = 0]

\* report_failure; u and k are self._unavailable_until and its keys once the
\* front that is drawn next is reserved.
ReportFailure(d, u, k) ==
  LET n == Lesser(failures[d] + 1, BackoffSteps) IN
  /\ healthy' = healthy \ {d}
  /\ failures' = [failures EXCEPT ![d] = n]
  /\ rest' = [u EXCEPT ![d] = CooldownOf(n)]
  /\ stamped' = k \cup {d}
  /\ owed' = [owed EXCEPT ![d] = CooldownOf(n)]

\* A fallback of kind m that draws d reserves it.
Reserves(m, d) == m = "ws" /\ d \notin healthy

(***************************************************************************)
(* The generator get_domains_for_dc.                                       *)
(***************************************************************************)
Tiers == 1 .. 3

Candidates(dc) ==
  LET first == {current[dc]} IN
  << first, (domains \ first) \cap healthy, (domains \ first) \ healthy >>

\* f, of kind m, resumes its generator with candidates L after n fronts and
\* goes on to dial d: the tiers before d's are exhausted, and so may be some
\* of its own.
GoesOn(f, m, L, n, d) ==
  /\ n < MaxAttempts
  /\ Available(d)
  /\ \E i \in Tiers :
       /\ d \in L[i]
       /\ \A j \in Tiers : j < i => \A x \in L[j] : ~Available(x)
       /\ \E skipped \in SUBSET {x \in L[i] : ~Available(x)} :
            left' = [left EXCEPT ![f] =
                       [j \in Tiers |-> IF j < i THEN {}
                                        ELSE IF j = i THEN L[i] \ (skipped \cup {d})
                                        ELSE L[j]]]
  /\ attempts' = [attempts EXCEPT ![f] = n + 1]
  /\ target' = [target EXCEPT ![f] = d]
  /\ held' = [held EXCEPT ![f] = Reserves(m, d)]
  /\ age' = [age EXCEPT ![f] = 0]

UntilUnreserved(m, d) == rest
UntilReserved(m, d) == IF Reserves(m, d) THEN [rest EXCEPT ![d] = Hold] ELSE rest
KeysReserved(m, d) == IF Reserves(m, d) THEN stamped \cup {d} ELSE stamped

GivesUp(L, n) == n = MaxAttempts \/ \A i \in Tiers : \A x \in L[i] : ~Available(x)

EndFallback(f) ==
  /\ mode' = [mode EXCEPT ![f] = "idle"]
  /\ left' = [left EXCEPT ![f] = [i \in Tiers |-> {}]]
  /\ attempts' = [attempts EXCEPT ![f] = 0]
  /\ target' = [target EXCEPT ![f] = None]
  /\ held' = [held EXCEPT ![f] = FALSE]
  /\ age' = [age EXCEPT ![f] = 0]
  /\ UNCHANGED dcOf

(***************************************************************************)
(* The fallbacks.                                                          *)
(***************************************************************************)
Begin(f, m, dc, d) ==
  /\ mode[f] = "idle"
  /\ mode' = [mode EXCEPT ![f] = m]
  /\ dcOf' = [dcOf EXCEPT ![f] = dc]
  /\ GoesOn(f, m, Candidates(dc), 0, d)
  /\ rest' = UntilReserved(m, d)
  /\ stamped' = KeysReserved(m, d)
  /\ UNCHANGED <<domains, current, failures, healthy, threadVars, owed, strays>>

\* RawWebSocket.connect raises: the front is reported and the next one drawn.
DialFails(f) ==
  /\ mode[f] = "ws"
  /\ \/ /\ GivesUp(left[f], attempts[f])
        /\ ReportFailure(target[f], rest, stamped)
        /\ EndFallback(f)
     \/ \E d \in Domains :
          /\ GoesOn(f, "ws", left[f], attempts[f], d)
          /\ ReportFailure(target[f], UntilReserved("ws", d), KeysReserved("ws", d))
          /\ UNCHANGED <<mode, dcOf>>
  /\ UNCHANGED <<domains, current, threadVars, strays>>

DialSucceeds(f) ==
  /\ mode[f] = "ws"
  /\ ReportSuccess(target[f])
  /\ current' = [current EXCEPT ![dcOf[f]] = target[f]]
  /\ EndFallback(f)
  /\ UNCHANGED <<domains, threadVars, strays>>

\* The HTTP/2 pool keeps cooldowns of its own and reports nothing.
H2Skips(f) ==
  /\ mode[f] = "h2"
  /\ \/ /\ GivesUp(left[f], attempts[f])
        /\ EndFallback(f)
     \/ /\ \E d \in Domains : GoesOn(f, "h2", left[f], attempts[f], d)
        /\ UNCHANGED <<mode, dcOf>>
  /\ UNCHANGED <<breakerVars, threadVars, owed, strays>>

H2Opens(f) ==
  /\ mode[f] = "h2"
  /\ current' = [current EXCEPT ![dcOf[f]] = target[f]]
  /\ EndFallback(f)
  /\ UNCHANGED <<domains, rest, stamped, failures, healthy, threadVars, owed, strays>>

\* The client goes away, or the setup times out: nothing is reported.
Cancelled(f) ==
  /\ mode[f] # "idle"
  /\ EndFallback(f)
  /\ UNCHANGED <<breakerVars, threadVars, owed, strays>>

(***************************************************************************)
(* The refresh thread: update_domains_list, called with a pool that        *)
(* differs from the present one (it returns at once otherwise).            *)
(***************************************************************************)
InstallPool(P) ==
  /\ thread = "wait"
  /\ quiet = RefreshPeriod
  /\ P # domains
  /\ domains' = P
  /\ thread' = "current"
  /\ UNCHANGED <<current, rest, stamped, failures, healthy, dialVars, copy, keys, quiet,
                 owed, strays>>

\* The fronts f dials or may still draw.
Holding(f) == {d \in Domains : d = target[f] \/ \E i \in Tiers : d \in left[f][i]}

InstallCurrent ==
  /\ thread = "current"
  /\ current' \in [DCs -> domains]
  /\ thread' = "until"
  /\ strays' = (UNION {Holding(f) : f \in Fallbacks}) \ domains
  /\ UNCHANGED <<domains, rest, stamped, failures, healthy, dialVars, copy, keys, quiet, owed>>

\* A comprehension over a dictionary with keys k and values g starts; it has
\* read the entries of the fronts in later only when it is over.
Reads(k, g) ==
  /\ keys' = k
  /\ copy' = g

KeysRead(k, later) == {d \in domains : d \in (IF d \in later THEN k ELSE keys)}
ValuesRead(g, later) ==
  [d \in Domains |-> IF d \notin domains THEN 0 ELSE IF d \in later THEN g[d] ELSE copy[d]]

\* A key came or went meanwhile: the comprehension raises and the thread ends.
ChangedSize(k) == Cardinality(k) # Cardinality(keys)

Counted == {d \in Domains : failures[d] > 0}

ReadUntil ==
  /\ thread = "until"
  /\ Reads(stamped, rest)
  /\ thread' = "untilStore"
  /\ UNCHANGED <<breakerVars, dialVars, quiet, owed, strays>>

StoreUntil ==
  /\ thread = "untilStore"
  /\ \E later \in SUBSET domains :
       /\ rest' = ValuesRead(rest, later)
       /\ stamped' = KeysRead(stamped, later)
  /\ thread' = "failures"
  /\ UNCHANGED <<domains, current, failures, healthy, dialVars, copy, keys, quiet, owed, strays>>

ReadFailures ==
  /\ thread = "failures"
  /\ Reads(Counted, failures)
  /\ thread' = "failuresStore"
  /\ UNCHANGED <<breakerVars, dialVars, quiet, owed, strays>>

StoreNoFailures ==
  /\ thread = "failuresStore"
  /\ thread' = "healthy"
  /\ UNCHANGED <<breakerVars, dialVars, copy, keys, quiet, owed, strays>>

StoreFailures ==
  /\ thread = "failuresStore"
  /\ \E later \in SUBSET domains : failures' = ValuesRead(failures, later)
  /\ thread' = "healthy"
  /\ UNCHANGED <<domains, current, rest, stamped, healthy, dialVars, copy, keys, quiet, owed,
                 strays>>

\* RuntimeError: dictionary changed size during iteration.  _loop has no try.
RefreshDies ==
  /\ \/ thread = "untilStore" /\ ChangedSize(stamped)
     \/ thread = "failuresStore" /\ ChangedSize(Counted)
  /\ thread' = "dead"
  /\ UNCHANGED <<breakerVars, dialVars, copy, keys, quiet, owed, strays>>

PruneHealthy ==
  /\ thread = "healthy"
  /\ healthy' = healthy \cap domains
  /\ thread' = "wait"
  /\ quiet' = 0
  /\ keys' = {}
  /\ copy' = [d \in Domains |-> 0]
  /\ UNCHANGED <<domains, current, rest, stamped, failures, dialVars, owed, strays>>

(***************************************************************************)
(* A unit of time passes; no dial lasts longer than DialLimit.             *)
(***************************************************************************)
Tick ==
  /\ \A f \in Fallbacks : mode[f] = "ws" => age[f] < DialLimit
  /\ rest' = [d \in Domains |-> Down(rest[d])]
  /\ owed' = [d \in Domains |-> Down(owed[d])]
  /\ copy' = IF thread = "untilStore" THEN [d \in Domains |-> Down(copy[d])] ELSE copy
  /\ age' = [f \in Fallbacks |-> IF mode[f] = "ws" THEN age[f] + 1 ELSE age[f]]
  /\ quiet' = IF thread = "wait" THEN Lesser(quiet + 1, RefreshPeriod) ELSE quiet
  /\ UNCHANGED <<domains, current, stamped, failures, healthy, mode, dcOf, left, attempts,
                 target, held, thread, keys, strays>>

-----------------------------------------------------------------------------
Init ==
  /\ domains = FirstPool
  /\ current \in [DCs -> FirstPool]
  /\ rest = [d \in Domains |-> 0]
  /\ stamped = {}
  /\ failures = [d \in Domains |-> 0]
  /\ healthy = {}
  /\ mode = [f \in Fallbacks |-> "idle"]
  /\ dcOf \in [Fallbacks -> DCs]
  /\ left = [f \in Fallbacks |-> [i \in Tiers |-> {}]]
  /\ attempts = [f \in Fallbacks |-> 0]
  /\ target = [f \in Fallbacks |-> None]
  /\ held = [f \in Fallbacks |-> FALSE]
  /\ age = [f \in Fallbacks |-> 0]
  /\ thread = "wait"
  /\ copy = [d \in Domains |-> 0]
  /\ keys = {}
  /\ quiet = RefreshPeriod
  /\ owed = [d \in Domains |-> 0]
  /\ strays = {}

Fallback(f) ==
  \/ \E m \in {"ws", "h2"}, dc \in DCs, d \in Domains : Begin(f, m, dc, d)
  \/ DialFails(f)
  \/ DialSucceeds(f)
  \/ H2Skips(f)
  \/ H2Opens(f)
  \/ Cancelled(f)

Refresh ==
  \/ \E P \in Pools : InstallPool(P)
  \/ InstallCurrent
  \/ ReadUntil
  \/ StoreUntil
  \/ ReadFailures
  \/ StoreFailures
  \/ RefreshDies
  \/ PruneHealthy

Next ==
  \/ \E f \in Fallbacks : Fallback(f)
  \/ Refresh
  \/ Tick

Spec == Init /\ [][Next]_vars

-----------------------------------------------------------------------------
Types ==
  /\ domains \in SUBSET Domains
  /\ current \in [DCs -> Domains]
  /\ rest \in [Domains -> 0 .. MaxCooldown]
  /\ stamped \in SUBSET Domains
  /\ failures \in [Domains -> 0 .. BackoffSteps]
  /\ healthy \in SUBSET Domains

DialTypes ==
  /\ mode \in [Fallbacks -> {"idle", "ws", "h2"}]
  /\ dcOf \in [Fallbacks -> DCs]
  /\ left \in [Fallbacks -> [Tiers -> SUBSET Domains]]
  /\ attempts \in [Fallbacks -> 0 .. MaxAttempts]
  /\ target \in [Fallbacks -> Domains \cup {None}]
  /\ held \in [Fallbacks -> BOOLEAN]
  /\ age \in [Fallbacks -> 0 .. DialLimit]
  /\ \A f \in Fallbacks : target[f] = None <=> mode[f] = "idle"

ThreadTypes ==
  /\ thread \in ThreadStates
  /\ copy \in [Domains -> Nat]
  /\ thread = "untilStore" => copy \in [Domains -> 0 .. MaxCooldown]
  /\ thread = "failuresStore" => copy \in [Domains -> 0 .. BackoffSteps]
  /\ keys \in SUBSET Domains
  /\ quiet \in 0 .. RefreshPeriod
  /\ owed \in [Domains -> 0 .. MaxCooldown]
  /\ strays \in SUBSET Domains

\* Every variable has its type; in particular no front is out of rotation for
\* more than MAX_COOLDOWN and no count passes BACKOFF_STEPS (report_failure).
TypeOK ==
  /\ Types
  /\ DialTypes
  /\ ThreadTypes

(***************************************************************************)
(* A front of the pool that failed is not dialled again before its         *)
(* cooldown is over, whoever asks, unless a dial of it succeeded since     *)
(* (get_domains_for_dc; nobody else may shorten what report_failure set).  *)
(***************************************************************************)
CooldownRespected ==
  [][\A f \in Fallbacks :
       (target'[f] # target[f] /\ target'[f] \in domains) => owed'[target'[f]] = 0]_vars

(***************************************************************************)
(* A front is out no longer than its failures earned: a working one never, *)
(* one that has not failed for the length of a hold -- a cancelled dial    *)
(* cannot strand it -- and one that failed for its cooldown.               *)
(***************************************************************************)
OutNoLongerThanEarned ==
  \A d \in Domains :
    /\ d \in healthy => rest[d] = 0 /\ failures[d] = 0
    /\ rest[d] <= IF failures[d] = 0 THEN Hold ELSE CooldownOf(failures[d])

(***************************************************************************)
(* Two dials that reserved the same front began at least IN_FLIGHT_HOLD    *)
(* apart: parallel fallbacks spread over the pool (the reservation of      *)
(* get_domains_for_dc), whatever is reported or cancelled in between.      *)
(***************************************************************************)
ReservedDialsSpaced ==
  \A f, g \in Fallbacks :
    (f # g /\ held[f] /\ held[g] /\ target[f] = target[g]) =>
      age[f] - age[g] >= Hold \/ age[g] - age[f] >= Hold

(***************************************************************************)
(* What makes the spacing inductive: until Hold has passed, a reserved     *)
(* front is out for the rest of it, or has proved to work.                 *)
(***************************************************************************)
HoldCovers ==
  \A f \in Fallbacks :
    held[f] => /\ mode[f] = "ws"
               /\ \/ target[f] \in healthy
                  \/ rest[target[f]] + age[f] >= Hold

(***************************************************************************)
(* After a refresh the breaker remembers a departed front only if a        *)
(* fallback was still holding it when the pool changed (the pruning of     *)
(* update_domains_list).                                                   *)
(***************************************************************************)
DepartedForgotten ==
  thread = "wait" => (stamped \cup Counted \cup healthy) \subseteq (domains \cup strays)

(***************************************************************************)
(* The refresh goes on for as long as the program runs (the comment in     *)
(* update_domains_list, and the loop of start_cfproxy_domain_refresh).     *)
(***************************************************************************)
RefreshSurvives == thread # "dead"
=============================================================================
