----------------------------- MODULE DesktopProofs -----------------------------
(***************************************************************************)
(* What holds of the desktop application for any number of proxy threads   *)
(* and of threads that restart the proxy.                                  *)
(***************************************************************************)
EXTENDS Desktop, TLAPS

InUse == {"setup", "serving", "relisten", "pause", "gather", "drain"}

\* What a run has of the globals and of the network, and when.
RunInv(r) ==
  /\ at[r] \in InUse => poolsOpen /\ h2 = r
  /\ listener[r] => at[r] = "serving"
  /\ client[r] # "none" => at[r] \in (InUse \ {"setup"}) \cup {"h2", "leftovers"}
  /\ r \in tasks => client[r] # "none"
  /\ stop[r] => at[r] \notin {"dead", "new"}

CleanInv == ~orphaned => RunsAreClean /\ \A r \in Runs : RunInv(r)

\* A start that has looked for lock files counts like one that has written its own.
GuardInv ==
  /\ ~blind => (rival = "on" <=> Rival \in holders)
  /\ windows => rival # "looked" /\ \A a \in Actors : pc[a] # "looked"
  /\ rival # "off" /\ (Me \in holders \/ \E a \in Actors : pc[a] = "looked") => raced \/ blind

\* The update's place says what is on disk; while nothing runs there is no update.
DiskInv ==
  /\ ExeRecoverable
  /\ windows /\ exe = "new" => backup = "old"
  /\ pc[Update] = "moved" => exe = "none"
  /\ pc[Update] = "failed" => windows /\ exe = "new"
  /\ pc[Main] = "off" => pc[Update] = "idle"

DesktopInv == TypeOK /\ CleanInv /\ GuardInv /\ DiskInv

Places == {"off", "idle", "stop", "join", "start", "spawn", "looked", "release", "fetch",
           "moved", "launch", "failed", "reacquire"}

PcType == pc \in [Actors -> Places]

DiskType ==
  /\ holders \in SUBSET {Me, Rival}
  /\ rival \in {"off", "looked", "on"}
  /\ raced \in BOOLEAN /\ overlapped \in BOOLEAN
  /\ exe \in {"none", "old", "new"}
  /\ backup \in {"none", "old", "older"}

LEMMA Types == TypeOK <=> LifecycleTypes /\ PcType /\ DiskType /\ scene \in Scenes
BY DEF TypeOK, PcType, Places, DiskType

LEMMA SceneTypes ==
  ASSUME TypeOK
  PROVE  windows \in BOOLEAN /\ blind \in BOOLEAN /\ ~(windows /\ blind)
BY DesktopAssumption DEF TypeOK, SceneType, windows, blind

LEMMA SceneKept ==
  ASSUME UNCHANGED scene
  PROVE  windows' = windows /\ blind' = blind
BY DEF windows, blind

-----------------------------------------------------------------------------
\* What happens to a run changes nothing of the tray's.
LEMMA RunTypes ==
  ASSUME LifecycleTypes, NEW r \in Runs, Run(r) \/ Disturbs(r)
  PROVE  LifecycleTypes' /\ UNCHANGED <<pc, proxyThread, orphaned>>
<1> USE DEF LifecycleTypes, Moves, trayVars, Stages, ClientStates
<1>1. ASSUME NEW from, Finally(r, from)
      PROVE  LifecycleTypes' /\ UNCHANGED <<pc, proxyThread, orphaned>>
  <2>1. client' \in [Runs -> ClientStates]
    BY <1>1 DEF Finally, Cancelled
  <2> QED
    BY <1>1, <2>1 DEF Finally
<1>2. CASE LoopStarts(r) \/ StartFails(r) \/ DialogDismissed(r) \/ Gathered(r) \/ LoopCloses(r)
           \/ ThreadEnds(r) \/ ServerClosed(r) \/ Drained(r)
  BY <1>2 DEF LoopStarts, StartFails, DialogDismissed, Gathered, LoopCloses, ThreadEnds,
              ServerClosed, Drained
<1>6. CASE H2Closes(r)
  BY <1>6 DEF H2Closes, Cancelled
<1>3. CASE Listens(r, "setup") \/ Listens(r, "pause") \/ ListenerDies(r)
  BY <1>3 DEF Listens, ListenerDies
<1>4. CASE StopSeen(r) \/ RelistenFails(r)
  BY <1>1, <1>4 DEF StopSeen, RelistenFails
<1>5. CASE ClientComes(r) \/ HandlerStarts(r) \/ HandlerEnds(r) \/ StuckEnds(r) \/ Unwinds(r)
  BY <1>5 DEF ClientComes, HandlerStarts, HandlerEnds, StuckEnds, Unwinds, ClientLeaves
<1> QED
  BY <1>2, <1>3, <1>4, <1>5, <1>6 DEF Run, Proceeds, Happens, Disturbs

LEMMA TrayTypes ==
  ASSUME LifecycleTypes, PcType, NEW a \in Actors, NEW next \in Places, NEW failed \in Places,
         Starts(a) \/ Stops(a, next, failed)
  PROVE  LifecycleTypes' /\ PcType'
<1> USE DEF LifecycleTypes, PcType, Goes, Places, Stages
<1>1. CASE Starts(a)
  BY <1>1 DEF Starts, StartTests, StartSpawns, Follows, allButPc, runVars
<1>2. CASE StopWithoutLoop(a, next) \/ JoinReturns(a, next)
  BY <1>2 DEF StopWithoutLoop, JoinReturns, Forget, Follows, runVars
<1>3. CASE StopSignals(a, next)
  BY <1>3 DEF StopSignals
<1>4. CASE StopRaises(a, failed)
  BY <1>4 DEF StopRaises, allButPc, runVars
<1> QED
  BY <1>1, <1>2, <1>3, <1>4 DEF Stops

LEMMA VanishesTypes ==
  ASSUME NEW places, Vanishes(places)
  PROVE  LifecycleTypes' /\ pc' = places
BY DEF Vanishes, LifecycleTypes, Stages, ClientStates

-----------------------------------------------------------------------------
\* As long as no run was given up there is one at most, so that nobody cancels the
\* tasks of another or closes its pools.
LEMMA Alone ==
  ASSUME CleanInv, ~orphaned, NEW r \in Runs, Alive(r)
  PROVE  /\ \A x \in Runs \ {r} : /\ at[x] = "dead" /\ ~listener[x] /\ client[x] = "none"
                                  /\ ~stop[x] /\ x \notin tasks
         /\ proxyThread = r /\ RunInv(r)
         /\ at[r] # "new" => asyncStop = r
         /\ at[r] = "new" => \A x \in Runs : asyncStop # x
BY DEF CleanInv, RunsAreClean, Alive

\* The state of the one run that is alive decides.
LEMMA AloneClean ==
  ASSUME LifecycleTypes', NEW r \in Runs, Alive(r)',
         \A x \in Runs \ {r} : /\ at'[x] = "dead" /\ ~listener'[x] /\ client'[x] = "none"
                               /\ ~stop'[x] /\ x \notin tasks',
         proxyThread' = r, RunInv(r)',
         at'[r] # "new" => asyncStop' = r,
         at'[r] = "new" => \A x \in Runs : asyncStop' # x
  PROVE  CleanInv'
BY LifecycleAssumption DEF CleanInv, RunsAreClean, RunInv, Alive, InUse, LifecycleTypes

LEMMA NobodyClean ==
  ASSUME \A x \in Runs : /\ at'[x] = "dead" /\ ~listener'[x] /\ client'[x] = "none"
                         /\ ~stop'[x] /\ x \notin tasks' /\ asyncStop' # x
  PROVE  CleanInv'
BY DEF CleanInv, RunsAreClean, RunInv, Alive, InUse

LEMMA RunKeepsClean ==
  ASSUME LifecycleTypes, CleanInv, NEW r \in Runs, Run(r) \/ Disturbs(r)
  PROVE  CleanInv'
<1>1. LifecycleTypes' /\ UNCHANGED <<pc, proxyThread, orphaned>>
  BY RunTypes
<1>2. CASE orphaned
  BY <1>1, <1>2 DEF CleanInv
<1>3. CASE ~orphaned /\ ~Alive(r)
  <2>1. at[r] = "dead" /\ ~listener[r] /\ client[r] = "none" /\ ~stop[r]
    BY <1>3 DEF CleanInv, RunsAreClean, Alive
  <2> QED
    BY <2>1
       DEF Run, Proceeds, Happens, Disturbs, LoopStarts, Listens, StartFails, DialogDismissed,
           RelistenFails, StopSeen, Finally, Gathered, Drained, ServerClosed, H2Closes,
           LoopCloses, ThreadEnds, ListenerDies,
           ClientComes, HandlerStarts, HandlerEnds, StuckEnds, Unwinds, ClientLeaves, Moves
<1>4. CASE ~orphaned /\ Alive(r)
  <2>0. /\ \A x \in Runs \ {r} : /\ at[x] = "dead" /\ ~listener[x] /\ client[x] = "none"
                                 /\ ~stop[x] /\ x \notin tasks
        /\ proxyThread = r /\ RunInv(r)
        /\ at[r] # "new" => asyncStop = r
        /\ at[r] = "new" => \A x \in Runs : asyncStop # x
    BY <1>4, Alone
  <2> USE DEF Moves, trayVars, LifecycleTypes
  <2>1. CASE LoopStarts(r)
    BY <1>1, <2>0, <2>1, AloneClean DEF LoopStarts, RunInv, InUse, Alive
  <2>2. CASE Listens(r, "setup") \/ Listens(r, "pause")
    BY <1>1, <2>0, <2>2, AloneClean DEF Listens, RunInv, InUse, Alive
  <2>3. CASE StartFails(r) \/ DialogDismissed(r)
    BY <1>1, <2>0, <2>3, AloneClean DEF StartFails, DialogDismissed, RunInv, InUse, Alive
  <2>4. ASSUME NEW from \in {"serving", "pause"}, Finally(r, from)
        PROVE  CleanInv'
    <3>1. tasks \ {r} = {}
      BY <2>0
    <3>2. /\ at' = [at EXCEPT ![r] = "gather"]
          /\ listener' = [listener EXCEPT ![r] = FALSE]
          /\ client' = [x \in Runs |-> IF x \in tasks THEN Cancelled(client[x]) ELSE client[x]]
          /\ tasks' = {x \in tasks : client'[x] = "cancelled"}
          /\ UNCHANGED <<stop, h2, poolsOpen, trayVars>> /\ at[r] = from
      BY <2>4, <3>1 DEF Finally
    <3>3. \A x \in Runs \ {r} : at'[x] = "dead" /\ ~listener'[x] /\ client'[x] = "none"
                                 /\ ~stop'[x] /\ x \notin tasks'
      BY <2>0, <3>2
    <3>4. RunInv(r)' /\ Alive(r)'
      BY <2>0, <2>4, <3>2 DEF RunInv, InUse, Alive
    <3> QED
      BY <1>1, <2>0, <2>4, <3>2, <3>3, <3>4, AloneClean
  <2>5. CASE Gathered(r)
    BY <1>1, <2>0, <2>5, AloneClean DEF Gathered, RunInv, InUse, Alive
  <2>6. CASE Drained(r)
    BY <1>1, <2>0, <2>6, AloneClean DEF Drained, RunInv, InUse, Alive
  <2>7. CASE ServerClosed(r)
    BY <1>1, <2>0, <2>7, AloneClean DEF ServerClosed, RunInv, InUse, Alive
  <2>8. CASE H2Closes(r)
    <3>1. /\ at' = [at EXCEPT ![r] = "leftovers"] /\ at[r] = "h2"
          /\ client' = [client EXCEPT ![r] = Cancelled(client[r])]
          /\ tasks' = {x \in tasks : x # r \/ client'[r] = "cancelled"}
          /\ UNCHANGED <<stop, listener, trayVars>>
      BY <2>8 DEF H2Closes
    <3>2. \A x \in Runs \ {r} : at'[x] = "dead" /\ ~listener'[x] /\ client'[x] = "none"
                                 /\ ~stop'[x] /\ x \notin tasks'
      BY <2>0, <3>1
    <3>3. RunInv(r)' /\ Alive(r)'
      BY <2>0, <3>1 DEF RunInv, InUse, Alive
    <3> QED
      BY <1>1, <2>0, <3>1, <3>2, <3>3, AloneClean
  <2>13. CASE LoopCloses(r)
    BY <1>1, <2>0, <2>13, AloneClean DEF LoopCloses, RunInv, InUse, Alive
  <2>9. CASE ThreadEnds(r)
    <3>1. /\ at[r] = "closed" /\ at' = [at EXCEPT ![r] = "dead"]
          /\ stop' = [stop EXCEPT ![r] = FALSE] /\ asyncStop' = None
          /\ UNCHANGED <<listener, client, tasks>>
      BY <2>9 DEF ThreadEnds
    <3>2. ~listener[r] /\ client[r] = "none" /\ r \notin tasks
      BY <2>0, <3>1 DEF RunInv, InUse
    <3> QED
      BY <2>0, <3>1, <3>2, NobodyClean, LifecycleAssumption
  <2>10. CASE ListenerDies(r)
    BY <1>1, <2>0, <2>10, AloneClean DEF ListenerDies, RunInv, InUse, Alive
  <2>11. CASE ClientComes(r) \/ HandlerStarts(r)
    BY <1>1, <2>0, <2>11, AloneClean DEF ClientComes, HandlerStarts, RunInv, InUse, Alive
  <2>12. CASE HandlerEnds(r) \/ StuckEnds(r) \/ Unwinds(r)
    BY <1>1, <2>0, <2>12, AloneClean
       DEF HandlerEnds, StuckEnds, Unwinds, ClientLeaves, RunInv, InUse, Alive
  <2> QED
    BY <2>1, <2>2, <2>3, <2>4, <2>5, <2>6, <2>7, <2>8, <2>9, <2>10, <2>11, <2>12,
       <2>13 DEF Run, Proceeds, Happens, Disturbs, StopSeen, RelistenFails
<1> QED
  BY <1>2, <1>3, <1>4

\* A start or a stop that loses a run that is alive says so, whatever other threads did
\* since it looked.
LEMMA TrayKeepsClean ==
  ASSUME LifecycleTypes, PcType, CleanInv, NEW a \in Actors, NEW next \in Places,
         NEW failed \in Places, Starts(a) \/ Stops(a, next, failed)
  PROVE  CleanInv'
<1>0. LifecycleTypes'
  BY TrayTypes
<1>1. CASE orphaned
  <2>1. orphaned'
    BY <1>1 DEF Starts, StartTests, StartSpawns, Stops, StopWithoutLoop, StopSignals,
                JoinReturns, StopRaises, Forget, Follows, allButPc
  <2> QED
    BY <2>1 DEF CleanInv
<1>2. CASE ~orphaned /\ StartSpawns(a)
  <2>1. PICK r \in Runs : at[r] = "dead" /\ at' = [at EXCEPT ![r] = "new"] /\ Follows(r)
    BY <1>2 DEF StartSpawns, Fresh
  <2>2. CASE orphaned'
    BY <2>2 DEF CleanInv
  <2>3. CASE ~orphaned'
    <3>1. proxyThread' = r /\ (proxyThread # None => ~Alive(proxyThread))
      BY <2>1, <2>3 DEF Follows
    <3>2. \A x \in Runs : at[x] = "dead"
      BY <1>2, <3>1, LifecycleAssumption DEF CleanInv, RunsAreClean, Alive
    <3>3. UNCHANGED <<stop, listener, client, tasks, h2, poolsOpen, asyncStop>>
      BY <1>2 DEF StartSpawns
    <3>4. \A x \in Runs : /\ ~listener[x] /\ client[x] = "none" /\ ~stop[x] /\ x \notin tasks
                          /\ asyncStop # x
      BY <1>2, <3>2 DEF CleanInv, RunsAreClean, Alive
    <3>5. RunInv(r)' /\ Alive(r)' /\ at'[r] = "new"
      BY <2>1, <3>3, <3>4 DEF RunInv, Alive, InUse, LifecycleTypes
    <3>6. \A x \in Runs \ {r} : at'[x] = "dead"
      BY <2>1, <3>2 DEF LifecycleTypes
    <3> QED
      BY <1>0, <3>1, <3>3, <3>4, <3>5, <3>6, AloneClean
  <2> QED
    BY <2>2, <2>3
<1>3. CASE ~orphaned /\ (StopWithoutLoop(a, next) \/ JoinReturns(a, next))
  <2>1. /\ UNCHANGED <<runVars, asyncStop>> /\ proxyThread' = None
        /\ orphaned' <=> (proxyThread # None /\ Alive(proxyThread))
    BY <1>3 DEF StopWithoutLoop, JoinReturns, Forget, Follows
  <2>2. CASE orphaned'
    BY <2>2 DEF CleanInv
  <2>3. CASE ~orphaned'
    <3>1. \A x \in Runs : ~Alive(x)
      BY <1>3, <2>1, <2>3, LifecycleAssumption DEF CleanInv, RunsAreClean
    <3> QED
      BY <1>3, <2>1, <3>1 DEF runVars, CleanInv, RunsAreClean, RunInv, Alive, InUse
  <2> QED
    BY <2>2, <2>3
<1>4. CASE ~orphaned /\ StopSignals(a, next)
  <2>1. /\ asyncStop \in Runs /\ stop' = [stop EXCEPT ![asyncStop] = TRUE]
        /\ UNCHANGED <<at, listener, client, tasks, h2, poolsOpen, proxyThread, asyncStop,
                       orphaned>>
    BY <1>4 DEF StopSignals, LifecycleTypes
  <2>2. at[asyncStop] \notin {"dead", "new"}
    BY <1>4, <2>1 DEF CleanInv, RunsAreClean
  <2> QED
    BY <1>4, <2>1, <2>2 DEF CleanInv, RunsAreClean, RunInv, Alive, LifecycleTypes
<1>5. CASE ~orphaned /\ (StopRaises(a, failed) \/ StartTests(a))
  BY <1>5 DEF StopRaises, StartTests, allButPc, runVars, CleanInv, RunsAreClean, RunInv, Alive
<1> QED
  BY <1>1, <1>2, <1>3, <1>4, <1>5 DEF Stops, Starts

LEMMA VanishesClean ==
  ASSUME NEW places, Vanishes(places)
  PROVE  CleanInv'
BY NobodyClean, LifecycleAssumption DEF Vanishes

-----------------------------------------------------------------------------
\* Steps that leave the proxy alone.
LEMMA QuietKeepsClean ==
  ASSUME LifecycleTypes, CleanInv, UNCHANGED allButPc
  PROVE  LifecycleTypes' /\ CleanInv'
BY DEF allButPc, runVars, LifecycleTypes, CleanInv, RunsAreClean, RunInv, Alive

\* What an actor may do to the proxy, from the menu or in the course of an update.
ProxyStep ==
  \/ UNCHANGED allButPc /\ PcType'
  \/ \E a \in Actors, next \in Places, failed \in Places : Starts(a) \/ Stops(a, next, failed)
  \/ \E r \in Runs : Run(r) \/ Disturbs(r)
  \/ \E places \in [Actors -> Places] : Vanishes(places)

LEMMA ProxyStepKeeps ==
  ASSUME LifecycleTypes, PcType, CleanInv, ProxyStep
  PROVE  LifecycleTypes' /\ PcType' /\ CleanInv'
<1>1. CASE UNCHANGED allButPc /\ PcType'
  BY <1>1, QuietKeepsClean
<1>2. ASSUME NEW a \in Actors, NEW next \in Places, NEW failed \in Places,
             Starts(a) \/ Stops(a, next, failed)
      PROVE  LifecycleTypes' /\ PcType' /\ CleanInv'
  BY <1>2, TrayTypes, TrayKeepsClean
<1>3. ASSUME NEW r \in Runs, Run(r) \/ Disturbs(r)
      PROVE  LifecycleTypes' /\ PcType' /\ CleanInv'
  BY <1>3, RunTypes, RunKeepsClean DEF PcType
<1>4. ASSUME NEW places \in [Actors -> Places], Vanishes(places)
      PROVE  LifecycleTypes' /\ PcType' /\ CleanInv'
  BY <1>4, VanishesTypes, VanishesClean DEF PcType
<1> QED
  BY <1>1, <1>2, <1>3, <1>4 DEF ProxyStep

-----------------------------------------------------------------------------
\* Where an actor goes when it starts or stops the proxy.
LEMMA StopsMoves ==
  ASSUME PcType, NEW a \in Actors, NEW next, NEW failed, Stops(a, next, failed)
  PROVE  /\ pc[a] \in {"stop", "join"}
         /\ pc' = [pc EXCEPT ![a] = pc'[a]]
         /\ pc'[a] \in {"join", next, failed}
BY DEF Stops, StopWithoutLoop, StopSignals, JoinReturns, StopRaises, Goes, PcType

LEMMA StartsMoves ==
  ASSUME PcType, NEW a \in Actors, Starts(a)
  PROVE  \/ pc[a] = "start" /\ pc' = [pc EXCEPT ![a] = "idle"]
         \/ pc[a] = "start" /\ pc' = [pc EXCEPT ![a] = "spawn"]
         \/ pc[a] = "spawn" /\ pc' = [pc EXCEPT ![a] = "idle"]
BY DEF Starts, StartTests, StartSpawns, Goes, PcType

\* A step of this process other than a start: it looks for no lock file.
LEMMA GuardKept ==
  ASSUME GuardInv, PcType, UNCHANGED <<scene, rival, raced>>,
         holders' = holders \/ holders' = holders \ {Me},
         \A a \in Actors : pc'[a] = "looked" => pc[a] = "looked"
  PROVE  GuardInv'
BY DesktopAssumption DEF GuardInv, windows, blind

LEMMA AcquiresKeeps ==
  ASSUME GuardInv, PcType, DiskType, TypeOK, NEW a \in Actors, NEW from \in Places,
         Acquires(a, from)
  PROVE  GuardInv' /\ PcType' /\ UNCHANGED <<allButPc, scene>> /\ holders' \in SUBSET {Me, Rival}
         /\ rival' \in {"off", "looked", "on"} /\ raced' \in BOOLEAN /\ overlapped' \in BOOLEAN
<1>0. windows \in BOOLEAN /\ blind \in BOOLEAN /\ ~(windows /\ blind)
  BY SceneTypes
<1> USE <1>0, DesktopAssumption DEF GuardInv, PcType, Places, DiskType, Goes, NowHeldBy, Looks
<1>1. CASE TakesMutex(a, from)
  BY <1>1 DEF TakesMutex, windows, blind
<1>2. CASE FindsNoLock(a, from)
  BY <1>2 DEF FindsNoLock, windows, blind
<1>3. CASE WritesLock(a)
  BY <1>3 DEF WritesLock, windows, blind
<1> QED
  BY <1>1, <1>2, <1>3 DEF Acquires

LEMMA RivalKeeps ==
  ASSUME GuardInv, DiskType, TypeOK, PcType,
         RivalStarts \/ RivalWritesLock \/ RivalEnds
  PROVE  GuardInv' /\ DiskType' /\ UNCHANGED <<lifecycleVars, scene, diskVars>>
<1>0. windows \in BOOLEAN /\ blind \in BOOLEAN /\ ~(windows /\ blind)
  BY SceneTypes
<1> USE <1>0, DesktopAssumption DEF GuardInv, DiskType, NowHeldBy, Looks, diskVars,
                                    lifecycleVars, trayVars
<1>1. CASE RivalStarts
  BY <1>1 DEF RivalStarts, windows, blind
<1>2. CASE RivalWritesLock
  BY <1>2 DEF RivalWritesLock, windows, blind
<1>3. CASE RivalEnds
  BY <1>3 DEF RivalEnds, windows, blind
<1> QED
  BY <1>1, <1>2, <1>3

-----------------------------------------------------------------------------
\* An update goes where the disk allows it to be.
UpdateGoesOn ==
  /\ \/ pc'[Update] = pc[Update]
     \/ pc'[Update] \in {"idle", "start", "spawn", "reacquire"}
     \/ /\ pc[Update] \in {"stop", "join", "release", "launch"}
        /\ pc'[Update] \in {"join", "release", "launch"} \/ (windows /\ pc'[Update] = "failed")
  /\ pc[Main] = "off" => pc'[Update] = pc[Update]
  /\ pc'[Main] = "off" => pc[Main] = "off" \/ pc'[Update] = "idle"

LEMMA HereKeeps ==
  ASSUME DesktopInv, ProxyStep, UNCHANGED <<scene, holders, rival, raced, diskVars>>,
         overlapped' \in BOOLEAN,
         \A a \in Actors : pc'[a] = "looked" => pc[a] = "looked",
         UpdateGoesOn
  PROVE  DesktopInv'
<1>1. TypeOK /\ LifecycleTypes /\ PcType /\ DiskType /\ CleanInv /\ GuardInv /\ DiskInv
  BY Types DEF DesktopInv
<1>2. LifecycleTypes' /\ PcType' /\ CleanInv'
  BY <1>1, ProxyStepKeeps
<1>3. GuardInv'
  BY <1>1, GuardKept
<1>4. DiskInv'
  BY <1>1, SceneKept DEF DiskInv, ExeRecoverable, diskVars, UpdateGoesOn
<1>5. DiskType' /\ scene' \in Scenes
  BY <1>1 DEF DiskType, diskVars, TypeOK
<1>6. TypeOK'
  BY <1>2, <1>5 DEF TypeOK, PcType, Places, DiskType
<1> QED
  BY <1>2, <1>3, <1>4, <1>6 DEF DesktopInv

\* A thread that starts or stops the proxy; only the update's place matters.
LEMMA ProxyCallsKeep ==
  ASSUME DesktopInv, NEW a \in Actors, UNCHANGED <<scene, guardVars, diskVars>>,
         \/ Starts(a)
         \/ a = Main /\ Stops(Main, "release", "release")
         \/ a \notin {Main, Update} /\ Stops(a, "start", "idle")
         \/ a = Update /\ Stops(Update, "release", IF windows THEN "failed" ELSE "idle")
  PROVE  DesktopInv'
<1> USE DesktopAssumption
<1>1. TypeOK /\ PcType /\ DiskInv
  BY Types DEF DesktopInv
<1>2. ProxyStep
  BY DEF ProxyStep, Places
<1>3. /\ pc' = [pc EXCEPT ![a] = pc'[a]]
      /\ \/ pc[a] \in {"start", "spawn"} /\ pc'[a] \in {"spawn", "idle"}
         \/ pc[a] \in {"stop", "join"} /\ a = Main /\ pc'[a] \in {"join", "release"}
         \/ pc[a] \in {"stop", "join"} /\ a \notin {Main, Update} /\ pc'[a] \in {"join", "start", "idle"}
         \/ /\ pc[a] \in {"stop", "join"} /\ a = Update
            /\ pc'[a] \in {"join", "release", IF windows THEN "failed" ELSE "idle"}
  BY <1>1, StopsMoves, StartsMoves DEF PcType
<1>4. /\ \A x \in Actors : x # a => pc'[x] = pc[x]
      /\ {pc[Main], pc[Update]} \subseteq Places
  BY <1>1, <1>3 DEF PcType
<1>5. \A x \in Actors : pc'[x] = "looked" => pc[x] = "looked"
  BY <1>3, <1>4
<1>6. pc[Main] = "off" => pc[Update] = "idle"
  BY <1>1 DEF DiskInv
<1>7. UpdateGoesOn
  <2>1. CASE a = Update
    BY <1>3, <1>4, <1>6, <2>1 DEF UpdateGoesOn
  <2>2. CASE a # Update
    BY <1>3, <1>4, <1>6, <2>2 DEF UpdateGoesOn
  <2> QED
    BY <2>1, <2>2
<1> QED
  BY <1>1, <1>2, <1>5, <1>7, HereKeeps DEF guardVars, TypeOK

LEMMA DiesKeeps ==
  ASSUME DesktopInv, Dies
  PROVE  DesktopInv'
<1> USE DesktopAssumption
<1>0. TypeOK /\ LifecycleTypes /\ PcType /\ DiskType /\ CleanInv /\ GuardInv /\ DiskInv
  BY Types DEF DesktopInv
<1>1. /\ Vanishes(Off) /\ holders' = holders \ {Me} /\ overlapped' = FALSE
      /\ UNCHANGED <<scene, rival, raced, diskVars>>
  BY DEF Dies
<1>2. Off \in [Actors -> Places] /\ Off[Main] = "off" /\ Off[Update] = "idle"
      /\ \A a \in Actors : Off[a] # "looked"
  BY DEF Off, Places
<1>3. LifecycleTypes' /\ CleanInv' /\ pc' = Off
  BY <1>1, VanishesTypes, VanishesClean
<1>4. GuardInv'
  BY <1>0, <1>1, <1>2, <1>3, GuardKept
<1>5. DiskInv'
  BY <1>0, <1>1, <1>2, <1>3, SceneKept DEF DiskInv, ExeRecoverable, diskVars
<1>6. TypeOK'
  BY <1>0, <1>1, <1>2, <1>3 DEF TypeOK, Places, diskVars
<1> QED
  BY <1>3, <1>4, <1>5, <1>6 DEF DesktopInv

LEMMA MainKeeps ==
  ASSUME DesktopInv, MainSteps \/ Killed
  PROVE  DesktopInv'
<1> USE DesktopAssumption
<1>0. TypeOK /\ LifecycleTypes /\ PcType /\ DiskType /\ scene \in Scenes /\ CleanInv /\ GuardInv
      /\ DiskInv
  BY Types DEF DesktopInv
<1>1. CASE Acquires(Main, "off")
  <2>1. GuardInv' /\ PcType' /\ UNCHANGED <<allButPc, scene>> /\ holders' \in SUBSET {Me, Rival}
        /\ rival' \in {"off", "looked", "on"} /\ raced' \in BOOLEAN /\ overlapped' \in BOOLEAN
    BY <1>0, <1>1, AcquiresKeeps DEF Places
  <2>2. LifecycleTypes' /\ CleanInv'
    BY <1>0, <2>1, QuietKeepsClean
  <2>3. /\ pc'[Main] # "off" /\ pc'[Update] = pc[Update]
        /\ (pc[Main] = "off" /\ Begins(Main)) \/ UNCHANGED diskVars
    BY <1>0, <1>1 DEF Acquires, TakesMutex, FindsNoLock, WritesLock, Goes, PcType
  <2>4. DiskInv' /\ exe' \in {"none", "old", "new"} /\ backup' \in {"none", "old", "older"}
    BY <1>0, <2>1, <2>3, SceneKept DEF DiskInv, ExeRecoverable, Begins, diskVars, DiskType
  <2>5. TypeOK'
    BY <1>0, <2>1, <2>2, <2>4 DEF TypeOK, PcType, Places
  <2> QED
    BY <2>1, <2>2, <2>4, <2>5 DEF DesktopInv
<1>2. CASE Here(Starts(Main)) \/ Here(Stops(Main, "release", "release"))
  BY <1>2, ProxyCallsKeep DEF Here
<1>3. CASE Here(ExitAsked)
  <2>1. PcType' /\ UNCHANGED allButPc /\ pc[Main] = "idle" /\ pc' = [pc EXCEPT ![Main] = "stop"]
    BY <1>0, <1>3 DEF Here, ExitAsked, Goes, PcType, Places
  <2>2. ProxyStep
    BY <2>1 DEF ProxyStep
  <2>3. UpdateGoesOn /\ \A x \in Actors : pc'[x] = "looked" => pc[x] = "looked"
    BY <1>0, <2>1 DEF UpdateGoesOn, PcType
  <2> QED
    BY <1>0, <1>3, <2>2, <2>3, HereKeeps DEF Here, guardVars, DiskType
<1>4. CASE Exits \/ Killed
  BY <1>4, DiesKeeps DEF Exits, Killed
<1> QED
  BY <1>1, <1>2, <1>3, <1>4 DEF MainSteps

LEMMA MenuKeeps ==
  ASSUME DesktopInv, MenuSteps
  PROVE  DesktopInv'
<1> USE DesktopAssumption
<1>0. PcType /\ DiskInv /\ DiskType
  BY Types DEF DesktopInv
<1>1. PICK a \in Restarters :
        \/ RestartBegins(a)
        \/ Here(Stops(a, "start", "idle"))
        \/ Here(Starts(a))
  BY DEF MenuSteps
<1> USE DEF Restarters
<1>2. CASE RestartBegins(a)
  <2>1. PcType' /\ UNCHANGED allButPc /\ pc[a] = "idle" /\ pc' = [pc EXCEPT ![a] = "stop"]
    BY <1>0, <1>2 DEF RestartBegins, RestartAsked, Goes, PcType, Places
  <2>2. ProxyStep
    BY <2>1 DEF ProxyStep
  <2>3. UpdateGoesOn /\ \A x \in Actors : pc'[x] = "looked" => pc[x] = "looked"
    BY <1>0, <2>1 DEF UpdateGoesOn, PcType
  <2> QED
    BY <1>0, <1>2, <2>2, <2>3, HereKeeps DEF RestartBegins, DiskType
<1>3. CASE Here(Stops(a, "start", "idle")) \/ Here(Starts(a))
  BY <1>3, ProxyCallsKeep DEF Here
<1> QED
  BY <1>1, <1>2, <1>3

-----------------------------------------------------------------------------
\* A step of the update that writes to the disk, or gives the guard up.
LEMMA MovesKeep ==
  ASSUME DesktopInv, NEW to \in Places \ {"looked", "off"}, pc' = [pc EXCEPT ![Update] = to],
         UNCHANGED <<allButPc, scene, rival, raced>>,
         holders' = holders \/ holders' = holders \ {Me}, overlapped' \in BOOLEAN,
         DiskInv', exe' \in {"none", "old", "new"}, backup' \in {"none", "old", "older"}
  PROVE  DesktopInv'
<1>1. TypeOK /\ LifecycleTypes /\ PcType /\ DiskType /\ scene \in Scenes /\ CleanInv /\ GuardInv
  BY Types DEF DesktopInv
<1>2. PcType' /\ \A a \in Actors : pc'[a] = "looked" => pc[a] = "looked"
  BY <1>1 DEF PcType
<1>3. GuardInv'
  BY <1>1, <1>2, GuardKept
<1>4. LifecycleTypes' /\ CleanInv'
  BY <1>1, QuietKeepsClean
<1>5. TypeOK'
  BY <1>1, <1>2, <1>4, DesktopAssumption DEF TypeOK, PcType, Places, DiskType
<1> QED
  BY <1>3, <1>4, <1>5 DEF DesktopInv

LEMMA UpdateKeeps ==
  ASSUME DesktopInv, UpdateSteps
  PROVE  DesktopInv'
<1> USE DesktopAssumption
<1>0. /\ TypeOK /\ LifecycleTypes /\ PcType /\ DiskType /\ scene \in Scenes
      /\ CleanInv /\ GuardInv /\ DiskInv /\ pc[Main] \in Places
  BY Types DEF DesktopInv, PcType
<1>1. ASSUME NEW from, NEW to, UpdateMoves(from, to)
      PROVE  /\ pc' = [pc EXCEPT ![Update] = to] /\ UNCHANGED <<allButPc, scene>>
             /\ pc[Update] = from /\ pc'[Update] = to /\ pc'[Main] = pc[Main]
  BY <1>0, <1>1 DEF UpdateMoves, Goes, PcType
<1> USE DEF DiskInv, ExeRecoverable, DiskType, guardVars, diskVars, Places
<1>2. CASE FetchAsked
  <2>1. /\ pc' = [pc EXCEPT ![Update] = "fetch"] /\ UNCHANGED <<allButPc, scene>>
        /\ pc[Update] = "idle" /\ pc'[Update] = "fetch" /\ pc'[Main] = pc[Main]
    BY <1>1, <1>2 DEF FetchAsked
  <2>2. UNCHANGED <<holders, rival, raced>> /\ overlapped' \in BOOLEAN /\ UNCHANGED <<exe, backup>> /\ pc[Main] # "off"
    BY <1>0, <1>2 DEF FetchAsked, UserIsIn
  <2>3. DiskInv' /\ exe' \in {"none", "old", "new"} /\ backup' \in {"none", "old", "older"}
    BY <1>0, <2>1, <2>2, SceneKept
  <2> QED
    BY <1>0, <2>1, <2>2, <2>3, MovesKeep
<1>3. CASE FetchFails
  <2>1. /\ pc' = [pc EXCEPT ![Update] = "idle"] /\ UNCHANGED <<allButPc, scene>>
        /\ pc[Update] = "fetch" /\ pc'[Update] = "idle" /\ pc'[Main] = pc[Main]
    BY <1>1, <1>3 DEF FetchFails
  <2>2. UNCHANGED <<holders, rival, raced>> /\ overlapped' \in BOOLEAN /\ UNCHANGED <<exe, backup>>
    BY <1>0, <1>3 DEF FetchFails
  <2>3. DiskInv' /\ exe' \in {"none", "old", "new"} /\ backup' \in {"none", "old", "older"}
    BY <1>0, <2>1, <2>2, SceneKept
  <2> QED
    BY <1>0, <2>1, <2>2, <2>3, MovesKeep
<1>4. CASE ExeMovedAway
  <2>1. /\ pc' = [pc EXCEPT ![Update] = "moved"] /\ UNCHANGED <<allButPc, scene>>
        /\ pc[Update] = "fetch" /\ pc'[Update] = "moved" /\ pc'[Main] = pc[Main]
    BY <1>1, <1>4 DEF ExeMovedAway, Installs
  <2>2. UNCHANGED <<holders, rival, raced>> /\ overlapped' \in BOOLEAN /\ windows /\ exe # "none"
        /\ backup = "none" /\ exe' = "none" /\ backup' = exe
    BY <1>0, <1>4 DEF ExeMovedAway, Installs
  <2>3. DiskInv' /\ exe' \in {"none", "old", "new"} /\ backup' \in {"none", "old", "older"}
    BY <1>0, <2>1, <2>2, SceneKept
  <2> QED
    BY <1>0, <2>1, <2>2, <2>3, MovesKeep
<1>5. CASE NewExeInPlace
  <2>1. /\ pc' = [pc EXCEPT ![Update] = "stop"] /\ UNCHANGED <<allButPc, scene>>
        /\ pc[Update] = "moved" /\ pc'[Update] = "stop" /\ pc'[Main] = pc[Main]
    BY <1>1, <1>5 DEF NewExeInPlace
  <2>2. UNCHANGED <<holders, rival, raced>> /\ overlapped' \in BOOLEAN /\ exe' = "new" /\ UNCHANGED backup
    BY <1>0, <1>5 DEF NewExeInPlace
  <2>3. DiskInv' /\ exe' \in {"none", "old", "new"} /\ backup' \in {"none", "old", "older"}
    BY <1>0, <2>1, <2>2, SceneKept
  <2> QED
    BY <1>0, <2>1, <2>2, <2>3, MovesKeep
<1>6. CASE ExeReplaced
  <2>1. /\ pc' = [pc EXCEPT ![Update] = "stop"] /\ UNCHANGED <<allButPc, scene>>
        /\ pc[Update] = "fetch" /\ pc'[Update] = "stop" /\ pc'[Main] = pc[Main]
    BY <1>1, <1>6 DEF ExeReplaced, Installs
  <2>2. UNCHANGED <<holders, rival, raced>> /\ overlapped' \in BOOLEAN /\ ~windows /\ exe' = "new" /\ UNCHANGED backup
    BY <1>0, <1>6 DEF ExeReplaced, Installs
  <2>3. DiskInv' /\ exe' \in {"none", "old", "new"} /\ backup' \in {"none", "old", "older"}
    BY <1>0, <2>1, <2>2, SceneKept
  <2> QED
    BY <1>0, <2>1, <2>2, <2>3, MovesKeep
<1>7. CASE RollsBack("moved", "idle")
  <2>1. /\ pc' = [pc EXCEPT ![Update] = "idle"] /\ UNCHANGED <<allButPc, scene>>
        /\ pc[Update] = "moved" /\ pc'[Update] = "idle" /\ pc'[Main] = pc[Main]
    BY <1>1, <1>7 DEF RollsBack
  <2>2. UNCHANGED <<holders, rival, raced>> /\ overlapped' \in BOOLEAN
    BY <1>0, <1>7 DEF RollsBack
  <2>3. (exe' = backup /\ backup' = "none") \/ UNCHANGED <<exe, backup>>
    BY <1>0, <1>7 DEF RollsBack
  <2>4. DiskInv' /\ exe' \in {"none", "old", "new"} /\ backup' \in {"none", "old", "older"}
    BY <1>0, <2>1, <2>3, SceneKept
  <2> QED
    BY <1>0, <2>1, <2>2, <2>4, MovesKeep
<1>14. CASE RollsBack("failed", "reacquire")
  <2>1. /\ pc' = [pc EXCEPT ![Update] = "reacquire"] /\ UNCHANGED <<allButPc, scene>>
        /\ pc[Update] = "failed" /\ pc'[Update] = "reacquire" /\ pc'[Main] = pc[Main]
    BY <1>1, <1>14 DEF RollsBack
  <2>2. UNCHANGED <<holders, rival, raced>> /\ overlapped' \in BOOLEAN
    BY <1>0, <1>14 DEF RollsBack
  <2>3. (exe' = backup /\ backup' = "none") \/ UNCHANGED <<exe, backup>>
    BY <1>0, <1>14 DEF RollsBack
  <2>4. DiskInv' /\ exe' \in {"none", "old", "new"} /\ backup' \in {"none", "old", "older"}
    BY <1>0, <2>1, <2>3, SceneKept
  <2> QED
    BY <1>0, <2>1, <2>2, <2>4, MovesKeep
<1>8. CASE Here(Stops(Update, "release", IF windows THEN "failed" ELSE "idle"))
           \/ Here(Starts(Update))
  BY <1>8, ProxyCallsKeep DEF Here
<1>9. CASE Releases
  <2>1. /\ pc' = [pc EXCEPT ![Update] = "launch"] /\ UNCHANGED <<allButPc, scene>>
        /\ pc[Update] = "release" /\ pc'[Update] = "launch" /\ pc'[Main] = pc[Main]
    BY <1>1, <1>9 DEF Releases
  <2>2. holders' = holders \ {Me} /\ UNCHANGED <<rival, raced, overlapped, exe, backup>>
    BY <1>0, <1>9 DEF Releases
  <2>3. DiskInv' /\ exe' \in {"none", "old", "new"} /\ backup' \in {"none", "old", "older"}
    BY <1>0, <2>1, <2>2, SceneKept
  <2> QED
    BY <1>0, <2>1, <2>2, <2>3, MovesKeep
<1>10. CASE Launches
  BY <1>10, DiesKeeps DEF Launches
<1>11. CASE LaunchFails
  <2>1. /\ pc' = [pc EXCEPT ![Update] = (IF windows THEN "failed" ELSE "reacquire")] /\ UNCHANGED <<allButPc, scene>>
        /\ pc[Update] = "launch" /\ pc'[Update] = (IF windows THEN "failed" ELSE "reacquire") /\ pc'[Main] = pc[Main]
    BY <1>1, <1>11 DEF LaunchFails
  <2>2. UNCHANGED <<holders, rival, raced>> /\ overlapped' \in BOOLEAN /\ UNCHANGED <<exe, backup>>
    BY <1>0, <1>11 DEF LaunchFails
  <2>3. DiskInv' /\ exe' \in {"none", "old", "new"} /\ backup' \in {"none", "old", "older"}
    BY <1>0, <2>1, <2>2, SceneKept
  <2> QED
    BY <1>0, <2>1, <2>2, <2>3, MovesKeep
<1>12. CASE Acquires(Update, "reacquire")
  <2>1. GuardInv' /\ PcType' /\ UNCHANGED <<allButPc, scene>> /\ holders' \in SUBSET {Me, Rival}
        /\ rival' \in {"off", "looked", "on"} /\ raced' \in BOOLEAN /\ overlapped' \in BOOLEAN
    BY <1>0, <1>12, AcquiresKeeps
  <2>2. LifecycleTypes' /\ CleanInv'
    BY <1>0, <2>1, QuietKeepsClean
  <2>3. /\ pc[Update] \in {"reacquire", "looked"} /\ pc'[Update] \in {"start", "looked"}
        /\ pc'[Main] = pc[Main] /\ UNCHANGED diskVars
    BY <1>0, <1>12 DEF Acquires, TakesMutex, FindsNoLock, WritesLock, Goes, PcType, Begins
  <2>4. DiskInv'
    BY <1>0, <2>1, <2>3, SceneKept
  <2>5. TypeOK'
    BY <1>0, <2>1, <2>2, <2>3 DEF TypeOK, PcType
  <2> QED
    BY <2>1, <2>2, <2>4, <2>5 DEF DesktopInv
<1>13. CASE IsRefused
  <2>1. /\ pc[Update] = "reacquire" /\ pc' = [pc EXCEPT ![Update] = "idle"]
        /\ UNCHANGED <<allButPc, scene, guardVars, diskVars>>
    BY <1>13 DEF IsRefused, Goes
  <2>2. DiskInv' /\ overlapped' \in BOOLEAN
    BY <1>0, <2>1, SceneKept DEF PcType
  <2> QED
    BY <1>0, <2>1, <2>2, MovesKeep
<1> QED
  BY <1>2, <1>3, <1>4, <1>5, <1>6, <1>7, <1>8, <1>9, <1>10, <1>11, <1>12, <1>13, <1>14
     DEF UpdateSteps

-----------------------------------------------------------------------------
LEMMA InitCorrect == Init => DesktopInv
<1> SUFFICES ASSUME Init PROVE DesktopInv
  OBVIOUS
<1> USE DesktopAssumption, LifecycleAssumption
<1>1. TypeOK
  BY DEF Init, NoRun, Off, TypeOK, LifecycleTypes, Stages, ClientStates
<1>2. CleanInv
  BY DEF Init, NoRun, CleanInv, RunsAreClean, RunInv, Alive, InUse
<1>3. GuardInv
  BY DEF Init, NoRun, Off, GuardInv
<1>4. DiskInv
  BY DEF Init, NoRun, Off, DiskInv, ExeRecoverable
<1> QED
  BY <1>1, <1>2, <1>3, <1>4 DEF DesktopInv

LEMMA StepCorrect ==
  ASSUME DesktopInv, [Next]_vars
  PROVE  DesktopInv'
<1>0. TypeOK /\ LifecycleTypes /\ PcType /\ DiskType /\ scene \in Scenes /\ CleanInv /\ GuardInv
      /\ DiskInv
  BY Types DEF DesktopInv
<1>1. ASSUME NEW r \in Runs, Here(Run(r)) \/ Here(Disturbs(r)) PROVE DesktopInv'
  <2>1. UNCHANGED pc /\ UNCHANGED <<scene, guardVars, diskVars>>
    BY <1>0, <1>1, RunTypes DEF Here
  <2>2. ProxyStep
    BY <1>1 DEF ProxyStep, Here
  <2> QED
    BY <1>0, <2>1, <2>2, HereKeeps DEF UpdateGoesOn, guardVars, DiskType
<1>2. CASE MainSteps \/ Killed
  BY <1>2, MainKeeps
<1>3. CASE MenuSteps
  BY <1>3, MenuKeeps
<1>4. CASE UpdateSteps
  BY <1>4, UpdateKeeps
<1>5. CASE OldBackupGoes
  <2>1. UNCHANGED allButPc /\ UNCHANGED <<pc, scene, guardVars, exe>>
        /\ backup = "older" /\ backup' = "none"
    BY <1>5 DEF OldBackupGoes, lifecycleVars, trayVars, allButPc
  <2>2. LifecycleTypes' /\ CleanInv'
    BY <1>0, <2>1, QuietKeepsClean
  <2>3. TypeOK' /\ GuardInv' /\ DiskInv'
    BY <1>0, <2>1, <2>2, SceneKept DEF TypeOK, GuardInv, DiskInv, ExeRecoverable, guardVars
  <2> QED
    BY <2>2, <2>3 DEF DesktopInv
<1>6. CASE RivalStarts \/ RivalWritesLock \/ RivalEnds
  <2>1. GuardInv' /\ DiskType' /\ UNCHANGED <<lifecycleVars, scene, diskVars>>
    BY <1>0, <1>6, RivalKeeps
  <2>2. UNCHANGED allButPc /\ UNCHANGED pc
    BY <2>1 DEF lifecycleVars, trayVars, allButPc
  <2>3. LifecycleTypes' /\ CleanInv'
    BY <1>0, <2>2, QuietKeepsClean
  <2>4. TypeOK' /\ DiskInv'
    BY <1>0, <2>1, <2>2, <2>3, SceneKept DEF TypeOK, DiskType, DiskInv, ExeRecoverable, diskVars
  <2> QED
    BY <2>1, <2>3, <2>4 DEF DesktopInv
<1>7. CASE UNCHANGED vars
  <2>1. UNCHANGED allButPc /\ UNCHANGED <<pc, scene, holders, rival, raced, overlapped, exe, backup>>
    BY <1>7 DEF vars, lifecycleVars, trayVars, allButPc, guardVars, diskVars
  <2>2. LifecycleTypes' /\ CleanInv'
    BY <1>0, <2>1, QuietKeepsClean
  <2>3. TypeOK' /\ GuardInv' /\ DiskInv'
    BY <1>0, <2>1, <2>2, SceneKept DEF TypeOK, GuardInv, DiskInv, ExeRecoverable
  <2> QED
    BY <2>2, <2>3 DEF DesktopInv
<1> QED
  BY <1>1, <1>2, <1>3, <1>4, <1>5, <1>6, <1>7 DEF Next

LEMMA InvCorrect == Spec => []DesktopInv
BY InitCorrect, StepCorrect, PTL DEF Spec

-----------------------------------------------------------------------------
\* Who runs the proxy has the guard.  The main thread starts it before there is an update,
\* an update only once it has the guard back, and a restart that does not meet an update
\* finds the guard where it was; an update that gives the guard up has stopped the proxy.
MainFirst == pc[Main] \in {"off", "looked", "start", "spawn"} => pc[Update] = "idle"

StartsGuarded ==
  ~blind /\ (pc[Main] \in {"start", "spawn"} \/ pc[Update] \in {"start", "spawn"})
    => Me \in holders

Apart ==
  ~overlapped =>
    \A a \in Restarters : pc[a] # "idle" =>
      pc[Update] \in {"idle", "fetch"} /\ (Me \in holders \/ blind)

RunsGuarded ==
  ~orphaned /\ ~overlapped /\ ~blind =>
    \A r \in Runs : Alive(r) => Me \in holders /\ pc[Update] # "release"

ProxyInv == MainFirst /\ StartsGuarded /\ Apart /\ RunsGuarded

LEMMA RunBringsNone ==
  ASSUME LifecycleTypes, NEW r \in Runs, Run(r) \/ Disturbs(r)
  PROVE  \A x \in Runs : Alive(x)' => Alive(x)
<1> USE DEF LifecycleTypes, Moves, Alive, trayVars
<1>1. CASE LoopStarts(r) \/ Listens(r, "setup") \/ Listens(r, "pause") \/ StartFails(r)
           \/ DialogDismissed(r) \/ ListenerDies(r) \/ ServerClosed(r)
  BY <1>1 DEF LoopStarts, Listens, StartFails, DialogDismissed, ListenerDies, ServerClosed
<1>2. CASE Gathered(r) \/ Drained(r) \/ H2Closes(r) \/ LoopCloses(r) \/ ThreadEnds(r)
  BY <1>2 DEF Gathered, Drained, H2Closes, LoopCloses, ThreadEnds
<1>3. CASE StopSeen(r) \/ RelistenFails(r)
  BY <1>3 DEF StopSeen, RelistenFails, Finally
<1>4. CASE ClientComes(r) \/ HandlerStarts(r) \/ HandlerEnds(r) \/ StuckEnds(r) \/ Unwinds(r)
  BY <1>4 DEF ClientComes, HandlerStarts, HandlerEnds, StuckEnds, Unwinds, ClientLeaves
<1> QED
  BY <1>1, <1>2, <1>3, <1>4 DEF Run, Proceeds, Happens, Disturbs

\* Steps of the runs and of the other instance.
LEMMA ElsewhereKeeps ==
  ASSUME ProxyInv, UNCHANGED <<pc, scene, orphaned, overlapped>>,
         ~blind /\ Me \in holders => Me \in holders',
         \A x \in Runs : Alive(x)' => Alive(x)
  PROVE  ProxyInv'
<1>1. blind' = blind
  BY SceneKept
<1>2. MainFirst' /\ StartsGuarded'
  BY <1>1 DEF ProxyInv, MainFirst, StartsGuarded
<1>3. Apart'
  BY <1>1 DEF ProxyInv, Apart
<1>4. RunsGuarded'
  BY <1>1 DEF ProxyInv, RunsGuarded
<1> QED
  BY <1>2, <1>3, <1>4 DEF ProxyInv

\* A step of the main thread or of a restart, other than the one that starts a run.
LEMMA ActorKeeps ==
  ASSUME ProxyInv, PcType, NEW a \in Actors \ {Update}, NEW to, pc' = [pc EXCEPT ![a] = to],
         UNCHANGED <<at, scene>>, orphaned => orphaned', overlapped => overlapped',
         ~blind /\ Me \in holders => Me \in holders',
         a = Main /\ to \in {"off", "looked", "start", "spawn"}
           => pc[Main] \in {"off", "looked", "start", "spawn"},
         a = Main /\ to \in {"start", "spawn"} /\ ~blind => Me \in holders',
         a # Main /\ to # "idle" /\ ~overlapped' /\ pc[a] = "idle"
           => pc[Update] \in {"idle", "fetch"} /\ Me \in holders'
  PROVE  ProxyInv'
<1>1. blind' = blind /\ \A x \in Runs : Alive(x)' = Alive(x)
  BY SceneKept DEF Alive
<1>2. pc'[a] = to /\ \A x \in Actors \ {a} : pc'[x] = pc[x]
  BY DEF PcType
<1>3. pc'[Update] = pc[Update] /\ (a # Main => pc'[Main] = pc[Main])
  BY <1>2, DesktopAssumption
<1>4. MainFirst' /\ StartsGuarded'
  BY <1>1, <1>2, <1>3 DEF ProxyInv, MainFirst, StartsGuarded
<1>5. Apart'
  BY <1>1, <1>2, <1>3 DEF ProxyInv, Apart, Restarters
<1>6. RunsGuarded'
  BY <1>1, <1>3 DEF ProxyInv, RunsGuarded
<1> QED
  BY <1>4, <1>5, <1>6 DEF ProxyInv

\* The same of the update, which begins beside no restart and gives the guard up last.
LEMMA UpdateStepKeeps ==
  ASSUME ProxyInv, PcType, NEW to, pc' = [pc EXCEPT ![Update] = to], UNCHANGED <<at, scene>>,
         orphaned => orphaned', overlapped => overlapped',
         pc[Update] # "idle" \/ pc[Main] = "idle",
         to \in {"start", "spawn"} /\ ~blind => Me \in holders',
         ~blind /\ Me \in holders => Me \in holders' \/ pc[Update] = "release",
         to \notin {"idle", "fetch"} /\ ~overlapped' /\ pc[Update] \in {"idle", "fetch"}
           => \A a \in Restarters : pc[a] = "idle",
         to = "release" /\ ~orphaned' => \A r \in Runs : ~Alive(r)
  PROVE  ProxyInv'
<1>1. blind' = blind /\ \A x \in Runs : Alive(x)' = Alive(x)
  BY SceneKept DEF Alive
<1>2. pc'[Update] = to /\ pc'[Main] = pc[Main] /\ \A a \in Restarters : pc'[a] = pc[a]
  BY DesktopAssumption DEF PcType, Restarters
<1>3. MainFirst'
  BY <1>2 DEF ProxyInv, MainFirst
<1>4. StartsGuarded'
  BY <1>1, <1>2 DEF ProxyInv, MainFirst, StartsGuarded
<1>5. Apart'
  BY <1>1, <1>2 DEF ProxyInv, Apart
<1>6. RunsGuarded'
  BY <1>1, <1>2 DEF ProxyInv, RunsGuarded
<1> QED
  BY <1>3, <1>4, <1>5, <1>6 DEF ProxyInv

LEMMA SpawnKeeps ==
  ASSUME ProxyInv, PcType, NEW a \in Actors, StartSpawns(a), UNCHANGED <<scene, guardVars>>
  PROVE  ProxyInv'
<1>1. /\ pc[a] = "spawn" /\ pc'[a] = "idle" /\ \A x \in Actors \ {a} : pc'[x] = pc[x]
      /\ (orphaned => orphaned') /\ UNCHANGED <<holders, overlapped>>
  BY DEF StartSpawns, Goes, Follows, PcType, guardVars
<1>2. blind' = blind
  BY SceneKept
<1>3. \/ a = Main /\ pc'[Update] = pc[Update] /\ pc[Update] = "idle"
      \/ a = Update /\ pc'[Main] = pc[Main] /\ pc'[Update] = "idle"
      \/ a \in Restarters /\ pc'[Update] = pc[Update] /\ pc'[Main] = pc[Main]
  BY <1>1, DesktopAssumption DEF Restarters, ProxyInv, MainFirst
<1>4. ~overlapped /\ ~blind => Me \in holders /\ pc'[Update] # "release"
  BY <1>1, <1>3, DesktopAssumption DEF ProxyInv, StartsGuarded, Apart
<1>5. MainFirst' /\ StartsGuarded'
  BY <1>1, <1>2, <1>3, DesktopAssumption DEF ProxyInv, MainFirst, StartsGuarded
<1>6. Apart'
  BY <1>1, <1>2, <1>3, DesktopAssumption DEF ProxyInv, Apart, Restarters
<1>7. RunsGuarded'
  BY <1>1, <1>2, <1>4 DEF RunsGuarded
<1> QED
  BY <1>5, <1>6, <1>7 DEF ProxyInv

\* A stop that goes on has left no run alive, or says so.
LEMMA StopsLeaveNone ==
  ASSUME LifecycleTypes, CleanInv, NEW a \in Actors, NEW next \in Places, NEW failed \in Places,
         next \notin {"join", failed}, PcType,
         Stops(a, next, failed), pc'[a] = next, ~orphaned'
  PROVE  \A r \in Runs : ~Alive(r)
<1>1. CASE StopWithoutLoop(a, next) \/ JoinReturns(a, next)
  BY <1>1, LifecycleAssumption
     DEF StopWithoutLoop, JoinReturns, Forget, Follows, CleanInv, RunsAreClean
<1>2. CASE StopSignals(a, next)
  <2>1. ~orphaned /\ asyncStop \in Runs /\ proxyThread = None
    BY <1>2 DEF StopSignals, LifecycleTypes, Goes, PcType
  <2> QED
    BY <2>1, LifecycleAssumption DEF CleanInv, RunsAreClean, Alive
<1>3. CASE StopRaises(a, failed)
  BY <1>3 DEF StopRaises, Goes, PcType
<1> QED
  BY <1>1, <1>2, <1>3 DEF Stops

LEMMA StopsFacts ==
  ASSUME NEW a, NEW next, NEW failed, Stops(a, next, failed)
  PROVE  UNCHANGED at /\ (orphaned => orphaned')
<1>1. CASE StopWithoutLoop(a, next) \/ JoinReturns(a, next)
  BY <1>1 DEF StopWithoutLoop, JoinReturns, Forget, Follows, runVars
<1>2. CASE StopSignals(a, next) \/ StopRaises(a, failed)
  BY <1>2 DEF StopSignals, StopRaises, allButPc, runVars
<1> QED
  BY <1>1, <1>2 DEF Stops

LEMMA AcquiresFacts ==
  ASSUME PcType, NEW a \in Actors, NEW from, Acquires(a, from)
  PROVE  /\ pc[a] \in {from, "looked"} /\ pc' = [pc EXCEPT ![a] = pc'[a]]
         /\ pc'[a] \in {"start", "looked"} /\ (pc'[a] = "start" => Me \in holders')
         /\ UNCHANGED <<at, scene, orphaned, overlapped>>
         /\ (~blind /\ Me \in holders => Me \in holders')
<1> USE DEF Goes, PcType, NowHeldBy, allButPc, runVars
<1>1. CASE TakesMutex(a, from)
  BY <1>1 DEF TakesMutex
<1>2. CASE FindsNoLock(a, from)
  BY <1>2 DEF FindsNoLock
<1>3. CASE WritesLock(a)
  BY <1>3 DEF WritesLock
<1> QED
  BY <1>1, <1>2, <1>3 DEF Acquires

LEMMA DiesProxy ==
  ASSUME Dies
  PROVE  ProxyInv'
<1>1. pc' = Off /\ \A r \in Runs : ~Alive(r)'
  BY DEF Dies, Vanishes, Alive
<1>2. pc'[Main] = "off" /\ pc'[Update] = "idle" /\ \A a \in Restarters : pc'[a] = "idle"
  BY <1>1, DesktopAssumption DEF Off, Restarters
<1> QED
  BY <1>1, <1>2 DEF ProxyInv, MainFirst, StartsGuarded, Apart, RunsGuarded

LEMMA MainProxy ==
  ASSUME DesktopInv, ProxyInv, MainSteps \/ Killed
  PROVE  ProxyInv'
<1> USE DesktopAssumption
<1>0. PcType
  BY Types DEF DesktopInv
<1>1. CASE Acquires(Main, "off")
  <2>1. /\ pc[Main] \in {"off", "looked"} /\ pc' = [pc EXCEPT ![Main] = pc'[Main]]
        /\ (pc'[Main] = "start" => Me \in holders') /\ pc'[Main] \in {"start", "looked"}
        /\ UNCHANGED <<at, scene, orphaned, overlapped>>
        /\ (~blind /\ Me \in holders => Me \in holders')
    BY <1>0, <1>1, AcquiresFacts
  <2> QED
    BY <1>0, <2>1, ActorKeeps
<1>2. CASE Here(StartTests(Main))
  <2>1. /\ pc[Main] = "start" /\ UNCHANGED <<at, scene, orphaned, overlapped, holders>>
        /\ \/ pc' = [pc EXCEPT ![Main] = "idle"]
           \/ pc' = [pc EXCEPT ![Main] = "spawn"]
    BY <1>2 DEF Here, StartTests, Goes, allButPc, runVars, guardVars
  <2>2. ~blind => Me \in holders
    BY <2>1 DEF ProxyInv, StartsGuarded
  <2> QED
    BY <1>0, <2>1, <2>2, ActorKeeps
<1>3. CASE Here(StartSpawns(Main))
  BY <1>0, <1>3, SpawnKeeps DEF Here
<1>4. CASE Here(ExitAsked)
  <2>1. /\ pc' = [pc EXCEPT ![Main] = "stop"]
        /\ UNCHANGED <<at, scene, orphaned, overlapped, holders>>
    BY <1>4 DEF Here, ExitAsked, Goes, allButPc, runVars, guardVars
  <2> QED
    BY <1>0, <2>1, ActorKeeps
<1>5. CASE Here(Stops(Main, "release", "release"))
  <2>1. /\ UNCHANGED <<at, scene, overlapped, holders>> /\ (orphaned => orphaned')
        /\ pc' = [pc EXCEPT ![Main] = pc'[Main]] /\ pc'[Main] \in {"join", "release"}
    BY <1>0, <1>5, StopsMoves, StopsFacts DEF Here, guardVars
  <2> QED
    BY <1>0, <2>1, ActorKeeps
<1>6. CASE Exits \/ Killed
  BY <1>6, DiesProxy DEF Exits, Killed
<1> QED
  BY <1>1, <1>2, <1>3, <1>4, <1>5, <1>6 DEF MainSteps, Starts, Here

LEMMA MenuProxy ==
  ASSUME DesktopInv, ProxyInv, MenuSteps
  PROVE  ProxyInv'
<1> USE DesktopAssumption
<1>0. PcType
  BY Types DEF DesktopInv
<1>1. PICK a \in Restarters :
        RestartBegins(a) \/ Here(Stops(a, "start", "idle")) \/ Here(Starts(a))
  BY DEF MenuSteps
<1>2. a \in Actors \ {Update} /\ a # Main
  BY DEF Restarters
<1>3. CASE RestartBegins(a)
  <2>1. /\ pc' = [pc EXCEPT ![a] = "stop"] /\ UNCHANGED <<at, scene, orphaned, holders>>
        /\ (overlapped => overlapped')
        /\ (~overlapped' => pc[Update] \in {"idle", "fetch"} /\ Me \in holders)
    BY <1>3 DEF RestartBegins, RestartAsked, Goes, allButPc, runVars
  <2> QED
    BY <1>0, <1>2, <2>1, ActorKeeps
<1>4. CASE Here(Stops(a, "start", "idle"))
  <2>1. /\ UNCHANGED <<at, scene, overlapped, holders>> /\ (orphaned => orphaned')
        /\ pc' = [pc EXCEPT ![a] = pc'[a]] /\ pc[a] \in {"stop", "join"}
    BY <1>0, <1>2, <1>4, StopsMoves, StopsFacts DEF Here, guardVars
  <2> QED
    BY <1>0, <1>2, <2>1, ActorKeeps
<1>5. CASE Here(StartTests(a))
  <2>1. /\ pc[a] = "start" /\ UNCHANGED <<at, scene, orphaned, overlapped, holders>>
        /\ \/ pc' = [pc EXCEPT ![a] = "idle"]
           \/ pc' = [pc EXCEPT ![a] = "spawn"]
    BY <1>5 DEF Here, StartTests, Goes, allButPc, runVars, guardVars
  <2> QED
    BY <1>0, <1>2, <2>1, ActorKeeps
<1>6. CASE Here(StartSpawns(a))
  BY <1>0, <1>2, <1>6, SpawnKeeps DEF Here
<1> QED
  BY <1>1, <1>3, <1>4, <1>5, <1>6 DEF Starts, Here

LEMMA UpdateProxy ==
  ASSUME DesktopInv, ProxyInv, UpdateSteps
  PROVE  ProxyInv'
<1> USE DesktopAssumption
<1>0. PcType /\ LifecycleTypes /\ CleanInv
  BY Types DEF DesktopInv
<1> USE DEF UpdateMoves, Goes, allButPc, runVars, guardVars
<1>1. CASE FetchAsked \/ FetchFails
  BY <1>0, <1>1, UpdateStepKeeps DEF FetchAsked, FetchFails, UserIsIn
<1>2. ASSUME NEW to \in {"moved", "stop"}, Installs(to) PROVE UNCHANGED at => ProxyInv'
  <2>1. /\ pc[Update] = "fetch" /\ pc' = [pc EXCEPT ![Update] = to]
        /\ UNCHANGED <<at, scene, orphaned, holders>> /\ (overlapped => overlapped')
        /\ (~overlapped' => \A a \in Restarters : pc[a] = "idle")
    BY <1>2 DEF Installs
  <2> QED
    BY <1>0, <2>1, UpdateStepKeeps
<1>3. CASE ExeMovedAway \/ ExeReplaced
  BY <1>2, <1>3 DEF ExeMovedAway, ExeReplaced, Installs
<1>4. CASE NewExeInPlace
  BY <1>0, <1>4, UpdateStepKeeps DEF NewExeInPlace
<1>5. CASE RollsBack("moved", "idle") \/ RollsBack("failed", "reacquire")
  BY <1>0, <1>5, UpdateStepKeeps DEF RollsBack
<1>6. CASE Here(Stops(Update, "release", IF windows THEN "failed" ELSE "idle"))
  <2>1. /\ UNCHANGED <<at, scene, overlapped, holders>> /\ (orphaned => orphaned')
        /\ pc' = [pc EXCEPT ![Update] = pc'[Update]] /\ pc[Update] \in {"stop", "join"}
        /\ pc'[Update] \in {"join", "release", IF windows THEN "failed" ELSE "idle"}
    BY <1>0, <1>6, StopsMoves, StopsFacts DEF Here
  <2>2. pc'[Update] = "release" /\ ~orphaned' => \A r \in Runs : ~Alive(r)
    BY <1>0, <1>6, StopsLeaveNone DEF Here, Places
  <2> QED
    BY <1>0, <2>1, <2>2, UpdateStepKeeps
<1>7. CASE Releases
  BY <1>0, <1>7, UpdateStepKeeps DEF Releases
<1>8. CASE Launches
  BY <1>8, DiesProxy DEF Launches
<1>9. CASE LaunchFails
  BY <1>0, <1>9, UpdateStepKeeps DEF LaunchFails
<1>10. CASE Acquires(Update, "reacquire")
  <2>1. /\ pc[Update] \in {"reacquire", "looked"} /\ pc' = [pc EXCEPT ![Update] = pc'[Update]]
        /\ (pc'[Update] = "start" => Me \in holders') /\ pc'[Update] \in {"start", "looked"}
        /\ UNCHANGED <<at, scene, orphaned, overlapped>>
        /\ (~blind /\ Me \in holders => Me \in holders')
    BY <1>0, <1>10, AcquiresFacts
  <2> QED
    BY <1>0, <2>1, UpdateStepKeeps
<1>11. CASE IsRefused
  BY <1>0, <1>11, UpdateStepKeeps DEF IsRefused
<1>12. CASE Here(StartTests(Update))
  <2>1. /\ pc[Update] = "start" /\ UNCHANGED <<at, scene, orphaned, overlapped, holders>>
        /\ \/ pc' = [pc EXCEPT ![Update] = "idle"]
           \/ pc' = [pc EXCEPT ![Update] = "spawn"]
    BY <1>12 DEF Here, StartTests
  <2>2. ~blind => Me \in holders
    BY <2>1 DEF ProxyInv, StartsGuarded
  <2> QED
    BY <1>0, <2>1, <2>2, UpdateStepKeeps
<1>13. CASE Here(StartSpawns(Update))
  BY <1>0, <1>13, SpawnKeeps DEF Here
<1> QED
  BY <1>1, <1>3, <1>4, <1>5, <1>6, <1>7, <1>8, <1>9, <1>10, <1>11, <1>12, <1>13
     DEF UpdateSteps, Starts, Here

LEMMA ProxyStepCorrect ==
  ASSUME DesktopInv, ProxyInv, [Next]_vars
  PROVE  ProxyInv'
<1>0. LifecycleTypes
  BY Types DEF DesktopInv
<1>1. ASSUME NEW r \in Runs, Here(Run(r)) \/ Here(Disturbs(r)) PROVE ProxyInv'
  <2>1. UNCHANGED <<pc, orphaned>> /\ \A x \in Runs : Alive(x)' => Alive(x)
    BY <1>0, <1>1, RunTypes, RunBringsNone DEF Here
  <2>2. UNCHANGED <<scene, holders, overlapped>>
    BY <1>1 DEF Here, guardVars
  <2> QED
    BY <2>1, <2>2, ElsewhereKeeps
<1>2. CASE OldBackupGoes \/ UNCHANGED vars
  <2>1. UNCHANGED <<pc, at, orphaned, scene, holders, overlapped>>
    BY <1>2 DEF OldBackupGoes, vars, guardVars, lifecycleVars, trayVars, runVars
  <2> QED
    BY <2>1, ElsewhereKeeps DEF Alive
<1>3. CASE RivalStarts \/ RivalWritesLock \/ RivalEnds
  <2>1. /\ UNCHANGED <<pc, at, orphaned, scene, overlapped>>
        /\ (~blind /\ Me \in holders => Me \in holders')
    BY <1>3, DesktopAssumption
       DEF RivalStarts, RivalWritesLock, RivalEnds, NowHeldBy, lifecycleVars, trayVars, runVars
  <2> QED
    BY <2>1, ElsewhereKeeps DEF Alive
<1> QED
  BY <1>1, <1>2, <1>3, MainProxy, MenuProxy, UpdateProxy DEF Next

LEMMA ProxyInitCorrect == Init => ProxyInv
BY DesktopAssumption
   DEF Init, NoRun, Off, Alive, ProxyInv, MainFirst, StartsGuarded, Apart, RunsGuarded, Restarters

LEMMA ProxyInvCorrect == Spec => []ProxyInv
BY InvCorrect, ProxyInitCorrect, ProxyStepCorrect, PTL DEF Spec

LEMMA ProxyStatic == GuardInv /\ ProxyInv => OneProxy
BY DEF GuardInv, ProxyInv, RunsGuarded, OneProxy

\* No proxy of this instance runs beside another instance, unless both scanned for lock
\* files at once or do not recognise each other, a living run was lost to the tray, or a
\* restart met an update or followed one that lost the guard (acquire_lock,
\* _acquire_win_mutex, _perform_update, _restart_after_update, restart_proxy).
THEOREM ProxyCorrect == Spec => []OneProxy
BY InvCorrect, ProxyInvCorrect, ProxyStatic, PTL DEF DesktopInv

-----------------------------------------------------------------------------
\* Every variable of the lifecycle, the guard and the disk has its type; the backup is
\* never something else than the executable that was moved there (apply_update).
THEOREM TypeCorrect == Spec => []TypeOK
BY InvCorrect, PTL DEF DesktopInv

LEMMA CleanStatic == CleanInv => RunsAreClean
BY DEF CleanInv, RunsAreClean

\* With any number of proxy threads and of threads that restart, whatever the interleaving
\* of what they test and what they assign: unless an assignment of _proxy_thread has lost
\* a run that was alive, the tray can stop the one there is, that one has its pools to
\* itself, and nothing is left of those that ended (_run, stop_proxy, start_proxy).
THEOREM CleanCorrect == Spec => []RunsAreClean
BY InvCorrect, CleanStatic, PTL DEF DesktopInv

\* Whenever the process dies, what it runs or a whole new version is on disk
\* (apply_update and its rollback).
THEOREM DiskCorrect == Spec => []ExeRecoverable
BY InvCorrect, PTL DEF DesktopInv, DiskInv

=============================================================================
