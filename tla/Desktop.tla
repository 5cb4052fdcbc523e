-------------------------------- MODULE Desktop --------------------------------
(***************************************************************************)
(* The tray application around the proxy: the guard against a second       *)
(* instance, the menu's Restart and Exit, and the installation of an       *)
(* update, from src/windows.py, src/linux.py, src/utils/tray_common.py,    *)
(* src/utils/windows_update.py and src/utils/linux_update.py.              *)
(*                                                                         *)
(* Me is the application modelled in full; Rival is any other start of it, *)
(* the one the update launches included, of which only the guard is        *)
(* modelled.  A lock file whose process is gone is removed by the next     *)
(* scan, so holders has those of living processes only.                    *)
(***************************************************************************)
EXTENDS ServerLifecycle

CONSTANTS
  Main, Update,  \* the main thread and the update's thread; the other actors restart
  Me, Rival,
  Network,
  Scenes         \* bound: what a behaviour has to do with, see SceneType

\* windows: or Linux; the guard is a mutex or lock files, an update installed in its way.
\* blind: _same_process does not know the other instance for one.
\* cast: who appears beside the main thread.
SceneType == [windows : BOOLEAN, blind : BOOLEAN, cast : SUBSET (Actors \cup {Rival, Network})]

ASSUME DesktopAssumption ==
  /\ {Main, Update} \subseteq Actors /\ Main # Update /\ Me # Rival
  /\ Scenes \subseteq SceneType
  /\ \A s \in Scenes : ~(s.windows /\ s.blind)

VARIABLES
  scene,    \* which never changes
  holders,  \* the processes that hold the guard
  rival,    \* the other instance
  raced,    \* history: have both looked for lock files before either wrote one?
  overlapped, \* history: has a restart met an update, or followed one that lost the guard?
  exe,      \* what is in the place of the executable; "old" is what Me runs
  backup    \* and in that of its backup; "older" is what no process runs

Restarters == Actors \ {Main, Update}

diskVars == <<exe, backup>>
guardVars == <<holders, rival, raced, overlapped>>
vars == <<lifecycleVars, scene, guardVars, diskVars>>

windows == scene.windows
blind == scene.blind
Appears(one) == one \in scene.cast

Off == [a \in Actors |-> IF a = Main THEN "off" ELSE "idle"]

Init ==
  /\ NoRun
  /\ pc = Off
  /\ scene \in Scenes
  /\ holders = {}
  /\ rival = "off"
  /\ raced = FALSE
  /\ overlapped = FALSE
  /\ exe = "old"
  /\ backup = "none"

(***************************************************************************)
(* The guard: _acquire_win_mutex, or acquire_lock in two steps.            *)
(***************************************************************************)
NowHeldBy(p) == holders' = holders \cup {p}

Looks(other) == raced' = (raced \/ other)

\* What starts is the executable in place; it calls itself old.
Begins(a) ==
  IF a = Main
  THEN /\ exe # "none"
       /\ exe' = "old"
       /\ backup' = IF exe = "new" /\ backup = "old" THEN "older" ELSE backup
  ELSE UNCHANGED diskVars

TakesMutex(a, from) ==
  /\ windows
  /\ pc[a] = from
  /\ holders = {}
  /\ Begins(a)
  /\ NowHeldBy(Me)
  /\ Goes(a, "start")
  /\ UNCHANGED <<allButPc, scene, rival, raced, overlapped>>

\* The scan removes every lock file whose process is not recognised, a living one's too.
FindsNoLock(a, from) ==
  /\ ~windows
  /\ pc[a] = from
  /\ holders = {} \/ blind
  /\ holders' = {}
  /\ Begins(a)
  /\ Looks(rival = "looked")
  /\ Goes(a, "looked")
  /\ UNCHANGED <<allButPc, scene, rival, overlapped>>

WritesLock(a) ==
  /\ pc[a] = "looked"
  /\ NowHeldBy(Me)
  /\ Goes(a, "start")
  /\ UNCHANGED <<allButPc, scene, rival, raced, overlapped, diskVars>>

Acquires(a, from) == TakesMutex(a, from) \/ FindsNoLock(a, from) \/ WritesLock(a)

\* The guard is somebody's, of this very process it may be: an update gives up.
IsRefused ==
  /\ pc[Update] = "reacquire"
  /\ holders # {}
  /\ ~blind
  /\ Goes(Update, "idle")
  /\ UNCHANGED <<allButPc, scene, guardVars, diskVars>>

RivalStarts ==
  /\ Appears(Rival)
  /\ rival = "off"
  /\ exe # "none"
  /\ holders = {} \/ blind
  /\ IF windows
     THEN rival' = "on" /\ NowHeldBy(Rival) /\ UNCHANGED raced
     ELSE /\ rival' = "looked"
          /\ Looks(\E a \in Actors : pc[a] = "looked")
          /\ holders' = {}
  /\ UNCHANGED <<lifecycleVars, scene, overlapped, diskVars>>

RivalWritesLock ==
  /\ rival = "looked"
  /\ rival' = "on"
  /\ NowHeldBy(Rival)
  /\ UNCHANGED <<lifecycleVars, scene, raced, overlapped, diskVars>>

\* However it ends: its mutex is released, its lock file removed or of no account.
RivalEnds ==
  /\ rival # "off"
  /\ rival' = "off"
  /\ holders' = holders \ {Rival}
  /\ raced' = FALSE
  /\ UNCHANGED <<lifecycleVars, scene, overlapped, diskVars>>

(***************************************************************************)
(* The main thread and the menu.                                           *)
(***************************************************************************)
Here(action) == action /\ UNCHANGED <<scene, guardVars, diskVars>>

Dies ==
  /\ Vanishes(Off)
  /\ holders' = holders \ {Me}
  /\ overlapped' = FALSE
  /\ UNCHANGED <<scene, rival, raced, diskVars>>

\* Everything ends at once: os._exit of the exit that takes too long, or a crash.
Killed == pc[Main] # "off" /\ Dies

ExitAsked ==
  /\ pc[Main] = "idle"
  /\ Goes(Main, "stop")
  /\ UNCHANGED allButPc

\* main's finally clause, and the daemon threads end with the process.
Exits == pc[Main] = "release" /\ Dies

MainSteps ==
  \/ Acquires(Main, "off")
  \/ Here(Starts(Main))
  \/ Here(ExitAsked)
  \/ Here(Stops(Main, "release", "release"))
  \/ Exits

\* Bound: nothing new is asked for once a run has been lost.
UserIsIn == pc[Main] = "idle" /\ ~orphaned

(***************************************************************************)
(* The update.                                                             *)
(***************************************************************************)
\* apply_update removes an earlier backup; so does main, a while after the start.  The
\* image of a running process cannot be removed.
OldBackupGoes ==
  /\ windows
  /\ pc[Main] # "off"
  /\ backup = "older"
  /\ backup' = "none"
  /\ UNCHANGED <<lifecycleVars, scene, guardVars, exe>>

UpdateMoves(from, to) ==
  /\ pc[Update] = from
  /\ Goes(Update, to)
  /\ UNCHANGED <<allButPc, scene>>

\* download_asset writes beside the executable.
FetchAsked ==
  /\ Appears(Update)
  /\ UserIsIn
  /\ UpdateMoves("idle", "fetch")
  /\ UNCHANGED <<guardVars, diskVars>>

\* The download or its checksum, or the first step of the installation: what has been
\* written is removed.
FetchFails ==
  /\ UpdateMoves("fetch", "idle")
  /\ UNCHANGED <<guardVars, diskVars>>

Installs(to) ==
  /\ UpdateMoves("fetch", to)
  /\ overlapped' = (overlapped \/ \E a \in Restarters : pc[a] # "idle")
  /\ UNCHANGED <<holders, rival, raced>>

\* Variant: an earlier backup is kept.
ExeMovedAwayOnce ==
  /\ windows
  /\ exe # "none"
  /\ exe' = "none"
  /\ backup' = IF backup = "none" THEN exe ELSE backup
  /\ Installs("moved")

ExeMovedAway ==
  /\ windows
  /\ exe # "none"
  /\ backup = "none"
  /\ exe' = "none"
  /\ backup' = exe
  /\ Installs("moved")

\* Variant: the backup goes as soon as the new executable is in place.
NewExeAlone ==
  /\ exe' = "new"
  /\ backup' = "none"
  /\ UpdateMoves("moved", "stop")
  /\ UNCHANGED guardVars

NewExeInPlace ==
  /\ exe' = "new"
  /\ UpdateMoves("moved", "stop")
  /\ UNCHANGED <<guardVars, backup>>

\* os.replace, or mv by the elevated script.
ExeReplaced ==
  /\ ~windows
  /\ exe' = "new"
  /\ Installs("stop")
  /\ UNCHANGED backup

\* backup.replace(exe), which may fail like any of these steps.
RollsBack(from, to) ==
  /\ UpdateMoves(from, to)
  /\ \/ exe' = backup /\ backup' = "none"
     \/ UNCHANGED diskVars
  /\ UNCHANGED guardVars

Releases ==
  /\ holders' = holders \ {Me}
  /\ UpdateMoves("release", "launch")
  /\ UNCHANGED <<rival, raced, overlapped, diskVars>>

Launches == pc[Update] = "launch" /\ Dies

\* Variant: the guard is not taken back.
LaunchFailsUnguarded ==
  /\ UpdateMoves("launch", IF windows THEN "failed" ELSE "start")
  /\ UNCHANGED <<guardVars, diskVars>>

\* Only Windows puts the old executable back.
LaunchFails ==
  /\ UpdateMoves("launch", IF windows THEN "failed" ELSE "reacquire")
  /\ UNCHANGED <<guardVars, diskVars>>

UpdateSteps ==
  \/ FetchAsked
  \/ FetchFails
  \/ ExeMovedAway
  \/ NewExeInPlace
  \/ ExeReplaced
  \/ RollsBack("moved", "idle")
  \/ Here(Stops(Update, "release", IF windows THEN "failed" ELSE "idle"))
  \/ Releases
  \/ Launches
  \/ LaunchFails
  \/ RollsBack("failed", "reacquire")
  \/ Acquires(Update, "reacquire")
  \/ IsRefused
  \/ Here(Starts(Update))

\* A click of Restart, or new scene, while the tray runs; nothing keeps it from another
\* that is under way, or from an update.
RestartBegins(a) ==
  /\ Appears(a)
  /\ UserIsIn
  /\ RestartAsked(a)
  /\ overlapped' = (overlapped \/ Me \notin holders \/ pc[Update] \notin {"idle", "fetch"})
  /\ UNCHANGED <<scene, holders, rival, raced, diskVars>>

MenuSteps ==
  \E a \in Restarters :
    \/ RestartBegins(a)
    \/ Here(Stops(a, "start", "idle"))
    \/ Here(Starts(a))

Next ==
  \/ \E r \in Runs : Here(Run(r)) \/ (Appears(Network) /\ Here(Disturbs(r)))
  \/ MainSteps
  \/ MenuSteps
  \/ UpdateSteps
  \/ OldBackupGoes
  \/ RivalStarts \/ RivalWritesLock \/ RivalEnds
  \/ Killed

Spec == Init /\ [][Next]_vars

FairSpec == Spec /\ \A r \in Runs : WF_vars(Here(Proceeds(r)))

--------------------------------------------------------------------------------
TypeOK ==
  /\ LifecycleTypes
  /\ pc \in [Actors -> {"off", "idle", "stop", "join", "start", "spawn", "looked",
                        "release", "fetch", "moved", "launch", "failed", "reacquire"}]
  /\ scene \in Scenes
  /\ holders \in SUBSET {Me, Rival}
  /\ rival \in {"off", "looked", "on"}
  /\ raced \in BOOLEAN /\ overlapped \in BOOLEAN
  /\ exe \in {"none", "old", "new"}
  /\ backup \in {"none", "old", "older"}

\* No proxy of this instance runs beside another instance, whatever becomes of an update
\* that stops the proxy, gives the guard up and wants both back; unless both instances
\* scanned for lock files before either had written one, or do not know each other's
\* process for one of theirs, or a living run was lost to the tray before, or a restart
\* went on in the middle of the update or came after it had lost the guard.
\* (acquire_lock, _acquire_win_mutex, _perform_update, _restart_after_update, restart_proxy)
OneProxy ==
  rival = "on" /\ (\E r \in Runs : Alive(r)) => raced \/ blind \/ orphaned \/ overlapped

\* Whenever the process may die, the version it runs or a whole new one is on disk;
\* the executable is out of its place only during an update of Windows, or after one
\* whose rollback failed, and then the backup is what Me runs.
\* (apply_update)
ExeRecoverable ==
  /\ exe = "none" => windows /\ backup = "old"
  /\ pc[Update] \in {"stop", "join", "release", "launch"} => exe = "new"
  /\ windows /\ pc[Update] \in {"stop", "join", "release", "launch"} => backup = "old"
================================================================================
