-------------------------- MODULE PluginSupervisor --------------------------
(***************************************************************************)
(* One service plugin of the gateway: its process, the socket it serves,   *)
(* the gRPC client the gateway caches for it, and the watchdog that waits  *)
(* for the process and starts it again (corlinman-plugins, supervisor.rs   *)
(* and runtime/service_grpc.rs).  Processes are numbered as they are       *)
(* spawned.  The Child handle moves: from the map of children (tracked) to *)
(* the watchdog (child) and back through a respawn, or to stop_service     *)
(* (stopping).  A crash falls out of the 60 s window at any time, so the   *)
(* number that is kept is any up to the number there were.                 *)
(***************************************************************************)
EXTENDS Integers, FiniteSets

CONSTANTS
    MaxRestarts,    \* MAX_RESTARTS_IN_WINDOW
    MaxSpawns       \* bound: later spawns fail

NoProcess == 0
Processes == 1 .. MaxSpawns
NoProcessOr == 0 .. MaxSpawns

VARIABLES
    spawned,    \* processes spawned so far
    alive,      \* the processes that run
    socket,     \* the process that bound the file at the socket path, if there is one
    tracked,    \* the entry of the children map
    child,      \* the handle the watchdog holds
    stopping,   \* the handle stop_service holds
    client,     \* the process the cached client is connected to
    crashes,    \* crashes of the window
    watchdog,   \* where the watchdog is, the boot sequence before it included
    teardown    \* where shutdown() is

handles == <<tracked, child, stopping>>
supVars == <<spawned, alive, socket, handles, client, crashes, watchdog, teardown>>

Init ==
    /\ spawned = 0 /\ alive = {} /\ socket = NoProcess
    /\ tracked = NoProcess /\ child = NoProcess /\ stopping = NoProcess
    /\ client = NoProcess
    /\ crashes = 0
    /\ watchdog = "boot" /\ teardown = "no"

\* spawn_service removes what the socket path holds, spawns, and puts the child in
\* the map: an entry that is there already is dropped, which kills its process.
SpawnService ==
    /\ spawned < MaxSpawns
    /\ spawned' = spawned + 1
    /\ alive' = (alive \ {tracked}) \cup {spawned'}
    /\ socket' = NoProcess
    /\ tracked' = spawned'
    /\ UNCHANGED <<child, stopping>>

\* The plugin binds its socket some time after its start, or it ends.
ProcessBinds(p) ==
    /\ p \in alive /\ p = spawned /\ socket # p
    /\ socket' = p
    /\ UNCHANGED <<spawned, alive, handles, client, crashes, watchdog, teardown>>

ProcessExits(p) ==
    /\ p \in alive
    /\ alive' = alive \ {p}
    /\ UNCHANGED <<spawned, socket, handles, client, crashes, watchdog, teardown>>

(* The boot sequence of the gateway, for this plugin.                      *)
BootSpawns ==
    /\ watchdog = "boot"
    /\ SpawnService
    /\ watchdog' = "boot_dialing"
    /\ UNCHANGED <<client, crashes, teardown>>

BootSpawnFails ==
    /\ watchdog = "boot"
    /\ watchdog' = "unwatched"
    /\ UNCHANGED <<spawned, alive, socket, handles, client, crashes, teardown>>

\* register connects to whatever listens at the path.
CanDial == socket # NoProcess /\ socket \in alive

BootDials ==
    /\ watchdog = "boot_dialing" /\ CanDial
    /\ client' = socket
    /\ watchdog' = "looking"
    /\ UNCHANGED <<spawned, alive, socket, handles, crashes, teardown>>

\* The child stays in the map and runs on: nothing watches it.
BootDialFails ==
    /\ watchdog = "boot_dialing"
    /\ watchdog' = "unwatched"
    /\ UNCHANGED <<spawned, alive, socket, handles, client, crashes, teardown>>

(* The watchdog.                                                           *)
TakeChild ==
    /\ watchdog = "looking"
    /\ child' = tracked /\ tracked' = NoProcess
    /\ watchdog' = IF tracked = NoProcess THEN "ended" ELSE "waiting"
    /\ UNCHANGED <<spawned, alive, socket, stopping, client, crashes, teardown>>

WaitEnds ==
    /\ watchdog = "waiting" /\ child \notin alive
    /\ watchdog' = "exited"
    /\ UNCHANGED <<spawned, alive, socket, handles, client, crashes, teardown>>

KillOnShutdown ==
    /\ watchdog = "waiting" /\ teardown # "no"
    /\ alive' = alive \ {child}
    /\ child' = NoProcess
    /\ socket' = NoProcess
    /\ watchdog' = "ended"
    /\ UNCHANGED <<spawned, tracked, stopping, client, crashes, teardown>>

Unregister ==
    /\ watchdog = "exited"
    /\ client' = NoProcess
    /\ watchdog' = "unregistered"
    /\ UNCHANGED <<spawned, alive, socket, handles, crashes, teardown>>

\* Mutant: one crash more.
GivesUp_late(n) == n > MaxRestarts + 1

GivesUp(n) == n > MaxRestarts

RecordCrash ==
    /\ watchdog = "unregistered"
    /\ socket' = NoProcess
    /\ \E kept \in 0 .. crashes :
        /\ crashes' = kept + 1
        /\ watchdog' = IF GivesUp(crashes') THEN "ended" ELSE "backoff"
    /\ child' = NoProcess
    /\ UNCHANGED <<spawned, alive, tracked, stopping, client, teardown>>

\* Also when the shutdown came meanwhile: the select takes either of two that are ready.
BackoffEnds ==
    /\ watchdog = "backoff"
    /\ watchdog' = "spawning"
    /\ UNCHANGED <<spawned, alive, socket, handles, client, crashes, teardown>>

ShutdownInBackoff ==
    /\ watchdog = "backoff" /\ teardown # "no"
    /\ watchdog' = "ended"
    /\ UNCHANGED <<spawned, alive, socket, handles, client, crashes, teardown>>

Respawn ==
    /\ watchdog = "spawning"
    /\ SpawnService
    /\ watchdog' = "dialing"
    /\ UNCHANGED <<client, crashes, teardown>>

\* Nothing was put in the map, so the next look ends the watchdog.
RespawnFails ==
    /\ watchdog = "spawning"
    /\ watchdog' = "looking"
    /\ UNCHANGED <<spawned, alive, socket, handles, client, crashes, teardown>>

Redial ==
    /\ watchdog = "dialing" /\ CanDial
    /\ client' = socket
    /\ watchdog' = "looking"
    /\ UNCHANGED <<spawned, alive, socket, handles, crashes, teardown>>

\* After its retries: the child in the map is killed and found dead by the next wait.
RedialFails ==
    /\ watchdog = "dialing"
    /\ alive' = alive \ {tracked}
    /\ watchdog' = "looking"
    /\ UNCHANGED <<spawned, socket, handles, client, crashes, teardown>>

(* shutdown(), for a supervisor that has booted.                           *)
Cancel ==
    /\ teardown = "no" /\ watchdog \notin {"boot", "boot_dialing"}
    /\ teardown' = "listing"
    /\ UNCHANGED <<spawned, alive, socket, handles, client, crashes, watchdog>>

ListChildren ==
    /\ teardown = "listing"
    /\ teardown' = IF tracked = NoProcess THEN "done" ELSE "taking"
    /\ UNCHANGED <<spawned, alive, socket, handles, client, crashes, watchdog>>

StopService ==
    /\ teardown = "taking"
    /\ stopping' = tracked /\ tracked' = NoProcess
    /\ teardown' = IF tracked = NoProcess THEN "done" ELSE "killing"
    /\ UNCHANGED <<spawned, alive, socket, child, client, crashes, watchdog>>

\* Mutant: the child is taken out of the map and its handle forgotten.
KillStopping_forgets ==
    /\ teardown = "killing"
    /\ stopping' = NoProcess /\ socket' = NoProcess
    /\ teardown' = "done"
    /\ UNCHANGED <<spawned, alive, tracked, child, client, crashes, watchdog>>

KillStopping ==
    /\ teardown = "killing"
    /\ alive' = alive \ {stopping}
    /\ stopping' = NoProcess /\ socket' = NoProcess
    /\ teardown' = "done"
    /\ UNCHANGED <<spawned, tracked, child, client, crashes, watchdog>>

Watchdog ==
    \/ TakeChild \/ WaitEnds \/ KillOnShutdown \/ Unregister \/ RecordCrash
    \/ BackoffEnds \/ ShutdownInBackoff \/ Respawn \/ RespawnFails \/ Redial \/ RedialFails

Teardown == ListChildren \/ StopService \/ KillStopping

Next ==
    \/ \E p \in Processes : ProcessBinds(p) \/ ProcessExits(p)
    \/ BootSpawns \/ BootSpawnFails \/ BootDials \/ BootDialFails
    \/ Watchdog
    \/ Cancel \/ Teardown

\* The two tasks run when they can; nothing says that a process ends.
Spec == Init /\ [][Next]_supVars /\ WF_supVars(Watchdog) /\ WF_supVars(Teardown)

-----------------------------------------------------------------------------
TypeOK ==
    /\ spawned \in NoProcessOr
    /\ alive \subseteq Processes
    /\ {socket, tracked, child, stopping, client} \subseteq NoProcessOr
    /\ crashes \in 0 .. MaxRestarts + 1
    /\ watchdog \in {"boot", "boot_dialing", "unwatched", "looking", "waiting", "exited",
                     "unregistered", "backoff", "spawning", "dialing", "ended"}
    /\ teardown \in {"no", "listing", "taking", "killing", "done"}

\* However crashes, failed dials and a shutdown meet, one process of the plugin
\* runs at a time, and some task holds its handle: none is left that nothing can
\* stop (spawn_service, start_watchdog, stop_service).
OneHeldProcess ==
    /\ Cardinality(alive) <= 1
    /\ alive \subseteq {tracked, child, stopping}

\* Until the supervisor is shut down, a call goes to the process that is watched or
\* about to be: never to one that was given up (register, unregister).
ClientIsWatched ==
    client # NoProcess /\ teardown = "no" =>
        /\ client \in {tracked, child}
        /\ watchdog \in {"looking", "waiting", "exited"}

\* A client whose process ended is dropped, unless the supervisor is shut down first.
DeadClientGoes ==
    client # NoProcess /\ client \notin alive ~> client = NoProcess \/ teardown # "no"

\* A shutdown leaves no process, wherever in a respawn it comes.
ShutdownEndsProcesses == teardown # "no" ~> [](alive = {})
=============================================================================
