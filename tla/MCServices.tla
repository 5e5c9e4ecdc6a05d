------------------------------ MODULE MCServices ------------------------------
(***************************************************************************)
(* The parts of the gateway that wait for something that must come, and    *)
(* those that bring what changes on disk to where it is used, which share  *)
(* no state with one another, checked in one run: a behaviour is that of   *)
(* one of them, chosen at the start.                                       *)
(***************************************************************************)
EXTENDS ApprovalGate

CONSTANTS
    MaxRestarts, MaxSpawns,
    Slots, MaxTime,
    MaxMessages, QueueRoom, MaxBreaks,
    CallIds, MaxRounds,
    Places, Names, MaxEdits, Broken,
    Calls, TaskIds, Callbacks,
    Writers, Posts, Edits, Faulty, Undiffed, Reloaders, Watcher, Base, Mixed,
    MaxRequests, ProviderSlots, CustomSlot, Aliases, Boots

ASSUME BoundsAssumption ==
    /\ MaxRestarts \in Nat /\ MaxSpawns \in Nat
    /\ Slots \subseteq Nat \ {0} /\ MaxTime \in Nat
    /\ MaxMessages \in Nat /\ QueueRoom \in Nat \ {0} /\ MaxBreaks \in Nat
    /\ MaxRounds \in Nat

VARIABLES
    machine,
    spawned, alive, socket, tracked, child, stopping, client, crashes, watchdog, teardown,
    clock, cancelled, action, loop, next, process, ended_as, fired, events, main, awaited, ended,
    qq_client, hand, eventQueue, actionQueue, arrived, chat, answered, delivered, broken, breaks,
    qq_stopping,
    transport, phase, round, asked, got, inbox, aborted, frames, executing, told, listed,
    prompt, ran,
    disk, entries, watch, unseen, event, reloader, walked, removals, upserts, edits, blind,
    touched,
    call_kind, call_step, plugin_process, line, oom, guard, removing, read, call_cancelled,
    call_outcome,
    pending_tasks, call, task, slot, post, posted_for, held,
    live, tmp, content, snapshot, config_event, lock, config_at, draft, fd, overtaken,
    admin_live, admin_disk, request, pyFile, pyTmp, mtime, poll, admin_loaded, overlapped,
    admin_failed, careless

\* The roots of the registry, and a configuration at boot: all providers and no alias.
Roots == <<"system", "user">>
AllOn == {[providers |-> [s \in ProviderSlots |-> "on"], aliases |-> [n \in Aliases |-> None],
           embedding |-> None]}

Supervisor == INSTANCE PluginSupervisor
Shutdown == INSTANCE GatewayShutdown WITH
    result <- ended_as, Others <- <<"server", "config_watcher">>
QQ == INSTANCE QqChannel WITH client <- qq_client, stopping <- qq_stopping
Agent == INSTANCE AgentTurn WITH outcome <- told, Nil <- None
Registry == INSTANCE PluginRegistry WITH Nil <- None
Call == INSTANCE PluginCall WITH
    kind <- call_kind, step <- call_step, process <- plugin_process, cancelled <- call_cancelled,
    outcome <- call_outcome, pending <- pending_tasks, target <- posted_for, Nil <- None, Tasks <- TaskIds
Config == INSTANCE ConfigStore WITH event <- config_event, at <- config_at, Nil <- None
Admin == INSTANCE AdminConfig WITH
    live <- admin_live, disk <- admin_disk, clock <- mtime, loaded <- admin_loaded,
    failed <- admin_failed, Slots <- ProviderSlots, Custom <- CustomSlot, Names <- Aliases,
    Absent <- None

ASSUME CallAssumption == None \notin Agent!ToolCalls

\* Of two roots none is the other, and what stands for nothing is nothing.
ASSUME PlacesAssumption ==
    /\ Places \in Seq({Places[i] : i \in DOMAIN Places})
    /\ \A i, j \in DOMAIN Places : Places[i] = Places[j] => i = j
    /\ MaxEdits \in Nat
    /\ None # Broken /\ \A m \in Registry!Manifests : m \notin {None, Broken}

ASSUME CallNoneAssumption ==
    None \notin {"valid", "garbage", "eof", "success", "parse", "oom", "error", "timeout", "cancelled"}

ASSUME AsyncAssumption == None \notin Calls \cup TaskIds \cup Callbacks

\* The inodes have names of their own, and the watcher is one of those who reload.
ASSUME FilesAssumption ==
    /\ Watcher \in Reloaders /\ Posts \subseteq Writers
    /\ Writers \cap Reloaders = {} /\ Writers \cap Edits = {}
    /\ Base \notin Writers \cup Edits /\ None \notin Reloaders \cup Config!Inodes
    /\ None # Mixed /\ \A c \in Config!Configs : c \notin {None, Mixed}

ASSUME AdminAssumption ==
    /\ MaxRequests \in Nat
    /\ {None, "shorthand", CustomSlot} \cap ProviderSlots = {}
    /\ None \notin Nat \cup {"shorthand", "on", "off", "tmp", "file", CustomSlot} /\ CustomSlot # "shorthand"
    /\ \A cfg \in Admin!Configs : cfg # None

Machines ==
    {"approval", "supervisor", "shutdown", "qq", "agent", "registry", "call", "async", "config",
     "admin"}

supVars ==
    <<spawned, alive, socket, tracked, child, stopping, client, crashes, watchdog, teardown>>
gatewayVars ==
    <<clock, cancelled, action, loop, next, process, ended_as, fired, events, main, awaited, ended>>
qqVars ==
    <<qq_client, hand, eventQueue, actionQueue, arrived, chat, answered, delivered, broken,
      breaks, qq_stopping>>
agentVars ==
    <<transport, phase, round, asked, got, inbox, aborted, frames, executing, told, listed,
      prompt, ran>>

registryVars ==
    <<disk, entries, watch, unseen, event, reloader, walked, removals, upserts, edits, blind,
      touched>>
callVars ==
    <<call_kind, call_step, plugin_process, line, oom, guard, removing, read, call_cancelled,
      call_outcome>>
asyncVars == <<pending_tasks, call, task, slot, post, posted_for, held>>
configVars ==
    <<live, tmp, content, snapshot, config_event, lock, config_at, draft, fd, overtaken>>
adminVars ==
    <<admin_live, admin_disk, request, pyFile, pyTmp, mtime, poll, admin_loaded, overlapped,
      admin_failed, careless>>

allVars ==
    <<machine, vars, supVars, gatewayVars, qqVars, agentVars, registryVars, callVars, asyncVars,
      configVars, adminVars>>

\* Where a machine may start in several states, it does only when it is the chosen one.
MCInit ==
    /\ machine \in Machines
    /\ Init /\ Supervisor!Init /\ Shutdown!Init /\ QQ!Init /\ Agent!Init
    /\ machine # "shutdown" => action = "subprocess" /\ ended = {}
    /\ machine # "agent" => transport = "request"
    /\ Registry!Init /\ (machine # "registry" => \A p \in DOMAIN disk : disk[p] = None)
    /\ machine # "call" => call_kind = "stdio"
    /\ Call!Init
    /\ Config!Init
    /\ Admin!Init
    /\ IF machine = "admin" THEN admin_live \in Boots ELSE admin_live = Admin!Nothing

\* The machine that was chosen takes a step, and the others stay where they began.
Runs(m, A) ==
    /\ machine = m /\ A /\ UNCHANGED machine
    /\ m # "approval" => UNCHANGED vars
    /\ m # "supervisor" => UNCHANGED supVars
    /\ m # "shutdown" => UNCHANGED gatewayVars
    /\ m # "qq" => UNCHANGED qqVars
    /\ m # "agent" => UNCHANGED agentVars
    /\ m # "registry" => UNCHANGED registryVars
    /\ m # "call" => UNCHANGED callVars
    /\ m # "async" => UNCHANGED asyncVars
    /\ m # "config" => UNCHANGED configVars
    /\ m # "admin" => UNCHANGED adminVars

MCNext ==
    \/ Runs("approval", Next) \/ Runs("supervisor", Supervisor!Next)
    \/ Runs("shutdown", Shutdown!Next)
    \/ Runs("qq", QQ!Next) \/ Runs("agent", Agent!Next)
    \/ Runs("registry", Registry!Next)
    \/ Runs("call", Call!CallNext) \/ Runs("async", Call!AsyncNext)
    \/ Runs("config", Config!Next) \/ Runs("admin", Admin!Next)

MCSpec == MCInit /\ [][MCNext]_allVars

\* Each machine under the fairness of its own specification.
MCFairSpec ==
    /\ MCSpec
    /\ \A c \in Checks : WF_vars(machine = "approval" /\ CheckGoesOn(c))
    /\ \A o \in Operators : WF_vars(machine = "approval" /\ ResolveGoesOn(o))
    /\ WF_supVars(machine = "supervisor" /\ Supervisor!Watchdog)
    /\ WF_supVars(machine = "supervisor" /\ Supervisor!Teardown)
    /\ WF_gatewayVars(machine = "shutdown" /\ Shutdown!JobRuns)
    /\ \A t \in Shutdown!Tasks : WF_gatewayVars(machine = "shutdown" /\ Shutdown!TaskEnds(t))
    /\ WF_gatewayVars(machine = "shutdown" /\ Shutdown!AwaitNext)
    /\ WF_qqVars(machine = "qq" /\ QQ!ClientStep) /\ WF_qqVars(machine = "qq" /\ QQ!Dispatch)
    /\ SF_qqVars(machine = "qq" /\ QQ!ReplyStep)
    /\ WF_agentVars(machine = "agent" /\ Agent!LoopStep)
    /\ WF_agentVars(machine = "agent" /\ Agent!GatewayStep)

-----------------------------------------------------------------------------
(* The components' properties under the names of their modules.            *)

\* Every component keeps to its types.
ServicesTypeOK ==
    CASE machine = "approval"   -> TypeOK
      [] machine = "supervisor" -> Supervisor!TypeOK
      [] machine = "shutdown"   -> Shutdown!TypeOK
      [] machine = "qq"         -> QQ!TypeOK
      [] machine = "agent"      -> Agent!TypeOK
      [] machine = "registry"   -> Registry!TypeOK
      [] machine = "call"       -> Call!CallTypeOK
      [] machine = "async"      -> Call!AsyncTypeOK
      [] machine = "config"     -> Config!TypeOK
      [] machine = "admin"      -> Admin!TypeOK

\* However crashes, dials and a shutdown meet, one process of a plugin runs, some
\* task holds it and a call goes to a process that is watched (supervisor.rs); when the
\* reloader is quiet and nothing went by unseen the registry is what the disk says, and it
\* drops no plugin whose file merely fails to parse (watcher.rs); whatever ends a call, what
\* it started does not run on, and it succeeds only with what its own plugin printed
\* (jsonrpc_stdio.rs, docker.rs, service_grpc.rs); what is parked for a callback belongs to a
\* call, a call that waits is where the callback looks for it, and "ok" is one payload
\* handed to one call (async_task.rs).
PluginsHold ==
    /\ machine = "supervisor" => Supervisor!OneHeldProcess /\ Supervisor!ClientIsWatched
    /\ machine = "registry" => Registry!QuietMeansFresh /\ Registry!RemovedIsGone
    /\ machine = "call" => Call!NothingRunsOn /\ Call!SuccessIsAnAnswer
    /\ machine = "async" =>
        Call!ParkedTasksBelong /\ Call!WaitingCallIsReachable /\ Call!OkIsOneDelivery

\* When no reload is left the snapshot is what a file that validates says, no reload
\* brings in what does not (config_watcher.rs), and a file is torn only by two requests
\* at once (atomic_write_toml); however admin requests
\* overlap, nothing that is live, on disk or with Python names a provider nobody declared,
\* and what Python loaded is what the gateway wrote (providers.rs, models.rs,
\* py_config.rs).
ConfigurationHolds ==
    /\ machine = "config" =>
        Config!SnapshotFollowsFile /\ Config!FaultsAreUnchecked /\ Config!TornByTwoWriters
    /\ machine = "admin" =>
        /\ Admin!ReferencesAreDeclared /\ Admin!FilesAgree
        /\ Admin!LoadedIsCurrent /\ Admin!AliasesResolve

\* No slot fires twice or late (run_job_loop), the process of a run is over or killed
\* before the next run (run_subprocess), every run is reported once and in order
\* (emit_outcome), and the gateway leaves no run behind when it exits (main).
GatewayHolds ==
    machine = "shutdown" =>
        /\ Shutdown!FiresOncePerSlot /\ Shutdown!OneProcessPerJob
        /\ Shutdown!EachRunIsReported /\ Shutdown!ExitEndsRuns

\* A message gets one reply at most, across broken connections, and replies that wait
\* outlive a reconnect (onebot.rs).
ChannelsHold ==
    machine = "qq" => QQ!OneReplyAtMost /\ QQ!RepliesOutliveReconnects

\* A result goes to the provider as that of its own call, whatever comes late
\* (reasoning_loop.py), and "done" means that what the response lists has run (chat.rs).
ChatHolds ==
    machine = "agent" => Agent!ResultsAnswerTheirCalls /\ Agent!DoneMeansRun

\* What waits goes on: a gated call is decided (approval.rs), the client of a process
\* that ended is dropped and a shutdown leaves no process behind (supervisor.rs), a
\* cancelled job ends (run_job_loop), without the observer a signal ends the gateway
\* (main), however the queues fill every reply leaves (service.rs, onebot.rs), and a
\* chat turn ends for both sides whatever call got no result (run, build_sse_stream).
WaitsEnd ==
    /\ machine = "approval" => PromptEnds
    /\ machine = "supervisor" => Supervisor!DeadClientGoes
    /\ machine = "supervisor" => Supervisor!ShutdownEndsProcesses
    /\ machine = "shutdown" => Shutdown!JobStopsAfterCancel
    /\ machine = "shutdown" => Shutdown!GatewayExitsUnobserved
    /\ machine = "qq" => QQ!RepliesLeave
    /\ machine = "agent" => Agent!TurnEnds

=============================================================================
