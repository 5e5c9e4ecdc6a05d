--------------------------- MODULE GatewayShutdown ---------------------------
(***************************************************************************)
(* One job of the gateway's scheduler (corlinman-scheduler, runtime.rs and *)
(* subprocess.rs), the loop that sleeps until the next slot of its cron    *)
(* expression, runs the command and reports the outcome on the hook bus;   *)
(* and the end of the gateway's main (main.rs), which has to end it: on a  *)
(* signal the root token is cancelled and the tasks are awaited one after  *)
(* the other, the scheduler as the last.  A run is named by the slot it    *)
(* fires for.  The clock goes forward only.  The evolution observer is its *)
(* two tasks, of which main holds the writer's handle; every other task    *)
(* ends some time after the token is cancelled.                            *)
(***************************************************************************)
EXTENDS Integers, Sequences

CONSTANTS
    Slots,      \* when the job is due: numbers above 0
    MaxTime     \* bound of the clock

Times == 0 .. MaxTime
NoSlot == 0

VARIABLES
    clock,
    cancelled,      \* the root token
    action,         \* what the job's ActionSpec is
    loop,           \* where the loop is
    next,           \* the slot it waits for or runs
    process,        \* slot -> its subprocess
    result,         \* the outcome of the run, until it is reported
    fired,          \* the slots that were fired, in order
    events          \* the EngineRun events on the bus, in order

jobVars == <<clock, cancelled, action, loop, next, process, result, fired, events>>

SchedulerInit ==
    /\ clock = 0 /\ cancelled = FALSE
    /\ action \in {"subprocess", "run_agent"}
    /\ loop = "computing" /\ next = NoSlot
    /\ process = [s \in Slots |-> "none"]
    /\ result = "none"
    /\ fired = <<>> /\ events = <<>>

Tick ==
    /\ clock < MaxTime
    /\ clock' = clock + 1
    /\ UNCHANGED <<cancelled, action, loop, next, process, result, fired, events>>

\* Schedule::after is strict.
Upcoming == {s \in Slots : s > clock}

\* Slots that passed during a run are skipped.
NextAfter ==
    /\ loop = "computing"
    /\ \/ /\ Upcoming = {}
          /\ loop' = "ended" /\ UNCHANGED next
       \/ /\ next' \in Upcoming
          /\ \A s \in Upcoming : next' <= s
          /\ loop' = "sleeping"
    /\ UNCHANGED <<clock, cancelled, action, process, result, fired, events>>

StopSleeping ==
    /\ loop = "sleeping" /\ cancelled
    /\ loop' = "ended"
    /\ UNCHANGED <<clock, cancelled, action, next, process, result, fired, events>>

\* The token is looked at once more; an action other than a subprocess is reported
\* as unsupported.
Fire ==
    /\ loop = "sleeping" /\ clock >= next /\ ~cancelled
    /\ fired' = Append(fired, next)
    /\ \/ /\ action = "subprocess"
          /\ process' = [process EXCEPT ![next] = "running"]
          /\ loop' = "waiting" /\ UNCHANGED result
       \/ /\ loop' = "reporting"
          /\ result' = IF action = "subprocess" THEN "spawn_failed" ELSE "unsupported_action"
          /\ UNCHANGED process
    /\ UNCHANGED <<clock, cancelled, action, next, events>>

ProcessExits(s) ==
    /\ process[s] \in {"running", "killed"}
    /\ process' = [process EXCEPT ![s] = "exited"]
    /\ UNCHANGED <<clock, cancelled, action, loop, next, result, fired, events>>

WaitReturns ==
    /\ loop = "waiting" /\ process[next] = "exited"
    /\ result' \in {"success", "exit_code"}
    /\ loop' = "reporting"
    /\ UNCHANGED <<clock, cancelled, action, next, process, fired, events>>

\* Mutant: the process is left to itself.
TimeoutExpires_spares ==
    /\ loop = "waiting"
    /\ loop' = "reaping"
    /\ UNCHANGED <<clock, cancelled, action, next, process, result, fired, events>>

\* SIGKILL; the process may have just exited.
TimeoutExpires ==
    /\ loop = "waiting"
    /\ process' = [process EXCEPT ![next] = IF @ = "running" THEN "killed" ELSE @]
    /\ loop' = "reaping"
    /\ UNCHANGED <<clock, cancelled, action, next, result, fired, events>>

\* The wait for the killed process has a bound too: it may outlive it.
ReapEnds ==
    /\ loop = "reaping"
    /\ result' = "timeout"
    /\ loop' = "reporting"
    /\ UNCHANGED <<clock, cancelled, action, next, process, fired, events>>

EmitOutcome ==
    /\ loop = "reporting"
    /\ events' = Append(events, <<next, result>>)
    /\ result' = "none"
    /\ loop' = "computing"
    /\ UNCHANGED <<clock, cancelled, action, next, process, fired>>

LoopStep ==
    \/ NextAfter \/ StopSleeping \/ Fire \/ WaitReturns \/ TimeoutExpires \/ ReapEnds \/ EmitOutcome

SchedulerNext == Tick \/ LoopStep \/ \E s \in Slots : ProcessExits(s)

-----------------------------------------------------------------------------
SchedulerTypeOK ==
    /\ clock \in Times /\ cancelled \in BOOLEAN
    /\ loop \in {"computing", "sleeping", "waiting", "reaping", "reporting", "ended"}
    /\ next \in Slots \cup {NoSlot}
    /\ process \in [Slots -> {"none", "running", "killed", "exited"}]
    /\ fired \in Seq(Slots)

\* No slot fires twice and none fires for a time that has passed before: whatever
\* the runs take, slots that fall into a run are skipped (run_job_loop, next_after).
FiresOncePerSlot ==
    \A i, j \in DOMAIN fired : i < j => fired[i] < fired[j]

\* The process of a run is over, or was killed, before the job fires again: two
\* engines never work on the same queue because one of them was slow (run_subprocess).
OneProcessPerJob ==
    \A s \in Slots : process[s] = "running" => loop = "waiting" /\ next = s

\* Every run is reported once, in order, before the next one starts (emit_outcome).
EachRunIsReported ==
    /\ \A i \in DOMAIN events : i \in DOMAIN fired /\ events[i][1] = fired[i]
    /\ Len(fired) = Len(events) + (IF loop \in {"waiting", "reaping", "reporting"} THEN 1 ELSE 0)

-----------------------------------------------------------------------------
(* The end of main.                                                        *)

CONSTANT
    Others      \* the tasks awaited before the observer: the server, the placeholder
                \* service, the channels, the hot reloader, the config watcher and the
                \* log retention, in this order, or some of them

\* A small instance.
ServerAndWatcher == <<"server", "config_watcher">>

DrainOrder == Others \o <<"observer_writer", "scheduler">>

Observer == {"observer_subscriber", "observer_writer"}
Tasks == {Others[i] : i \in DOMAIN Others} \cup Observer

VARIABLES
    main,       \* "serving", "draining", "exited"
    awaited,    \* how many handles main has awaited
    ended       \* the tasks that have ended or were never started

shutdownVars == <<main, awaited, ended>>
gatewayVars == <<jobVars, shutdownVars>>

\* [evolution.observer] may be disabled.
Init ==
    /\ SchedulerInit
    /\ main = "serving" /\ awaited = 0
    /\ ended \in {{}, Observer}

Signal ==
    /\ main = "serving"
    /\ main' = "draining"
    /\ cancelled' = TRUE
    /\ UNCHANGED <<clock, action, loop, next, process, result, fired, events, awaited, ended>>

\* Who holds a HookBus, hence senders of its channels: main's own lives to the end
\* of main.
BusHolders ==
    (IF main = "exited" THEN {} ELSE {"main"})
        \cup ((Tasks \cap {"server", "channels", "config_watcher", "observer_subscriber"}) \ ended)
        \cup (IF loop = "ended" THEN {} ELSE {"scheduler"})

Released(t) ==
    CASE t = "observer_subscriber" -> BusHolders = {}
      [] t = "observer_writer"     -> "observer_subscriber" \in ended
      [] OTHER                     -> cancelled

TaskEnds(t) ==
    /\ t \notin ended /\ Released(t)
    /\ ended' = ended \cup {t}
    /\ UNCHANGED <<jobVars, main, awaited>>

HasEnded(t) == IF t = "scheduler" THEN loop = "ended" ELSE t \in ended

\* After the last handle, process::exit.
AwaitNext ==
    /\ main = "draining"
    /\ awaited < Len(DrainOrder) /\ HasEnded(DrainOrder[awaited + 1])
    /\ awaited' = awaited + 1
    /\ main' = IF awaited' = Len(DrainOrder) THEN "exited" ELSE main
    /\ UNCHANGED <<jobVars, ended>>

JobRuns == main # "exited" /\ LoopStep /\ UNCHANGED shutdownVars

Next ==
    \/ main # "exited" /\ SchedulerNext /\ UNCHANGED shutdownVars
    \/ Signal
    \/ \E t \in Tasks : TaskEnds(t)
    \/ AwaitNext

\* The executor runs every ready task, timers fire, requests in flight are finished
\* and the main task goes on when a handle is ready.  No process needs to end.
Spec ==
    /\ Init /\ [][Next]_gatewayVars
    /\ WF_gatewayVars(JobRuns)
    /\ \A t \in Tasks : WF_gatewayVars(TaskEnds(t))
    /\ WF_gatewayVars(AwaitNext)

-----------------------------------------------------------------------------
TypeOK ==
    /\ SchedulerTypeOK
    /\ main \in {"serving", "draining", "exited"}
    /\ awaited \in 0 .. Len(DrainOrder)
    /\ ended \subseteq Tasks

\* Once the token is cancelled the job's loop ends, also when it is in a run whose
\* process hangs: the run's timeout bounds the wait (run_job_loop, run_subprocess).
JobStopsAfterCancel == cancelled ~> loop = "ended"

\* A gateway that exits leaves no run of the job behind: every process has ended or
\* was killed, and its outcome was reported (main's join_all).
ExitEndsRuns ==
    main = "exited" =>
        /\ \A s \in Slots : process[s] # "running"
        /\ Len(events) = Len(fired)

\* Without the observer a signal ends the gateway, whatever its tasks are doing.
GatewayExitsUnobserved ==
    main = "draining" /\ Observer \subseteq ended ~> main = "exited"

-----------------------------------------------------------------------------
(* What the repository says of this code and the code does not do.         *)

\* A signal ends the gateway: the observer's writer "exits cleanly" because "the
\* subscriber loop sees the HookBus close" (main).
GatewayExits == main = "draining" ~> main = "exited"
=============================================================================
