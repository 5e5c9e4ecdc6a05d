----------------------------- MODULE PluginCall ------------------------------
(***************************************************************************)
(* One call of a plugin's tool (RegistryToolExecutor::execute in the       *)
(* gateway's chat.rs and the runtimes of corlinman-plugins): a subprocess  *)
(* of its own (runtime/jsonrpc_stdio.rs), a container of its own           *)
(* (sandbox/docker.rs), or a request to the running process of a service   *)
(* (runtime/service_grpc.rs).  The future of a call is dropped when the    *)
(* request it belongs to goes away.                                        *)
(*                                                                         *)
(* What a plugin prints is a valid first line or one that does not parse.  *)
(* A timeout may strike at any await it covers.                            *)
(***************************************************************************)
EXTENDS Integers, FiniteSets

CONSTANT Nil

Kinds == {"stdio", "docker", "service"}

VARIABLES
    kind,
    step,       \* where the call is
    process,    \* the subprocess, container or service process
    line,       \* the first line it printed, or the terminal frame it sent
    oom,        \* the container ran out of memory
    guard,      \* the ContainerGuard is armed
    removing,   \* the removal its drop spawned is on its way
    read,       \* the line the call has read, "eof" when there was none
    cancelled,
    outcome

worldVars == <<process, line, oom, removing>>
pluginVars == <<kind, step, worldVars, guard, read, cancelled, outcome>>

CallInit ==
    /\ kind \in Kinds
    /\ step = "begin"
    /\ process \in IF kind = "service" THEN {"running", "none"} ELSE {"none"}
    /\ line = Nil /\ oom = FALSE
    /\ guard = FALSE /\ removing = FALSE
    /\ read = Nil /\ cancelled = FALSE /\ outcome = Nil

Goes(k, from, to) == kind = k /\ step = from /\ step' = to

\* The call ends; a guard that is still armed has the container removed.
Returns(result) ==
    /\ outcome' = result /\ step' = "over"
    /\ removing' = (removing \/ guard) /\ guard' = FALSE

Quiet == UNCHANGED <<kind, cancelled, read>>

-----------------------------------------------------------------------------
(* The far end.                                                            *)

\* The plugin answers: what matters is the first line.
Answer ==
    /\ process = "running" /\ line = Nil /\ step \notin {"begin", "creating", "attaching"}
    /\ line' \in {"valid", "garbage"}
    /\ UNCHANGED <<kind, step, process, oom, removing, guard, read, cancelled, outcome>>

Exit ==
    /\ process = "running"
    /\ process' = "exited"
    /\ oom' \in IF kind = "docker" THEN BOOLEAN ELSE {FALSE}
    /\ UNCHANGED <<kind, step, line, removing, guard, read, cancelled, outcome>>

\* auto_remove
AutoRemove ==
    /\ kind = "docker" /\ process = "exited"
    /\ process' = "removed"
    /\ UNCHANGED <<kind, step, line, oom, removing, guard, read, cancelled, outcome>>

\* The forced removal a dropped guard spawned.
Remove ==
    /\ removing /\ process \in {"created", "running", "exited", "removed"}
    /\ process' = "removed" /\ removing' = FALSE
    /\ UNCHANGED <<kind, step, line, oom, guard, read, cancelled, outcome>>

CancelCall ==
    /\ ~cancelled /\ cancelled' = TRUE
    /\ UNCHANGED <<kind, step, worldVars, guard, read, outcome>>

-----------------------------------------------------------------------------
(* jsonrpc_stdio::execute                                                  *)

Spawn ==
    /\ Quiet /\ kind = "stdio" /\ step = "begin"
    /\ \/ process' = "running" /\ step' = "exchange" /\ UNCHANGED <<outcome, guard, removing>>
       \/ Returns("error") /\ UNCHANGED process
    /\ UNCHANGED <<line, oom>>

\* The outcome is held while the child is killed and waited for.
ExchangeEnds(result, seen) ==
    /\ Goes("stdio", "exchange", "reaping")
    /\ outcome' = result /\ read' = seen
    /\ UNCHANGED <<kind, cancelled, worldVars, guard>>

ReadLine == line # Nil /\ ExchangeEnds(IF line = "valid" THEN "success" ELSE "parse", line)
ReadEof == line = Nil /\ process = "exited" /\ ExchangeEnds("error", "eof")
ExchangeTimesOut == ExchangeEnds("timeout", Nil)
ExchangeIsCancelled == cancelled /\ ExchangeEnds("cancelled", Nil)

\* Mutant: the child is left to end by itself.
Reap_leaves ==
    /\ Goes("stdio", "reaping", "over")
    /\ Quiet /\ UNCHANGED <<process, line, oom, removing, guard, outcome>>

Reap ==
    /\ Goes("stdio", "reaping", "over")
    /\ process' = "exited"
    /\ Quiet /\ UNCHANGED <<line, oom, removing, guard, outcome>>

-----------------------------------------------------------------------------
(* DockerSandbox::run                                                      *)

\* The daemon creates the container, and only its answer arms the guard.
CreateContainer ==
    /\ kind = "docker" /\ step = "begin"
    /\ Quiet
    /\ \/ step' = "creating" /\ process' = "created" /\ UNCHANGED <<guard, removing, outcome>>
       \/ Returns("error") /\ UNCHANGED process
    /\ UNCHANGED <<line, oom>>

ContainerIsCreated ==
    /\ Goes("docker", "creating", "attaching")
    /\ guard' = TRUE
    /\ Quiet /\ UNCHANGED <<worldVars, outcome>>

StartContainer ==
    /\ kind = "docker" /\ step = "attaching"
    /\ Quiet
    /\ \/ step' = "exchange" /\ process' = "running" /\ UNCHANGED <<guard, removing, outcome>>
       \/ Returns("error") /\ UNCHANGED process
    /\ UNCHANGED <<line, oom>>

\* The first line, or the end of the output without one.
ContainerAnswers ==
    /\ Goes("docker", "exchange", "waiting")
    /\ \/ line # Nil /\ read' = line
       \/ line = Nil /\ process \in {"exited", "removed"} /\ read' = "eof"
    /\ UNCHANGED <<kind, cancelled, worldVars, guard, outcome>>

ContainerFails ==
    /\ kind = "docker" /\ step \in {"exchange", "waiting"}
    /\ \/ Returns("timeout")
       \/ step = "exchange" /\ cancelled /\ Returns("cancelled")
       \/ Returns("error")
    /\ Quiet /\ UNCHANGED <<process, line, oom>>

\* wait_container returns when the container has exited; one that is already removed
\* is an error (ContainerFails).
ContainerHasExited ==
    /\ Goes("docker", "waiting", "inspecting")
    /\ process = "exited"
    /\ Quiet /\ UNCHANGED <<worldVars, guard, outcome>>

\* What the daemon no longer knows was not out of memory.
Inspect ==
    /\ kind = "docker" /\ step = "inspecting"
    /\ step' = "over" /\ guard' = FALSE
    /\ outcome' = IF oom /\ process = "exited" THEN "oom"
                  ELSE CASE read = "valid" -> "success"
                         [] read = "garbage" -> "parse"
                         [] OTHER -> "error"
    /\ Quiet /\ UNCHANGED worldVars

-----------------------------------------------------------------------------
(* ServiceRuntime::execute                                                 *)

CallService ==
    /\ kind = "service" /\ step = "begin"
    /\ Quiet
    /\ IF process = "running" THEN step' = "opening" /\ UNCHANGED <<outcome, guard, removing>>
                              ELSE Returns("error")
    /\ UNCHANGED <<process, line, oom>>

StreamOpens ==
    /\ Goes("service", "opening", "streaming")
    /\ process = "running"
    /\ Quiet /\ UNCHANGED <<worldVars, guard, outcome>>

\* The deadline covers the opening of the stream only.
ServiceEnds ==
    /\ kind = "service"
    /\ \/ step = "opening" /\ Returns("timeout") /\ UNCHANGED read
       \/ step \in {"opening", "streaming"} /\ cancelled /\ Returns("cancelled") /\ UNCHANGED read
       \/ step \in {"opening", "streaming"} /\ process # "running" /\ Returns("error")
          /\ UNCHANGED read
       \/ /\ step = "streaming" /\ line # Nil
          /\ Returns(IF line = "valid" THEN "success" ELSE "error") /\ read' = line
    /\ UNCHANGED <<kind, cancelled, process, line, oom>>

-----------------------------------------------------------------------------

\* The request goes away and the future with it: kill_on_drop ends the child, the
\* guard's drop removes the container, if there is a guard already.
Dropped ==
    /\ step \notin {"begin", "over", "dropped"}
    /\ step' = "dropped"
    /\ process' = IF kind = "stdio" THEN "exited" ELSE process
    /\ removing' = guard /\ guard' = FALSE
    /\ UNCHANGED <<kind, line, oom, read, cancelled, outcome>>

CallNext ==
    \/ Answer \/ Exit \/ AutoRemove \/ Remove \/ CancelCall
    \/ Spawn \/ ReadLine \/ ReadEof \/ ExchangeTimesOut \/ ExchangeIsCancelled \/ Reap
    \/ CreateContainer \/ ContainerIsCreated \/ StartContainer \/ ContainerAnswers
    \/ ContainerFails \/ ContainerHasExited \/ Inspect
    \/ CallService \/ StreamOpens \/ ServiceEnds
    \/ Dropped

-----------------------------------------------------------------------------
CallTypeOK ==
    /\ kind \in Kinds
    /\ step \in {"begin", "creating", "attaching", "exchange", "waiting", "inspecting",
                 "reaping", "opening", "streaming", "over", "dropped"}
    /\ process \in {"none", "created", "running", "exited", "removed"}
    /\ line \in {Nil, "valid", "garbage"} /\ read \in {Nil, "valid", "garbage", "eof"}
    /\ outcome \in {Nil, "success", "parse", "oom", "error", "timeout", "cancelled"}

\* However a call ends - answered, timed out, cancelled, failed half way or dropped with
\* its request - what it started does not run on: a child is dead, a container exited or
\* is about to be removed (jsonrpc_stdio.rs, ContainerGuard).
NothingRunsOn ==
    step \in {"over", "dropped"} /\ kind # "service" => process # "running" \/ removing

\* A call succeeds with what its own plugin printed first, and not when the daemon still
\* knew that the container had run out of memory (DockerSandbox::run).
SuccessIsAnAnswer ==
    outcome = "success" => line = "valid" /\ read = line /\ (oom => process = "removed")

-----------------------------------------------------------------------------
(***************************************************************************)
(* Tool calls that an asynchronous plugin answers later, over              *)
(* POST /plugin-callback/:task_id (corlinman-plugins, async_task.rs;       *)
(* gateway, routes/plugin_callback.rs and RegistryToolExecutor::execute in *)
(* routes/chat.rs).  The plugin chooses the task id, runs on while its     *)
(* acceptance is read, may call back before the call is parked, twice, or  *)
(* never, and may reuse an id.  The payload of a callback is the callback  *)
(* itself.  start_sweep has no caller in the gateway and is left out.      *)
(***************************************************************************)
CONSTANTS Calls, Tasks, Callbacks

VARIABLES
    pending,    \* task id -> the call whose sender is parked under it
    call,       \* where each tool call is
    task,       \* the id its plugin accepted it under
    slot,       \* the callback whose payload its oneshot holds
    post,       \* where each callback is, or what it was told
    target,     \* the id it was posted for
    held        \* the call whose sender it took out of the registry

callVars == <<call, task>>
postVars == <<post, target, held>>
asyncVars == <<pending, callVars, slot, postVars>>

AsyncInit ==
    /\ pending = [t \in Tasks |-> Nil]
    /\ call = [c \in Calls |-> "running"] /\ task = [c \in Calls |-> Nil]
    /\ slot = [c \in Calls |-> Nil]
    /\ post = [p \in Callbacks |-> "unsent"]
    /\ target = [p \in Callbacks |-> Nil] /\ held = [p \in Callbacks |-> Nil]

GoesTo(c, s) == call' = [call EXCEPT ![c] = s]
Told(p, s) == post' = [post EXCEPT ![p] = s]

(* The tool call.                                                          *)
Accept(c, t) ==
    /\ call[c] = "running"
    /\ GoesTo(c, "accepted")
    /\ task' = [task EXCEPT ![c] = t]
    /\ UNCHANGED <<pending, slot, postVars>>

\* An entry of the same id is evicted and its sender dropped.
Register(c) ==
    /\ call[c] = "accepted"
    /\ pending' = [pending EXCEPT ![task[c]] = c]
    /\ GoesTo(c, "waiting")
    /\ UNCHANGED <<task, slot, postVars>>

Receive(c) ==
    /\ call[c] = "waiting" /\ slot[c] # Nil
    /\ GoesTo(c, "answered")
    /\ UNCHANGED <<pending, task, slot, postVars>>

SenderLives(c) == pending[task[c]] = c \/ \E p \in Callbacks : held[p] = c

ReceiveFails(c) ==
    /\ call[c] = "waiting" /\ slot[c] = Nil /\ ~SenderLives(c)
    /\ GoesTo(c, "cancelled")
    /\ UNCHANGED <<pending, task, slot, postVars>>

\* The deadline has passed and the receiver was found empty; it is dropped after.
Elapse(c) ==
    /\ call[c] = "waiting" /\ slot[c] = Nil
    /\ GoesTo(c, "elapsed")
    /\ UNCHANGED <<pending, task, slot, postVars>>

DropReceiver(c) ==
    /\ call[c] = "elapsed"
    /\ GoesTo(c, "cancelling")
    /\ UNCHANGED <<pending, task, slot, postVars>>

\* cancel removes whatever is parked under the id.
CancelTask(c) ==
    /\ call[c] = "cancelling"
    /\ pending' = [pending EXCEPT ![task[c]] = Nil]
    /\ GoesTo(c, "timed_out")
    /\ UNCHANGED <<task, slot, postVars>>

\* The chat client goes away and the call is dropped where it waits.
Disconnect(c) ==
    /\ call[c] \in {"accepted", "waiting"}
    /\ GoesTo(c, "dropped")
    /\ UNCHANGED <<pending, task, slot, postVars>>

(* The callback.                                                           *)
TakeEntry(p, t) ==
    /\ post[p] = "unsent"
    /\ \E c \in Calls : task[c] = t
    /\ target' = [target EXCEPT ![p] = t]
    /\ held' = [held EXCEPT ![p] = pending[t]]
    /\ pending' = [pending EXCEPT ![t] = Nil]
    /\ Told(p, IF pending[t] = Nil THEN "not_found" ELSE "sending")
    /\ UNCHANGED <<callVars, slot>>

HasReceiver(c) == call[c] \in {"waiting", "elapsed"}

SendPayload(p) ==
    /\ post[p] = "sending"
    /\ LET c == held[p] IN
        IF HasReceiver(c)
        THEN slot' = [slot EXCEPT ![c] = p] /\ Told(p, "ok")
        ELSE UNCHANGED slot /\ Told(p, "waiter_dropped")
    /\ held' = [held EXCEPT ![p] = Nil]
    /\ UNCHANGED <<pending, callVars, target>>

Waiter(c) ==
    Register(c) \/ Receive(c) \/ ReceiveFails(c) \/ Elapse(c) \/ DropReceiver(c) \/ CancelTask(c)

AsyncNext ==
    \/ \E c \in Calls : Waiter(c) \/ Disconnect(c) \/ \E t \in Tasks : Accept(c, t)
    \/ \E p \in Callbacks : SendPayload(p) \/ \E t \in Tasks : TakeEntry(p, t)

-----------------------------------------------------------------------------
AsyncTypeOK ==
    /\ pending \in [Tasks -> Calls \cup {Nil}]
    /\ call \in [Calls -> {"running", "accepted", "waiting", "answered", "cancelled",
                           "elapsed", "cancelling", "timed_out", "dropped"}]
    /\ task \in [Calls -> Tasks \cup {Nil}]
    /\ slot \in [Calls -> Callbacks \cup {Nil}]
    /\ post \in [Callbacks -> {"unsent", "not_found", "sending", "ok", "waiter_dropped"}]
    /\ target \in [Callbacks -> Tasks \cup {Nil}]
    /\ held \in [Callbacks -> Calls \cup {Nil}]

\* What is parked belongs to a call that is still there or whose client went away:
\* every other way out of the wait takes its entry along (execute, cancel).
ParkedTasksBelong ==
    \A t \in Tasks : pending[t] # Nil =>
        /\ task[pending[t]] = t
        /\ call[pending[t]] \in {"waiting", "elapsed", "cancelling", "dropped"}

Reused(t) == \E c, d \in Calls : c # d /\ task[c] = t /\ task[d] = t

\* Unless its plugin reuses ids, a call that waits is where the callback looks for
\* it, or its callback is on its way (register, complete).
WaitingCallIsReachable ==
    \A c \in Calls : call[c] = "waiting" /\ slot[c] = Nil =>
        SenderLives(c) \/ Reused(task[c])

\* A plugin is told "ok" only when its payload was handed to one call that waited
\* under this id, and no other payload is: with ids of their own, no answer goes to
\* the wrong call, however late or often callbacks come (complete).
OkIsOneDelivery ==
    /\ \A p \in Callbacks : post[p] = "ok" => \E c \in Calls : slot[c] = p /\ task[c] = target[p]
    /\ \A c \in Calls : call[c] = "answered" => slot[c] # Nil /\ post[slot[c]] = "ok"

-----------------------------------------------------------------------------
(* Both.                                                                  *)

Init == CallInit /\ AsyncInit
Next == (CallNext /\ UNCHANGED asyncVars) \/ (AsyncNext /\ UNCHANGED callVars)
Spec == Init /\ [][Next]_<<callVars, asyncVars>>

TypeOK == CallTypeOK /\ AsyncTypeOK
=============================================================================
