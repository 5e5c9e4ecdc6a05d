----------------------------- MODULE WsToolBus -----------------------------
(***************************************************************************)
(* The distributed tool bus (corlinman-wstool, server.rs).  A runner dials *)
(* the gateway and advertises its tools; the gateway multiplexes tool      *)
(* calls over the socket, pings the runner and cleans up after it.         *)
(*                                                                         *)
(* A member of Conns is one WebSocket, served by three tasks: the reader   *)
(* (connection_loop), the writer that drains the outbox, and the           *)
(* heartbeat.  A member of Calls is one invoke_once; it stands for its     *)
(* request id.  The maps are DashMaps: one operation on them is atomic,    *)
(* two are not.  Frames are delivered in order and a socket may fail at    *)
(* any time, seen by the reader and the writer when they next use it.      *)
(* Progress frames, bad frames, what an outcome carries, metrics but the   *)
(* gauge, and the hook events are left out.                                *)
(***************************************************************************)
EXTENDS Integers, Sequences, FiniteSets, TLC

CONSTANTS
    Conns, Calls, Runners, Tools, None,
    Adverts,        \* the sets of tools a runner may advertise
    OutboxSize,     \* frames the mpsc channel of a connection holds
    MaxMissed       \* max_missed_pings

ASSUME BoundAssumption == OutboxSize \in Nat \ {0} /\ MaxMissed \in Nat \ {0}
ASSUME AdvertAssumption == Adverts \subseteq SUBSET Tools
ASSUME NoneAssumption == None \notin Conns \cup Runners

Ping == [kind |-> "ping"]
Invoke(i) == [kind |-> "invoke", id |-> i]
CancelFrame(i) == [kind |-> "cancel", id |-> i]
Frames == {Ping} \cup {Invoke(i) : i \in Calls} \cup {CancelFrame(i) : i \in Calls}

VARIABLES
    runners,        \* runner id -> connection
    tool_index,     \* tool -> runner id
    gauge,          \* WSTOOL_RUNNERS_CONNECTED
    runner_id,      \* what each connection was dialed with
    advert,         \* the tools each connection still has to index
    reader, writer, heartbeat,      \* where the tasks of a connection are
    outbox,
    missed, pinged, \* unanswered pings counted; a ping the runner may answer
    pending,        \* request ids with a waiter, of each connection
    call,           \* where each invoke_once is
    found, owner,   \* the runner id, then the connection its tool resolved to
    reply,          \* what its oneshot holds
    handler         \* its handler on the runner

registry == <<runners, tool_index, gauge>>
connVars == <<runner_id, advert, reader>>
pulse == <<heartbeat, missed, pinged>>
channel == <<writer, outbox>>
callVars == <<pending, call, found, owner, reply, handler>>
vars == <<registry, connVars, pulse, channel, callVars>>

Init ==
    /\ runners = [r \in Runners |-> None]
    /\ tool_index = [t \in Tools |-> None]
    /\ gauge = 0
    /\ runner_id = [c \in Conns |-> None]
    /\ advert = [c \in Conns |-> {}]
    /\ reader = [c \in Conns |-> "undialed"]
    /\ writer = [c \in Conns |-> "unborn"]
    /\ heartbeat = [c \in Conns |-> "stopped"]
    /\ outbox = [c \in Conns |-> <<>>]
    /\ missed = [c \in Conns |-> 0]
    /\ pinged = [c \in Conns |-> FALSE]
    /\ pending = [c \in Conns |-> {}]
    /\ call = [i \in Calls |-> "idle"]
    /\ found = [i \in Calls |-> None]
    /\ owner = [i \in Calls |-> None]
    /\ reply = [i \in Calls |-> "none"]
    /\ handler = [i \in Calls |-> "none"]

At(task, x, from, to) == task[x] = from /\ task' = [task EXCEPT ![x] = to]

CanSend(c) == writer[c] # "stopped" /\ Len(outbox[c]) < OutboxSize
Send(c, frame) == CanSend(c) /\ outbox' = [outbox EXCEPT ![c] = Append(@, frame)]

\* runners.remove and, if there was one, gauge.dec: whichever connection it is.  The two
\* calls are one step here: whoever gets the runner out of the map counts it off next.
RemoveRunner(r) ==
    /\ runners' = [runners EXCEPT ![r] = None]
    /\ gauge' = IF runners[r] = None THEN gauge ELSE gauge - 1

\* tool_index.retain
PurgeTools(r) ==
    tool_index' = [t \in Tools |-> IF tool_index[t] = r THEN None ELSE tool_index[t]]

-----------------------------------------------------------------------------
(* connection_loop: registration.                                          *)

\* The runner's Accept frame has arrived.
RegisterRunner(c, r, tools) ==
    /\ At(reader, c, "undialed", "indexing")
    /\ runner_id' = [runner_id EXCEPT ![c] = r]
    /\ advert' = [advert EXCEPT ![c] = tools]
    /\ runners' = [runners EXCEPT ![r] = c]
    /\ UNCHANGED <<tool_index, gauge, pulse, channel, callVars>>

\* First runner to advertise a tool wins.
IndexTool(c, t) ==
    /\ reader[c] = "indexing" /\ t \in advert[c]
    /\ tool_index' = [tool_index EXCEPT ![t] = IF @ = None THEN runner_id[c] ELSE @]
    /\ advert' = [advert EXCEPT ![c] = @ \ {t}]
    /\ UNCHANGED <<runners, gauge, runner_id, reader, pulse, channel, callVars>>

StartTasks(c) ==
    /\ advert[c] = {}
    /\ At(reader, c, "indexing", "reading")
    /\ At(writer, c, "unborn", "running")
    /\ At(heartbeat, c, "stopped", "ticking")
    /\ gauge' = gauge + 1
    /\ UNCHANGED <<runners, tool_index, runner_id, advert, missed, pinged, outbox, callVars>>

-----------------------------------------------------------------------------
(* The writer and the runner at the other end of the socket.               *)

Deliver(frame, c) ==
    CASE frame.kind = "ping" ->
            pinged' = [pinged EXCEPT ![c] = TRUE] /\ UNCHANGED handler
      [] frame.kind = "invoke" ->
            handler' = [handler EXCEPT ![frame.id] = "running"] /\ UNCHANGED pinged
      [] OTHER -> UNCHANGED <<pinged, handler>>

WriteFrame(c) ==
    /\ writer[c] = "running" /\ outbox[c] # <<>>
    /\ outbox' = [outbox EXCEPT ![c] = Tail(@)]
    /\ Deliver(Head(outbox[c]), c)
    /\ UNCHANGED <<registry, connVars, heartbeat, missed, writer, pending, call, found, owner, reply>>

\* The socket refuses a frame; the channel closes with the frames in it.
WriteFails(c) ==
    /\ outbox[c] # <<>>
    /\ At(writer, c, "running", "stopped")
    /\ outbox' = [outbox EXCEPT ![c] = <<>>]
    /\ UNCHANGED <<registry, connVars, pulse, callVars>>

-----------------------------------------------------------------------------
(* The reader: handle_runner_frame and cleanup.                            *)

HandlePong(c) ==
    /\ reader[c] = "reading" /\ pinged[c]
    /\ missed' = [missed EXCEPT ![c] = 0]
    /\ pinged' = [pinged EXCEPT ![c] = FALSE]
    /\ UNCHANGED <<registry, connVars, heartbeat, channel, callVars>>

\* A Result or an Error frame: the waiter, if there is one, is told.
HandleReply(c, i) ==
    /\ reader[c] = "reading" /\ owner[i] = c
    /\ At(handler, i, "running", "replied")
    /\ pending' = [pending EXCEPT ![c] = @ \ {i}]
    /\ reply' = IF i \in pending[c] THEN [reply EXCEPT ![i] = "answered"] ELSE reply
    /\ UNCHANGED <<registry, connVars, pulse, channel, call, found, owner>>

\* A Close frame or a read error.
SocketEnds(c) ==
    /\ At(reader, c, "reading", "draining")
    /\ UNCHANGED <<registry, runner_id, advert, pulse, channel, callVars>>

\* Mutant: the waiters are dropped from the map without being told.
DrainPending_silent(c) ==
    /\ At(reader, c, "draining", "unregistering")
    /\ pending' = [pending EXCEPT ![c] = {}]
    /\ UNCHANGED <<registry, runner_id, advert, pulse, channel, call, found, owner, reply, handler>>

\* Mutant: a call whose runner is gone is taken for one that is done.
DrainPending_answers(c) ==
    /\ At(reader, c, "draining", "unregistering")
    /\ reply' = [i \in Calls |-> IF i \in pending[c] THEN "answered" ELSE reply[i]]
    /\ pending' = [pending EXCEPT ![c] = {}]
    /\ UNCHANGED <<registry, runner_id, advert, pulse, channel, call, found, owner, handler>>

DrainPending(c) ==
    /\ At(reader, c, "draining", "unregistering")
    /\ reply' = [i \in Calls |-> IF i \in pending[c] THEN "disconnected" ELSE reply[i]]
    /\ pending' = [pending EXCEPT ![c] = {}]
    /\ UNCHANGED <<registry, runner_id, advert, pulse, channel, call, found, owner, handler>>

\* Mutant: cleanup decrements the gauge whether or not it removed the runner.
Unregister_always_counts(c) ==
    /\ At(reader, c, "unregistering", "deindexing")
    /\ runners' = [runners EXCEPT ![runner_id[c]] = None]
    /\ gauge' = IF gauge = 0 THEN 0 ELSE gauge - 1
    /\ UNCHANGED <<tool_index, runner_id, advert, pulse, channel, callVars>>

\* Mutant: cleanup leaves the index alone when the runner was gone already.
Unregister_returns_early(c) ==
    /\ reader[c] = "unregistering"
    /\ reader' = [reader EXCEPT ![c] = IF runners[runner_id[c]] = None THEN "closing"
                                                                     ELSE "deindexing"]
    /\ RemoveRunner(runner_id[c])
    /\ UNCHANGED <<tool_index, runner_id, advert, pulse, channel, callVars>>

Unregister(c) ==
    /\ At(reader, c, "unregistering", "deindexing")
    /\ RemoveRunner(runner_id[c])
    /\ UNCHANGED <<tool_index, runner_id, advert, pulse, channel, callVars>>

Deindex(c) ==
    /\ At(reader, c, "deindexing", "closing")
    /\ PurgeTools(runner_id[c])
    /\ UNCHANGED <<runners, gauge, runner_id, advert, pulse, channel, callVars>>

\* heartbeat.abort and writer.abort: a heartbeat past its last await runs on.
Close(c) ==
    /\ At(reader, c, "closing", "gone")
    /\ writer' = [writer EXCEPT ![c] = "stopped"]
    /\ outbox' = [outbox EXCEPT ![c] = <<>>]
    /\ heartbeat' = [heartbeat EXCEPT ![c] = IF @ = "ticking" THEN "stopped" ELSE @]
    /\ pinged' = [pinged EXCEPT ![c] = FALSE]
    /\ UNCHANGED <<registry, runner_id, advert, missed, callVars>>

-----------------------------------------------------------------------------
(* The heartbeat.                                                          *)

SendPing(c) ==
    /\ At(heartbeat, c, "ticking", "counting")
    /\ Send(c, Ping)
    /\ UNCHANGED <<registry, connVars, missed, pinged, writer, callVars>>

PingFails(c) ==
    /\ writer[c] = "stopped"
    /\ At(heartbeat, c, "ticking", "stopped")
    /\ UNCHANGED <<registry, connVars, missed, pinged, channel, callVars>>

\* Mutant: one ping too many.
Expires_late(misses) == misses > MaxMissed

Expires(misses) == misses >= MaxMissed

CountMiss(c) ==
    /\ heartbeat[c] = "counting"
    /\ missed' = [missed EXCEPT ![c] = @ + 1]
    /\ heartbeat' = [heartbeat EXCEPT ![c] = IF Expires(missed'[c]) THEN "expired"
                                             ELSE IF reader[c] = "gone" THEN "stopped"
                                             ELSE "ticking"]
    /\ UNCHANGED <<registry, connVars, pinged, channel, callVars>>

ExpireRunner(c) ==
    /\ At(heartbeat, c, "expired", "purging")
    /\ RemoveRunner(runner_id[c])
    /\ UNCHANGED <<tool_index, connVars, missed, pinged, channel, callVars>>

ExpireTools(c) ==
    /\ At(heartbeat, c, "purging", "stopped")
    /\ PurgeTools(runner_id[c])
    /\ UNCHANGED <<runners, gauge, connVars, missed, pinged, channel, callVars>>

-----------------------------------------------------------------------------
(* invoke_once.                                                            *)

LookupTool(i, t) ==
    /\ call[i] = "idle"
    /\ \/ /\ tool_index[t] # None
          /\ found' = [found EXCEPT ![i] = tool_index[t]]
          /\ At(call, i, "idle", "lookup")
       \/ /\ tool_index[t] = None
          /\ At(call, i, "idle", "unsent")
          /\ UNCHANGED found
    /\ UNCHANGED <<registry, connVars, pulse, channel, pending, owner, reply, handler>>

LookupRunner(i) ==
    /\ call[i] = "lookup"
    /\ \/ /\ runners[found[i]] # None
          /\ owner' = [owner EXCEPT ![i] = runners[found[i]]]
          /\ At(call, i, "lookup", "resolved")
       \/ /\ runners[found[i]] = None
          /\ At(call, i, "lookup", "unsent")
          /\ UNCHANGED owner
    /\ found' = [found EXCEPT ![i] = None]
    /\ UNCHANGED <<registry, connVars, pulse, channel, pending, reply, handler>>

InsertPending(i) ==
    /\ At(call, i, "resolved", "sending")
    /\ pending' = [pending EXCEPT ![owner[i]] = @ \cup {i}]
    /\ UNCHANGED <<registry, connVars, pulse, channel, found, owner, reply, handler>>

SendInvoke(i) ==
    /\ At(call, i, "sending", "waiting")
    /\ Send(owner[i], Invoke(i))
    /\ UNCHANGED <<registry, connVars, pulse, writer, pending, found, owner, reply, handler>>

SendFails(i) ==
    /\ At(call, i, "sending", "unsent")
    /\ writer[owner[i]] = "stopped"
    /\ pending' = [pending EXCEPT ![owner[i]] = @ \ {i}]
    /\ UNCHANGED <<registry, connVars, pulse, channel, found, owner, reply, handler>>

ReceiveReply(i) ==
    /\ reply[i] # "none"
    /\ At(call, i, "waiting", "returned")
    /\ UNCHANGED <<registry, connVars, pulse, channel, pending, found, owner, reply, handler>>

\* The arm of a cancelled or expired call, up to its Cancel frame.
GiveUp(i) ==
    /\ At(call, i, "waiting", "stopping")
    /\ pending' = [pending EXCEPT ![owner[i]] = @ \ {i}]
    /\ UNCHANGED <<registry, connVars, pulse, channel, found, owner, reply, handler>>

Cancelled(i) == GiveUp(i)

\* The timer is looked at after the oneshot.
Timeout(i) == reply[i] = "none" /\ GiveUp(i)

SendCancel(i) ==
    /\ At(call, i, "stopping", "stopped")
    /\ Send(owner[i], CancelFrame(i))
    /\ UNCHANGED <<registry, connVars, pulse, writer, pending, found, owner, reply, handler>>

\* Nobody is there to be told to stop.
CancelFails(i) ==
    /\ At(call, i, "stopping", "stopped")
    /\ writer[owner[i]] = "stopped"
    /\ UNCHANGED <<registry, connVars, pulse, channel, pending, found, owner, reply, handler>>

\* The future is dropped at an await; the map keeps its waiter.
DropCall(i) ==
    /\ \/ At(call, i, "sending", "abandoned")
       \/ \E from \in {"waiting", "stopping"} : At(call, i, from, "dropped")
    /\ UNCHANGED <<registry, connVars, pulse, channel, pending, found, owner, reply, handler>>

-----------------------------------------------------------------------------

Cleanup(c) == DrainPending(c) \/ Unregister(c) \/ Deindex(c) \/ Close(c)

ConnStep(c) ==
    \/ \E r \in Runners, tools \in Adverts : RegisterRunner(c, r, tools)
    \/ \E t \in Tools : IndexTool(c, t)
    \/ StartTasks(c)
    \/ WriteFrame(c) \/ WriteFails(c)
    \/ HandlePong(c) \/ SocketEnds(c) \/ Cleanup(c)
    \/ SendPing(c) \/ PingFails(c) \/ CountMiss(c)
    \/ ExpireRunner(c) \/ ExpireTools(c)

CallStep(i) ==
    \/ \E t \in Tools : LookupTool(i, t)
    \/ LookupRunner(i) \/ InsertPending(i) \/ SendInvoke(i) \/ SendFails(i)
    \/ \E c \in Conns : HandleReply(c, i)
    \/ ReceiveReply(i) \/ Cancelled(i) \/ Timeout(i)
    \/ SendCancel(i) \/ CancelFails(i) \/ DropCall(i)

Next ==
    \/ \E c \in Conns : ConnStep(c)
    \/ \E i \in Calls : CallStep(i)

Spec == Init /\ [][Next]_vars

-----------------------------------------------------------------------------
(* Properties.                                                             *)

ReaderSteps == {"undialed", "indexing", "reading", "draining", "unregistering",
                "deindexing", "closing", "gone"}
Replies == {"answered", "disconnected"}

TypeOK ==
    /\ runners \in [Runners -> Conns \cup {None}]
    /\ tool_index \in [Tools -> Runners \cup {None}]
    /\ gauge \in Int
    /\ runner_id \in [Conns -> Runners \cup {None}]
    /\ advert \in [Conns -> SUBSET Tools]
    /\ reader \in [Conns -> ReaderSteps]
    /\ writer \in [Conns -> {"unborn", "running", "stopped"}]
    /\ heartbeat \in [Conns -> {"stopped", "ticking", "counting", "expired", "purging"}]
    /\ outbox \in [Conns -> Seq(Frames)]
    /\ \A c \in Conns : Len(outbox[c]) <= OutboxSize
    /\ missed \in [Conns -> 0 .. MaxMissed]
    /\ pinged \in [Conns -> BOOLEAN]
    /\ pending \in [Conns -> SUBSET Calls]
    /\ call \in [Calls -> {"idle", "lookup", "resolved", "sending", "waiting", "stopping",
                           "returned", "stopped", "unsent", "abandoned", "dropped"}]
    /\ found \in [Calls -> Runners \cup {None}]
    /\ owner \in [Calls -> Conns \cup {None}]
    /\ reply \in [Calls -> {"none"} \cup Replies]
    /\ handler \in [Calls -> {"none", "running", "replied"}]

\* A connection whose cleanup has not yet passed its runners.remove.
Serving(c) == reader[c] \in {"indexing", "reading", "draining", "unregistering"}

\* However connections of one runner id overlap, a call is never handed a
\* connection whose cleanup has unregistered it (resolve_tool).
RegisteredIsServing ==
    \A r \in Runners : runners[r] # None => Serving(runners[r]) /\ runner_id[runners[r]] = r

\* Disconnected runners are purged: a tool is advertised only for a runner with
\* a connection that has not finished its cleanup (connection_loop).
IndexedHasConnection ==
    \A t \in Tools : tool_index[t] # None =>
        \E c \in Conns : /\ runner_id[c] = tool_index[t]
                         /\ Serving(c) \/ reader[c] = "deindexing"

\* What the registry says of a runner is true of its connections.
RegistryIsSound == RegisteredIsServing /\ IndexedHasConnection

DialedOnce == \A c, d \in Conns : runner_id[c] = runner_id[d] /\ runner_id[c] # None => c = d

\* As long as no runner id is dialed twice, the gauge counts the registered
\* runners: the heartbeat and the cleanup do not both take one off.
GaugeCountsRunners ==
    DialedOnce /\ (\A c \in Conns : reader[c] # "indexing") =>
        gauge = Cardinality({r \in Runners : runners[r] # None})

\* A call that has returned leaves no waiter behind, and its waiter is only
\* ever on the connection it resolved (invoke_once).
WaitersBelongToCalls ==
    \A c \in Conns, i \in Calls : i \in pending[c] =>
        owner[i] = c /\ call[i] \in {"sending", "waiting", "abandoned", "dropped"}

\* No waiter is lost: until a call has an answer, its waiter is in the map where
\* a Result, an Error and the cleanup look for it (handle_runner_frame,
\* connection_loop).
UnansweredCallsAreReachable ==
    \A i \in Calls : call[i] \in {"sending", "waiting"} /\ reply[i] = "none" =>
        i \in pending[owner[i]]

\* The waiters are those of the calls that wait: none leaks and none is lost.
WaitersMatchCalls == WaitersBelongToCalls /\ UnansweredCallsAreReachable

\* The calls whose Invoke went into an outbox, and those that end without a result
\* of the runner's.
Sent == {"waiting", "stopping", "returned", "stopped", "dropped"}
Failed == {"unsent", "stopping", "stopped", "abandoned", "dropped"}

SentCalls == {i \in Calls : call[i] \in Sent}
TakenCalls == {i \in Calls : handler[i] # "none"}
Result == [i \in Calls |->
    IF call[i] \in Failed THEN "failed"
    ELSE IF call[i] = "returned" THEN (IF reply[i] = "answered" THEN "answered" ELSE "failed")
    ELSE "none"]

Promise == INSTANCE Exchange WITH
    Requests <- Calls, sent <- SentCalls, taken <- TakenCalls, result <- Result

\* However connections come and go under it, a tool call promises its caller what
\* Exchange says: no runner executes what was not sent, and no answer comes from
\* nowhere (execute, invoke_once, handle_runner_frame).
KeepsItsPromise == Promise!Spec

-----------------------------------------------------------------------------
(* What the repository says of this code and the code does not do.         *)

\* A runner that reconnects resumes listening (runner.rs): a runner with a
\* connection that is read, and whose heartbeat has not given up, is registered.
ReconnectedRunnerServes ==
    \A c \in Conns : reader[c] = "reading" /\ heartbeat[c] \in {"ticking", "counting"} =>
        runners[runner_id[c]] # None

\* For TLC.
Interchangeable == Permutations(Conns) \cup Permutations(Runners)
=============================================================================
