----------------------------- MODULE NodeBridge -----------------------------
(***************************************************************************)
(* The bridge to mobile and desktop nodes (corlinman-nodebridge,           *)
(* server.rs).  A node dials in, registers what it can do and is sent      *)
(* jobs; the server keeps one map of sessions by node id, one index of     *)
(* capabilities and one map of waiting jobs for all of them.               *)
(*                                                                         *)
(* A member of Conns is one WebSocket, served by three tasks as on the     *)
(* tool bus: reader (connection_loop), writer and heartbeat.  A member of  *)
(* Jobs is one dispatch_job.  The maps are DashMaps, whose shards are      *)
(* read-write locks that block the thread: register_session holds its      *)
(* node's shard of sessions while it writes to the index, kind by kind;    *)
(* find_capable_node holds its kind's shard of the index, which other      *)
(* kinds may share, while it reads sessions; and the reader holds its      *)
(* node's shard while it waits for room for a Pong.  The node ids of a     *)
(* kind are a set here, and the kinds of a registration too: a lookup and  *)
(* a registration may take them in any order, of which the code's is one.  *)
(* alter_all and retain go through the index shard by shard; here they are *)
(* one step, taken when no shard is read.  What a frame carries, telemetry *)
(* and bad frames are left out.                                            *)
(***************************************************************************)
EXTENDS Integers, Sequences, TLC

CONSTANTS
    Conns, Nodes, Jobs, Kinds, None,
    Adverts,        \* the capabilities a node may register
    Shard,          \* the shard of sessions a node id falls into
    IndexShard,     \* the shard of capability_index a kind falls into
    OutboxSize, MaxMissed

ASSUME BoundAssumption == OutboxSize \in Nat \ {0} /\ MaxMissed \in Nat \ {0}
ASSUME AdvertAssumption == Adverts \subseteq SUBSET Kinds
ASSUME NoneAssumption == None \notin Conns \cup Nodes \cup Kinds

Ping == [kind |-> "ping"]
Pong == [kind |-> "pong"]
DispatchJob(j) == [kind |-> "job", id |-> j]
Frames == {Ping, Pong} \cup {DispatchJob(j) : j \in Jobs}

VARIABLES
    sessions,           \* node id -> connection
    capability_index,   \* kind -> node ids
    pending_jobs,       \* ids of the jobs with a waiter
    node_id, advert,    \* what each connection registered and still has to index
    reader, writer, heartbeat,
    outbox,
    missed,             \* ticks since the last frame
    job, kind, scan,    \* where each dispatch is, what for, the ids it has to look up
    owner,              \* the connection it found
    reply,              \* what its oneshot holds
    handler             \* the job on the node

registry == <<sessions, capability_index>>
connVars == <<node_id, advert, reader>>
pulse == <<heartbeat, missed>>
channel == <<writer, outbox>>
jobVars == <<pending_jobs, job, kind, scan, owner, reply, handler>>
vars == <<registry, connVars, pulse, channel, jobVars>>

Init ==
    /\ sessions = [n \in Nodes |-> None]
    /\ capability_index = [k \in Kinds |-> {}]
    /\ pending_jobs = {}
    /\ node_id = [c \in Conns |-> None]
    /\ advert = [c \in Conns |-> {}]
    /\ reader = [c \in Conns |-> "undialed"]
    /\ writer = [c \in Conns |-> "unborn"]
    /\ heartbeat = [c \in Conns |-> "stopped"]
    /\ outbox = [c \in Conns |-> <<>>]
    /\ missed = [c \in Conns |-> 0]
    /\ job = [j \in Jobs |-> "idle"]
    /\ kind = [j \in Jobs |-> None]
    /\ scan = [j \in Jobs |-> {}]
    /\ owner = [j \in Jobs |-> None]
    /\ reply = [j \in Jobs |-> "none"]
    /\ handler = [j \in Jobs |-> "none"]

At(task, x, from, to) == task[x] = from /\ task' = [task EXCEPT ![x] = to]

CanSend(c) == writer[c] # "closed" /\ Len(outbox[c]) < OutboxSize
Send(c, frame) == CanSend(c) /\ outbox' = [outbox EXCEPT ![c] = Append(@, frame)]

\* The shard of a node in sessions: written to by a registration, read by a
\* reader that waits to send a Pong.
Registering(n) == \E c \in Conns : reader[c] = "indexing" /\ Shard[node_id[c]] = Shard[n]
Ponging(n) == \E c \in Conns : reader[c] = "ponging" /\ Shard[node_id[c]] = Shard[n]

\* The shard of a kind in the index: read by a dispatch that looks for a node, be it
\* for another kind.
Scanned(k) == \E j \in Jobs : job[j] = "scanning" /\ IndexShard[kind[j]] = IndexShard[k]

-----------------------------------------------------------------------------
(* connection_loop: registration.                                          *)

\* register_session up to its first push, or a refusal: the id is taken, or the
\* frame is missing, malformed or unsigned against the policy.
RegisterSession(c, n, caps) ==
    /\ reader[c] = "undialed"
    /\ ~ Registering(n) /\ ~ Ponging(n)
    /\ \/ /\ sessions[n] = None
          /\ At(reader, c, "undialed", "indexing")
          /\ node_id' = [node_id EXCEPT ![c] = n]
          /\ advert' = [advert EXCEPT ![c] = caps]
       \/ /\ At(reader, c, "undialed", "gone")
          /\ UNCHANGED <<node_id, advert>>
    /\ UNCHANGED <<registry, pulse, channel, jobVars>>

IndexCapability(c, k) ==
    /\ reader[c] = "indexing" /\ k \in advert[c]
    /\ ~ Scanned(k)
    /\ capability_index' = [capability_index EXCEPT ![k] = @ \cup {node_id[c]}]
    /\ advert' = [advert EXCEPT ![c] = @ \ {k}]
    /\ UNCHANGED <<sessions, node_id, reader, pulse, channel, jobVars>>

InsertSession(c) ==
    /\ advert[c] = {}
    /\ At(reader, c, "indexing", "acking")
    /\ sessions' = [sessions EXCEPT ![node_id[c]] = c]
    /\ UNCHANGED <<capability_index, node_id, advert, pulse, channel, jobVars>>

StartTasks(c) ==
    /\ At(reader, c, "acking", "reading")
    /\ At(writer, c, "unborn", "running")
    /\ At(heartbeat, c, "stopped", "ticking")
    /\ UNCHANGED <<registry, node_id, advert, missed, outbox, jobVars>>

\* The ack does not get through: remove the session and return.
AckFails(c) ==
    /\ At(reader, c, "acking", "removing")
    /\ UNCHANGED <<registry, node_id, advert, pulse, channel, jobVars>>

-----------------------------------------------------------------------------
(* remove_session, by the reader and by the heartbeat.                     *)

\* Whichever session has the id goes; without one there is nothing to prune.
RemoveSession(task, c, from, prune, skip) ==
    LET n == node_id[c] IN
    /\ task[c] = from
    /\ ~ Registering(n) /\ ~ Ponging(n)
    /\ sessions' = [sessions EXCEPT ![n] = None]
    /\ task' = [task EXCEPT ![c] = IF sessions[n] = None THEN skip ELSE prune]

\* Mutant: the index is left to the next registration.
PruneIndex_keeps(n) == UNCHANGED capability_index

\* alter_all, then retain: an empty entry and none are the same to a lookup.
PruneIndex(n) ==
    /\ \A k \in Kinds : ~ Scanned(k)
    /\ capability_index' = [k \in Kinds |-> capability_index[k] \ {n}]

-----------------------------------------------------------------------------
(* The reader.                                                             *)

\* Where cleanup goes once the session is removed: a connection whose ack
\* failed has no tasks to end.
AfterRemoval(c) == IF writer[c] = "unborn" THEN "gone" ELSE "aborting"

\* A heartbeat, a Pong, telemetry: every frame resets the counter.
HandleFrame(c) ==
    /\ reader[c] = "reading"
    /\ missed' = [missed EXCEPT ![c] = 0]
    /\ UNCHANGED <<registry, connVars, heartbeat, channel, jobVars>>

\* A Ping: look up the session of this id, whichever connection it is now of.
HandlePing(c) ==
    /\ reader[c] = "reading" /\ ~ Registering(node_id[c])
    /\ missed' = [missed EXCEPT ![c] = 0]
    /\ reader' = [reader EXCEPT ![c] = IF sessions[node_id[c]] = None THEN @ ELSE "ponging"]
    /\ UNCHANGED <<registry, node_id, advert, heartbeat, channel, jobVars>>

SendPong(c) ==
    LET d == sessions[node_id[c]] IN
    /\ At(reader, c, "ponging", "reading")
    /\ \/ Send(d, Pong)
       \/ writer[d] = "closed" /\ UNCHANGED outbox
    /\ UNCHANGED <<registry, node_id, advert, pulse, writer, jobVars>>

\* Mutant: a result over a connection that is no longer registered is not passed on.
HandleJobResult_registered(c, j) ==
    /\ reader[c] = "reading" /\ owner[j] = c
    /\ At(handler, j, "running", "replied")
    /\ missed' = [missed EXCEPT ![c] = 0]
    /\ pending_jobs' = pending_jobs \ {j}
    /\ reply' = IF j \in pending_jobs /\ sessions[node_id[c]] = c
                THEN [reply EXCEPT ![j] = "answered"] ELSE reply
    /\ UNCHANGED <<registry, connVars, heartbeat, channel, job, kind, scan, owner>>

\* A JobResult: its waiter, if there is one, is told.
HandleJobResult(c, j) ==
    /\ reader[c] = "reading" /\ owner[j] = c
    /\ At(handler, j, "running", "replied")
    /\ missed' = [missed EXCEPT ![c] = 0]
    /\ pending_jobs' = pending_jobs \ {j}
    /\ reply' = IF j \in pending_jobs THEN [reply EXCEPT ![j] = "answered"] ELSE reply
    /\ UNCHANGED <<registry, connVars, heartbeat, channel, job, kind, scan, owner>>

\* Mutant: a heartbeat that has ended is taken to have removed the session.
SocketEnds_trusts(c) ==
    /\ At(reader, c, "reading", IF heartbeat[c] = "stopped" THEN "aborting" ELSE "removing")
    /\ UNCHANGED <<registry, node_id, advert, pulse, channel, jobVars>>

SocketEnds(c) ==
    /\ At(reader, c, "reading", "removing")
    /\ UNCHANGED <<registry, node_id, advert, pulse, channel, jobVars>>

ReaderRemoves(c) ==
    /\ RemoveSession(reader, c, "removing", "pruning", AfterRemoval(c))
    /\ UNCHANGED <<capability_index, node_id, advert, pulse, channel, jobVars>>

ReaderPrunes(c) ==
    /\ At(reader, c, "pruning", AfterRemoval(c))
    /\ PruneIndex(node_id[c])
    /\ UNCHANGED <<sessions, node_id, advert, pulse, channel, jobVars>>

\* heartbeat.abort and drop(outbox_tx); the reader's own session still has a
\* sender of the outbox.
AbortHeartbeat(c) ==
    /\ At(reader, c, "aborting", "joining")
    /\ heartbeat' = [heartbeat EXCEPT ![c] = IF @ = "ticking" THEN "stopped" ELSE @]
    /\ UNCHANGED <<registry, node_id, advert, missed, channel, jobVars>>

JoinWriter(c) ==
    /\ writer[c] = "closed"
    /\ At(reader, c, "joining", "gone")
    /\ UNCHANGED <<registry, node_id, advert, pulse, channel, jobVars>>

Cleanup(c) == ReaderRemoves(c) \/ ReaderPrunes(c) \/ AbortHeartbeat(c) \/ JoinWriter(c)

-----------------------------------------------------------------------------
(* The writer and the node.                                                *)

\* Who can still send to the outbox of c.  After drop(outbox_tx) the reader has
\* the session it registered, for as long as it runs.
HasSender(c) ==
    \/ reader[c] # "gone"
    \/ heartbeat[c] # "stopped"
    \/ \E n \in Nodes : sessions[n] = c
    \/ \E j \in Jobs : owner[j] = c /\ job[j] \in {"resolved", "sending", "waiting"}

WriteFrame(c) ==
    /\ writer[c] = "running" /\ outbox[c] # <<>>
    /\ outbox' = [outbox EXCEPT ![c] = Tail(@)]
    /\ handler' = [j \in Jobs |-> IF Head(outbox[c]) = DispatchJob(j) THEN "running" ELSE handler[j]]
    /\ UNCHANGED <<registry, connVars, pulse, writer, pending_jobs, job, kind, scan, owner, reply>>

\* The socket refuses a frame, or recv has nothing and nobody left to wait for.
WriterCloses(c) ==
    /\ ~ (outbox[c] = <<>> /\ HasSender(c))
    /\ At(writer, c, "running", "closed")
    /\ outbox' = [outbox EXCEPT ![c] = <<>>]
    /\ UNCHANGED <<registry, connVars, pulse, jobVars>>

-----------------------------------------------------------------------------
(* The heartbeat.                                                          *)

SendPing(c) ==
    /\ At(heartbeat, c, "ticking", "counting")
    /\ Send(c, Ping)
    /\ UNCHANGED <<registry, connVars, missed, writer, jobVars>>

PingFails(c) ==
    /\ writer[c] = "closed"
    /\ At(heartbeat, c, "ticking", "stopped")
    /\ UNCHANGED <<registry, connVars, missed, channel, jobVars>>

Expires(misses) == misses >= MaxMissed

\* An abort that came after the last await finds nothing more to stop.
CountMiss(c) ==
    /\ heartbeat[c] = "counting"
    /\ missed' = [missed EXCEPT ![c] = @ + 1]
    /\ heartbeat' = [heartbeat EXCEPT ![c] = IF Expires(missed'[c]) THEN "expired"
                                             ELSE IF reader[c] \in {"joining", "gone"} THEN "stopped"
                                             ELSE "ticking"]
    /\ UNCHANGED <<registry, connVars, channel, jobVars>>

HeartbeatRemoves(c) ==
    /\ RemoveSession(heartbeat, c, "expired", "purging", "stopped")
    /\ UNCHANGED <<capability_index, connVars, missed, channel, jobVars>>

HeartbeatPrunes(c) ==
    /\ At(heartbeat, c, "purging", "stopped")
    /\ PruneIndex(node_id[c])
    /\ UNCHANGED <<sessions, connVars, missed, channel, jobVars>>

-----------------------------------------------------------------------------
(* dispatch_job.                                                           *)

FindKind(j, k) ==
    /\ kind' = [kind EXCEPT ![j] = k]
    /\ scan' = [scan EXCEPT ![j] = capability_index[k]]
    /\ At(job, j, "idle", IF capability_index[k] = {} THEN "unsent" ELSE "scanning")
    /\ UNCHANGED <<registry, connVars, pulse, channel, pending_jobs, owner, reply, handler>>

\* The next node of the entry, which stays locked, if its shard can be read.
ScanNode(j, n) ==
    /\ job[j] = "scanning" /\ n \in scan[j] /\ ~ Registering(n)
    /\ \/ /\ sessions[n] # None
          /\ At(job, j, "scanning", "resolved")
          /\ owner' = [owner EXCEPT ![j] = sessions[n]]
          /\ scan' = [scan EXCEPT ![j] = {}]
       \/ /\ sessions[n] = None
          /\ At(job, j, "scanning", IF scan[j] = {n} THEN "unsent" ELSE "scanning")
          /\ scan' = [scan EXCEPT ![j] = @ \ {n}]
          /\ UNCHANGED owner
    /\ UNCHANGED <<registry, connVars, pulse, channel, pending_jobs, kind, reply, handler>>

InsertPending(j) ==
    /\ At(job, j, "resolved", "sending")
    /\ pending_jobs' = pending_jobs \cup {j}
    /\ UNCHANGED <<registry, connVars, pulse, channel, kind, scan, owner, reply, handler>>

SendJob(j) ==
    /\ At(job, j, "sending", "waiting")
    /\ Send(owner[j], DispatchJob(j))
    /\ UNCHANGED <<registry, connVars, pulse, writer, pending_jobs, kind, scan, owner, reply, handler>>

SendFails(j) ==
    /\ At(job, j, "sending", "unsent")
    /\ writer[owner[j]] = "closed"
    /\ pending_jobs' = pending_jobs \ {j}
    /\ UNCHANGED <<registry, connVars, pulse, channel, kind, scan, owner, reply, handler>>

\* Mutant: the arm of a lost sender returns as if there were a result.
ReceiveResult_lost(j) ==
    /\ At(job, j, "waiting", "answered")
    /\ reply[j] # "none" \/ writer[owner[j]] = "closed"
    /\ UNCHANGED <<registry, connVars, pulse, channel, pending_jobs, kind, scan, owner, reply, handler>>

ReceiveResult(j) ==
    /\ reply[j] # "none"
    /\ At(job, j, "waiting", "answered")
    /\ UNCHANGED <<registry, connVars, pulse, channel, pending_jobs, kind, scan, owner, reply, handler>>

\* The timer is looked at after the oneshot.
Timeout(j) ==
    /\ reply[j] = "none"
    /\ At(job, j, "waiting", "timed_out")
    /\ pending_jobs' = pending_jobs \ {j}
    /\ UNCHANGED <<registry, connVars, pulse, channel, kind, scan, owner, reply, handler>>

\* The future is dropped at an await: its waiter stays in the server's map until
\* the node answers.
DropJob(j) ==
    /\ \/ At(job, j, "sending", "abandoned")
       \/ At(job, j, "waiting", "dropped")
    /\ UNCHANGED <<registry, connVars, pulse, channel, pending_jobs, kind, scan, owner, reply, handler>>

-----------------------------------------------------------------------------

ReaderStep(c) ==
    \/ \E n \in Nodes, caps \in Adverts : RegisterSession(c, n, caps)
    \/ \E k \in Kinds : IndexCapability(c, k)
    \/ InsertSession(c) \/ StartTasks(c) \/ AckFails(c)
    \/ HandleFrame(c) \/ HandlePing(c) \/ SendPong(c)
    \/ \E j \in Jobs : HandleJobResult(c, j)
    \/ SocketEnds(c) \/ Cleanup(c)

HeartbeatStep(c) ==
    SendPing(c) \/ PingFails(c) \/ CountMiss(c) \/ HeartbeatRemoves(c) \/ HeartbeatPrunes(c)

JobStep(j) ==
    \/ \E k \in Kinds : FindKind(j, k)
    \/ \E n \in Nodes : ScanNode(j, n)
    \/ InsertPending(j) \/ SendJob(j) \/ SendFails(j)
    \/ ReceiveResult(j) \/ Timeout(j) \/ DropJob(j)

Next ==
    \/ \E c \in Conns : ReaderStep(c) \/ WriteFrame(c) \/ WriterCloses(c) \/ HeartbeatStep(c)
    \/ \E j \in Jobs : JobStep(j)

Spec == Init /\ [][Next]_vars

-----------------------------------------------------------------------------
(* Properties.                                                             *)

ReaderSteps == {"undialed", "indexing", "acking", "reading", "ponging", "removing",
                "pruning", "aborting", "joining", "gone"}

TypeOK ==
    /\ sessions \in [Nodes -> Conns \cup {None}]
    /\ capability_index \in [Kinds -> SUBSET Nodes]
    /\ pending_jobs \subseteq Jobs
    /\ node_id \in [Conns -> Nodes \cup {None}]
    /\ advert \in [Conns -> SUBSET Kinds]
    /\ reader \in [Conns -> ReaderSteps]
    /\ writer \in [Conns -> {"unborn", "running", "closed"}]
    /\ heartbeat \in [Conns -> {"stopped", "ticking", "counting", "expired", "purging"}]
    /\ outbox \in [Conns -> Seq(Frames)]
    /\ \A c \in Conns : Len(outbox[c]) <= OutboxSize
    /\ missed \in [Conns -> 0 .. MaxMissed]
    /\ job \in [Jobs -> {"idle", "scanning", "resolved", "sending", "waiting", "answered",
                         "timed_out", "unsent", "abandoned", "dropped"}]
    /\ kind \in [Jobs -> Kinds \cup {None}]
    /\ scan \in [Jobs -> SUBSET Nodes]
    /\ owner \in [Jobs -> Conns \cup {None}]
    /\ reply \in [Jobs -> {"none", "answered"}]
    /\ handler \in [Jobs -> {"none", "running", "replied"}]

\* However connections of one node overlap, a dispatch is never handed a session
\* whose own connection has removed it (remove_session), and at most one
\* connection serves an id at the time it registers.
RegisteredIsServing ==
    \A n \in Nodes : sessions[n] # None =>
        /\ node_id[sessions[n]] = n
        /\ reader[sessions[n]] \in {"acking", "reading", "ponging", "removing"}

Pruning(n) == \E c \in Conns : node_id[c] = n /\ (reader[c] = "pruning" \/ heartbeat[c] = "purging")

\* A node is offered for a kind only while it is registered, is about to be and
\* has just been indexed, or is about to be pruned: no disconnected node stays in
\* the index.
IndexedIsKnown ==
    \A k \in Kinds : \A n \in capability_index[k] :
        \/ sessions[n] # None
        \/ \E c \in Conns : reader[c] = "indexing" /\ node_id[c] = n /\ k \notin advert[c]
        \/ Pruning(n)

\* What the registry says of a node is true of its connections, and every
\* location keeps to its domain.
RegistryIsSound == TypeOK /\ RegisteredIsServing /\ IndexedIsKnown

\* A dispatch and a registration each hold a lock the other has to wait for.
Deadlocked(j, c) ==
    /\ job[j] = "scanning" /\ reader[c] = "indexing"
    /\ \E n \in scan[j] : Shard[node_id[c]] = Shard[n]
    /\ \E k \in advert[c] : IndexShard[kind[j]] = IndexShard[k]

\* One dispatch and one registration lock each other out only in a collision: another
\* node of the entry shares the registering node's shard of sessions; another kind
\* that is still to be indexed shares the entry's shard of the index; or the node
\* registers again before its old session is out of the index (find_capable_node and
\* register_session take the two maps in opposite orders).
LocksMeetOnlyInCollisions ==
    \A j \in Jobs, c \in Conns : Deadlocked(j, c) =>
        \/ \E n \in scan[j] : n # node_id[c] /\ Shard[node_id[c]] = Shard[n]
        \/ \E k \in advert[c] : k # kind[j] /\ IndexShard[kind[j]] = IndexShard[k]
        \/ Pruning(node_id[c])

\* A waiter in the map belongs to a dispatch that can still be answered, or to
\* one that was dropped: every return takes it out.
WaitersBelongToJobs ==
    \A j \in pending_jobs : job[j] \in {"sending", "waiting", "abandoned", "dropped"}

\* Until a dispatch has its result, its waiter is where a JobResult looks for it,
\* whichever connection the node answers over.
UnansweredJobsAreReachable ==
    \A j \in Jobs : job[j] \in {"sending", "waiting"} /\ reply[j] = "none" => j \in pending_jobs

\* The waiters are those of the jobs that wait: none leaks and none is lost.
WaitersMatchJobs == WaitersBelongToJobs /\ UnansweredJobsAreReachable

SentJobs == {j \in Jobs : job[j] \in {"waiting", "answered", "timed_out", "dropped"}}
TakenJobs == {j \in Jobs : handler[j] # "none"}
Result == [j \in Jobs |->
    IF job[j] = "answered" THEN "answered"
    ELSE IF job[j] \in {"timed_out", "unsent", "abandoned", "dropped"} THEN "failed"
    ELSE "none"]

Promise == INSTANCE Exchange WITH
    Requests <- Jobs, sent <- SentJobs, taken <- TakenJobs, result <- Result

\* A dispatch promises its caller what Exchange says: no node executes what was
\* not sent, and no result comes from nowhere (dispatch_job, handle_client_frame).
KeepsItsPromise == Promise!Spec

-----------------------------------------------------------------------------
(* What the repository says of this code and the code does not do.         *)

\* The tasks run when they can, and the socket takes frames.
FairSpec ==
    /\ Spec
    /\ \A c \in Conns :
        /\ WF_vars(Cleanup(c))
        /\ WF_vars(WriteFrame(c)) /\ WF_vars(outbox[c] = <<>> /\ WriterCloses(c))
        /\ WF_vars(CountMiss(c) \/ HeartbeatRemoves(c) \/ HeartbeatPrunes(c))
    /\ \A j \in Jobs : WF_vars((\E n \in Nodes : ScanNode(j, n)) \/ InsertPending(j) \/ SendJob(j) \/ SendFails(j)
                             \/ ReceiveResult(j) \/ Timeout(j))

\* "Dropping outbox_tx causes writer to exit once its rx drains": a connection
\* that joins its writer ends.
WriterExits == \A c \in Conns : reader[c] = "joining" ~> writer[c] = "closed"

\* For TLC: no two nodes share a shard of sessions, the kinds share one of the index.
Interchangeable == Permutations(Conns) \cup Permutations(Nodes) \cup Permutations(Kinds)
OwnShard == [n \in Nodes |-> n]
OneShard == [k \in Kinds |-> "index"]
=============================================================================
